------------------------- MODULE ApplicationProofs -------------------------
(***************************************************************************)
(* Theorems about Application: for every set of networks, passwords and    *)
(* transports, number of blocks of an image and of packets under way.      *)
(***************************************************************************)
EXTENDS Application, TLAPS

(* MQTT: what may be where on the connection.  An announced departure is   *)
(* followed by the DISCONNECT and nothing else; what the rover publishes   *)
(* stands behind the "online" of its session, or the broker has taken that.*)
Departs ==
  \A i \in 1..Len(wire) :
    /\ wire[i] = "offline" => i + 1 = Len(wire) /\ wire[i + 1] = "disconnect"
    /\ wire[i] = "disconnect" =>
         /\ i = Len(wire) /\ ~connected
         /\ IF i = 1 THEN broker.status = "offline" ELSE wire[i - 1] = "offline"

Announced ==
  \A i \in 1..Len(wire) :
    /\ wire[i] = "online" => i = 1
    /\ wire[i] \in {"telemetry", "response"} =>
         broker.status = "online" \/ wire[1] = "online"

MqttInv ==
  /\ MqttTypeOK
  /\ broker.alive => broker.session
  /\ ~broker.alive => wire = <<>>
  /\ ~broker.session => broker.status # "online" /\ ~broker.subscribed
  /\ connected /\ broker.alive =>
       broker.status = "online" \/ (wire # <<>> /\ wire[1] = "online")
  /\ Departs /\ Announced

(* Uploads: what Update holds of the file that is being received, and what *)
(* stands against it.                                                      *)
Against ==
  ~answered.good \/ ~answered.flashed \/ answered.begun \in {"running", "no partition"}

Receiving ==
  upload.at = "receiving" =>
    /\ answered.code = "none" /\ answered.good = upload.good
    /\ Update.running => Update.own = upload.sent /\ (Update.stale => answered.begun = "running")
    /\ ~Update.running => IF Update.error THEN Against ELSE answered.begun = "no memory"

Finished ==
  /\ upload.at = "finish" =>
       /\ answered.code = "none"
       /\ Update.error => boots = "old" /\ Against
       /\ ~Update.error /\ upload.sent > 0 /\ answered.begun # "no memory" =>
            boots = "new" /\ answered.good
  /\ upload.at = "restart" /\ upload.sent > 0 /\ answered.begun # "no memory" =>
       boots = "new" /\ answered.good

OtaInv ==
  /\ OtaTypeOK
  /\ Update.running => ~Update.error
  /\ upload.at \in {"none", "receiving"} => boots = "old"
  /\ answered.code = "500" => upload.at = "none" /\ Against
  /\ Receiving /\ Finished

(* Wi-Fi: a pair is complete if the rover would try to join with it.       *)
Complete(pair) == pair[1] # "" /\ pair[2] # ""

WifiInv ==
  /\ WifiTypeOK
  /\ Complete(Stored(file)) => Joins(Stored(file)) /\ told # "forgotten"
  /\ sta.up => Joins(sta.pair)
  /\ job.do = "join" => sta.pair = job.pair
  /\ job.do = "save" => Joins(job.pair) /\ told = "connected"
  /\ mode = "station" => config.mounted
  /\ mode = "off" => job = NoJob /\ config = Unread

-----------------------------------------------------------------------------
(* Uploads.                                                                *)

(* The records of which Update, upload and answered are made.              *)
LEMMA OtaRecords ==
  /\ Stopped \in Updates /\ NoUpload \in Uploads /\ NoAnswer \in Replies
  /\ \A e \in BOOLEAN : [Stopped EXCEPT !.error = e] \in Updates
<1>1. 0 \in 0..Chunks
  BY OtaAssumption
<1>2. Stopped \in Updates
  BY <1>1 DEF Updates, Stopped
<1>3. NoUpload \in Uploads
  BY <1>1 DEF Uploads, NoUpload
<1>4. NoAnswer \in Replies
  BY DEF Replies, NoAnswer, Beginnings
<1>5. \A e \in BOOLEAN : [Stopped EXCEPT !.error = e] \in Updates
  BY <1>2 DEF Updates
<1> QED
  BY <1>2, <1>3, <1>4, <1>5

(* At start-up.                                                            *)
LEMMA OtaStarts == ASSUME OtaInit PROVE OtaInv
BY OtaRecords DEF OtaInit, OtaInv, OtaTypeOK, Receiving, Finished, Stopped, NoUpload,
   NoAnswer

(* After a restart nothing of an upload is left.                           *)
LEMMA OtaRestarts == ASSUME OtaOff PROVE OtaInv'
BY OtaRecords DEF OtaOff, OtaInv, OtaTypeOK, Receiving, Finished, Stopped, NoUpload,
   NoAnswer

(* What leaves the uploads alone.                                          *)
LEMMA OtaStutters == ASSUME OtaInv, UNCHANGED otaVars PROVE OtaInv'
BY DEF otaVars, OtaInv, OtaTypeOK, Receiving, Finished, Against

(* A block reaches the flash, or the update stops for want of it.          *)
LEMMA WriteKeeps == ASSUME OtaInv, UploadWrite PROVE OtaInv'
<1> USE OtaAssumption DEF UploadWrite, OtaInv, OtaTypeOK
<1>1. upload' \in Uploads /\ upload'.at = "receiving" /\ upload'.sent = upload.sent + 1
      /\ upload'.good = upload.good /\ boots' = boots /\ upload'.sent \in 0..Chunks
  BY DEF Uploads
<1>2. CASE Update.running /\ Update' = [Update EXCEPT !.own = @ + 1] /\ UNCHANGED answered
  <2>1. Update.own = upload.sent
    BY <1>2 DEF Receiving
  <2>2. Update' \in Updates /\ Update'.own = upload'.sent /\ Update'.running
        /\ Update'.stale = Update.stale /\ Update'.error = Update.error
    BY <1>1, <1>2, <2>1 DEF Updates
  <2> QED
    BY <1>1, <1>2, <2>2 DEF Receiving, Finished
<1>3. CASE Update.running /\ Update' = [Stopped EXCEPT !.error = TRUE]
           /\ answered' = [answered EXCEPT !.flashed = FALSE]
  <2>1. Update' \in Updates /\ ~Update'.running /\ Update'.error
    BY <1>3, OtaRecords DEF Stopped
  <2>2. answered' \in Replies /\ ~answered'.flashed /\ answered'.code = answered.code
        /\ answered'.good = answered.good
    BY <1>3 DEF Replies
  <2> QED
    BY <1>1, <2>1, <2>2 DEF Receiving, Finished, Against
<1>4. CASE ~Update.running /\ UNCHANGED <<Update, answered>>
  BY <1>1, <1>4 DEF Receiving, Finished, Against
<1> QED
  BY <1>2, <1>3, <1>4 DEF UpdateWrite

(* The end: one whole image, or an error with its reason.                  *)
LEMMA EndKeeps == ASSUME OtaInv, UploadEnd PROVE OtaInv'
<1> USE DEF UploadEnd, OtaInv, OtaTypeOK
<1>1. upload'.at = "finish" /\ upload'.sent = upload.sent /\ upload' \in Uploads
  BY DEF Uploads
<1>2. answered.code = "none" /\ answered.good = upload.good /\ boots = "old"
  BY DEF Receiving
<1>3. CASE Update.running
  <2> DEFINE image == Update.own = Chunks /\ ~Update.stale /\ upload.good
  <2>1. Update' = [Stopped EXCEPT !.error = ~image]
        /\ boots' = IF image THEN "new" ELSE boots
    BY <1>3 DEF UpdateEnd
  <2>2. Update.own = Chunks /\ (Update.stale => answered.begun = "running")
    BY <1>3 DEF Receiving
  <2>3. image \/ Against'
    BY <1>2, <2>2 DEF Against
  <2>4. image => answered'.good
    BY <1>2
  <2>5. image \in BOOLEAN
    BY DEF Updates, Uploads
  <2> HIDE DEF image
  <2>6. Update' \in Updates /\ ~Update'.running /\ Update'.error = ~image
    BY <2>1, <2>5, OtaRecords DEF Stopped
  <2> QED
    BY <1>1, <1>2, <2>1, <2>3, <2>4, <2>6 DEF Receiving, Finished
<1>4. CASE ~Update.running
  BY <1>1, <1>2, <1>4 DEF UpdateEnd, Receiving, Finished, Against
<1> QED
  BY <1>3, <1>4

(* Every step of an upload, and ArduinoOTA, keep what is said of them.     *)
LEMMA UploadKeeps ==
  ASSUME OtaInv, UploadStart \/ PostWithoutFile \/ handleEspota \/ UploadStep
  PROVE  OtaInv'
<1> USE OtaRecords DEF OtaInv, OtaTypeOK
<1>1. CASE UploadStart
  <2>1. PICK good \in BOOLEAN, begun \in Beginnings :
          /\ upload' = [at |-> "receiving", sent |-> 0, good |-> good]
          /\ answered' = [NoAnswer EXCEPT !.good = good, !.begun = begun]
          /\ UpdateBegin(begun)
    BY <1>1 DEF UploadStart
  <2>2. upload' \in Uploads
    BY <2>1, OtaAssumption DEF Uploads
  <2>3. answered' \in Replies /\ answered'.code = "none" /\ answered'.good = good
        /\ answered'.begun = begun
    BY <2>1 DEF NoAnswer, Replies
  <2>4. CASE Update.running
    <3>1. Update' = [Update EXCEPT !.own = 0, !.stale = @ \/ Update.own > 0]
          /\ begun = "running"
      BY <2>1, <2>4 DEF UpdateBegin
    <3>2. 0 \in 0..Chunks /\ (Update.own > 0) \in BOOLEAN
      BY OtaAssumption
    <3>3. Update' \in Updates /\ Update'.own = 0 /\ Update'.running /\ ~Update'.error
      BY <2>4, <3>1, <3>2 DEF Updates
    <3> QED
      BY <1>1, <2>1, <2>2, <2>3, <3>1, <3>3 DEF UploadStart, Receiving, Finished
  <2>5. CASE ~Update.running
    <3>1. Update' = [Stopped EXCEPT !.running = begun = "afresh", !.error = begun = "no partition"]
          /\ begun # "running"
      BY <2>1, <2>5 DEF UpdateBegin
    <3>2. Update' \in Updates
      BY <3>1, OtaAssumption DEF Stopped, Updates
    <3>3. Update'.own = 0 /\ ~Update'.stale /\ (Update'.running <=> begun = "afresh")
          /\ (Update'.error <=> begun = "no partition")
      BY <3>1 DEF Stopped
    <3>4. ~Update'.running => IF Update'.error THEN Against' ELSE answered'.begun = "no memory"
      BY <2>3, <3>1, <3>3 DEF Beginnings, Against
    <3> QED
      BY <1>1, <2>1, <2>2, <2>3, <3>2, <3>3, <3>4 DEF UploadStart, Receiving, Finished
  <2> QED
    BY <2>4, <2>5
<1>2. CASE PostWithoutFile
  <2>1. 0 \in 0..Chunks
    BY OtaAssumption
  <2>2. upload' \in Uploads /\ upload'.at = "finish" /\ upload'.sent = 0
    BY <1>2, <2>1 DEF PostWithoutFile, Uploads
  <2>3. answered' \in Replies /\ answered'.code = "none" /\ ~answered'.good
    BY <1>2 DEF PostWithoutFile, Replies, NoAnswer
  <2>4. boots' = "old" /\ Update' = Update
    BY <1>2 DEF PostWithoutFile
  <2>5. ~(upload'.sent > 0)
    BY <2>2
  <2>6. Against'
    BY <2>3 DEF Against
  <2>7. Receiving' /\ Finished'
    BY <2>2, <2>3, <2>4, <2>5, <2>6 DEF Receiving, Finished
  <2> QED
    BY <2>2, <2>3, <2>4, <2>7
<1>3. CASE handleEspota
  <2>1. Update' \in Updates /\ ~Update'.running
    <3>1. Update' = Stopped \/ \E e \in BOOLEAN : Update' = [Stopped EXCEPT !.error = e]
      BY <1>3 DEF handleEspota
    <3>2. CASE Update' = Stopped
      BY <3>2, OtaRecords DEF Stopped
    <3>3. CASE \E e \in BOOLEAN : Update' = [Stopped EXCEPT !.error = e]
      <4>1. PICK e \in BOOLEAN : Update' = [Stopped EXCEPT !.error = e]
        BY <3>3
      <4>2. Update' \in Updates
        BY <4>1, OtaRecords
      <4> QED
        BY <4>1, <4>2 DEF Stopped
    <3> QED
      BY <3>1, <3>2, <3>3
  <2>2. answered' \in Replies /\ answered'.code = "none"
    BY <1>3 DEF handleEspota, NoAnswer
  <2>3. CASE boots' = "new" /\ upload' = [NoUpload EXCEPT !.at = "restart"]
    <3>1. upload' \in Uploads /\ upload'.at = "restart"
      BY <2>3, OtaAssumption DEF NoUpload, Uploads
    <3>2. ~(upload'.sent > 0)
      <4>1. upload'.sent = 0
        BY <2>3 DEF NoUpload
      <4> QED
        BY <4>1
    <3>3. Receiving' /\ Finished'
      BY <3>1, <3>2 DEF Receiving, Finished
    <3> QED
      BY <2>1, <2>2, <2>3, <3>1, <3>3
  <2>4. CASE UNCHANGED <<boots, upload>>
    BY <1>3, <2>1, <2>2, <2>4 DEF handleEspota, Receiving, Finished
  <2> QED
    BY <1>3, <2>3, <2>4 DEF handleEspota
<1>4. CASE UploadWrite
  BY <1>4, WriteKeeps
<1>5. CASE UploadEnd
  BY <1>5, EndKeeps
<1>6. CASE UploadAborted
  BY <1>6 DEF UploadAborted, NoUpload, Receiving, Finished
<1>7. CASE handleOtaUploadFinish
  <2>1. upload' \in Uploads
    BY <1>7 DEF handleOtaUploadFinish, Uploads
  <2>2. answered' \in Replies
    BY <1>7 DEF handleOtaUploadFinish, Replies
  <2> QED
    BY <1>7, <2>1, <2>2 DEF handleOtaUploadFinish, NoUpload, Replies, Uploads, Receiving,
       Finished, Against
<1> QED
  BY <1>1, <1>2, <1>3, <1>4, <1>5, <1>6, <1>7 DEF UploadStep

-----------------------------------------------------------------------------
(* MQTT.                                                                   *)

(* At start-up.                                                            *)
LEMMA MqttStarts == ASSUME MqttInit PROVE MqttInv
<1>1. NoSession \in Brokers
  BY DEF NoSession, Brokers
<1>2. wire = <<>> /\ wire \in Seq(Packets) /\ Len(wire) = 0
  BY DEF MqttInit
<1>3. MqttTypeOK
  BY <1>1, <1>2 DEF MqttInit, MqttTypeOK
<1>4. ~broker.session /\ ~broker.alive /\ ~broker.subscribed /\ broker.status = "none"
  BY DEF MqttInit, NoSession
<1>5. Departs /\ Announced
  BY <1>2 DEF Departs, Announced
<1> QED
  BY <1>2, <1>3, <1>4, <1>5 DEF MqttInit, MqttInv

(* The network goes, or the power: nothing is under way any more.          *)
LEMMA MqttEnds == ASSUME MqttInv, MqttOff \/ NetGoes PROVE MqttInv'
<1>1. wire' = <<>> /\ broker' = [broker EXCEPT !.alive = FALSE] /\ net' \in BOOLEAN
      /\ enabled' \in BOOLEAN /\ connected' \in BOOLEAN
  BY DEF MqttInv, MqttTypeOK, MqttOff, NetGoes, Cut
<1>2. broker' \in Brokers /\ ~broker'.alive /\ broker'.session = broker.session
      /\ broker'.status = broker.status /\ broker'.subscribed = broker.subscribed
  BY <1>1 DEF MqttInv, MqttTypeOK, Brokers
<1>3. wire' \in Seq(Packets) /\ Len(wire') = 0
  BY <1>1
<1> QED
  BY <1>1, <1>2, <1>3 DEF MqttInv, MqttTypeOK, Departs, Announced

(* What leaves MQTT alone.                                                 *)
LEMMA MqttStutters == ASSUME MqttInv, UNCHANGED mqttVars PROVE MqttInv'
BY DEF mqttVars, MqttInv, MqttTypeOK, Departs, Announced

(* While it is connected nothing on the wire announces a departure, so a   *)
(* packet of its own can follow what is there.                             *)
LEMMA NotDeparting ==
  ASSUME MqttInv, connected, NEW i \in 1..Len(wire)
  PROVE  wire[i] \notin {"offline", "disconnect"}
<1> USE DEF MqttInv, MqttTypeOK
<1>1. wire[i] # "disconnect"
  BY DEF Departs
<1>2. wire[i] # "offline"
  <2> SUFFICES ASSUME wire[i] = "offline" PROVE FALSE
    OBVIOUS
  <2>1. i + 1 = Len(wire) /\ wire[i + 1] = "disconnect"
    BY DEF Departs
  <2>2. i + 1 \in 1..Len(wire)
    BY <2>1
  <2> QED
    BY <2>1, <2>2 DEF Departs
<1> QED
  BY <1>1, <1>2

(* A packet of the connected client goes behind its "online".              *)
LEMMA PublishKeeps ==
  ASSUME MqttInv, connected, NEW p \in {"telemetry", "response"}, Send(<<p>>),
         UNCHANGED <<net, enabled, connected, broker>>
  PROVE  MqttInv'
<1> USE DEF MqttInv, MqttTypeOK
<1>1. CASE ~broker.alive
  BY <1>1, MqttStutters DEF Send, mqttVars
<1>2. CASE broker.alive
  <2>1. wire' = wire \o <<p>> /\ wire' \in Seq(Packets) /\ Len(wire') = Len(wire) + 1
    BY <1>2 DEF Send, Packets
  <2>2. wire'[Len(wire) + 1] = p
    BY <2>1
  <2>3. \A i \in 1..Len(wire) : wire'[i] = wire[i]
    BY <2>1
  <2>4. \A i \in 1..Len(wire') : wire'[i] \notin {"offline", "disconnect"}
    BY <2>1, <2>2, <2>3, NotDeparting
  <2>5. broker.status = "online" \/ (wire' # <<>> /\ wire'[1] = "online")
    BY <1>2, <2>1, <2>3
  <2>6. Announced'
    <3> SUFFICES ASSUME NEW i \in 1..Len(wire')
                 PROVE  /\ wire'[i] = "online" => i = 1
                        /\ wire'[i] \in {"telemetry", "response"} =>
                             broker.status = "online" \/ wire'[1] = "online"
      BY DEF Announced
    <3>1. i \in 1..Len(wire) \/ i = Len(wire) + 1
      BY <2>1
    <3> QED
      BY <2>2, <2>3, <2>5, <3>1 DEF Announced
  <2> QED
    BY <1>2, <2>1, <2>4, <2>5, <2>6 DEF Departs
<1> QED
  BY <1>1, <1>2

(* stop(): a departure is announced behind everything else.                *)
LEMMA StopKeeps == ASSUME MqttInv, MqttStop PROVE MqttInv'
<1> USE DEF MqttInv, MqttTypeOK, MqttStop
<1>1. CASE ~connected \/ ~broker.alive
  BY <1>1 DEF Send, Departs, Announced
<1>2. CASE connected /\ broker.alive
  <2>1. wire' = wire \o <<"offline", "disconnect">> /\ wire' \in Seq(Packets)
        /\ Len(wire') = Len(wire) + 2 /\ broker' = broker /\ ~connected'
    BY <1>2 DEF Send, Packets
  <2>2. wire'[Len(wire) + 1] = "offline" /\ wire'[Len(wire) + 2] = "disconnect"
    BY <2>1
  <2>3. \A i \in 1..Len(wire) : wire'[i] = wire[i]
    BY <2>1
  <2>4. \A i \in 1..Len(wire') : i \in 1..Len(wire) \/ i = Len(wire) + 1 \/ i = Len(wire) + 2
    BY <2>1
  <2>5. Departs'
    <3> SUFFICES ASSUME NEW i \in 1..Len(wire')
                 PROVE  /\ wire'[i] = "offline" =>
                             i + 1 = Len(wire') /\ wire'[i + 1] = "disconnect"
                        /\ wire'[i] = "disconnect" =>
                             i = Len(wire') /\ i # 1 /\ wire'[i - 1] = "offline"
      BY <2>1 DEF Departs
    <3>1. CASE i \in 1..Len(wire)
      BY <1>2, <2>3, <3>1, NotDeparting
    <3>2. CASE i = Len(wire) + 1
      BY <2>1, <2>2, <3>2
    <3>3. CASE i = Len(wire) + 2
      BY <2>1, <2>2, <3>3
    <3> QED
      BY <2>4, <3>1, <3>2, <3>3
  <2>6. Announced'
    <3> SUFFICES ASSUME NEW i \in 1..Len(wire')
                 PROVE  /\ wire'[i] = "online" => i = 1
                        /\ wire'[i] \in {"telemetry", "response"} =>
                             broker.status = "online" \/ wire'[1] = "online"
      BY <2>1 DEF Announced
    <3>1. CASE i \in 1..Len(wire)
      <4>1. 1 \in 1..Len(wire)
        BY <3>1
      <4> QED
        BY <2>3, <3>1, <4>1 DEF Announced
    <3>2. CASE i \notin 1..Len(wire)
      BY <2>2, <2>4, <3>2
    <3> QED
      BY <3>1, <3>2
  <2> QED
    BY <1>2, <2>1, <2>5, <2>6
<1> QED
  BY <1>1, <1>2

(* A new connection starts with the "online".                              *)
LEMMA ConnectKeeps == ASSUME MqttInv, MqttConnect PROVE MqttInv'
<1> USE DEF MqttInv, MqttTypeOK, MqttConnect
<1>1. PICK answer \in BOOLEAN :
        /\ connected' = answer /\ net' = answer
        /\ wire' = IF answer THEN <<"online", "subscribe">> ELSE <<>>
        /\ broker' = [session |-> TRUE, alive |-> answer, subscribed |-> FALSE,
                      status |-> IF broker.session THEN "offline" ELSE broker.status]
  OBVIOUS
<1>2. broker' \in Brokers /\ broker'.session /\ broker'.alive = answer
  BY <1>1 DEF Brokers
<1>3. wire' \in Seq(Packets) /\ net' \in BOOLEAN /\ enabled' \in BOOLEAN
      /\ connected' \in BOOLEAN
  <2>1. wire' = <<"online", "subscribe">> \/ wire' = <<>>
    BY <1>1
  <2>2. wire' \in Seq(Packets)
    BY <2>1 DEF Packets
  <2> QED
    BY <1>1, <2>2
<1>4. CASE answer
  <2>1. wire' = <<"online", "subscribe">> /\ Len(wire') = 2
        /\ \A i \in 1..Len(wire') : i = 1 \/ i = 2
    BY <1>1, <1>4
  <2> QED
    BY <1>1, <1>2, <1>4, <1>3, <2>1 DEF Departs, Announced
<1>5. CASE ~answer
  BY <1>1, <1>2, <1>5, <1>3 DEF Departs, Announced
<1> QED
  BY <1>4, <1>5

(* The broker takes a packet, and what is behind it moves up.              *)
LEMMA BrokerKeeps == ASSUME MqttInv, BrokerReceives PROVE MqttInv'
<1>1. wire' \in Seq(Packets) /\ Len(wire') = Len(wire) - 1 /\ 1 \in 1..Len(wire)
      /\ (\A i \in 1..Len(wire') : i + 1 \in 1..Len(wire) /\ wire'[i] = wire[i + 1])
      /\ UNCHANGED <<net, enabled, connected>>
  BY DEF MqttInv, MqttTypeOK, BrokerReceives
<1>2. Head(wire) = wire[1] /\ wire[1] \in Packets /\ broker \in Brokers /\ broker.alive
      /\ broker.session
  BY <1>1 DEF MqttInv, MqttTypeOK, BrokerReceives
<1>3. /\ broker' \in Brokers
      /\ broker'.status = IF wire[1] \in {"online", "offline"} THEN wire[1]
                          ELSE broker.status
      /\ wire[1] # "disconnect" => broker'.session /\ broker'.alive
      /\ wire[1] = "disconnect" => ~broker'.session /\ ~broker'.alive /\ ~broker'.subscribed
  <2>1. CASE wire[1] \in {"online", "offline"}
    <3>1. broker' = [broker EXCEPT !.status = wire[1]]
      BY <1>2, <2>1 DEF BrokerReceives
    <3> QED
      BY <1>2, <2>1, <3>1 DEF Brokers
  <2>2. CASE wire[1] = "subscribe"
    <3>1. broker' = [broker EXCEPT !.subscribed = TRUE]
      BY <1>2, <2>2 DEF BrokerReceives
    <3> QED
      BY <1>2, <2>2, <3>1 DEF Brokers
  <2>3. CASE wire[1] = "disconnect"
    <3>1. broker' = [NoSession EXCEPT !.status = broker.status]
      BY <1>2, <2>3 DEF BrokerReceives
    <3> QED
      BY <1>2, <2>3, <3>1 DEF NoSession, Brokers
  <2>4. CASE wire[1] \in {"telemetry", "response"}
    <3>1. broker' = broker
      BY <1>2, <2>4 DEF BrokerReceives
    <3> QED
      BY <1>2, <2>4, <3>1
  <2> QED
    BY <1>2, <2>1, <2>2, <2>3, <2>4 DEF Packets
<1> USE DEF MqttInv, MqttTypeOK
<1>4. wire[1] = "disconnect" => wire' = <<>> /\ broker.status = "offline"
  <2> SUFFICES ASSUME wire[1] = "disconnect"
               PROVE  wire' = <<>> /\ broker.status = "offline"
    OBVIOUS
  <2>1. Len(wire) = 1 /\ broker.status = "offline"
    BY <1>1 DEF Departs
  <2>2. Len(wire') = 0
    BY <1>1, <2>1
  <2> QED
    BY <1>1, <2>1, <2>2
<1>5. Departs'
  <2> SUFFICES ASSUME NEW i \in 1..Len(wire')
               PROVE  /\ wire'[i] = "offline" =>
                           i + 1 = Len(wire') /\ wire'[i + 1] = "disconnect"
                      /\ wire'[i] = "disconnect" =>
                           /\ i = Len(wire') /\ ~connected
                           /\ IF i = 1 THEN broker'.status = "offline"
                              ELSE wire'[i - 1] = "offline"
    BY <1>1 DEF Departs
  <2>1. wire'[i] = wire[i + 1] /\ i + 1 \in 1..Len(wire)
    BY <1>1
  <2>2. wire'[i] = "offline" => i + 1 = Len(wire') /\ wire'[i + 1] = "disconnect"
    <3> SUFFICES ASSUME wire[i + 1] = "offline"
                 PROVE  i + 1 = Len(wire') /\ wire'[i + 1] = "disconnect"
      BY <2>1
    <3>1. (i + 1) + 1 = Len(wire) /\ wire[(i + 1) + 1] = "disconnect"
      BY <2>1 DEF Departs
    <3>2. i + 1 \in 1..Len(wire')
      BY <1>1, <3>1
    <3> QED
      BY <1>1, <3>1, <3>2
  <2>3. wire'[i] = "disconnect" =>
          /\ i = Len(wire') /\ ~connected
          /\ IF i = 1 THEN broker'.status = "offline" ELSE wire'[i - 1] = "offline"
    <3> SUFFICES ASSUME wire[i + 1] = "disconnect"
                 PROVE  /\ i = Len(wire') /\ ~connected
                        /\ IF i = 1 THEN broker'.status = "offline"
                           ELSE wire'[i - 1] = "offline"
      BY <2>1
    <3>1. i + 1 = Len(wire) /\ ~connected /\ wire[(i + 1) - 1] = "offline"
      BY <2>1 DEF Departs
    <3>2. wire[i] = "offline"
      BY <3>1
    <3>3. CASE i = 1
      BY <1>1, <1>3, <3>1, <3>2, <3>3
    <3>4. CASE i # 1
      <4>1. i - 1 \in 1..Len(wire') /\ (i - 1) + 1 = i
        BY <3>4
      <4> QED
        BY <1>1, <3>1, <3>2, <3>4, <4>1
    <3> QED
      BY <3>3, <3>4
  <2> QED
    BY <2>2, <2>3
<1>6. Announced'
  <2> SUFFICES ASSUME NEW i \in 1..Len(wire')
               PROVE  /\ wire'[i] # "online"
                      /\ wire'[i] \in {"telemetry", "response"} => broker'.status = "online"
    BY DEF Announced
  <2>1. wire'[i] = wire[i + 1] /\ i + 1 \in 1..Len(wire) /\ i + 1 # 1
    BY <1>1
  <2>2. wire'[i] # "online"
    BY <2>1 DEF Announced
  <2>3. ASSUME wire'[i] \in {"telemetry", "response"} PROVE broker'.status = "online"
    <3>1. broker.status = "online" \/ wire[1] = "online"
      BY <2>1, <2>3 DEF Announced
    <3>2. wire[1] # "offline"
      <4> SUFFICES ASSUME wire[1] = "offline" PROVE FALSE
        OBVIOUS
      <4>1. 1 + 1 = Len(wire) /\ wire[1 + 1] = "disconnect"
        BY <1>1 DEF Departs
      <4>2. i + 1 = 2
        BY <1>1, <2>1, <4>1
      <4> QED
        BY <2>1, <2>3, <4>1, <4>2
    <3> QED
      BY <1>3, <3>1, <3>2
  <2> QED
    BY <2>2, <2>3
<1>7. connected /\ broker'.alive => broker'.status = "online"
  <2> SUFFICES ASSUME connected, broker'.alive PROVE broker'.status = "online"
    OBVIOUS
  <2>1. wire[1] \notin {"offline", "disconnect"}
    BY <1>1, NotDeparting
  <2>2. broker.status = "online" \/ wire[1] = "online"
    BY <1>1, <1>3, <2>1
  <2> QED
    BY <1>3, <2>1, <2>2
<1>8. MqttTypeOK'
  BY <1>1, <1>3
<1>9. (broker'.alive => broker'.session) /\ (~broker'.alive => wire' = <<>>)
  BY <1>3, <1>4
<1>10. ~broker'.session => broker'.status # "online" /\ ~broker'.subscribed
  BY <1>3, <1>4
<1> QED
  BY <1>1, <1>5, <1>6, <1>7, <1>8, <1>9, <1>10

(* What takes nothing from the connection and puts nothing on it.          *)
LEMMA NoticeKeeps ==
  ASSUME MqttInv, MqttBegin \/ ClientNotices \/ NetComes \/ BrokerNotices
  PROVE  MqttInv'
<1> USE DEF MqttInv, MqttTypeOK
<1>1. CASE MqttBegin \/ ClientNotices \/ NetComes
  <2>1. wire' = wire /\ broker' = broker /\ (connected' => connected)
        /\ net' \in BOOLEAN /\ enabled' \in BOOLEAN /\ connected' \in BOOLEAN
    <3>1. CASE MqttBegin
      BY <3>1 DEF MqttBegin
    <3>2. CASE ClientNotices
      BY <3>2 DEF ClientNotices
    <3>3. CASE NetComes
      BY <3>3 DEF NetComes
    <3> QED
      BY <1>1, <3>1, <3>2, <3>3
  <2> QED
    BY <2>1 DEF Departs, Announced
<1>2. CASE BrokerNotices
  <2>1. broker' = [NoSession EXCEPT !.status = "offline"] /\ wire' = wire
        /\ UNCHANGED <<net, enabled, connected>>
    BY <1>2 DEF BrokerNotices
  <2>2. broker' \in Brokers /\ ~broker'.session /\ ~broker'.alive /\ ~broker'.subscribed
        /\ broker'.status = "offline"
    BY <2>1 DEF NoSession, Brokers
  <2>3. Len(wire) = 0 /\ wire = <<>>
    BY <1>2 DEF BrokerNotices
  <2> QED
    BY <2>1, <2>2, <2>3 DEF Departs, Announced
<1> QED
  BY <1>1, <1>2

-----------------------------------------------------------------------------
(* Wi-Fi.                                                                  *)

(* What the theorem about the stored pair assumes: status() is that of the *)
(* last begin(), and nobody types a space that trimString takes away.      *)
Settled == ~StatusLags /\ \A s \in Strings : Trimmed[s] = s

(* What readConfig makes of the files there are.                           *)
LEMMA FilesRead ==
  ASSUME Settled
  PROVE  /\ ~Complete(Stored(Absent)) /\ ~Complete(Stored(<<>>))
         /\ \A s \in Networks : ~Complete(Stored(<<s>>))
         /\ \A p \in Pairs : Stored(p) = p /\ p \in Strings \X Strings
         /\ \A f \in Files : Stored(f) \in Strings \X Strings
<1>1. Line(Absent, 1) = "" /\ Line(Absent, 2) = ""
  BY DEF Line
<1>2. Line(<<>>, 1) = "" /\ Line(<<>>, 2) = ""
  <2>1. Len(<<>>) = 0
    OBVIOUS
  <2> QED
    BY <2>1 DEF Line
<1>3. <<"", "">> \in Strings \X Strings /\ ~Complete(<<"", "">>)
  BY DEF Strings, Secrets, Complete
<1>4. /\ ~Complete(Stored(Absent)) /\ ~Complete(Stored(<<>>))
      /\ Stored(Absent) \in Strings \X Strings /\ Stored(<<>>) \in Strings \X Strings
  BY <1>1, <1>2, <1>3 DEF Stored
<1>5. ASSUME NEW s \in Networks
      PROVE  ~Complete(Stored(<<s>>)) /\ Stored(<<s>>) \in Strings \X Strings
  <2> DEFINE f == <<s>>
  <2>1. Len(f) = 1 /\ f[1] = s /\ s \in Strings /\ "" \in Strings
    BY DEF Strings, Secrets
  <2>2. Trimmed[s] = s
    BY <2>1 DEF Settled
  <2> HIDE DEF f
  <2>3. Line(f, 1) \in {s, ""} /\ Line(f, 2) = ""
    <3>1. ~(Len(f) >= 2)
      <4>1. Len(f) = 1
        BY <2>1
      <4> QED
        BY <4>1, SMT
    <3>4. Trimmed[f[1]] = s
      BY <2>1, <2>2, Zenon
    <3>2. Line(f, 1) = (IF f # Absent /\ Len(f) >= 1 THEN Trimmed[f[1]] ELSE "")
      BY Zenon DEF Line
    <3>3. Line(f, 2) = (IF f # Absent /\ Len(f) >= 2 THEN Trimmed[f[2]] ELSE "")
      BY Zenon DEF Line
    <3> QED
      BY <3>1, <3>2, <3>3, <3>4
  <2>4. Stored(f) = <<"", "">> \/ Stored(f) = <<s, "">>
    BY <2>3 DEF Stored
  <2>5. ~Complete(<<s, "">>) /\ <<s, "">> \in Strings \X Strings
    BY <2>1 DEF Complete
  <2>6. ~Complete(Stored(f)) /\ Stored(f) \in Strings \X Strings
    BY <1>3, <2>4, <2>5
  <2> QED
    BY <2>6 DEF f
<1>6. ASSUME NEW a \in Networks, NEW b \in Secrets
      PROVE  Stored(<<a, b>>) = <<a, b>> /\ <<a, b>> \in Strings \X Strings
  <2> DEFINE f == <<a, b>>
  <2>1. Len(f) = 2 /\ f[1] = a /\ f[2] = b /\ f # Absent
    BY DEF Absent
  <2>2. a \in Strings /\ b \in Strings /\ a # ""
    BY WifiAssumption DEF Strings
  <2>3. Trimmed[a] = a /\ Trimmed[b] = b
    BY <2>2 DEF Settled
  <2> HIDE DEF f
  <2>4. Line(f, 1) = a /\ Line(f, 2) = b
    BY <2>1, <2>3 DEF Line
  <2>5. Stored(f) = <<a, b>>
    BY <2>2, <2>4 DEF Stored
  <2> QED
    BY <2>2, <2>5 DEF f
<1>7. ASSUME NEW p \in Pairs
      PROVE  Stored(p) = p /\ p \in Strings \X Strings
  <2>1. PICK a \in Networks, b \in Secrets : p = <<a, b>>
    BY DEF Pairs
  <2> QED
    BY <1>6, <2>1
<1>8. \A f \in Files : Stored(f) \in Strings \X Strings
  BY <1>4, <1>5, <1>7 DEF Files
<1> QED
  BY <1>4, <1>5, <1>7, <1>8

(* A pair to join with is one the page can send.                           *)
LEMMA JoinsIsPair ==
  ASSUME NEW p \in Strings \X Strings, Joins(p)
  PROVE  p \in Pairs /\ p[1] # ""
<1>1. p = <<p[1], p[2]>> /\ p[1] \in Networks /\ p[2] = PasswordOf[p[1]]
  BY DEF Joins
<1>2. PasswordOf[p[1]] \in Secrets
  BY <1>1, WifiAssumption
<1> QED
  BY <1>1, <1>2, WifiAssumption DEF Pairs

(* What a power cut leaves of a pair that joins reads as that pair, as the *)
(* file of before, or as none.                                             *)
LEMMA TornReads ==
  ASSUME Settled, WifiInv, job.do = "save", NEW f \in Torn
  PROVE  f \in Files /\ (Complete(Stored(f)) => Joins(Stored(f)))
<1>1. job.pair \in Pairs /\ job.pair[1] # "" /\ job.pair[1] \in Networks /\ Joins(job.pair)
  <2>1. job.pair \in Strings \X Strings /\ Joins(job.pair)
    BY DEF WifiInv, WifiTypeOK, Jobs
  <2> QED
    BY <2>1, JoinsIsPair DEF Joins
<1>2. CASE f = file
  BY <1>2 DEF WifiInv, WifiTypeOK, Files
<1>3. CASE f = <<>>
  BY <1>3, FilesRead DEF Files
<1>4. CASE f = <<job.pair[1]>>
  BY <1>1, <1>4, FilesRead DEF Files
<1>5. CASE f = job.pair
  BY <1>1, <1>5, FilesRead DEF Files
<1> QED
  BY <1>2, <1>3, <1>4, <1>5 DEF Torn

(* The records of which sta, job, config and page are made.                *)
LEMMA WifiRecords ==
  /\ Down \in Stations /\ ~Down.up
  /\ \A d \in {"none", "join", "save", "restart"} :
       [NoJob EXCEPT !.do = d] \in Jobs /\ [NoJob EXCEPT !.do = d].do = d
  /\ NoJob \in Jobs /\ NoJob.do = "none"
  /\ Unread \in Configs /\ ~Unread.mounted /\ ~Unread.cached /\ Unread.pair = NoPair
  /\ [Unread EXCEPT !.mounted = TRUE] \in Configs
  /\ [Unread EXCEPT !.mounted = TRUE].mounted
  /\ NewPage \in Pages
<1>1. NoPair \in Strings \X Strings /\ "" \in Networks \cup {""}
  BY DEF NoPair, Strings, Secrets
<1>2. Down \in Stations /\ ~Down.up
  BY <1>1 DEF Down, Stations
<1>3. NoJob \in Jobs /\ NoJob.do = "none"
  BY <1>1 DEF NoJob, Jobs
<1>4. ASSUME NEW d \in {"none", "join", "save", "restart"}
      PROVE  [NoJob EXCEPT !.do = d] \in Jobs /\ [NoJob EXCEPT !.do = d].do = d
  BY <1>3 DEF Jobs
<1>5. Unread \in Configs /\ ~Unread.mounted /\ ~Unread.cached /\ Unread.pair = NoPair
  BY <1>1 DEF Unread, Configs
<1>6. [Unread EXCEPT !.mounted = TRUE] \in Configs /\ [Unread EXCEPT !.mounted = TRUE].mounted
  BY <1>5 DEF Configs
<1>7. NewPage \in Pages
  BY <1>1 DEF NewPage, Pages
<1> QED
  BY <1>2, <1>3, <1>4, <1>5, <1>6, <1>7

(* At least one request of the page can wait.                              *)
LEMMA PendingIsNat == MaxPending \in Nat /\ MaxPending >= 1
<1>1. MaxPending \in Nat \ {0}
  BY Zenon, WifiAssumption
<1> QED
  BY <1>1

(* At start-up.                                                            *)
LEMMA WifiStarts == ASSUME Settled, WifiInit PROVE WifiInv
<1>1. file \in Files /\ inbox \in Seq(Pairs) /\ Len(inbox) = 0
  BY DEF WifiInit, Files
<1>2. Len(inbox) <= MaxPending
  BY <1>1, PendingIsNat
<1>3. WifiTypeOK
  BY <1>1, <1>2, WifiRecords DEF WifiInit, WifiTypeOK
<1> QED
  BY <1>3, FilesRead, WifiRecords DEF WifiInit, WifiInv

(* After a restart there is the file, whole or torn.                       *)
LEMMA WifiRestarts == ASSUME Settled, WifiInv, WifiOff PROVE WifiInv'
<1>1. /\ file' \in Files
      /\ Complete(Stored(file')) => Joins(Stored(file')) /\ told' # "forgotten"
  <2>1. CASE job.do = "save"
    <3>1. file' \in Torn /\ told' = "connected"
      BY <2>1 DEF WifiOff, WifiInv
    <3> QED
      BY <2>1, <3>1, TornReads
  <2>2. CASE job.do # "save"
    BY <2>2 DEF WifiOff, WifiInv, WifiTypeOK
  <2> QED
    BY <2>1, <2>2
<1>2. inbox' \in Seq(Pairs) /\ Len(inbox') = 0
  BY DEF WifiOff
<1>3. Len(inbox') <= MaxPending
  BY <1>2, PendingIsNat
<1>4. WifiTypeOK'
  BY <1>1, <1>2, <1>3, WifiRecords DEF WifiOff, WifiInv, WifiTypeOK
<1> QED
  BY <1>1, <1>4, WifiRecords DEF WifiOff, WifiInv

(* What leaves Wi-Fi alone.                                                *)
LEMMA WifiStutters == ASSUME WifiInv, UNCHANGED wifiVars PROVE WifiInv'
BY DEF wifiVars, WifiInv, WifiTypeOK

(* readConfig: a valid cache, mounted if it was or is.                     *)
LEMMA ReadIsConfig ==
  ASSUME Settled, WifiInv, NEW mounted \in BOOLEAN, ensureMounted(mounted)
  PROVE  /\ readConfig(mounted) \in Configs /\ readConfig(mounted).mounted = mounted
         /\ ~config.cached /\ mounted => readConfig(mounted).pair = Stored(file)
         /\ ~config.cached /\ ~mounted => readConfig(mounted).pair = config.pair
<1>1. Stored(file) \in Strings \X Strings /\ config \in Configs
  BY FilesRead DEF WifiInv, WifiTypeOK
<1> QED
  BY <1>1 DEF readConfig, Configs

(* Start-up joins only with a complete stored pair, and only if it is one  *)
(* to join with.                                                           *)
LEMMA InitializeKeeps == ASSUME Settled, WifiInv, mode = "off", initialize PROVE WifiInv'
<1>1. PICK mounted \in BOOLEAN :
        LET known == readConfig(mounted)
            tries == known.pair[1] # "" /\ known.pair[2] # ""
        IN /\ ensureMounted(mounted)
           /\ config' = known
           /\ sta' \in IF ~tries THEN {Down}
                       ELSE {[pair |-> known.pair, up |-> b] : b \in {FALSE, Joins(known.pair)}}
           /\ mode' = IF sta'.up THEN "station" ELSE "portal"
           /\ UNCHANGED <<file, job, inbox, page, told>>
  BY DEF initialize
<1> DEFINE known == readConfig(mounted)
<1>2. config = Unread /\ job = NoJob
  BY DEF WifiInv
<1>3. known \in Configs /\ known.mounted = mounted
      /\ (mounted => known.pair = Stored(file)) /\ (~mounted => known.pair = NoPair)
  BY <1>1, <1>2, ReadIsConfig, WifiRecords
<1>4. config' = known /\ UNCHANGED <<file, job, inbox, page, told>>
      /\ mode' = IF sta'.up THEN "station" ELSE "portal"
  BY <1>1
<1>5. sta' \in Stations /\ (sta'.up => Joins(sta'.pair) /\ mounted)
  <2>1. CASE ~(known.pair[1] # "" /\ known.pair[2] # "")
    <3>1. sta' = Down
      BY <1>1, <2>1
    <3> QED
      BY <3>1, WifiRecords
  <2>2. CASE known.pair[1] # "" /\ known.pair[2] # ""
    <3>1. PICK b \in {FALSE, Joins(known.pair)} : sta' = [pair |-> known.pair, up |-> b]
      BY <1>1, <2>2
    <3>2. known.pair \in Strings \X Strings /\ mounted
      <4>1. known.pair \in Strings \X Strings
        BY <1>3 DEF Configs
      <4>2. NoPair[1] = ""
        BY DEF NoPair
      <4> QED
        BY <1>3, <2>2, <4>1, <4>2
    <3>3. b \in BOOLEAN
      BY DEF Joins
    <3>4. sta' \in Stations /\ sta'.up = b /\ sta'.pair = known.pair
      BY <3>1, <3>2, <3>3 DEF Stations
    <3> QED
      BY <3>1, <3>2, <3>4
  <2> QED
    BY <2>1, <2>2
<1> HIDE DEF known
<1>6. WifiTypeOK'
  BY <1>3, <1>4, <1>5 DEF WifiInv, WifiTypeOK
<1>7. (mode' = "station" => config'.mounted) /\ mode' # "off"
  BY <1>3, <1>4, <1>5
<1> QED
  BY <1>2, <1>4, <1>5, <1>6, <1>7, WifiRecords DEF WifiInv

(* The portal and its page.                                                *)
LEMMA PortalKeeps == ASSUME WifiInv, handleScanNetworks \/ PortalPage PROVE WifiInv'
<1>1. CASE handleScanNetworks
  <2>1. page' \in Pages
    BY <1>1 DEF handleScanNetworks, WifiInv, WifiTypeOK, Pages
  <2> QED
    BY <1>1, <2>1, WifiRecords DEF handleScanNetworks, WifiInv, WifiTypeOK
<1>2. CASE PortalPage
  <2>1. UNCHANGED <<file, config, mode, sta, job, told>>
    BY <1>2 DEF PortalPage, selectNetwork, connect, networkError
  <2>2. page \in Pages /\ inbox \in Seq(Pairs) /\ Len(inbox) <= MaxPending
    BY DEF WifiInv, WifiTypeOK
  <2>3. page' \in Pages /\ inbox' \in Seq(Pairs) /\ Len(inbox') <= MaxPending
    <3>1. CASE selectNetwork
      BY <2>2, <3>1 DEF selectNetwork, Pages
    <3>2. CASE networkError
      BY <2>2, <3>2 DEF networkError, Pages
    <3>3. CASE connect /\ page.ssid = ""
      BY <2>2, <3>3 DEF connect, Pages
    <3>4. CASE connect /\ page.ssid # ""
      <4>1. PICK p \in Secrets : inbox' = Append(inbox, <<page.ssid, p>>)
        BY <3>4 DEF connect
      <4>2. page' = [page EXCEPT !.shows = "connecting"] /\ Len(inbox) < MaxPending
        BY <3>4 DEF connect
      <4>3. page' \in Pages /\ page.ssid \in Networks
        BY <2>2, <3>4, <4>2 DEF Pages
      <4>4. <<page.ssid, p>> \in Pairs
        BY <4>3 DEF Pairs
      <4>5. inbox' \in Seq(Pairs) /\ Len(inbox') = Len(inbox) + 1
        BY <2>2, <4>1, <4>4
      <4>6. Len(inbox') <= MaxPending
        <5>1. Len(inbox) \in Nat
          BY <2>2
        <5> QED
          BY <4>2, <4>5, <5>1, PendingIsNat
      <4> QED
        BY <4>3, <4>5, <4>6
    <3> QED
      BY <1>2, <3>1, <3>2, <3>3, <3>4 DEF PortalPage
  <2> QED
    BY <2>1, <2>3 DEF WifiInv, WifiTypeOK
<1> QED
  BY <1>1, <1>2

(* What the interface does on its own.                                     *)
LEMMA StationKeeps == ASSUME WifiInv, Associates \/ LosesNetwork PROVE WifiInv'
<1>1. sta \in Stations
  BY DEF WifiInv, WifiTypeOK
<1>2. sta' \in Stations /\ sta'.pair = sta.pair /\ (sta'.up => Joins(sta'.pair))
  <2>1. CASE Associates
    BY <1>1, <2>1 DEF Associates, Stations
  <2>2. CASE LosesNetwork
    BY <1>1, <2>2 DEF LosesNetwork, Stations
  <2> QED
    BY <2>1, <2>2
<1>3. UNCHANGED <<file, config, mode, job, inbox, page, told>>
  BY DEF Associates, LosesNetwork
<1> QED
  BY <1>2, <1>3 DEF WifiInv, WifiTypeOK

(* Joining: a pair that status() vouches for is told, and saved.           *)
LEMMA JoiningKeeps ==
  ASSUME Settled, WifiInv, handleConnectToNetwork \/ ConnectEnds \/ ConnectSaves
  PROVE  WifiInv'
<1> USE DEF WifiInv, WifiTypeOK
<1>1. CASE handleConnectToNetwork
  <2>1. Head(inbox) \in Pairs /\ inbox' \in Seq(Pairs) /\ Len(inbox') <= MaxPending
    <3>1. inbox # <<>> /\ inbox' = Tail(inbox)
      BY <1>1 DEF handleConnectToNetwork
    <3>2. Len(inbox') = Len(inbox) - 1 /\ Len(inbox) \in Nat
      BY <3>1
    <3>3. Len(inbox') <= MaxPending
      BY <3>2, PendingIsNat
    <3> QED
      BY <3>1, <3>3
  <2>2. Head(inbox) \in Strings \X Strings
    BY <2>1, FilesRead
  <2>3. job' \in Jobs /\ job'.do = "join" /\ job'.pair = Head(inbox)
    BY <1>1, <2>2 DEF handleConnectToNetwork, Jobs
  <2>4. sta' \in Stations /\ ~sta'.up /\ sta'.pair = Head(inbox)
    BY <1>1, <2>2 DEF handleConnectToNetwork, Stations, Settled
  <2> QED
    BY <1>1, <2>1, <2>3, <2>4 DEF handleConnectToNetwork
<1>2. CASE ConnectEnds
  <2>1. page' \in Pages
    BY <1>2 DEF ConnectEnds, Pages
  <2>2. CASE sta.up
    <3>1. job' \in Jobs /\ job'.do = "save" /\ job'.pair = job.pair /\ Joins(job.pair)
      BY <1>2, <2>2 DEF ConnectEnds, Jobs
    <3> QED
      BY <1>2, <2>1, <2>2, <3>1, WifiRecords DEF ConnectEnds
  <2>3. CASE ~sta.up
    BY <1>2, <2>1, <2>3, WifiRecords DEF ConnectEnds
  <2> QED
    BY <2>2, <2>3
<1>3. CASE ConnectSaves
  <2>1. job.do = "save" /\ Joins(job.pair) /\ told = "connected" /\ told' = told
        /\ UNCHANGED <<mode, sta, inbox, page>> /\ saveConfig(job.pair)
    BY <1>3 DEF ConnectSaves
  <2>2. job' \in Jobs /\ job'.do = "restart" /\ job.pair \in Strings \X Strings
    BY <1>3 DEF ConnectSaves, Jobs
  <2>3. job.pair \in Pairs
    BY <2>1, <2>2, JoinsIsPair
  <2>4. PICK mounted \in BOOLEAN :
          /\ ensureMounted(mounted)
          /\ \/ /\ mounted /\ file' = job.pair
                /\ config' = [mounted |-> TRUE, cached |-> TRUE, pair |-> job.pair]
             \/ config' = [config EXCEPT !.mounted = mounted] /\ UNCHANGED file
    BY <2>1 DEF saveConfig
  <2>5. config' \in Configs /\ (config.mounted => config'.mounted)
    <3>1. CASE config' = [mounted |-> TRUE, cached |-> TRUE, pair |-> job.pair]
      BY <2>2, <3>1 DEF Configs
    <3>2. CASE config' = [config EXCEPT !.mounted = mounted]
      BY <2>4, <3>2 DEF Configs, ensureMounted
    <3> QED
      BY <2>4, <3>1, <3>2
  <2>6. file' \in Files /\ (Complete(Stored(file')) => Joins(Stored(file')))
    <3>1. CASE file' = job.pair
      BY <2>1, <2>3, <3>1, FilesRead DEF Files
    <3>2. CASE file' = file
      BY <3>2
    <3> QED
      BY <2>4, <3>1, <3>2
  <2>7. mode # "off" /\ mode' = mode
    BY <2>1, WifiRecords
  <2> QED
    BY <2>1, <2>2, <2>5, <2>6, <2>7
<1> QED
  BY <1>1, <1>2, <1>3

(* A rover that is set up has its file system, so forgetting succeeds,     *)
(* unless remove() fails: then the pair is still a good one.               *)
LEMMA ForgetKeeps == ASSUME Settled, WifiInv, mode = "station", handleWiFiForget PROVE WifiInv'
<1> USE DEF WifiInv, WifiTypeOK
<1>1. PICK mounted \in BOOLEAN :
        /\ ensureMounted(mounted)
        /\ IF mounted /\ file # Absent
           THEN /\ config' = [Unread EXCEPT !.mounted = TRUE]
                /\ \/ file' = Absent /\ told' = "forgotten"
                   \/ told' = "misled" /\ UNCHANGED file
           ELSE /\ config' = [config EXCEPT !.mounted = mounted]
                /\ told' = "forgotten" /\ UNCHANGED file
  BY DEF handleWiFiForget, clearConfig
<1>2. mounted
  BY <1>1 DEF ensureMounted
<1>3. config' \in Configs /\ config'.mounted
  <2>1. CASE file # Absent
    BY <1>1, <1>2, <2>1, WifiRecords
  <2>2. CASE file = Absent
    BY <1>1, <1>2, <2>2 DEF Configs
  <2> QED
    BY <2>1, <2>2
<1>4. \/ file' = Absent /\ told' = "forgotten"
      \/ file' = file /\ told' = "misled"
  BY <1>1, <1>2
<1>5. file' \in Files /\ (Complete(Stored(file')) => Joins(Stored(file')) /\ told' # "forgotten")
  BY <1>4, FilesRead DEF Files
<1>6. job' \in Jobs /\ job'.do = "restart" /\ UNCHANGED <<mode, sta, inbox, page>>
  BY WifiRecords DEF handleWiFiForget
<1> QED
  BY <1>3, <1>4, <1>5, <1>6

(* Commands that leave the file alone.                                     *)
LEMMA AskingKeeps ==
  ASSUME Settled, WifiInv, mode = "station", handleReboot \/ handleGetWiFi
  PROVE  WifiInv'
<1> USE DEF WifiInv, WifiTypeOK
<1>1. CASE handleReboot
  <2>1. job' \in Jobs /\ job'.do = "restart"
    BY <1>1, WifiRecords DEF handleReboot
  <2> QED
    BY <1>1, <2>1 DEF handleReboot
<1>2. CASE handleGetWiFi
  <2>1. PICK mounted \in BOOLEAN : ensureMounted(mounted) /\ config' = readConfig(mounted)
    BY <1>2 DEF handleGetWiFi
  <2>2. config' \in Configs /\ config'.mounted
    BY <2>1, ReadIsConfig DEF ensureMounted
  <2> QED
    BY <1>2, <2>2 DEF handleGetWiFi
<1> QED
  BY <1>1, <1>2

-----------------------------------------------------------------------------
(* The rover.                                                              *)

(* What a command does besides Wi-Fi: at most an answer on MQTT, or a      *)
(* transport started or stopped.                                           *)
LEMMA AnswersKeep ==
  ASSUME MqttInv, NEW ch, Comes(ch), Answers(ch)
  PROVE  MqttInv'
<1>1. CASE ch = "mqtt"
  <2>1. connected
    BY <1>1 DEF Comes, Receives
  <2>2. Send(<<"response">>) /\ UNCHANGED <<net, enabled, connected, broker>>
    BY <1>1 DEF Answers, onMessage
  <2> QED
    BY <2>1, <2>2, PublishKeeps
<1>2. CASE ch # "mqtt"
  BY <1>2, MqttStutters DEF Answers
<1> QED
  BY <1>1, <1>2

(* set_transport answers on MQTT, or starts or stops it.                   *)
LEMMA SwitchKeeps ==
  ASSUME MqttInv, NEW ch, NEW name, NEW on, SetTransport(ch, name, on)
  PROVE  MqttInv'
<1>1. CASE Answers(ch)
  BY <1>1, AnswersKeep DEF SetTransport
<1>2. CASE MqttBegin
  BY <1>2, NoticeKeeps
<1>3. CASE MqttStop
  BY <1>3, StopKeeps
<1> QED
  BY <1>1, <1>2, <1>3 DEF SetTransport

(* Every step of the rover keeps what is said of MQTT.                     *)
LEMMA MqttPartKeeps == ASSUME MqttInv, [Next]_vars PROVE MqttInv'
<1>1. CASE UNCHANGED vars
  BY <1>1, MqttStutters DEF vars
<1>2. CASE setup
  BY <1>2, MqttStutters, NoticeKeeps DEF setup, registerTransports
<1>3. CASE Restart \/ PowerCut
  BY <1>3, MqttEnds DEF Restart, PowerCut, Off
<1>4. CASE Portal \/ Joining \/ NewFirmware \/ Uploading
  BY <1>4, MqttStutters DEF Portal, Joining, NewFirmware, Uploading
<1>5. CASE Command
  <2>1. PICK ch \in Channels \cup {"mqtt"} :
          \/ Query(ch) \/ Reboot(ch) \/ GetWiFi(ch) \/ Forget(ch)
          \/ \E name \in Channels \cup {"mqtt"}, on \in BOOLEAN : SetTransport(ch, name, on)
    BY <1>5 DEF Command
  <2>2. CASE Query(ch) \/ Reboot(ch) \/ GetWiFi(ch) \/ Forget(ch)
    BY <2>2, AnswersKeep DEF Query, Reboot, GetWiFi, Forget
  <2>3. CASE \E name \in Channels \cup {"mqtt"}, on \in BOOLEAN : SetTransport(ch, name, on)
    BY <2>3, SwitchKeeps
  <2> QED
    BY <2>1, <2>2, <2>3
<1>6. CASE Connect
  BY <1>6, ConnectKeeps DEF Connect
<1>7. CASE Notice
  BY <1>7, NoticeKeeps DEF Notice
<1>8. CASE Publish
  BY <1>8, PublishKeeps DEF Publish, publishTelemetry
<1>9. CASE Broker
  BY <1>9, BrokerKeeps, NoticeKeeps DEF Broker
<1>10. CASE NetworkComes
  BY <1>10, MqttStutters, NoticeKeeps DEF NetworkComes
<1>11. CASE NetworkGoes
  BY <1>11, MqttEnds DEF NetworkGoes
<1> QED
  BY <1>1, <1>2, <1>3, <1>4, <1>5, <1>6, <1>7, <1>8, <1>9, <1>10, <1>11 DEF Next

(* "subscribers see us go away cleanly (LWT also covers ungraceful drops)":*)
(* the broker never says "online" of a rover it has no session of, and     *)
(* takes what the rover publishes only while it does.                      *)
THEOREM GoneIsOffline == Spec => [](MqttTypeOK /\ OfflineWhenGone)
<1>1. Init => MqttInv
  BY MqttStarts DEF Init
<1>2. MqttInv /\ [Next]_vars => MqttInv'
  BY MqttPartKeeps
<1>3. MqttInv => MqttTypeOK /\ OfflineWhenGone
  <2> SUFFICES ASSUME MqttInv PROVE OfflineWhenGone
    BY DEF MqttInv
  <2>1. ~broker.session => broker.status # "online"
    BY DEF MqttInv
  <2>2. ASSUME wire # <<>>, Head(wire) \in {"telemetry", "response"}
        PROVE  broker.status = "online"
    <3>1. 1 \in 1..Len(wire) /\ Head(wire) = wire[1]
      BY <2>2 DEF MqttInv, MqttTypeOK
    <3> QED
      BY <2>2, <3>1 DEF MqttInv, Announced
  <2> QED
    BY <2>1, <2>2 DEF OfflineWhenGone
<1> QED
  BY <1>1, <1>2, <1>3, PTL DEF Spec

(* The answer to an upload is what the next boot does, or says why not:    *)
(* except that of one whose begin() failed for want of memory, which is    *)
(* no error to hasError() and is called good (see RebootsIntoNew).         *)
THEOREM AnswerIsTrue == Spec => [](OtaTypeOK /\ UploadToldTrue)
<1>1. Init => OtaInv
  BY OtaStarts DEF Init
<1>2. OtaInv /\ [Next]_vars => OtaInv'
  <2> SUFFICES ASSUME OtaInv, [Next]_vars PROVE OtaInv'
    OBVIOUS
  <2>1. CASE UNCHANGED otaVars
    BY <2>1, OtaStutters
  <2>2. CASE Restart \/ PowerCut
    BY <2>2, OtaRestarts DEF Restart, PowerCut, Off
  <2>3. CASE NewFirmware \/ Uploading
    BY <2>3, UploadKeeps DEF NewFirmware, Uploading
  <2>4. CASE setup \/ Portal \/ Joining \/ Connect \/ Notice \/ Publish \/ Broker
    BY <2>1, <2>4 DEF setup, Portal, Joining, Connect, Notice, Publish, Broker
  <2>5. CASE Command
    BY <2>1, <2>5 DEF Command, Query, Reboot, GetWiFi, Forget, SetTransport
  <2>6. CASE NetworkComes \/ NetworkGoes
    BY <2>1, <2>6 DEF NetworkComes, NetworkGoes
  <2> QED
    BY <2>1, <2>2, <2>3, <2>4, <2>5, <2>6 DEF Next, vars
<1>3. OtaInv => OtaTypeOK /\ UploadToldTrue
  BY DEF OtaInv, Finished, Against, UploadToldTrue
<1> QED
  BY <1>1, <1>2, <1>3, PTL DEF Spec

(* A complete pair in the file is one the rover has joined with, whenever  *)
(* the power goes, as long as status() does not lag behind begin() and     *)
(* trimString has nothing to take away; and "forget" is obeyed, unless     *)
(* remove() failed.                                                        *)
THEOREM PairIsGood ==
  ASSUME Settled
  PROVE  Spec => [](WifiTypeOK /\ StoredPair)
<1>1. Init => WifiInv
  BY WifiStarts DEF Init
<1>2. WifiInv /\ [Next]_vars => WifiInv'
  <2> SUFFICES ASSUME WifiInv, [Next]_vars PROVE WifiInv'
    OBVIOUS
  <2>1. CASE UNCHANGED wifiVars
    BY <2>1, WifiStutters
  <2>2. CASE setup
    BY <2>2, InitializeKeeps DEF setup
  <2>3. CASE Restart \/ PowerCut
    BY <2>3, WifiRestarts DEF Restart, PowerCut, Off
  <2>4. CASE Portal
    BY <2>4, PortalKeeps DEF Portal
  <2>5. CASE Joining
    BY <2>5, JoiningKeeps DEF Joining
  <2>6. CASE Command
    <3>1. PICK ch \in Channels \cup {"mqtt"} :
            \/ Query(ch) \/ Reboot(ch) \/ GetWiFi(ch) \/ Forget(ch)
            \/ \E name \in Channels \cup {"mqtt"}, on \in BOOLEAN : SetTransport(ch, name, on)
      BY <2>6 DEF Command
    <3>2. CASE Query(ch)
      BY <2>1, <3>2 DEF Query
    <3>3. CASE Reboot(ch) \/ GetWiFi(ch)
      BY <3>3, AskingKeeps DEF Reboot, GetWiFi, Comes, Free
    <3>4. CASE Forget(ch)
      BY <3>4, ForgetKeeps DEF Forget, Comes, Free
    <3>5. CASE \E name \in Channels \cup {"mqtt"}, on \in BOOLEAN : SetTransport(ch, name, on)
      BY <2>1, <3>5 DEF SetTransport
    <3> QED
      BY <3>1, <3>2, <3>3, <3>4, <3>5
  <2>7. CASE NewFirmware \/ Uploading \/ Connect \/ Notice \/ Publish \/ Broker
    BY <2>1, <2>7 DEF NewFirmware, Uploading, Connect, Notice, Publish, Broker
  <2>8. CASE NetworkComes \/ NetworkGoes
    BY <2>1, <2>8, StationKeeps DEF NetworkComes, NetworkGoes
  <2> QED
    BY <2>1, <2>2, <2>3, <2>4, <2>5, <2>6, <2>7, <2>8 DEF Next, vars
<1>3. WifiInv => WifiTypeOK /\ StoredPair
  BY DEF WifiInv, StoredPair, Complete
<1> QED
  BY <1>1, <1>2, <1>3, PTL DEF Spec
=============================================================================
