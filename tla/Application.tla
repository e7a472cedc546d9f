---------------------------- MODULE Application ----------------------------
(***************************************************************************)
(* The whole rover around its main loop (RoverApplication.cpp): start-up,  *)
(* the captive portal or the transports, which of them run                 *)
(* (Command/TransportRegistry.cpp, set_transport), and reboots.  Wi-Fi,    *)
(* uploads and MQTT are the modules it extends; the motors, ESP-NOW, the   *)
(* logs and the camera have modules of their own.                          *)
(*                                                                         *)
(* The main loop does one thing at a time.  While it joins a network,      *)
(* waits before a reboot or receives an upload, nothing else on it runs;   *)
(* the network, the broker and the power do not wait.                      *)
(***************************************************************************)
EXTENDS WifiSetup, OtaUpload, MqttBridge

CONSTANTS
  Channels,    \* the names of the transports but MQTT
  AtBoot       \* the transports the configuration starts

ASSUME ChannelAssumption == AtBoot \subseteq Channels \cup {"mqtt"} /\ "mqtt" \notin Channels

VARIABLES running    \* the transports but MQTT that run

vars == <<wifiVars, otaVars, mqttVars, running>>

AppTypeOK == WifiTypeOK /\ OtaTypeOK /\ MqttTypeOK /\ running \subseteq Channels

Running == running \cup IF enabled THEN {"mqtt"} ELSE {}

(* loop() of a rover that is set up, about to call the next in line.       *)
Free == mode = "station" /\ job.do = "none" /\ upload.at = "none"

-----------------------------------------------------------------------------
(* Start-up and restart.                                                   *)

(* registerTransports: MQTT starts in the same way as the others.          *)
registerTransports ==
  /\ running' = AtBoot \ {"mqtt"}
  /\ IF "mqtt" \in AtBoot THEN MqttBegin ELSE UNCHANGED mqttVars

(* setup(): only a rover that joined its network goes on to set the rest   *)
(* up.                                                                     *)
setup ==
  /\ mode = "off" /\ initialize
  /\ IF mode' = "station" THEN registerTransports ELSE UNCHANGED <<running, mqttVars>>
  /\ UNCHANGED otaVars

Off == WifiOff /\ OtaOff /\ MqttOff /\ running' = {}

(* ESP.restart() at the end of a command, of the portal or of an upload.   *)
Restart == (job.do = "restart" \/ upload.at = "restart") /\ Off

PowerCut == mode # "off" /\ Off

-----------------------------------------------------------------------------
(* The portal.                                                             *)
Portal == (handleScanNetworks \/ PortalPage) /\ UNCHANGED <<otaVars, mqttVars, running>>

Joining ==
  /\ handleConnectToNetwork \/ ConnectEnds \/ ConnectSaves
  /\ UNCHANGED <<otaVars, mqttVars, running>>

-----------------------------------------------------------------------------
(* Commands.                                                               *)

(* A command comes in on a transport that runs, and dispatchRaw answers    *)
(* there.  On MQTT the answer is one more packet.                          *)
Comes(ch) == Free /\ ch \in Running /\ (ch = "mqtt" => Receives)

Answers(ch) == IF ch = "mqtt" THEN onMessage ELSE UNCHANGED mqttVars

(* system, status, config, transports and the others that only read.       *)
Query(ch) == Comes(ch) /\ Answers(ch) /\ UNCHANGED <<wifiVars, otaVars, running>>

Reboot(ch) == Comes(ch) /\ Answers(ch) /\ handleReboot /\ UNCHANGED <<otaVars, running>>

GetWiFi(ch) == Comes(ch) /\ Answers(ch) /\ handleGetWiFi /\ UNCHANGED <<otaVars, running>>

Forget(ch) == Comes(ch) /\ Answers(ch) /\ handleWiFiForget /\ UNCHANGED <<otaVars, running>>

(* begin() of one that runs and stop() of one that does not do nothing.    *)
(* WebSocket clients and the broker are gone when the answer to their own  *)
(* stop() is sent.                                                         *)
SetTransport(ch, name, on) ==
  /\ Comes(ch)
  /\ IF name = "mqtt"
     THEN /\ UNCHANGED running
          /\ IF on = enabled THEN Answers(ch) ELSE IF on THEN MqttBegin ELSE MqttStop
     ELSE /\ running' = IF on THEN running \cup {name} ELSE running \ {name}
          /\ Answers(ch)
  /\ UNCHANGED <<wifiVars, otaVars>>

Command ==
  \E ch \in Channels \cup {"mqtt"} :
    \/ Query(ch) \/ Reboot(ch) \/ GetWiFi(ch) \/ Forget(ch)
    \/ \E name \in Channels \cup {"mqtt"}, on \in BOOLEAN : SetTransport(ch, name, on)

-----------------------------------------------------------------------------
(* The web server's uploads and ArduinoOTA.                                *)
NewFirmware ==
  /\ Free
  /\ \/ "http" \in running /\ (UploadStart \/ PostWithoutFile)
     \/ handleEspota
  /\ UNCHANGED <<wifiVars, mqttVars, running>>

Uploading == UploadStep /\ UNCHANGED <<wifiVars, mqttVars, running>>

-----------------------------------------------------------------------------
(* MQTT, and the world outside.                                            *)
Connect == Free /\ MqttConnect /\ UNCHANGED <<wifiVars, otaVars, running>>

Notice == Free /\ ClientNotices /\ UNCHANGED <<wifiVars, otaVars, running>>

Publish == Free /\ publishTelemetry /\ UNCHANGED <<wifiVars, otaVars, running>>

Broker == (BrokerReceives \/ BrokerNotices) /\ UNCHANGED <<wifiVars, otaVars, running>>

NetworkComes ==
  \/ Associates /\ UNCHANGED <<otaVars, mqttVars, running>>
  \/ mode = "station" /\ sta.up /\ NetComes /\ UNCHANGED <<wifiVars, otaVars, running>>

NetworkGoes ==
  /\ \/ LosesNetwork
     \/ net /\ UNCHANGED wifiVars
  /\ NetGoes /\ UNCHANGED <<otaVars, running>>

-----------------------------------------------------------------------------
Init == WifiInit /\ OtaInit /\ MqttInit /\ running = {}

Next ==
  \/ setup \/ Restart \/ PowerCut
  \/ Portal \/ Joining
  \/ Command
  \/ NewFirmware \/ Uploading
  \/ Connect \/ Notice \/ Publish \/ Broker
  \/ NetworkComes \/ NetworkGoes

Spec == Init /\ [][Next]_vars

(* Every pass of the main loop calls the MQTT client, however often        *)
(* something else keeps it in between, and nothing keeps it for good; the  *)
(* broker takes what arrives.                                              *)
FairSpec ==
  /\ Spec
  /\ SF_vars(Connect) /\ SF_vars(Notice)
  /\ WF_vars(Joining) /\ WF_vars(Uploading) /\ WF_vars(Restart) /\ WF_vars(Broker)

-----------------------------------------------------------------------------
(* A rover whose network is up again when it has opened the portal leaves  *)
(* it.  It does not: it joins the network there and waits for a user.      *)
LeavesPortal ==
  mode = "portal" /\ sta.up /\ sta.pair = Stored(file) /\ sta.pair[2] # ""
    ~> mode # "portal" \/ ~sta.up
=============================================================================
