----------------------------- MODULE MqttBridge -----------------------------
(***************************************************************************)
(* The MQTT transport (Mqtt/RoverMqttClient.cpp) and the broker it reports *)
(* the rover's presence to, in a retained message: "online" once connected,*)
(* "offline" before it stops, and as its last will.                        *)
(*                                                                         *)
(* Client library and broker are external.  publish() and subscribe() put  *)
(* a packet on the connection, which keeps their order and loses what is   *)
(* under way when the network goes; each side finds out on its own.  The   *)
(* broker publishes the will of a session that ends without a DISCONNECT,  *)
(* also of one whose client connects anew.                                 *)
(***************************************************************************)
EXTENDS Naturals, Sequences

CONSTANTS MaxWire     \* packets the connection holds

ASSUME MqttAssumption == MaxWire \in Nat

VARIABLES
  net,         \* is Wi-Fi up, and the broker reachable?
  enabled,     \* begin() was called, and stop() not since
  connected,   \* mqtt.connected(): what the client believes
  wire,        \* packets on their way to the broker
  broker       \* the broker's session of the rover, and the retained status

mqttVars == <<net, enabled, connected, wire, broker>>

Packets == {"online", "subscribe", "telemetry", "response", "offline", "disconnect"}

NoSession == [session |-> FALSE, alive |-> FALSE, subscribed |-> FALSE, status |-> "none"]

Brokers == [session : BOOLEAN, alive : BOOLEAN, subscribed : BOOLEAN,
            status : {"none", "online", "offline"}]

MqttTypeOK ==
  /\ net \in BOOLEAN /\ enabled \in BOOLEAN /\ connected \in BOOLEAN
  /\ wire \in Seq(Packets) /\ broker \in Brokers

-----------------------------------------------------------------------------
(* The client.  A publish() on a connection that has broken is lost.       *)
Send(packets) == wire' = IF broker.alive THEN wire \o packets ELSE wire

MqttBegin == enabled' = TRUE /\ UNCHANGED <<net, connected, wire, broker>>

(* Mutant: the rover disconnects without a word.                           *)
MqttStop_Silent ==
  /\ enabled' = FALSE /\ connected' = FALSE
  /\ IF connected THEN Send(<<"disconnect">>) ELSE UNCHANGED wire
  /\ UNCHANGED <<net, broker>>

(* stop(): says "offline", which the will would not after a DISCONNECT.    *)
MqttStop ==
  /\ enabled' = FALSE /\ connected' = FALSE
  /\ IF connected THEN Send(<<"offline", "disconnect">>) ELSE UNCHANGED wire
  /\ UNCHANGED <<net, broker>>

(* Mutant: a new connection does not subscribe again.                      *)
MqttConnect_NoSubscribe ==
  /\ enabled /\ net /\ ~connected
  /\ \E answer \in BOOLEAN :
       /\ connected' = answer /\ net' = answer
       /\ wire' = IF answer THEN <<"online">> ELSE <<>>
       /\ broker' = [session |-> TRUE, alive |-> answer, subscribed |-> FALSE,
                     status |-> IF broker.session THEN "offline" ELSE broker.status]
  /\ UNCHANGED enabled

(* connect(): the broker ends a session it still has, and opens a new one  *)
(* with "offline" as the will.  If the network goes meanwhile its answer   *)
(* does not arrive.                                                        *)
MqttConnect ==
  /\ enabled /\ net /\ ~connected
  /\ \E answer \in BOOLEAN :
       /\ connected' = answer /\ net' = answer
       /\ wire' = IF answer THEN <<"online", "subscribe">> ELSE <<>>
       /\ broker' = [session |-> TRUE, alive |-> answer, subscribed |-> FALSE,
                     status |-> IF broker.session THEN "offline" ELSE broker.status]
  /\ UNCHANGED enabled

(* mqtt.loop() on a connection that has broken.                            *)
ClientNotices ==
  /\ enabled /\ connected /\ ~broker.alive
  /\ connected' = FALSE
  /\ UNCHANGED <<net, enabled, wire, broker>>

publishTelemetry ==
  /\ enabled /\ net /\ connected /\ Len(wire) < MaxWire
  /\ Send(<<"telemetry">>)
  /\ UNCHANGED <<net, enabled, connected, broker>>

MqttLoop == MqttConnect \/ ClientNotices \/ publishTelemetry

(* A command can arrive once the broker has the subscription.              *)
Receives == enabled /\ connected /\ broker.alive /\ broker.subscribed /\ Len(wire) < MaxWire

onMessage == Send(<<"response">>) /\ UNCHANGED <<net, enabled, connected, broker>>

-----------------------------------------------------------------------------
(* The broker, and the network between the two.                            *)
BrokerReceives ==
  /\ broker.alive /\ wire # <<>> /\ wire' = Tail(wire)
  /\ broker' = CASE Head(wire) \in {"online", "offline"} -> [broker EXCEPT !.status = Head(wire)]
                 [] Head(wire) = "subscribe" -> [broker EXCEPT !.subscribed = TRUE]
                 [] Head(wire) = "disconnect" -> [NoSession EXCEPT !.status = broker.status]
                 [] OTHER -> broker
  /\ UNCHANGED <<net, enabled, connected>>

BrokerNotices ==
  /\ broker.session /\ ~broker.alive
  /\ broker' = [NoSession EXCEPT !.status = "offline"]
  /\ UNCHANGED <<net, enabled, connected, wire>>

Cut == wire' = <<>> /\ broker' = [broker EXCEPT !.alive = FALSE]

NetGoes == net' = FALSE /\ Cut /\ UNCHANGED <<enabled, connected>>

NetComes == ~net /\ net' = TRUE /\ UNCHANGED <<enabled, connected, wire, broker>>

-----------------------------------------------------------------------------
MqttInit ==
  /\ net = FALSE /\ enabled = FALSE /\ connected = FALSE /\ wire = <<>> /\ broker = NoSession

MqttOff == net' = FALSE /\ enabled' = FALSE /\ connected' = FALSE /\ Cut

-----------------------------------------------------------------------------
(* "subscribers see us go away cleanly (LWT also covers ungraceful drops)":*)
(* once the broker has no session of the rover its retained status is not  *)
(* "online"; and what the rover publishes comes only while it is.          *)
OfflineWhenGone ==
  /\ ~broker.session => broker.status # "online"
  /\ wire # <<>> /\ Head(wire) \in {"telemetry", "response"} => broker.status = "online"

(* While the transport stays on and the network up, the rover is announced *)
(* and stays so, whatever connections were lost before.                    *)
ComesOnline == <>[](enabled /\ net) => <>[](broker.status = "online" /\ broker.subscribed)
=============================================================================
