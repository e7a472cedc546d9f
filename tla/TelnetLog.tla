----------------------------- MODULE TelnetLog -----------------------------
(***************************************************************************)
(* The telnet side of RemoteLogger: the vector of clients, walked by       *)
(* loop() on the main task, which reads and dispatches what the clients    *)
(* type, and by broadcast(), on the main task for replies and on any other *)
(* task for its log lines.  No lock protects the vector.                   *)
(*                                                                         *)
(* A step that touches an element the vector no longer holds sets `freed`: *)
(* what the program does from there on is not defined.                     *)
(***************************************************************************)
EXTENDS Naturals, Sequences, SequencesExt

CONSTANTS
  MaxClients,   \* RemoteLogger::maxClients
  MaxArrivals,  \* bound: telnet connections in a run
  SelfOff,      \* may a telnet client switch telnet off?
  OtherTasks    \* do other tasks log?

ASSUME BoundsAssumption == MaxClients \in Nat \ {0} /\ MaxArrivals \in Nat
ASSUME FlagsAssumption == SelfOff \in BOOLEAN /\ OtherTasks \in BOOLEAN

VARIABLES
  started,    \* RemoteLogger::started
  clients,    \* RemoteLogger::clients, each the number of its connection
  connected,  \* the sockets the peer or we have not closed
  knocking,   \* connections the listener has not handed out yet
  arrivals,   \* history: connections made so far
  loopPc,     \* where loop() is
  it,         \* its iterator, as an index
  served,     \* history: the clients loop() has read in this pass
  walk,       \* the broadcast of another task: its index, 0 outside
  walkEnd,    \* the end of the vector when that broadcast began
  stale,      \* has the vector moved under that broadcast?
  freed       \* has a step touched an element that is gone?

loopVars == <<loopPc, it, served>>
walkVars == <<walk, walkEnd, stale>>
telnetVars == <<started, clients, connected, knocking, arrivals, loopVars, walkVars, freed>>

Ids == 1..MaxArrivals

TelnetTypeOK ==
  /\ started \in BOOLEAN
  /\ clients \in Seq(Ids) /\ Len(clients) <= MaxClients
  /\ IsInjective(clients)
  /\ connected \subseteq Ids
  /\ knocking \in Seq(Ids)
  /\ arrivals \in 0..MaxArrivals
  /\ loopPc \in {"idle", "visit", "input"}
  /\ it \in 1..(MaxClients + 2)
  /\ served \subseteq Ids
  /\ walk \in 0..(MaxClients + 1) /\ walkEnd \in 0..MaxClients
  /\ stale \in BOOLEAN /\ freed \in BOOLEAN

(* As setupCompleted() leaves it: Log.begin() and nobody connected.        *)
TelnetInit ==
  /\ started = TRUE /\ clients = <<>> /\ connected = {}
  /\ knocking = <<>> /\ arrivals = 0
  /\ loopPc = "idle" /\ it = 1 /\ served = {}
  /\ walk = 0 /\ walkEnd = 0 /\ stale = FALSE
  /\ freed = FALSE

-----------------------------------------------------------------------------
(* The peers.                                                              *)

Arrive ==
  /\ ~freed /\ started
  /\ arrivals < MaxArrivals
  /\ arrivals' = arrivals + 1
  /\ connected' = connected \union {arrivals'}
  /\ knocking' = Append(knocking, arrivals')
  /\ UNCHANGED <<started, clients, loopVars, walkVars, freed>>

HangUp(c) ==
  /\ ~freed
  /\ c \in connected
  /\ connected' = connected \ {c}
  /\ UNCHANGED <<started, clients, knocking, arrivals, loopVars, walkVars, freed>>

-----------------------------------------------------------------------------
(* loop()                                                                  *)

(* push_back may move the elements of the vector.                          *)
Push(c) ==
  /\ clients' = Append(clients, c)
  /\ stale' \in {stale, walk # 0}
  /\ UNCHANGED <<walk, walkEnd>>

(* hasClient(): one connection is accepted, or turned away.                *)
Accept ==
  \/ knocking = <<>> /\ UNCHANGED <<clients, connected, knocking, walkVars>>
  \/ /\ knocking # <<>>
     /\ knocking' = Tail(knocking)
     /\ IF Len(clients) >= MaxClients
        THEN connected' = connected \ {Head(knocking)} /\ UNCHANGED <<clients, walkVars>>
        ELSE Push(Head(knocking)) /\ UNCHANGED connected

LoopBegin ==
  /\ ~freed /\ started /\ loopPc = "idle"
  /\ Accept
  /\ loopPc' = "visit" /\ it' = 1 /\ served' = {}
  /\ UNCHANGED <<started, arrivals, freed>>

(* it == clients.end(); past the end the walk does not stop there.         *)
LoopEnd ==
  /\ ~freed /\ loopPc = "visit" /\ it = Len(clients) + 1
  /\ loopPc' = "idle"
  /\ UNCHANGED <<started, clients, connected, knocking, arrivals, it, served, walkVars, freed>>

(* Mutant: the iterator moves on after an erase.                           *)
Visit_SkipsAfterErase ==
  /\ ~freed /\ loopPc = "visit" /\ it # Len(clients) + 1
  /\ IF it > Len(clients) THEN freed' = TRUE /\ UNCHANGED <<clients, loopPc, it>>
     ELSE IF clients[it] \in connected THEN loopPc' = "input" /\ UNCHANGED <<clients, it, freed>>
     ELSE clients' = RemoveAt(clients, it) /\ it' = it + 1 /\ UNCHANGED <<loopPc, freed>>
  /\ UNCHANGED <<started, connected, knocking, arrivals, served, walkVars>>

(* Mutant: a client that has hung up is passed over.                       *)
Visit_KeepsDead ==
  /\ ~freed /\ loopPc = "visit" /\ it # Len(clients) + 1
  /\ IF it > Len(clients) THEN freed' = TRUE /\ UNCHANGED <<loopPc, it>>
     ELSE IF clients[it] \in connected THEN loopPc' = "input" /\ UNCHANGED <<it, freed>>
     ELSE it' = it + 1 /\ UNCHANGED <<loopPc, freed>>
  /\ UNCHANGED <<started, clients, connected, knocking, arrivals, served, walkVars>>

(* The next client: erased when it has hung up, otherwise read.            *)
Visit ==
  /\ ~freed /\ loopPc = "visit" /\ it # Len(clients) + 1
  /\ IF it > Len(clients) THEN freed' = TRUE /\ UNCHANGED <<clients, loopPc>>
     ELSE IF clients[it] \in connected THEN loopPc' = "input" /\ UNCHANGED <<clients, freed>>
     ELSE clients' = RemoveAt(clients, it) /\ UNCHANGED <<loopPc, freed>>
  /\ UNCHANGED <<started, connected, knocking, arrivals, it, served, walkVars>>

(* stop(), as a set_transport of any client leads to it.                   *)
Stop ==
  /\ started' = FALSE
  /\ connected' = connected \ (ToSet(clients) \union ToSet(knocking))
  /\ clients' = <<>> /\ knocking' = <<>>

(* handleClientInput: another line of the client that `it` refers to ...   *)
InputOff ==
  /\ ~freed /\ SelfOff /\ loopPc = "input" /\ it <= Len(clients)
  /\ Stop
  /\ UNCHANGED <<arrivals, loopVars, walkVars, freed>>

(* ... until it has typed no more.  Lines that do not concern the vector   *)
(* are left out.                                                           *)
InputEnd ==
  /\ ~freed /\ loopPc = "input"
  /\ IF it > Len(clients) THEN freed' = TRUE /\ UNCHANGED loopVars
     ELSE /\ served' = served \union {clients[it]}
          /\ it' = it + 1
          /\ loopPc' = "visit"
          /\ UNCHANGED freed
  /\ UNCHANGED <<started, clients, connected, knocking, arrivals, walkVars>>

(* set_transport through another transport, between two calls of loop().   *)
SwitchOff ==
  /\ ~freed /\ started /\ loopPc = "idle"
  /\ Stop
  /\ UNCHANGED <<arrivals, loopVars, walkVars, freed>>

SwitchOn ==
  /\ ~freed /\ ~started /\ loopPc = "idle"
  /\ started' = TRUE
  /\ UNCHANGED <<clients, connected, knocking, arrivals, loopVars, walkVars, freed>>

-----------------------------------------------------------------------------
(* broadcast() on another task: for (auto& c : clients).                   *)

WalkBegin ==
  /\ ~freed /\ OtherTasks /\ started /\ walk = 0
  /\ clients # <<>>
  /\ walk' = 1 /\ walkEnd' = Len(clients) /\ stale' = FALSE
  /\ UNCHANGED <<started, clients, connected, knocking, arrivals, loopVars, freed>>

WalkOn ==
  /\ ~freed /\ walk # 0
  /\ freed' = (stale \/ walk > Len(clients))
  /\ walk' = IF walk >= walkEnd THEN 0 ELSE walk + 1
  /\ UNCHANGED <<started, clients, connected, knocking, arrivals, loopVars, walkEnd, stale>>

TelnetNext ==
  \/ Arrive
  \/ \E c \in Ids : HangUp(c)
  \/ LoopBegin \/ LoopEnd \/ Visit \/ InputOff \/ InputEnd
  \/ SwitchOff \/ SwitchOn
  \/ WalkBegin \/ WalkOn

TelnetSpec == TelnetInit /\ [][TelnetNext]_telnetVars

(* The main loop keeps calling loop() while telnet is on.                  *)
TelnetFairSpec == TelnetSpec /\ WF_telnetVars(LoopBegin \/ LoopEnd \/ Visit \/ InputEnd)

-----------------------------------------------------------------------------
(* No task touches a client that is no longer in the vector.               *)
NoFreedClient == ~freed

(* loop() itself never leaves the vector, whoever hangs up or knocks while *)
(* it walks: only a client that switches telnet off, and the broadcast of  *)
(* another task, touch an element that is gone.                            *)
LoopStaysInside == [][~freed /\ freed' => ~started \/ walk # 0]_telnetVars

(* A pass of loop() reads every client it leaves connected: an erase does  *)
(* not make it miss the next one, whoever comes and goes meanwhile.        *)
NoneSkipped == loopPc = "idle" /\ started => ToSet(clients) \subseteq served

(* A client that hangs up leaves the vector, and its place to the next,    *)
(* as long as the program is defined.                                      *)
PlacesAreFreed ==
  \A c \in Ids :
    (c \in ToSet(clients) /\ c \notin connected) ~> (c \notin ToSet(clients) \/ freed)
=============================================================================
