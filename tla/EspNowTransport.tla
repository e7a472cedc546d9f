-------------------------- MODULE EspNowTransport --------------------------
(***************************************************************************)
(* RoverEspNowServer: a command transport fed from two cores.  The Wi-Fi   *)
(* task runs onRecvThunk on one core and appends to `incoming`; the main   *)
(* loop drains and dispatches on the other, and also runs begin() and      *)
(* stop(), which any command of any transport may ask for (set_transport). *)
(*                                                                         *)
(* The mutex makes each access of `incoming` one step.  What it does not   *)
(* protect (instance, running, the registration) is read and written step  *)
(* by step.                                                                *)
(***************************************************************************)
EXTENDS Naturals, Sequences, SequencesExt

CONSTANTS
  MaxFrames,    \* bound: frames the radio delivers in a run
  MaxSessions,  \* bound: successful begin()s in a run
  CallbackEnds  \* does esp_now_unregister_recv_cb wait for a running callback?

ASSUME BoundsAssumption == MaxFrames \in Nat /\ MaxSessions \in Nat
ASSUME CallbackAssumption == CallbackEnds \in BOOLEAN

(* What a frame asks for: to switch ESP-NOW off or on, or anything else.   *)
Kinds == {"off", "on", "drive"}
Frame == [id : Nat, kind : Kinds, session : Nat]
NoFrame == [id |-> 0, kind |-> "drive", session |-> 0]

VARIABLES
  running,     \* RoverEspNowServer::running
  instance,    \* is RoverEspNowServer::instance set?
  registered,  \* is the receive callback registered with the radio?
  incoming,    \* frames queued by the Wi-Fi task
  drained,     \* the batch loop() is dispatching
  looping,     \* is loop() dispatching a batch?
  mainPc,      \* where the main task is in begin() or stop(); "idle" otherwise
  callback,    \* the frame onRecvThunk has let through, NoFrame when it is idle
  session,     \* history: how many times the transport has been brought up
  received,    \* history: frames let through so far
  dispatched,  \* history: ids of the frames dispatched, in order
  dropped      \* history: ids of the frames stop() dropped

radioVars == <<registered, callback, received>>
queueVars == <<incoming, drained, looping>>
history == <<session, dispatched, dropped>>
vars == <<running, instance, radioVars, queueVars, mainPc, history>>

Steps == {"idle", "register", "running", "forget", "stopped", "clear"}

TypeOK ==
  /\ running \in BOOLEAN /\ instance \in BOOLEAN /\ registered \in BOOLEAN
  /\ incoming \in Seq(Frame)
  /\ drained \in Seq(Frame)
  /\ looping \in BOOLEAN
  /\ ~looping => drained = <<>>
  /\ mainPc \in Steps
  /\ callback \in Frame
  /\ session \in 0..MaxSessions
  /\ received \in 0..MaxFrames
  /\ dispatched \in Seq(Nat)
  /\ dropped \subseteq Nat

Init ==
  /\ running = FALSE /\ instance = FALSE /\ registered = FALSE
  /\ incoming = <<>> /\ drained = <<>> /\ looping = FALSE
  /\ mainPc = "idle"
  /\ callback = NoFrame
  /\ session = 0 /\ received = 0
  /\ dispatched = <<>> /\ dropped = {}

Ids(s) == {f.id : f \in ToSet(s)}

-----------------------------------------------------------------------------
(* The Wi-Fi task.                                                         *)

(* onRecvThunk up to the end of its checks: an instance, and the magic     *)
(* prefix of a frame that is not empty.                                    *)
Receive(kind) ==
  /\ registered
  /\ callback = NoFrame
  /\ received < MaxFrames
  /\ instance
  /\ callback' = [id |-> received + 1, kind |-> kind, session |-> session]
  /\ received' = received + 1
  /\ UNCHANGED <<running, instance, registered, queueVars, mainPc, history>>

(* Mutant: a frame replaces the queue it should join.                      *)
Enqueue_Overwrites ==
  /\ callback # NoFrame
  /\ instance
  /\ incoming' = <<callback>>
  /\ callback' = NoFrame
  /\ UNCHANGED <<running, instance, registered, received, drained, looping, mainPc, history>>

(* instance->enqueue(...): reads `instance` again.  Without one the call   *)
(* goes through a null pointer, which no step of this model survives.      *)
Enqueue ==
  /\ callback # NoFrame
  /\ instance
  /\ incoming' = Append(incoming, callback)
  /\ callback' = NoFrame
  /\ UNCHANGED <<running, instance, registered, received, drained, looping, mainPc, history>>

-----------------------------------------------------------------------------
(* The main task.  begin() and stop() are called from a dispatch: of a     *)
(* frame of this transport, or of a command of another one between two     *)
(* calls of loop().                                                        *)

CallBegin ==
  IF running THEN UNCHANGED <<mainPc, instance>>
  ELSE \/ UNCHANGED <<mainPc, instance>>       \* esp_now_init or add_peer failed
       \/ /\ session < MaxSessions
          /\ instance' = TRUE
          /\ mainPc' = "register"

CallStop == mainPc' = IF running THEN "forget" ELSE mainPc

BeginFromElsewhere ==
  /\ mainPc = "idle" /\ ~looping /\ ~running
  /\ CallBegin
  /\ UNCHANGED <<running, radioVars, queueVars, history>>

(* esp_now_register_recv_cb, then running = true.                          *)
BeginRegister ==
  /\ mainPc = "register"
  /\ registered' = TRUE
  /\ session' = session + 1
  /\ mainPc' = "running"
  /\ UNCHANGED <<running, instance, callback, received, queueVars, dispatched, dropped>>

BeginRunning ==
  /\ mainPc = "running"
  /\ running' = TRUE
  /\ mainPc' = "idle"
  /\ UNCHANGED <<instance, radioVars, queueVars, history>>

StopFromElsewhere ==
  /\ mainPc = "idle" /\ ~looping /\ running
  /\ CallStop
  /\ UNCHANGED <<running, instance, radioVars, queueVars, history>>

(* esp_now_unregister_recv_cb, esp_now_deinit.                             *)
StopUnregister ==
  /\ mainPc = "forget" /\ registered
  /\ CallbackEnds => callback = NoFrame
  /\ registered' = FALSE
  /\ UNCHANGED <<running, instance, callback, received, queueVars, mainPc, history>>

(* Mutant: the instance is forgotten while frames may still arrive.        *)
StopForget_TooSoon ==
  /\ mainPc = "forget"
  /\ instance' = FALSE
  /\ mainPc' = "stopped"
  /\ UNCHANGED <<running, radioVars, queueVars, history>>

(* instance = nullptr.                                                     *)
StopForget ==
  /\ mainPc = "forget" /\ ~registered
  /\ instance' = FALSE
  /\ mainPc' = "stopped"
  /\ UNCHANGED <<running, radioVars, queueVars, history>>

(* running = false.                                                        *)
StopRunning ==
  /\ mainPc = "stopped"
  /\ running' = FALSE
  /\ mainPc' = "clear"
  /\ UNCHANGED <<instance, radioVars, queueVars, history>>

(* Mutant: the queue survives stop().                                      *)
StopClear_Keeps ==
  /\ mainPc = "clear"
  /\ mainPc' = "idle"
  /\ UNCHANGED <<running, instance, radioVars, queueVars, history>>

(* Drop any queued frames received before stop().                          *)
StopClear ==
  /\ mainPc = "clear"
  /\ dropped' = dropped \union Ids(incoming)
  /\ incoming' = <<>>
  /\ mainPc' = "idle"
  /\ UNCHANGED <<running, instance, radioVars, drained, looping, session, dispatched>>

-----------------------------------------------------------------------------
(* Mutant: the queue is copied, not swapped.                               *)
LoopDrain_Copies ==
  /\ mainPc = "idle" /\ ~looping /\ running
  /\ drained' = incoming
  /\ looping' = (incoming # <<>>)
  /\ UNCHANGED <<running, instance, radioVars, incoming, mainPc, history>>

(* loop(): swap the queue for an empty one under the mutex.                *)
LoopDrain ==
  /\ mainPc = "idle" /\ ~looping /\ running
  /\ incoming # <<>>
  /\ drained' = incoming
  /\ incoming' = <<>>
  /\ looping' = TRUE
  /\ UNCHANGED <<running, instance, radioVars, mainPc, history>>

(* dispatchRaw of the next frame of the batch, whatever happened to the    *)
(* transport since the batch was drained.  An "off" or "on" frame is a     *)
(* set_transport for ESP-NOW itself.                                       *)
Dispatch ==
  /\ mainPc = "idle" /\ looping /\ drained # <<>>
  /\ drained' = Tail(drained)
  /\ dispatched' = Append(dispatched, Head(drained).id)
  /\ CASE Head(drained).kind = "off" -> CallStop /\ UNCHANGED instance
       [] Head(drained).kind = "on" -> CallBegin
       [] OTHER -> UNCHANGED <<mainPc, instance>>
  /\ UNCHANGED <<running, radioVars, incoming, looping, session, dropped>>

(* The batch is over.                                                      *)
LoopEnd ==
  /\ mainPc = "idle" /\ looping /\ drained = <<>>
  /\ looping' = FALSE
  /\ UNCHANGED <<running, instance, radioVars, incoming, drained, mainPc, history>>

MainTask ==
  \/ BeginRegister \/ BeginRunning
  \/ StopUnregister \/ StopForget \/ StopRunning \/ StopClear
  \/ LoopDrain \/ Dispatch \/ LoopEnd

Next ==
  \/ \E kind \in Kinds : Receive(kind)
  \/ Enqueue
  \/ MainTask
  \/ BeginFromElsewhere
  \/ StopFromElsewhere

Spec == Init /\ [][Next]_vars

(* The loop keeps running and a callback is not suspended for ever; nobody *)
(* has to send a frame or to toggle the transport.                         *)
FairSpec == Spec /\ WF_vars(MainTask) /\ WF_vars(Enqueue)

-----------------------------------------------------------------------------
(* The callback never reaches enqueue through a null instance.             *)
InstanceOutlivesCallback == callback # NoFrame => instance

(* "Drop any queued frames received before stop()": a frame of an earlier  *)
(* session never waits in the queue of a later one, where loop() would     *)
(* dispatch it as if it had just arrived.                                  *)
NoStaleFrame ==
  mainPc = "idle" =>
    /\ \A f \in ToSet(incoming) : f.session = session
    /\ ~running => incoming = <<>>

(* Commands are dispatched in the order the radio delivered them, none     *)
(* twice (a replayed set_motor would re-arm the deadman).                  *)
InOrderOnce ==
  \A i \in 1..(Len(dispatched) - 1) : dispatched[i] < dispatched[i + 1]

(* Every frame let through is dispatched, or dropped by a stop().          *)
Answered ==
  \A i \in 1..MaxFrames :
    received >= i ~> (i \in ToSet(dispatched) \/ i \in dropped)

(* stop() is not followed by the dispatch of a frame received before it.   *)
NoDispatchWhenStopped == [][dispatched' # dispatched => running]_vars
=============================================================================
