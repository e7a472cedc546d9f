---------------------------- MODULE EspNowProofs ----------------------------
(***************************************************************************)
(* Theorems about EspNowTransport, for any number of frames and sessions.  *)
(* The first two assume that unregistering the callback waits for a        *)
(* running one, without which both are false.                              *)
(***************************************************************************)
EXTENDS EspNowTransport, TLAPS

(* How the flags of the two tasks follow each other through begin() and    *)
(* stop(): the callback runs only while registered, frames are queued only *)
(* of the running session, and what a session leaves is cleared before the *)
(* main task is idle again.                                                *)
FlagsInv ==
  /\ mainPc \in Steps
  /\ registered => instance /\ mainPc \in {"idle", "running", "forget"}
  /\ callback # NoFrame => registered /\ callback.session = session
  /\ mainPc = "idle" => (registered <=> running)
  /\ mainPc = "register" => ~registered /\ ~running /\ instance
  /\ mainPc = "running" => registered
  /\ mainPc \in {"stopped", "clear"} => ~registered
  /\ mainPc = "clear" => ~running

QueueInv ==
  /\ incoming \in Seq(Frame)
  /\ \A i \in 1..Len(incoming) : incoming[i].session = session
  /\ ~registered /\ mainPc \in {"idle", "register"} => incoming = <<>>
  /\ callback \in Frame

(* What the handlers do when they are asked to bring the transport up or   *)
(* down: nothing else than the next program counter and the instance.      *)
LEMMA CallsStep ==
  ASSUME CallBegin \/ (CallStop /\ UNCHANGED instance)
  PROVE  \/ UNCHANGED <<mainPc, instance>>
         \/ ~running /\ instance' = TRUE /\ mainPc' = "register"
         \/ running /\ mainPc' = "forget" /\ UNCHANGED instance
BY DEF CallBegin, CallStop

LEMMA FlagsStep ==
  ASSUME CallbackEnds, FlagsInv, [Next]_vars
  PROVE  FlagsInv'
<1> USE DEF FlagsInv, Steps, radioVars, queueVars, history
<1>1. ASSUME NEW kind \in Kinds, Receive(kind) PROVE FlagsInv'
  BY <1>1 DEF Receive
<1>2. CASE Enqueue
  BY <1>2 DEF Enqueue
<1>3. CASE BeginRegister
  BY <1>3 DEF BeginRegister
<1>4. CASE BeginRunning
  BY <1>4 DEF BeginRunning
<1>5. CASE StopUnregister
  BY <1>5, CallbackEnds DEF StopUnregister
<1>6. CASE StopForget
  BY <1>6 DEF StopForget
<1>7. CASE StopRunning
  BY <1>7 DEF StopRunning
<1>8. CASE StopClear
  BY <1>8 DEF StopClear
<1>9. CASE LoopDrain \/ LoopEnd
  BY <1>9 DEF LoopDrain, LoopEnd
<1>10. CASE Dispatch
  <2>1. CallBegin \/ (CallStop /\ UNCHANGED instance) \/ UNCHANGED <<mainPc, instance>>
    BY <1>10 DEF Dispatch
  <2>2. UNCHANGED <<running, registered, callback, session>> /\ mainPc = "idle"
    BY <1>10 DEF Dispatch
  <2> QED
    BY <2>1, <2>2, CallsStep
<1>11. CASE BeginFromElsewhere
  <2>1. UNCHANGED <<running, registered, callback, session>> /\ mainPc = "idle"
    BY <1>11 DEF BeginFromElsewhere
  <2>2. CallBegin
    BY <1>11 DEF BeginFromElsewhere
  <2> QED
    BY <2>1, <2>2, CallsStep
<1>12. CASE StopFromElsewhere
  BY <1>12 DEF StopFromElsewhere, CallStop
<1>13. CASE UNCHANGED vars
  BY <1>13 DEF vars
<1> QED
  BY <1>1, <1>2, <1>3, <1>4, <1>5, <1>6, <1>7, <1>8, <1>9, <1>10, <1>11, <1>12, <1>13
  DEF Next, MainTask

LEMMA QueueStep ==
  ASSUME CallbackEnds, FlagsInv, QueueInv, received \in Nat, session \in Nat, [Next]_vars
  PROVE  QueueInv'
<1> USE DEF QueueInv, radioVars, queueVars, history
<1>1. ASSUME NEW kind \in Kinds, Receive(kind) PROVE QueueInv'
  BY <1>1 DEF Receive, Frame
<1>2. CASE Enqueue
  <2>1. callback.session = session /\ registered
    BY <1>2 DEF Enqueue, FlagsInv
  <2>2. callback' \in Frame
    BY <1>2 DEF Enqueue, NoFrame, Frame, Kinds
  <2> QED
    BY <1>2, <2>1, <2>2 DEF Enqueue
<1>3. CASE BeginRegister
  BY <1>3 DEF BeginRegister, FlagsInv
<1>4. CASE BeginRunning
  BY <1>4 DEF BeginRunning, FlagsInv
<1>5. CASE StopUnregister
  BY <1>5 DEF StopUnregister
<1>6. CASE StopForget \/ StopRunning
  BY <1>6 DEF StopForget, StopRunning
<1>7. CASE StopClear
  BY <1>7 DEF StopClear
<1>8. CASE LoopDrain \/ LoopEnd
  <2>1. UNCHANGED <<callback, session, registered, mainPc>>
    BY <1>8 DEF LoopDrain, LoopEnd
  <2>2. CASE incoming' = incoming
    BY <2>1, <2>2
  <2>3. CASE incoming' = <<>>
    BY <2>1, <2>3
  <2> QED
    BY <1>8, <2>2, <2>3 DEF LoopDrain, LoopEnd
<1>9. CASE Dispatch
  <2>1. UNCHANGED <<incoming, callback, session, registered, running>> /\ mainPc = "idle"
    BY <1>9 DEF Dispatch
  <2> QED
    BY <2>1
<1>10. CASE BeginFromElsewhere \/ StopFromElsewhere
  <2>1. UNCHANGED <<incoming, callback, session, registered, running>> /\ mainPc = "idle"
    BY <1>10 DEF BeginFromElsewhere, StopFromElsewhere
  <2> QED
    BY <2>1
<1>11. CASE UNCHANGED vars
  BY <1>11 DEF vars
<1> QED
  BY <1>1, <1>2, <1>3, <1>4, <1>5, <1>6, <1>7, <1>8, <1>9, <1>10, <1>11 DEF Next, MainTask

(* The history counters only ever count up.                                *)
LEMMA CountersStep ==
  ASSUME received \in Nat, session \in Nat, [Next]_vars
  PROVE  received' \in Nat /\ session' \in Nat
BY DEF Next, MainTask, vars, radioVars, queueVars, history, Receive, Enqueue, BeginRegister,
       BeginRunning, StopUnregister, StopForget, StopRunning, StopClear, LoopDrain, LoopEnd,
       Dispatch, BeginFromElsewhere, StopFromElsewhere

LEMMA EspNowInvariant ==
  ASSUME CallbackEnds
  PROVE  Spec => [](FlagsInv /\ QueueInv)
<1> DEFINE Counters == received \in Nat /\ session \in Nat
<1>1. Init => FlagsInv /\ QueueInv /\ Counters
  <2>1. NoFrame \in Frame
    BY DEF NoFrame, Frame, Kinds
  <2>2. Init => FlagsInv
    BY DEF Init, FlagsInv, Steps
  <2>3. Init => QueueInv /\ Counters
    BY <2>1 DEF Init, QueueInv
  <2> QED
    BY <2>2, <2>3
<1>2. FlagsInv /\ QueueInv /\ Counters /\ [Next]_vars => (FlagsInv /\ QueueInv /\ Counters)'
  BY CallbackEnds, FlagsStep, QueueStep, CountersStep
<1> QED
  BY <1>1, <1>2, PTL DEF Spec

(* The callback never runs without an instance to enqueue into.            *)
THEOREM InstanceOutlivesCallbackHolds ==
  ASSUME CallbackEnds
  PROVE  Spec => []InstanceOutlivesCallback
<1>1. FlagsInv /\ QueueInv => InstanceOutlivesCallback
  BY DEF FlagsInv, InstanceOutlivesCallback
<1>2. Spec => [](FlagsInv /\ QueueInv)
  BY CallbackEnds, EspNowInvariant
<1> QED
  BY <1>1, <1>2, PTL

(* No frame of an earlier session is ever waiting in the queue of a later  *)
(* one, and a stopped transport keeps none.                                *)
THEOREM NoStaleFrameHolds ==
  ASSUME CallbackEnds
  PROVE  Spec => []NoStaleFrame
<1>1. FlagsInv /\ QueueInv => NoStaleFrame
  BY DEF FlagsInv, QueueInv, NoStaleFrame, ToSet
<1>2. Spec => [](FlagsInv /\ QueueInv)
  BY CallbackEnds, EspNowInvariant
<1> QED
  BY <1>1, <1>2, PTL

-----------------------------------------------------------------------------
(* The order of the frames.  Four queues stand one behind the other: what  *)
(* is dispatched, the batch, the queue, and the frame in the callback.     *)
NextId == IF callback = NoFrame THEN received + 1 ELSE callback.id

QueueTypes ==
  /\ dispatched \in Seq(Nat) /\ drained \in Seq(Frame) /\ incoming \in Seq(Frame)
  /\ callback \in Frame /\ received \in Nat /\ session \in Nat

InOrder(s) == \A i, j \in 1..Len(s) : i < j => s[i].id < s[j].id
Below(n, s) == \A j \in 1..Len(s) : n < s[j].id
Under(s, n) == \A i \in 1..Len(s) : s[i].id < n

OrderInv ==
  /\ QueueTypes
  /\ ~looping => drained = <<>>
  /\ callback # NoFrame => callback.id = received
  /\ InOrder(drained) /\ InOrder(incoming)
  /\ \A i \in 1..Len(drained) : Below(drained[i].id, incoming)
  /\ \A i, j \in 1..Len(dispatched) : i < j => dispatched[i] < dispatched[j]
  /\ \A i \in 1..Len(dispatched) :
       Below(dispatched[i], drained) /\ Below(dispatched[i], incoming) /\ dispatched[i] < NextId
  /\ Under(drained, NextId) /\ Under(incoming, NextId)

LEMMA FrameIds == \A s \in Seq(Frame) : \A i \in 1..Len(s) : s[i] \in Frame /\ s[i].id \in Nat
<1>1. \A s \in Seq(Frame) : \A i \in 1..Len(s) : s[i] \in Frame
  OBVIOUS
<1>2. \A f \in Frame : f.id \in Nat
  BY DEF Frame
<1> QED
  BY <1>1, <1>2

LEMMA ReceiveInOrder ==
  ASSUME OrderInv, NEW kind \in Kinds, Receive(kind)
  PROVE  OrderInv'
<1> USE DEF OrderInv, QueueTypes, Receive, queueVars, history
<1>1. callback' \in Frame /\ callback' # NoFrame /\ callback'.id = received'
  BY DEF Frame, NoFrame
<1>2. NextId' = NextId
  BY <1>1 DEF NextId
<1> QED
  BY <1>1, <1>2 DEF InOrder, Below, Under

LEMMA EnqueueInOrder ==
  ASSUME OrderInv, Enqueue
  PROVE  OrderInv'
<1>1. QueueTypes /\ callback # NoFrame /\ callback.id = received
  BY DEF OrderInv, Enqueue
<1>2. /\ incoming' = Append(incoming, callback) /\ callback' = NoFrame
      /\ UNCHANGED <<dispatched, drained, received, session, looping>>
  BY DEF Enqueue, history
<1>3. NextId = received /\ NextId' = received + 1 /\ received \in Nat
  BY <1>1, <1>2 DEF NextId, QueueTypes
<1>4. QueueTypes'
  BY <1>1, <1>2 DEF QueueTypes, Frame, NoFrame, Kinds
<1>5. /\ Len(incoming) \in Nat /\ Len(incoming') = Len(incoming) + 1
      /\ \A i \in 1..Len(incoming) : incoming'[i] = incoming[i]
      /\ incoming'[Len(incoming) + 1].id = received
  BY <1>1, <1>2 DEF QueueTypes
<1>6. \A j \in 1..Len(incoming') :
        \/ j \in 1..Len(incoming) /\ incoming'[j] = incoming[j]
        \/ j = Len(incoming) + 1 /\ incoming'[j].id = received
  BY <1>5
<1>7. /\ \A i \in 1..Len(incoming) : incoming[i].id \in Nat
      /\ \A i \in 1..Len(drained) : drained[i].id \in Nat
  BY <1>1, FrameIds DEF QueueTypes
<1>8. \A i \in 1..Len(dispatched) : dispatched[i] \in Nat
  BY <1>1 DEF QueueTypes
<1>9. /\ InOrder(drained) /\ InOrder(incoming)
      /\ \A i \in 1..Len(incoming) : incoming[i].id < received
      /\ \A i \in 1..Len(drained) : drained[i].id < received
      /\ \A i \in 1..Len(dispatched) :
           Below(dispatched[i], drained) /\ Below(dispatched[i], incoming)
             /\ dispatched[i] < received
      /\ \A i \in 1..Len(drained) : Below(drained[i].id, incoming)
      /\ \A i, j \in 1..Len(dispatched) : i < j => dispatched[i] < dispatched[j]
  BY <1>3 DEF OrderInv, Under
<1>10. InOrder(incoming')
  <2> SUFFICES ASSUME NEW i \in 1..Len(incoming'), NEW j \in 1..Len(incoming'), i < j
               PROVE  incoming'[i].id < incoming'[j].id
    BY DEF InOrder
  <2>1. i \in 1..Len(incoming) /\ incoming'[i] = incoming[i]
    BY <1>5, <1>6
  <2> QED
    BY <1>6, <1>9, <2>1 DEF InOrder
<1>11. \A n \in Nat : Below(n, incoming) /\ n < received => Below(n, incoming')
  BY <1>6 DEF Below
<1>12. Under(incoming', NextId') /\ Under(drained, NextId')
  BY <1>3, <1>6, <1>7, <1>9 DEF Under
<1>13. \A i \in 1..Len(drained) : Below(drained[i].id, incoming')
  BY <1>7, <1>9, <1>11
<1>14. \A i \in 1..Len(dispatched) :
         Below(dispatched[i], drained) /\ Below(dispatched[i], incoming')
           /\ dispatched[i] < NextId'
  BY <1>3, <1>8, <1>9, <1>11
<1>15. ~looping => drained = <<>>
  BY DEF OrderInv
<1> QED
  BY <1>2, <1>4, <1>9, <1>10, <1>12, <1>13, <1>14, <1>15
  DEF OrderInv, InOrder, Below, Under

LEMMA DrainInOrder ==
  ASSUME OrderInv, LoopDrain
  PROVE  OrderInv'
<1> USE DEF OrderInv, QueueTypes, LoopDrain, radioVars, history
<1>1. NextId' = NextId
  BY DEF NextId
<1>2. drained' = incoming /\ incoming' = <<>> /\ Len(incoming') = 0
  OBVIOUS
<1> QED
  BY <1>1, <1>2 DEF InOrder, Below, Under

LEMMA DispatchInOrder ==
  ASSUME OrderInv, Dispatch
  PROVE  OrderInv'
<1>1. /\ drained # <<>> /\ drained' = Tail(drained) /\ looping
      /\ dispatched' = Append(dispatched, drained[1].id)
      /\ UNCHANGED <<callback, received, incoming, looping, session>>
  BY DEF Dispatch, radioVars, OrderInv, QueueTypes
<1>2. QueueTypes /\ NextId' = NextId
  BY <1>1 DEF NextId, OrderInv
<1>3. 1 \in 1..Len(drained)
  BY <1>1, <1>2 DEF QueueTypes
<1>4. /\ \A i \in 1..Len(drained) : drained[i].id \in Nat
      /\ \A i \in 1..Len(incoming) : incoming[i].id \in Nat
  BY <1>2, FrameIds DEF QueueTypes
<1>5. \A i \in 1..Len(dispatched) : dispatched[i] \in Nat
  BY <1>2 DEF QueueTypes
<1>6. /\ drained' \in Seq(Frame) /\ Len(drained) \in Nat /\ Len(drained') = Len(drained) - 1
      /\ \A j \in 1..Len(drained') : j + 1 \in 1..Len(drained) /\ drained'[j] = drained[j + 1]
  BY <1>1, <1>2 DEF QueueTypes
<1>7. /\ dispatched' \in Seq(Nat) /\ Len(dispatched) \in Nat
      /\ Len(dispatched') = Len(dispatched) + 1
      /\ \A i \in 1..Len(dispatched) : dispatched'[i] = dispatched[i]
      /\ dispatched'[Len(dispatched) + 1] = drained[1].id
  BY <1>1, <1>2, <1>3, <1>4 DEF QueueTypes
<1>8. \A i \in 1..Len(dispatched') :
        \/ i \in 1..Len(dispatched) /\ dispatched'[i] = dispatched[i]
        \/ i = Len(dispatched) + 1 /\ dispatched'[i] = drained[1].id
  BY <1>7
<1>9. /\ InOrder(drained) /\ InOrder(incoming) /\ Under(drained, NextId)
      /\ \A i \in 1..Len(drained) : Below(drained[i].id, incoming)
      /\ \A i, j \in 1..Len(dispatched) : i < j => dispatched[i] < dispatched[j]
      /\ \A i \in 1..Len(dispatched) :
           Below(dispatched[i], drained) /\ Below(dispatched[i], incoming)
             /\ dispatched[i] < NextId
  BY DEF OrderInv
<1>10. InOrder(drained')
  <2> SUFFICES ASSUME NEW i \in 1..Len(drained'), NEW j \in 1..Len(drained'), i < j
               PROVE  drained'[i].id < drained'[j].id
    BY DEF InOrder
  <2> QED
    BY <1>6, <1>9 DEF InOrder
<1>11. Under(drained', NextId) /\ \A i \in 1..Len(drained') : Below(drained'[i].id, incoming)
  BY <1>6, <1>9 DEF Under
<1>12. Below(drained[1].id, drained')
  <2> SUFFICES ASSUME NEW j \in 1..Len(drained') PROVE drained[1].id < drained'[j].id
    BY DEF Below
  <2>1. j + 1 \in 1..Len(drained) /\ drained'[j] = drained[j + 1] /\ 1 < j + 1
    BY <1>6
  <2> QED
    BY <1>3, <1>9, <2>1 DEF InOrder
<1>13. \A i \in 1..Len(dispatched) : Below(dispatched[i], drained') /\ dispatched[i] < drained[1].id
  BY <1>3, <1>6, <1>9 DEF Below
<1>14. \A i, j \in 1..Len(dispatched') : i < j => dispatched'[i] < dispatched'[j]
  <2> SUFFICES ASSUME NEW i \in 1..Len(dispatched'), NEW j \in 1..Len(dispatched'), i < j
               PROVE  dispatched'[i] < dispatched'[j]
    OBVIOUS
  <2>1. i \in 1..Len(dispatched) /\ dispatched'[i] = dispatched[i]
    BY <1>7, <1>8
  <2>2. CASE j \in 1..Len(dispatched) /\ dispatched'[j] = dispatched[j]
    BY <1>9, <2>1, <2>2
  <2>3. CASE dispatched'[j] = drained[1].id
    BY <1>13, <2>1, <2>3
  <2> QED
    BY <1>8, <2>2, <2>3
<1>15. \A i \in 1..Len(dispatched') :
         Below(dispatched'[i], drained') /\ Below(dispatched'[i], incoming)
           /\ dispatched'[i] < NextId
  BY <1>3, <1>8, <1>9, <1>12, <1>13 DEF Under
<1>16. callback # NoFrame => callback.id = received
  BY DEF OrderInv
<1>17. QueueTypes'
  BY <1>1, <1>2, <1>6, <1>7 DEF QueueTypes
<1>18. Under(incoming, NextId)
  BY DEF OrderInv
<1> QED
  BY <1>1, <1>2, <1>9, <1>10, <1>11, <1>14, <1>15, <1>16, <1>17, <1>18
  DEF OrderInv, InOrder, Below, Under

(* The steps that leave the frames alone, or drop the queue.               *)
LEMMA OthersInOrder ==
  ASSUME OrderInv, session' \in Nat,
         UNCHANGED <<dispatched, drained, callback, received>>,
         incoming' = incoming \/ incoming' = <<>>,
         looping' = looping \/ drained = <<>>
  PROVE  OrderInv'
<1>1. NextId' = NextId
  BY DEF NextId
<1>2. QueueTypes' /\ (~looping' => drained' = <<>>)
  <2>1. QueueTypes /\ (~looping => drained = <<>>)
    BY DEF OrderInv
  <2>2. <<>> \in Seq(Frame)
    OBVIOUS
  <2>3. incoming' \in Seq(Frame)
    BY <2>1, <2>2 DEF QueueTypes
  <2>4. ~looping' => drained' = <<>>
    BY <2>1, Zenon
  <2> QED
    BY <2>1, <2>3, <2>4 DEF QueueTypes
<1>3. CASE incoming' = incoming
  BY <1>1, <1>2, <1>3 DEF OrderInv, InOrder, Below, Under
<1>4. CASE incoming' = <<>>
  BY <1>1, <1>2, <1>4 DEF OrderInv, InOrder, Below, Under
<1> QED
  BY <1>3, <1>4

(* Frames are dispatched in the order in which the radio delivered them,   *)
(* none twice, through any begin() and stop(), and even if unregistering   *)
(* does not wait for the callback.                                         *)
THEOREM DispatchedInOrder == Spec => []InOrderOnce
<1>1. Init => OrderInv
  <2> SUFFICES ASSUME Init PROVE OrderInv
    OBVIOUS
  <2>1. QueueTypes
    BY DEF Init, QueueTypes, NoFrame, Frame, Kinds
  <2> QED
    BY <2>1 DEF Init, OrderInv, InOrder, Below, Under
<1>2. OrderInv /\ [Next]_vars => OrderInv'
  <2> SUFFICES ASSUME OrderInv, [Next]_vars PROVE OrderInv'
    OBVIOUS
  <2> USE DEF radioVars, queueVars, history
  <2>1. CASE \E kind \in Kinds : Receive(kind)
    BY <2>1, ReceiveInOrder
  <2>2. CASE Enqueue
    BY <2>2, EnqueueInOrder
  <2>3. CASE LoopDrain
    BY <2>3, DrainInOrder
  <2>4. CASE Dispatch
    BY <2>4, DispatchInOrder
  <2>5. session \in Nat
    BY DEF OrderInv, QueueTypes
  <2>6. CASE BeginRegister \/ BeginRunning \/ StopUnregister \/ StopForget \/ StopRunning
             \/ StopClear \/ LoopEnd
    BY <2>5, <2>6, OthersInOrder DEF BeginRegister, BeginRunning, StopUnregister, StopForget,
       StopRunning, StopClear, LoopEnd
  <2>7. CASE BeginFromElsewhere \/ StopFromElsewhere
    BY <2>5, <2>7, OthersInOrder DEF BeginFromElsewhere, StopFromElsewhere
  <2>8. CASE UNCHANGED vars
    BY <2>5, <2>8, OthersInOrder DEF vars
  <2> QED
    BY <2>1, <2>2, <2>3, <2>4, <2>6, <2>7, <2>8 DEF Next, MainTask
<1>3. OrderInv => InOrderOnce
  BY DEF OrderInv, QueueTypes, InOrderOnce
<1> QED
  BY <1>1, <1>2, <1>3, PTL DEF Spec
=============================================================================
