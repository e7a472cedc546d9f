-------------------------- MODULE WebClientProofs --------------------------
(***************************************************************************)
(* Theorems about the two queues of the web client: WsClient, for any      *)
(* number of requests, lost sockets and replies to other clients, and      *)
(* SessionLog, for all sizes of the buffer and any number of events and    *)
(* failures.                                                               *)
(***************************************************************************)
EXTENDS WsClient, SessionLog, SequenceTheorems, FiniteSetTheorems, TLAPS

(* A reply leaves the queue of requests as it joins the queue of replies.  *)
LEMMA ServedStaysInLine ==
  ASSUME NEW S, NEW p \in Seq(S), NEW r \in Seq(S), r # <<>>
  PROVE  Append(p, Head(r)) \o Tail(r) = p \o r
<1>1. Head(r) \in S /\ Tail(r) \in Seq(S)
  BY HeadTailProperties
<1>2. r = <<Head(r)>> \o Tail(r)
  BY <1>1
<1>3. Append(p, Head(r)) = p \o <<Head(r)>>
  BY <1>1, AppendIsConcat
<1>4. <<Head(r)>> \in Seq(S)
  BY <1>1
<1>5. (p \o <<Head(r)>>) \o Tail(r) = p \o (<<Head(r)>> \o Tail(r))
  BY <1>1, <1>4, ConcatAssociative
<1> QED
  BY <1>2, <1>3, <1>5

(* What joins one queue at its end joins the two in a row at their end.    *)
LEMMA SentJoinsLine ==
  ASSUME NEW S, NEW p \in Seq(S), NEW r \in Seq(S), NEW e \in S
  PROVE  p \o Append(r, e) = Append(p \o r, e)
<1>1. p \o r \in Seq(S) /\ <<e>> \in Seq(S)
  BY ConcatProperties
<1>2. Append(r, e) = r \o <<e>> /\ Append(p \o r, e) = (p \o r) \o <<e>>
  BY <1>1, AppendIsConcat
<1> QED
  BY <1>1, <1>2, ConcatAssociative

(* The oldest of the two queues in a row is the oldest of the first.       *)
LEMMA FirstOfLine ==
  ASSUME NEW S, NEW p \in Seq(S), NEW r \in Seq(S), p # <<>>
  PROVE  /\ p \o r # <<>>
         /\ Head(p \o r) = Head(p)
         /\ Tail(p \o r) = Tail(p) \o r
<1>1. p = <<Head(p)>> \o Tail(p) /\ Head(p) \in S /\ Tail(p) \in Seq(S)
  BY HeadTailProperties
<1>2. p \o r \in Seq(S) /\ Len(p \o r) = Len(p) + Len(r) /\ Len(p) > 0
  BY ConcatProperties
<1>3. p \o r # <<>> /\ Head(p \o r) = Head(p)
  BY <1>2, ConcatProperties
<1>4. Tail(p \o r) \in Seq(S) /\ Tail(p) \o r \in Seq(S)
  BY <1>1, <1>2, <1>3, HeadTailProperties, ConcatProperties
<1>5. Len(Tail(p \o r)) = Len(Tail(p) \o r)
  BY <1>1, <1>2, <1>3, HeadTailProperties, ConcatProperties
<1>6. ASSUME NEW i \in 1..Len(Tail(p \o r))
      PROVE  Tail(p \o r)[i] = (Tail(p) \o r)[i]
  BY <1>1, <1>2, <1>3, <1>5, HeadTailProperties, ConcatProperties
<1> QED
  BY <1>3, <1>4, <1>5, <1>6, SeqEqual

-----------------------------------------------------------------------------
(* A reconnect is only ever due without a socket and before the page has   *)
(* left: this is why no resolver is lost when the next socket comes, and   *)
(* why a page that left stays away.                                        *)
ReconnectInv == reconnect => sock = "none" /\ alive

(* A resolver, a request and a reply are those of requests that were sent. *)
LEMMA TypeStep == TypeOK /\ ReconnectInv /\ LeftForGood /\ [Next]_vars
                    => TypeOK' /\ ReconnectInv' /\ LeftForGood'
<1> USE BoundsAssumption, TimeoutAssumption
<1> SUFFICES ASSUME TypeOK, ReconnectInv, LeftForGood, [Next]_vars
             PROVE  TypeOK' /\ ReconnectInv' /\ LeftForGood'
  OBVIOUS
<1> USE DEF TypeOK, ReconnectInv, LeftForGood, Ids, sockVars, wire, requestVars
<1>1. CASE Open
  BY <1>1 DEF Open
<1>2. CASE OnClose
  <2>1. status' \in [Ids -> {"unsent", "waiting", "replied", "timeout", "disconnected", "rejected"}]
    BY <1>2 DEF OnClose, AnswerAllDisconnected
  <2>2. pending' = <<>> /\ toRover' = <<>> /\ toPage' = <<>> /\ slipped' = FALSE
    BY <1>2 DEF OnClose, AnswerAllDisconnected, SocketGone
  <2>9. <<>> \in Seq(Ids) /\ <<>> \in Seq(0..MaxRequests)
    OBVIOUS
  <2>10. slipped' \in BOOLEAN
    BY <2>2
  <2> HIDE DEF Ids
  <2>3. losses' \in 0..MaxLosses
    BY <1>2 DEF OnClose, SocketGone
  <2>4. sock' = "none" /\ (reconnect' <=> alive) /\ (alive' <=> alive)
    BY <1>2 DEF OnClose, SocketGone
  <2>5. reconnect' \in BOOLEAN /\ alive' \in BOOLEAN
    BY <1>2 DEF OnClose, SocketGone
  <2>6. UNCHANGED <<foreign, sent, forgotten, answer>>
    BY <1>2 DEF OnClose, SocketGone
  <2>7. TypeOK'
    BY <2>1, <2>2, <2>3, <2>4, <2>5, <2>6, <2>9, <2>10
  <2>8. ReconnectInv' /\ LeftForGood'
    BY <2>4
  <2> QED
    BY <2>7, <2>8
<1>3. CASE Connect
  BY <1>3 DEF Connect
<1>4. CASE Disconnect
  BY <1>4 DEF Disconnect
<1>5. ASSUME NEW forget \in BOOLEAN, Send(forget)
      PROVE  TypeOK' /\ ReconnectInv' /\ LeftForGood'
  <2>1. NextId \in Ids /\ sent' = NextId /\ sent' \in 0..MaxRequests /\ forgotten' \subseteq Ids
    BY <1>5 DEF Send, CallSend, NextId
  <2> HIDE DEF Ids
  <2>2. CASE Refuse
    <3>2. status' = [status EXCEPT ![NextId] = "rejected"]
      BY <2>2 DEF Refuse
    <3>3. status \in [Ids -> {"unsent", "waiting", "replied", "timeout", "disconnected", "rejected"}]
      OBVIOUS
    <3>1. status' \in [Ids -> {"unsent", "waiting", "replied", "timeout", "disconnected", "rejected"}]
      <4> HIDE DEF TypeOK
      <4> QED
        BY <2>1, <3>2, <3>3
    <3>4. UNCHANGED <<sock, alive, reconnect, losses, toRover, toPage, foreign, slipped, pending, answer>>
      BY <2>2 DEF Refuse
    <3>5. TypeOK'
      BY <2>1, <3>1, <3>4
    <3>6. ReconnectInv' /\ LeftForGood'
      BY <3>4
    <3> QED
      BY <3>5, <3>6
  <2>3. CASE Transmit /\ pending' = Append(pending, NextId)
    <3>1. toRover' \in Seq(Ids) /\ pending' \in Seq(Ids)
      BY <2>1, <2>3 DEF Transmit
    <3>3. status' = [status EXCEPT ![NextId] = "waiting"]
      BY <2>3 DEF Transmit
    <3>4. status \in [Ids -> {"unsent", "waiting", "replied", "timeout", "disconnected", "rejected"}]
      OBVIOUS
    <3>2. status' \in [Ids -> {"unsent", "waiting", "replied", "timeout", "disconnected", "rejected"}]
      <4> HIDE DEF TypeOK
      <4> QED
        BY <2>1, <3>3, <3>4
    <3>5. sock = "open" /\ UNCHANGED <<sock, alive, reconnect, losses, toPage, foreign, slipped, answer>>
      BY <2>3 DEF Transmit
    <3>6. TypeOK'
      BY <2>1, <3>1, <3>2, <3>5
    <3>7. ReconnectInv' /\ LeftForGood'
      BY <3>5
    <3> QED
      BY <3>6, <3>7
  <2> QED
    BY <1>5, <2>2, <2>3 DEF Send
<1>6. CASE Serve
  <2>1. toRover # <<>> /\ toRover' = Tail(toRover) /\ toPage' = Append(toPage, Head(toRover))
    BY <1>6 DEF Serve
  <2>2. Head(toRover) \in 0..MaxRequests
    BY <2>1
  <2>3. toRover' \in Seq(Ids) /\ toPage' \in Seq(0..MaxRequests)
    BY <2>1, <2>2
  <2> HIDE DEF Ids
  <2> QED
    BY <1>6, <2>3 DEF Serve
<1>7. CASE ServeAnother
  BY <1>7 DEF ServeAnother
<1>8. CASE OnMessage
  <2>1. toPage' \in Seq(0..MaxRequests) /\ Head(toPage) \in 0..MaxRequests
    BY <1>8 DEF OnMessage
  <2>2. CASE pending = <<>>
    BY <1>8, <2>1, <2>2 DEF OnMessage
  <2>3. CASE pending # <<>>
    <3>0. pending' = Tail(pending)
      BY <1>8, <2>3 DEF OnMessage
    <3>1. pending' \in Seq(Ids) /\ Head(pending) \in Ids
      BY <2>3, <3>0, HeadTailProperties
    <3>2. status' = [status EXCEPT ![Head(pending)] = "replied"]
          /\ answer' = [answer EXCEPT ![Head(pending)] = Head(toPage)]
      BY <1>8, <2>3 DEF OnMessage
    <3>3. status' \in [Ids -> {"unsent", "waiting", "replied", "timeout", "disconnected", "rejected"}]
      BY <3>1, <3>2
    <3>4. answer' \in [Ids -> 0..MaxRequests]
      BY <2>1, <3>1, <3>2
    <3>5. sock = "open" /\ UNCHANGED <<toRover, foreign, slipped, sock, alive, reconnect, losses, sent, forgotten>>
      BY <1>8 DEF OnMessage
    <3>6. TypeOK'
      BY <2>1, <3>1, <3>3, <3>4, <3>5
    <3>7. ReconnectInv' /\ LeftForGood'
      BY <3>5
    <3> QED
      BY <3>6, <3>7
  <2> QED
    BY <2>2, <2>3
<1>9. CASE TimeOut
  <2>1. pending' \in Seq(Ids) /\ Head(pending) \in Ids
    BY <1>9 DEF TimeOut
  <2> QED
    BY <1>9, <2>1 DEF TimeOut
<1>10. CASE UNCHANGED vars
  BY <1>10 DEF vars
<1> QED
  BY <1>1, <1>2, <1>3, <1>4, <1>5, <1>6, <1>7, <1>8, <1>9, <1>10 DEF Next

LEMMA TypeInvariant == Spec => [](TypeOK /\ ReconnectInv /\ LeftForGood)
<1>1. Init => TypeOK /\ ReconnectInv /\ LeftForGood
  <2> SUFFICES ASSUME Init PROVE TypeOK /\ ReconnectInv /\ LeftForGood
    OBVIOUS
  <2>1. status \in [Ids -> {"unsent", "waiting", "replied", "timeout", "disconnected", "rejected"}]
    BY DEF Init
  <2>2. answer \in [Ids -> 0..MaxRequests]
    BY BoundsAssumption DEF Init
  <2>3. pending \in Seq(Ids) /\ toRover \in Seq(Ids) /\ toPage \in Seq(0..MaxRequests)
    BY DEF Init
  <2>4. sent \in 0..MaxRequests /\ losses \in 0..MaxLosses /\ foreign \in 0..MaxForeign
    BY BoundsAssumption DEF Init
  <2>5. /\ sock \in {"none", "connecting", "open", "closing"} /\ pending = <<>>
        /\ alive \in BOOLEAN /\ reconnect \in BOOLEAN /\ slipped \in BOOLEAN
        /\ forgotten \subseteq Ids
    BY DEF Init
  <2>6. alive /\ ~reconnect
    BY DEF Init
  <2> QED
    BY <2>1, <2>2, <2>3, <2>4, <2>5, <2>6 DEF TypeOK, ReconnectInv, LeftForGood
<1> QED
  BY <1>1, TypeStep, PTL DEF Spec

(* The state of the client is of its type.                                 *)
THEOREM TypeCorrect == Spec => []TypeOK
  BY TypeInvariant, PTL

(* A page that has called disconnect() never has a socket or a reconnect   *)
(* timer again, however its last socket ends.                              *)
THEOREM LeavesForGood == Spec => []LeftForGood
  BY TypeInvariant, PTL

-----------------------------------------------------------------------------
(* A step keeps the resolvers in step with the requests and the replies.   *)
LEMMA InStepStep == TypeOK /\ ReconnectInv /\ InStep /\ [Next]_vars => InStep'
<1> SUFFICES ASSUME TypeOK, ReconnectInv, InStep, [Next]_vars, ~slipped'
             PROVE  pending' = toPage' \o toRover'
  BY DEF InStep
<1> DEFINE S == 0..MaxRequests
<1>1. toPage \in Seq(S) /\ toRover \in Seq(S) /\ toRover \in Seq(Ids) /\ pending \in Seq(Ids)
  BY BoundsAssumption DEF TypeOK, Ids
<1>2. CASE OnClose
  <2>1. pending' = <<>> /\ toRover' = <<>> /\ toPage' = <<>>
    BY <1>2 DEF OnClose, AnswerAllDisconnected, SocketGone
  <2> QED
    BY <2>1
<1>3. CASE Serve
  <2>1. toRover # <<>> /\ toPage' = Append(toPage, Head(toRover)) /\ toRover' = Tail(toRover)
    BY <1>3 DEF Serve
  <2>2. pending' = pending /\ slipped' = slipped
    BY <1>3 DEF Serve, requestVars
  <2>3. toPage' \o toRover' = toPage \o toRover
    BY <1>1, <2>1, ServedStaysInLine
  <2> QED
    BY <2>2, <2>3 DEF InStep
<1>4. CASE OnMessage
  <2>1. toPage # <<>> /\ toPage' = Tail(toPage) /\ toRover' = toRover /\ slipped' = slipped
    BY <1>4 DEF OnMessage
  <2>2. pending = toPage \o toRover
    BY <2>1 DEF InStep
  <2>3. pending # <<>> /\ Tail(pending) = Tail(toPage) \o toRover
    BY <1>1, <2>1, <2>2, FirstOfLine
  <2>4. pending' = Tail(pending)
    BY <1>4, <2>3 DEF OnMessage
  <2> QED
    BY <2>1, <2>3, <2>4
<1>5. ASSUME NEW forget \in BOOLEAN, Send(forget)
      PROVE  pending' = toPage' \o toRover'
  <2>1. CASE Refuse
    BY <2>1 DEF Refuse, wire, InStep
  <2>2. CASE Transmit /\ pending' = Append(pending, NextId)
    <3>1. toPage' = toPage /\ toRover' = Append(toRover, NextId) /\ slipped' = slipped
      BY <2>2 DEF Transmit
    <3>2. NextId \in S
      BY <1>5, BoundsAssumption DEF Send, CallSend, NextId, TypeOK
    <3>3. toPage \o Append(toRover, NextId) = Append(toPage \o toRover, NextId)
      BY <1>1, <3>2, SentJoinsLine
    <3> QED
      BY <2>2, <3>1, <3>3 DEF InStep
  <2> QED
    BY <1>5, <2>1, <2>2 DEF Send
<1>6. CASE Open \/ Connect \/ Disconnect
  BY <1>6 DEF Open, Connect, Disconnect, wire, requestVars, InStep
<1>7. CASE ServeAnother
  BY <1>7 DEF ServeAnother
<1>8. CASE TimeOut
  BY <1>8 DEF TimeOut
<1>9. CASE UNCHANGED vars
  BY <1>9 DEF vars, wire, requestVars, InStep
<1> QED
  BY <1>2, <1>3, <1>4, <1>5, <1>6, <1>7, <1>8, <1>9 DEF Next

(* Over any number of requests, awaited or not, lost sockets and           *)
(* reconnections: the resolvers are those of the requests and replies on   *)
(* the way, in their order, as long as no request has timed out and no     *)
(* reply of another client has come on this socket.                        *)
THEOREM StaysInStep == Spec => []InStep
<1>1. Init => InStep
  BY DEF Init, InStep
<1> QED
  BY <1>1, InStepStep, TypeInvariant, PTL DEF Spec

-----------------------------------------------------------------------------
(* The premise of ws.js: no reply is late and no other client is served.   *)
InTime == ~MayTimeOut /\ MaxForeign = 0

(* Then no socket ever slips, and each reply is the one that was asked for.*)
LEMMA MatchStep ==
  ASSUME TypeOK, InStep, InTime, ~slipped, RepliesMatch, [Next]_vars
  PROVE  ~slipped' /\ RepliesMatch'
<1>1. CASE OnClose
  BY <1>1 DEF OnClose, AnswerAllDisconnected, SocketGone, RepliesMatch
<1>2. ASSUME NEW forget \in BOOLEAN, Send(forget)
      PROVE  ~slipped' /\ RepliesMatch'
  <2>1. NextId \in Ids
    BY <1>2, BoundsAssumption DEF Send, CallSend, NextId, TypeOK, Ids
  <2>4. status \in [Ids -> {"unsent", "waiting", "replied", "timeout", "disconnected", "rejected"}]
    BY DEF TypeOK
  <2>2. CASE Refuse
    BY <2>1, <2>2, <2>4 DEF Refuse, wire, RepliesMatch
  <2>3. CASE Transmit
    BY <2>1, <2>3, <2>4 DEF Transmit, RepliesMatch
  <2> QED
    BY <1>2, <2>2, <2>3 DEF Send
<1>3. CASE OnMessage
  <2>1. toPage # <<>> /\ slipped' = slipped
    BY <1>3 DEF OnMessage
  <2>2. toPage \in Seq(0..MaxRequests) /\ toRover \in Seq(0..MaxRequests)
    BY BoundsAssumption DEF TypeOK, Ids
  <2>3. pending # <<>> /\ Head(pending) = Head(toPage)
    BY <2>1, <2>2, FirstOfLine DEF InStep
  <2>4. /\ status' = [status EXCEPT ![Head(pending)] = "replied"]
        /\ answer' = [answer EXCEPT ![Head(pending)] = Head(toPage)]
    BY <1>3, <2>3 DEF OnMessage
  <2>5. /\ status \in [Ids -> {"unsent", "waiting", "replied", "timeout", "disconnected", "rejected"}]
        /\ answer \in [Ids -> 0..MaxRequests]
    BY DEF TypeOK
  <2>6. ASSUME NEW i \in Ids, status'[i] = "replied"
        PROVE  answer'[i] = i
    <3>1. CASE i = Head(pending)
      <4>1. answer'[i] = Head(toPage)
        BY <2>4, <2>5, <3>1
      <4> QED
        BY <2>3, <3>1, <4>1
    <3>2. CASE i # Head(pending)
      BY <2>4, <2>5, <2>6, <3>2 DEF RepliesMatch
    <3> QED
      BY <3>1, <3>2
  <2> QED
    BY <2>1, <2>6 DEF RepliesMatch
<1>4. CASE Open \/ Connect \/ Disconnect \/ Serve
  BY <1>4 DEF Open, Connect, Disconnect, Serve, wire, requestVars, RepliesMatch
<1>5. CASE ServeAnother
  <2>1. foreign < MaxForeign /\ MaxForeign = 0
    BY <1>5 DEF ServeAnother, InTime
  <2> QED
    BY <2>1 DEF TypeOK
<1>6. CASE TimeOut
  BY <1>6 DEF TimeOut, InTime
<1>7. CASE UNCHANGED vars
  BY <1>7 DEF vars, wire, requestVars, RepliesMatch
<1> QED
  BY <1>1, <1>2, <1>3, <1>4, <1>5, <1>6, <1>7 DEF Next

(* The premise of ws.js is enough: under it a promise is only ever         *)
(* resolved with the reply to its own request, whatever sockets are lost.  *)
THEOREM AnswersMatchInTime == Spec => [](InTime => RepliesMatch)
<1> DEFINE Inv == InTime => ~slipped /\ RepliesMatch
<1>1. Init => Inv
  BY DEF Init, RepliesMatch
<1>2. TypeOK /\ InStep /\ Inv /\ [Next]_vars => Inv'
  <2> SUFFICES ASSUME TypeOK, InStep, Inv, [Next]_vars, InTime
               PROVE  ~slipped' /\ RepliesMatch'
    BY DEF InTime
  <2>1. ~slipped /\ RepliesMatch
    OBVIOUS
  <2> QED
    BY <2>1, MatchStep
<1>3. Spec => []Inv
  <2> HIDE DEF Inv
  <2> QED
    BY <1>1, <1>2, TypeInvariant, StaysInStep, PTL DEF Spec
<1> QED
  BY <1>3, PTL DEF Inv

-----------------------------------------------------------------------------
(* The session logger.                                                     *)

Waiting == {r \in posts : r.waiting}

(* Where an event is that the page still answers for, or no longer has to. *)
Kept ==
  (UNION {ToSet(r.batch) : r \in Waiting})
    \union ToSet(buffer) \union Stored \union dropped \union entrusted

(* NothingLost leans on requests that nobody waits for; those may vanish.  *)
(* What does not vanish has the events too.                                *)
KeptInv ==
  /\ recorded \in 0..MaxEvents
  /\ buffer \in Seq(Events)
  /\ rows \in [Events -> Nat]
  /\ \A r \in posts : r.batch \in Seq(Events) /\ (r.stored => ToSet(r.batch) \subseteq Stored)
  /\ 1..recorded \subseteq Kept

-----------------------------------------------------------------------------
(* Sequences and their elements.                                           *)

LEMMA ToSetIs ==
  ASSUME NEW S, NEW s \in Seq(S)
  PROVE  ToSet(s) = {s[i] : i \in 1..Len(s)}
BY DEF ToSet

LEMMA ToSetConcat ==
  ASSUME NEW S, NEW s \in Seq(S), NEW t \in Seq(S)
  PROVE  /\ s \o t \in Seq(S)
         /\ ToSet(s \o t) = ToSet(s) \union ToSet(t)
<1>1. /\ s \o t \in Seq(S) /\ Len(s \o t) = Len(s) + Len(t)
      /\ \A i \in 1..Len(s) : (s \o t)[i] = s[i]
      /\ \A i \in 1..Len(t) : (s \o t)[Len(s) + i] = t[i]
  OBVIOUS
<1>2. \A i \in 1..Len(s \o t) :
        i \in 1..Len(s) \/ (i - Len(s) \in 1..Len(t) /\ i = Len(s) + (i - Len(s)))
  BY <1>1
<1>3. \A i \in 1..Len(t) : Len(s) + i \in 1..Len(s \o t)
  BY <1>1
<1>4. \A i \in 1..Len(s) : i \in 1..Len(s \o t)
  BY <1>1
<1>5. /\ ToSet(s) = {s[i] : i \in 1..Len(s)} /\ ToSet(t) = {t[i] : i \in 1..Len(t)}
      /\ ToSet(s \o t) = {(s \o t)[i] : i \in 1..Len(s \o t)}
  BY <1>1 DEF ToSet
<1>6. ToSet(s \o t) \subseteq ToSet(s) \union ToSet(t)
  <2> SUFFICES ASSUME NEW i \in 1..Len(s \o t) PROVE (s \o t)[i] \in ToSet(s) \union ToSet(t)
    BY <1>5
  <2> QED
    BY <1>1, <1>2, <1>5
<1>7. ToSet(s) \subseteq ToSet(s \o t)
  BY <1>1, <1>4, <1>5
<1>8. ToSet(t) \subseteq ToSet(s \o t)
  BY <1>1, <1>3, <1>5
<1> QED
  BY <1>1, <1>6, <1>7, <1>8

LEMMA ToSetAppend ==
  ASSUME NEW S, NEW s \in Seq(S), NEW e \in S
  PROVE  /\ Append(s, e) \in Seq(S)
         /\ ToSet(Append(s, e)) = ToSet(s) \union {e}
<1>1. /\ Append(s, e) \in Seq(S) /\ Len(Append(s, e)) = Len(s) + 1
      /\ \A i \in 1..Len(s) : Append(s, e)[i] = s[i]
      /\ Append(s, e)[Len(s) + 1] = e
  OBVIOUS
<1>2. \A i \in 1..Len(s) + 1 : i \in 1..Len(s) \/ i = Len(s) + 1
  OBVIOUS
<1> QED
  BY <1>1, <1>2 DEF ToSet

LEMMA ToSetCut ==
  ASSUME NEW S, NEW s \in Seq(S), NEW k \in 0..Len(s)
  PROVE  /\ SubSeq(s, k + 1, Len(s)) \in Seq(S)
         /\ ToSet(s) \subseteq ToSet(SubSeq(s, 1, k)) \union ToSet(SubSeq(s, k + 1, Len(s)))
<1>1. /\ SubSeq(s, 1, k) \in Seq(S) /\ Len(SubSeq(s, 1, k)) = k
      /\ \A i \in 1..k : SubSeq(s, 1, k)[i] = s[i]
  OBVIOUS
<1>2. /\ SubSeq(s, k + 1, Len(s)) \in Seq(S) /\ Len(SubSeq(s, k + 1, Len(s))) = Len(s) - k
      /\ \A i \in 1..Len(s) - k : SubSeq(s, k + 1, Len(s))[i] = s[k + i]
  OBVIOUS
<1>3. \A i \in 1..Len(s) : i \in 1..k \/ (i - k \in 1..Len(s) - k /\ i = k + (i - k))
  OBVIOUS
<1> DEFINE front == SubSeq(s, 1, k)
           back == SubSeq(s, k + 1, Len(s))
<1> HIDE DEF front, back
<1>4. /\ ToSet(s) = {s[i] : i \in 1..Len(s)}
      /\ ToSet(front) = {front[i] : i \in 1..Len(front)}
      /\ ToSet(back) = {back[i] : i \in 1..Len(back)}
  BY <1>1, <1>2, ToSetIs DEF front, back
<1>5. ASSUME NEW i \in 1..Len(s) PROVE s[i] \in ToSet(front) \union ToSet(back)
  <2>1. CASE i \in 1..k
    BY <1>1, <1>4, <2>1 DEF front
  <2>2. CASE i - k \in 1..Len(s) - k /\ i = k + (i - k)
    BY <1>2, <1>4, <2>2 DEF back
  <2> QED
    BY <1>3, <2>1, <2>2
<1> QED
  BY <1>2, <1>4, <1>5 DEF front, back

LEMMA CountCounts ==
  ASSUME NEW f \in [Events -> Nat], NEW s
  PROVE  /\ Count(f, s) \in [Events -> Nat]
         /\ \A e \in Events : Count(f, s)[e] >= f[e]
         /\ \A e \in Events : e \in ToSet(s) => Count(f, s)[e] > 0
BY DEF Count

-----------------------------------------------------------------------------
(* What keeps the events kept.                                             *)

(* A step that only takes requests away, or answers for their events.      *)
LEMMA KeptGrows ==
  ASSUME KeptInv, UNCHANGED recorded,
         buffer' \in Seq(Events), rows' \in [Events -> Nat],
         \A e \in Events : rows'[e] >= rows[e],
         \A r \in posts' : r.batch \in Seq(Events)
                           /\ (r.stored => ToSet(r.batch) \subseteq Stored'),
         ToSet(buffer) \subseteq Kept',
         \A r \in Waiting : ToSet(r.batch) \subseteq Kept',
         dropped \subseteq dropped', entrusted \subseteq entrusted'
  PROVE  KeptInv'
<1>1. Stored \subseteq Stored'
  BY DEF KeptInv, Stored
<1>2. Kept \subseteq Kept'
  BY <1>1 DEF Kept
<1> QED
  BY <1>2 DEF KeptInv

LEMMA StoredGrows ==
  ASSUME KeptInv, NEW s, rows' = Count(rows, s)
  PROVE  /\ rows' \in [Events -> Nat] /\ \A e \in Events : rows'[e] >= rows[e]
         /\ Stored \subseteq Stored' /\ (s \in Seq(Events) => ToSet(s) \subseteq Stored')
<1>1. /\ rows' \in [Events -> Nat]
      /\ \A e \in Events : rows'[e] >= rows[e]
      /\ \A e \in Events : e \in ToSet(s) => rows'[e] > 0
  BY CountCounts DEF KeptInv
<1>2. s \in Seq(Events) => ToSet(s) \subseteq Events
  BY DEF ToSet
<1>3. \A e \in Events : rows[e] \in Nat /\ rows'[e] \in Nat
  BY <1>1 DEF KeptInv
<1> QED
  BY <1>1, <1>2, <1>3 DEF Stored

(* flush: from the buffer into a request the page waits for.               *)
LEMMA FlushKeeps ==
  ASSUME KeptInv, NEW b \in Seq(Events), Flush(b), UNCHANGED rows
  PROVE  /\ buffer' \in Seq(Events)
         /\ \A r \in posts' : r.batch \in Seq(Events)
                              /\ (r.stored => ToSet(r.batch) \subseteq Stored')
         /\ Waiting \subseteq Waiting'
         /\ ToSet(b) \subseteq Kept'
<1>1. CASE buffer' = b /\ UNCHANGED posts
  BY <1>1 DEF KeptInv, Waiting, Kept, Stored
<1>2. CASE buffer' = <<>> /\ posts' = posts \union {Request(b, TRUE)}
  <2>1. Request(b, TRUE).batch = b /\ Request(b, TRUE).waiting /\ ~Request(b, TRUE).stored
    BY DEF Request
  <2>2. Request(b, TRUE) \in Waiting' /\ Waiting \subseteq Waiting'
    BY <1>2, <2>1 DEF Waiting
  <2>3. ToSet(b) \subseteq Kept'
    BY <2>1, <2>2 DEF Kept
  <2>4. Stored' = Stored
    BY DEF Stored
  <2>5. \A r \in posts' : r.batch \in Seq(Events) /\ (r.stored => ToSet(r.batch) \subseteq Stored')
    BY <1>2, <2>1, <2>4 DEF KeptInv
  <2>6. buffer' \in Seq(Events)
    BY <1>2
  <2> QED
    BY <2>2, <2>3, <2>5, <2>6
<1> QED
  BY <1>1, <1>2 DEF Flush

(* The catch block: what was in the batch or in the buffer is in the       *)
(* buffer again, or is dropped for good.                                   *)
LEMMA FailureKeeps ==
  ASSUME KeptInv, NEW r \in posts, FlushFails(r.batch)
  PROVE  /\ buffer' \in Seq(Events)
         /\ ToSet(buffer) \union ToSet(r.batch) \subseteq Kept'
         /\ dropped \subseteq dropped'
<1> DEFINE all == r.batch \o buffer
           excess == Len(all) - KeptBatches * MAX_BATCH
           over == IF excess > 0 THEN excess ELSE 0
<1>1. all \in Seq(Events) /\ ToSet(all) = ToSet(r.batch) \union ToSet(buffer)
  BY ToSetConcat DEF KeptInv
<1>2. KeptBatches * MAX_BATCH \in Nat
  <2>1. KeptBatches \in Nat /\ MAX_BATCH \in Nat
    BY LogAssumption
  <2> QED
    BY <2>1
<1>3. over \in 0..Len(all)
  BY <1>1, <1>2
<1>4. /\ buffer' = SubSeq(all, over + 1, Len(all))
      /\ dropped' = dropped \union ToSet(SubSeq(all, 1, over))
  BY DEF FlushFails
<1> HIDE DEF all, excess, over
<1>5. buffer' \in Seq(Events) /\ ToSet(all) \subseteq ToSet(buffer') \union dropped'
  BY <1>1, <1>3, <1>4, ToSetCut
<1> QED
  BY <1>1, <1>4, <1>5 DEF Kept

-----------------------------------------------------------------------------
LEMMA EventKeeps ==
  ASSUME KeptInv, event
  PROVE  KeptInv'
<1> DEFINE e == recorded + 1
           b == Append(buffer, e)
<1>1. /\ e \in Events /\ recorded' = e /\ e \in 0..MaxEvents
      /\ UNCHANGED <<rows, dropped, entrusted>>
  BY LogAssumption DEF event, KeptInv, Events
<1>2. b \in Seq(Events) /\ ToSet(b) = ToSet(buffer) \union {e}
  BY <1>1, ToSetAppend DEF KeptInv
<1>3. Flush(b) \/ (buffer' = b /\ UNCHANGED posts)
  BY DEF event
<1> HIDE DEF b
<1>4. /\ buffer' \in Seq(Events)
      /\ \A r \in posts' : r.batch \in Seq(Events)
                           /\ (r.stored => ToSet(r.batch) \subseteq Stored')
      /\ Waiting \subseteq Waiting'
      /\ ToSet(b) \subseteq Kept'
  <2>1. CASE Flush(b)
    BY <1>1, <1>2, <2>1, FlushKeeps
  <2>2. CASE buffer' = b /\ UNCHANGED posts
    BY <1>1, <1>2, <2>2 DEF KeptInv, Waiting, Kept, Stored
  <2> QED
    BY <1>3, <2>1, <2>2
<1>5. Kept \subseteq Kept'
  BY <1>1, <1>2, <1>4 DEF Kept, Stored
<1>6. 1..recorded' \subseteq 1..recorded \union {e}
  BY <1>1 DEF KeptInv
<1> QED
  BY <1>1, <1>2, <1>4, <1>5, <1>6 DEF KeptInv

LEMMA TimerKeeps ==
  ASSUME KeptInv, FlushTimer
  PROVE  KeptInv'
<1>1. Flush(buffer) /\ UNCHANGED <<rows, recorded, dropped, entrusted>> /\ buffer \in Seq(Events)
  BY DEF FlushTimer, history, KeptInv
<1>2. /\ buffer' \in Seq(Events)
      /\ \A r \in posts' : r.batch \in Seq(Events)
                           /\ (r.stored => ToSet(r.batch) \subseteq Stored')
      /\ Waiting \subseteq Waiting'
      /\ ToSet(buffer) \subseteq Kept'
  BY <1>1, FlushKeeps
<1>3. Kept \subseteq Kept'
  BY <1>1, <1>2 DEF Kept, Stored
<1> QED
  BY <1>1, <1>2, <1>3 DEF KeptInv

LEMMA BeaconKeeps ==
  ASSUME KeptInv, flushBeacon
  PROVE  KeptInv'
<1> DEFINE r == Request(buffer, FALSE)
<1>1. /\ buffer' = <<>> /\ posts' = posts \union {r}
      /\ entrusted' = entrusted \union ToSet(buffer)
      /\ UNCHANGED <<rows, recorded, dropped>>
  BY DEF flushBeacon
<1>2. r.batch = buffer /\ ~r.stored
  BY DEF Request
<1> HIDE DEF r
<1>3. Waiting \subseteq Waiting' /\ Stored' = Stored
  BY <1>1 DEF Waiting, Stored
<1>4. Kept \subseteq Kept'
  BY <1>1, <1>3 DEF Kept
<1> QED
  BY <1>1, <1>2, <1>3, <1>4 DEF KeptInv

(* The steps of a request.                                                 *)
LEMMA StoreKeeps ==
  ASSUME KeptInv, NEW r \in posts, _append_events(r)
  PROVE  KeptInv'
<1>1. /\ rows' = Count(rows, r.batch)
      /\ posts' \subseteq (posts \ {r}) \union {[r EXCEPT !.stored = TRUE]}
      /\ posts \ {r} \subseteq posts'
      /\ UNCHANGED <<buffer, recorded, dropped, entrusted>>
  BY DEF _append_events, Becomes, page, history
<1>2. /\ rows' \in [Events -> Nat] /\ \A e \in Events : rows'[e] >= rows[e]
      /\ Stored \subseteq Stored' /\ ToSet(r.batch) \subseteq Stored'
  BY <1>1, StoredGrows DEF KeptInv
<1>3. \A q \in Waiting : ToSet(q.batch) \subseteq Kept'
  BY <1>1, <1>2 DEF Waiting, Kept
<1>4. [r EXCEPT !.stored = TRUE].batch = r.batch
  OBVIOUS
<1>5. \A q \in posts' : q.batch \in Seq(Events) /\ (q.stored => ToSet(q.batch) \subseteq Stored')
  BY <1>1, <1>2, <1>4 DEF KeptInv
<1> QED
  BY <1>1, <1>2, <1>3, <1>5, KeptGrows DEF KeptInv, Kept

LEMMA AnswerKeeps ==
  ASSUME KeptInv, NEW r \in posts, Answer(r) \/ Vanish(r)
  PROVE  KeptInv'
<1>1. posts' = posts \ {r} /\ UNCHANGED <<buffer, rows, recorded, dropped, entrusted>>
  BY DEF Answer, Vanish, Becomes, page, history
<1>2. r \in Waiting => ToSet(r.batch) \subseteq Stored'
  BY <1>1 DEF Answer, Vanish, Waiting, KeptInv, Stored
<1>3. \A q \in Waiting : q = r \/ q \in Waiting'
  BY <1>1 DEF Waiting
<1>4. Stored' = Stored
  BY <1>1 DEF Stored
<1>5. Kept \subseteq Kept'
  BY <1>1, <1>2, <1>3, <1>4 DEF Kept
<1> QED
  BY <1>1, <1>4, <1>5 DEF KeptInv

LEMMA FailsKeep ==
  ASSUME KeptInv, NEW r \in posts, BreakOff(r) \/ PostTimeOut(r)
  PROVE  KeptInv'
<1>1. FlushFails(r.batch) /\ UNCHANGED <<recorded, entrusted>>
  BY DEF BreakOff, PostTimeOut
<1>2. /\ posts \ {r} \subseteq posts'
      /\ posts' \subseteq (posts \ {r}) \union {[r EXCEPT !.waiting = FALSE]}
  BY DEF BreakOff, PostTimeOut, Becomes
<1>3. /\ rows' \in [Events -> Nat] /\ \A e \in Events : rows'[e] >= rows[e]
      /\ Stored \subseteq Stored'
  <2>1. CASE PostTimeOut(r)
    BY <2>1 DEF PostTimeOut, KeptInv, Stored
  <2>2. CASE BreakOff(r)
    <3>1. PICK k \in 0..Len(r.batch) - 1 : rows' = Count(rows, SubSeq(r.batch, 1, k))
      BY <2>2 DEF BreakOff
    <3> QED
      BY <3>1, StoredGrows
  <2> QED
    BY <2>1, <2>2
<1>4. /\ buffer' \in Seq(Events)
      /\ ToSet(buffer) \union ToSet(r.batch) \subseteq Kept'
      /\ dropped \subseteq dropped'
  BY <1>1, FailureKeeps
<1>5. \A q \in Waiting : q = r \/ q \in Waiting'
  BY <1>2 DEF Waiting
<1>6. \A q \in Waiting : ToSet(q.batch) \subseteq Kept'
  BY <1>4, <1>5 DEF Kept
<1>7. /\ [r EXCEPT !.waiting = FALSE].batch = r.batch
      /\ [r EXCEPT !.waiting = FALSE].stored = r.stored
  BY DEF KeptInv
<1>8. \A q \in posts' : q.batch \in Seq(Events) /\ (q.stored => ToSet(q.batch) \subseteq Stored')
  BY <1>2, <1>3, <1>7 DEF KeptInv
<1> QED
  BY <1>1, <1>3, <1>4, <1>6, <1>8, KeptGrows

LEMMA KeptStep ==
  ASSUME KeptInv, [LogNext]_logVars
  PROVE  KeptInv'
<1>1. CASE UNCHANGED <<buffer, posts, rows, recorded, dropped, entrusted>>
  BY <1>1 DEF KeptInv, Kept, Waiting, Stored
<1>2. CASE start \/ SessionCreated \/ StartFails \/ UNCHANGED logVars
  BY <1>1, <1>2 DEF start, SessionCreated, StartFails, logVars, page, history
<1>3. CASE event
  BY <1>3, EventKeeps
<1>4. CASE FlushTimer
  BY <1>4, TimerKeeps
<1>5. CASE flushBeacon
  BY <1>5, BeaconKeeps
<1>6. CASE Store
  BY <1>6, StoreKeeps DEF Store
<1>7. CASE Answered
  BY <1>7, AnswerKeeps DEF Answered
<1>8. CASE \E r \in posts : BreakOff(r) \/ PostTimeOut(r) \/ Vanish(r)
  BY <1>8, AnswerKeeps, FailsKeep
<1> QED
  BY <1>2, <1>3, <1>4, <1>5, <1>6, <1>7, <1>8 DEF LogNext

(* No event is lost, whatever fails and however flushes overlap, but those *)
(* the full buffer drops and those a beacon takes.                         *)
THEOREM NothingLostHolds == LogSpec => []NothingLost
<1>1. LogInit => KeptInv
  BY LogAssumption DEF LogInit, KeptInv, None, Events
<1>2. KeptInv /\ [LogNext]_logVars => KeptInv'
  BY KeptStep
<1>3. KeptInv => NothingLost
  BY DEF KeptInv, NothingLost, Kept, Held, Waiting
<1> QED
  BY <1>1, <1>2, <1>3, PTL DEF LogSpec

-----------------------------------------------------------------------------
(* How often an event is in the database.                                  *)

(* The requests that may still put it there.                               *)
Carrying(e) == {r \in posts : ~r.stored /\ e \in ToSet(r.batch)}

In(e, s) == IF e \in ToSet(s) THEN 1 ELSE 0

(* Its rows, and those it may still get without another failure.           *)
Copies(e) == rows[e] + Cardinality(Carrying(e)) + In(e, buffer)

Requests == [batch : Seq(Events) \ {<<>>}, waiting : BOOLEAN, stored : BOOLEAN, before : Nat]

CopyTypes ==
  /\ recorded \in 0..MaxEvents
  /\ buffer \in Seq(Events)
  /\ rows \in [Events -> Nat] /\ failures \in [Events -> Nat]
  /\ IsFiniteSet(posts)
  /\ posts \subseteq Requests

CopyInv ==
  /\ CopyTypes
  /\ \A e \in Events : Copies(e) <= 1 + failures[e]
  /\ \A e \in Events : e > recorded => Copies(e) = 0

(* What a finite set has when one element is taken out, or another put in. *)
LEMMA OneLess ==
  ASSUME NEW S, IsFiniteSet(S), NEW r \in S, NEW T, T \subseteq S \ {r}
  PROVE  Cardinality(T) + 1 <= Cardinality(S)
<1>1. IsFiniteSet(S \ {r}) /\ Cardinality(S \ {r}) = Cardinality(S) - 1 /\ Cardinality(S) \in Nat
  BY FS_RemoveElement, FS_CardinalityType
<1>2. IsFiniteSet(T) /\ Cardinality(T) <= Cardinality(S \ {r})
  BY <1>1, FS_Subset
<1>3. Cardinality(T) \in Nat
  BY <1>2, FS_CardinalityType
<1> QED
  BY <1>1, <1>2, <1>3

LEMMA OneMore ==
  ASSUME NEW S, IsFiniteSet(S), NEW q, NEW T, T \subseteq S \union {q}
  PROVE  Cardinality(T) <= Cardinality(S) + 1
<1>1. /\ IsFiniteSet(S \union {q}) /\ Cardinality(S \union {q}) <= Cardinality(S) + 1
      /\ Cardinality(S) \in Nat /\ Cardinality(S \union {q}) \in Nat
  BY FS_AddElement, FS_CardinalityType
<1>2. IsFiniteSet(T) /\ Cardinality(T) <= Cardinality(S \union {q})
  BY <1>1, FS_Subset
<1>3. Cardinality(T) \in Nat
  BY <1>2, FS_CardinalityType
<1> QED
  BY <1>1, <1>2, <1>3

LEMMA NoMore ==
  ASSUME NEW S, IsFiniteSet(S), NEW T, T \subseteq S
  PROVE  Cardinality(T) <= Cardinality(S)
BY FS_Subset

LEMMA OneForAnother ==
  ASSUME NEW S, IsFiniteSet(S), NEW r \in S, NEW q, NEW T, T \subseteq (S \ {r}) \union {q}
  PROVE  Cardinality(T) <= Cardinality(S)
<1>1. IsFiniteSet(S \ {r}) /\ Cardinality(S \ {r}) = Cardinality(S) - 1 /\ Cardinality(S) \in Nat
  BY FS_RemoveElement, FS_CardinalityType
<1>2. Cardinality(T) <= Cardinality(S \ {r}) + 1
  BY <1>1, OneMore
<1> QED
  BY <1>1, <1>2, FS_CardinalityType

LEMMA CarryingFinite ==
  ASSUME IsFiniteSet(posts), NEW e
  PROVE  IsFiniteSet(Carrying(e)) /\ Cardinality(Carrying(e)) \in Nat
<1>1. Carrying(e) \subseteq posts
  BY DEF Carrying
<1>2. IsFiniteSet(Carrying(e))
  BY <1>1, FS_Subset
<1> QED
  BY <1>2, FS_CardinalityType

LEMMA ToSetSub ==
  ASSUME NEW S, NEW s \in Seq(S), NEW m \in Nat \ {0}, NEW n \in 0..Len(s)
  PROVE  SubSeq(s, m, n) \in Seq(S) /\ ToSet(SubSeq(s, m, n)) \subseteq ToSet(s)
<1>1. /\ SubSeq(s, m, n) \in Seq(S) /\ Len(SubSeq(s, m, n)) = IF m <= n THEN n - m + 1 ELSE 0
      /\ \A i \in 1..(IF m <= n THEN n - m + 1 ELSE 0) : SubSeq(s, m, n)[i] = s[m + i - 1]
  OBVIOUS
<1>2. \A i \in 1..(IF m <= n THEN n - m + 1 ELSE 0) : m + i - 1 \in 1..Len(s)
  OBVIOUS
<1> QED
  BY <1>1, <1>2 DEF ToSet

(* What leaves the buffer in a request is carried once.                    *)
LEMMA SentCopies ==
  ASSUME CopyTypes, NEW b \in Seq(Events), NEW q \in Requests, q.batch = b, ~q.stored,
         buffer' = <<>>, posts' = posts \union {q}, UNCHANGED rows
  PROVE  /\ buffer' \in Seq(Events) /\ IsFiniteSet(posts')
         /\ posts' \subseteq Requests
         /\ \A e \in Events : Copies(e)' <= rows[e] + Cardinality(Carrying(e)) + In(e, b)
<1>1. IsFiniteSet(posts')
  BY FS_AddElement DEF CopyTypes
<1>2. ASSUME NEW e \in Events
      PROVE  Copies(e)' <= rows[e] + Cardinality(Carrying(e)) + In(e, b)
  <2>1. rows[e] \in Nat /\ IsFiniteSet(Carrying(e)) /\ Cardinality(Carrying(e)) \in Nat
    BY CarryingFinite DEF CopyTypes
  <2>2. IsFiniteSet(Carrying(e)') /\ Cardinality(Carrying(e)') \in Nat
    <3>1. Carrying(e)' \subseteq posts'
      BY DEF Carrying
    <3>2. IsFiniteSet(Carrying(e)')
      BY <1>1, <3>1, FS_Subset
    <3> QED
      BY <3>2, FS_CardinalityType
  <2>3. Copies(e)' = rows[e] + Cardinality(Carrying(e)')
    <3>1. In(e, buffer)' = 0
      BY DEF In, ToSet
    <3> QED
      BY <2>1, <2>2, <3>1 DEF Copies
  <2>4. CASE e \in ToSet(b)
    <3>1. Carrying(e)' \subseteq Carrying(e) \union {q}
      BY DEF Carrying
    <3>2. Cardinality(Carrying(e)') <= Cardinality(Carrying(e)) + 1
      BY <2>1, <3>1, OneMore
    <3> QED
      BY <2>1, <2>2, <2>3, <2>4, <3>2 DEF In
  <2>5. CASE e \notin ToSet(b)
    <3>1. Carrying(e)' \subseteq Carrying(e)
      BY <2>5 DEF Carrying
    <3>2. Cardinality(Carrying(e)') <= Cardinality(Carrying(e))
      BY <2>1, <3>1, NoMore
    <3> QED
      BY <2>1, <2>2, <2>3, <2>5, <3>2 DEF In
  <2> QED
    BY <2>4, <2>5
<1>3. buffer' \in Seq(Events)
  <2>1. <<>> \in Seq(Events)
    OBVIOUS
  <2> QED
    BY <2>1
<1>4. posts' \subseteq Requests
  BY DEF CopyTypes
<1> QED
  BY <1>1, <1>2, <1>3, <1>4

LEMMA RequestTyped ==
  ASSUME CopyTypes, NEW b \in Seq(Events), b # <<>>, NEW w \in BOOLEAN
  PROVE  Request(b, w) \in Requests
<1>1. Head(b) \in Events
  OBVIOUS
<1>2. failures[Head(b)] \in Nat
  BY <1>1 DEF CopyTypes
<1> QED
  BY <1>2 DEF Request, Requests

(* flush, of a buffer that is b by now.                                    *)
LEMMA FlushCopies ==
  ASSUME CopyTypes, NEW b \in Seq(Events), Flush(b), UNCHANGED rows
  PROVE  /\ buffer' \in Seq(Events) /\ IsFiniteSet(posts')
         /\ posts' \subseteq Requests
         /\ \A e \in Events : Copies(e)' <= rows[e] + Cardinality(Carrying(e)) + In(e, b)
<1>1. CASE buffer' = b /\ UNCHANGED posts
  <2>1. \A e \in Events : Copies(e)' = rows[e] + Cardinality(Carrying(e)) + In(e, b)
    BY <1>1 DEF Copies, Carrying, In
  <2>2. \A e \in Events : rows[e] + Cardinality(Carrying(e)) + In(e, b) \in Nat
    BY CarryingFinite DEF CopyTypes, In
  <2> QED
    BY <1>1, <2>1, <2>2 DEF CopyTypes
<1>2. CASE b # <<>> /\ buffer' = <<>> /\ posts' = posts \union {Request(b, TRUE)}
  <2>1. Request(b, TRUE) \in Requests /\ Request(b, TRUE).batch = b /\ ~Request(b, TRUE).stored
    BY <1>2, RequestTyped DEF Request
  <2> QED
    BY <1>2, <2>1, SentCopies
<1> QED
  BY <1>1, <1>2 DEF Flush

(* The catch block: what comes back to the buffer has failed once more.    *)
LEMMA FailureCopies ==
  ASSUME CopyTypes, NEW r \in posts, FlushFails(r.batch)
  PROVE  /\ buffer' \in Seq(Events) /\ failures' \in [Events -> Nat]
         /\ \A e \in Events : /\ failures'[e] = failures[e] + In(e, r.batch)
                              /\ In(e, buffer)' <= In(e, buffer) + In(e, r.batch)
<1> DEFINE all == r.batch \o buffer
           excess == Len(all) - KeptBatches * MAX_BATCH
           over == IF excess > 0 THEN excess ELSE 0
<1>1. all \in Seq(Events) /\ ToSet(all) = ToSet(r.batch) \union ToSet(buffer)
  BY ToSetConcat DEF CopyTypes, Requests
<1>2. KeptBatches * MAX_BATCH \in Nat
  <2>1. KeptBatches \in Nat /\ MAX_BATCH \in Nat
    BY LogAssumption
  <2> QED
    BY <2>1
<1>3. over \in 0..Len(all)
  BY <1>1, <1>2
<1>4. buffer' = SubSeq(all, over + 1, Len(all)) /\ failures' = Count(failures, r.batch)
  BY DEF FlushFails
<1> HIDE DEF all, excess, over
<1>5. buffer' \in Seq(Events) /\ ToSet(buffer') \subseteq ToSet(all)
  <2> DEFINE m == over + 1
  <2>1. m \in Nat \ {0} /\ Len(all) \in 0..Len(all)
    BY <1>1, <1>3
  <2> HIDE DEF m
  <2>2. SubSeq(all, m, Len(all)) \in Seq(Events) /\ ToSet(SubSeq(all, m, Len(all))) \subseteq ToSet(all)
    BY <1>1, <2>1, ToSetSub
  <2> QED
    BY <1>4, <2>2 DEF m
<1>6. failures' \in [Events -> Nat] /\ \A e \in Events : failures'[e] = failures[e] + In(e, r.batch)
  BY <1>4 DEF Count, CopyTypes, In
<1> QED
  BY <1>1, <1>5, <1>6 DEF In

LEMMA CopiesNat ==
  ASSUME CopyTypes
  PROVE  \A e \in Events : /\ Copies(e) \in Nat /\ failures[e] \in Nat /\ rows[e] \in Nat
                           /\ IsFiniteSet(Carrying(e)) /\ Cardinality(Carrying(e)) \in Nat
                           /\ Copies(e) = rows[e] + Cardinality(Carrying(e)) + In(e, buffer)
BY CarryingFinite DEF CopyTypes, Copies, In

LEMMA CopiesNatNext ==
  ASSUME CopyTypes'
  PROVE  \A e \in Events : /\ Copies(e)' \in Nat /\ failures'[e] \in Nat /\ rows'[e] \in Nat
                           /\ Cardinality(Carrying(e)') \in Nat
                           /\ Copies(e)' = rows'[e] + Cardinality(Carrying(e)') + In(e, buffer)'
<1>1. \A e \in Events : IsFiniteSet(Carrying(e)')
  <2>1. \A e \in Events : Carrying(e)' \subseteq posts'
    BY DEF Carrying
  <2> QED
    BY <2>1, FS_Subset DEF CopyTypes
<1>2. \A e \in Events : Cardinality(Carrying(e)') \in Nat
  BY <1>1, FS_CardinalityType
<1> QED
  BY <1>2 DEF CopyTypes, Copies, In

(* A step that leaves each event no more copies than failures account for. *)
LEMMA CopiesStay ==
  ASSUME CopyInv, CopyTypes', UNCHANGED recorded,
         NEW more \in [Events -> 0..1],
         \A e \in Events : failures'[e] = failures[e] + more[e] /\ Copies(e)' <= Copies(e) + more[e],
         \A e \in Events : more[e] = 1 => Copies(e) > 0
  PROVE  CopyInv'
<1>1. \A e \in Events : Copies(e) \in Nat /\ failures[e] \in Nat
  BY CopiesNat DEF CopyInv
<1>2. \A e \in Events : Copies(e)' \in Nat /\ failures'[e] \in Nat
  BY CopiesNatNext
<1>3. \A e \in Events : Copies(e)' <= 1 + failures'[e]
  BY <1>1, <1>2 DEF CopyInv
<1>4. \A e \in Events : e > recorded' => Copies(e)' = 0
  <2>1. \A e \in Events : e > recorded => Copies(e) = 0
    BY DEF CopyInv
  <2> QED
    BY <1>1, <1>2, <2>1
<1> QED
  BY <1>3, <1>4 DEF CopyInv

-----------------------------------------------------------------------------
LEMMA EventCopies ==
  ASSUME CopyInv, event
  PROVE  CopyInv'
<1> DEFINE new == recorded + 1
           b == Append(buffer, new)
<1>1. /\ new \in Events /\ recorded' = new /\ new \in 0..MaxEvents
      /\ UNCHANGED <<rows, failures>> /\ CopyTypes
  BY LogAssumption DEF event, CopyInv, CopyTypes, Events
<1>2. b \in Seq(Events) /\ ToSet(b) = ToSet(buffer) \union {new}
  BY <1>1, ToSetAppend DEF CopyTypes
<1>3. Flush(b) \/ (buffer' = b /\ UNCHANGED posts)
  BY DEF event
<1> HIDE DEF b
<1>4. /\ buffer' \in Seq(Events) /\ IsFiniteSet(posts')
      /\ posts' \subseteq Requests
      /\ \A e \in Events : Copies(e)' <= rows[e] + Cardinality(Carrying(e)) + In(e, b)
  <2>1. CASE Flush(b)
    BY <1>1, <1>2, <2>1, FlushCopies
  <2>2. CASE buffer' = b /\ UNCHANGED posts
    <3>1. \A e \in Events : Copies(e)' = rows[e] + Cardinality(Carrying(e)) + In(e, b)
      BY <1>1, <2>2 DEF Copies, Carrying, In
    <3>2. \A e \in Events : rows[e] + Cardinality(Carrying(e)) + In(e, b) \in Nat
      BY <1>1, CarryingFinite DEF CopyTypes, In
    <3> QED
      BY <1>1, <1>2, <2>2, <3>1, <3>2 DEF CopyTypes
  <2> QED
    BY <1>3, <2>1, <2>2
<1>5. CopyTypes'
  BY <1>1, <1>4 DEF CopyTypes
<1>6. ASSUME NEW e \in Events
      PROVE  Copies(e)' <= 1 + failures'[e] /\ (e > recorded' => Copies(e)' = 0)
  <2>1. /\ rows[e] \in Nat /\ Cardinality(Carrying(e)) \in Nat /\ failures[e] \in Nat
        /\ recorded \in Nat /\ e \in Nat
    BY <1>1, CarryingFinite DEF CopyTypes, Events
  <2>2. Copies(e)' \in Nat
    <3>1. Carrying(e)' \subseteq posts'
      BY DEF Carrying
    <3>2. IsFiniteSet(Carrying(e)')
      BY <1>4, <3>1, FS_Subset
    <3>3. Cardinality(Carrying(e)') \in Nat
      BY <3>2, FS_CardinalityType
    <3> QED
      BY <1>1, <2>1, <3>3 DEF Copies, In
  <2>3. Copies(e) = rows[e] + Cardinality(Carrying(e)) + In(e, buffer)
    BY DEF Copies
  <2>4. CASE e = new
    <3>1. Copies(e) = 0 /\ e > recorded
      BY <1>1, <2>1, <2>4 DEF CopyInv
    <3>2. rows[e] = 0 /\ Cardinality(Carrying(e)) = 0
      BY <2>1, <2>3, <3>1 DEF In
    <3> QED
      BY <1>1, <1>4, <2>1, <2>2, <2>4, <3>2 DEF In
  <2>5. CASE e # new
    <3>1. In(e, b) = In(e, buffer)
      BY <1>2, <2>5 DEF In
    <3>2. Copies(e)' <= Copies(e)
      BY <1>4, <2>3, <3>1
    <3>3. Copies(e) <= 1 + failures[e] /\ (e > recorded => Copies(e) = 0)
      BY DEF CopyInv
    <3>4. Copies(e) \in Nat
      BY <2>1, <2>3 DEF In
    <3> QED
      BY <1>1, <2>1, <2>2, <3>2, <3>3, <3>4
  <2> QED
    BY <2>4, <2>5
<1> QED
  BY <1>5, <1>6 DEF CopyInv

LEMMA SendCopies ==
  ASSUME CopyInv, FlushTimer \/ flushBeacon
  PROVE  CopyInv'
<1>1. UNCHANGED <<rows, recorded, failures>> /\ CopyTypes /\ buffer \in Seq(Events)
  BY DEF FlushTimer, flushBeacon, history, CopyInv, CopyTypes
<1>2. /\ buffer' \in Seq(Events) /\ IsFiniteSet(posts')
      /\ posts' \subseteq Requests
      /\ \A e \in Events : Copies(e)' <= Copies(e)
  <2>1. CASE FlushTimer
    <3>1. Flush(buffer)
      BY <2>1 DEF FlushTimer
    <3> QED
      BY <1>1, <3>1, FlushCopies DEF Copies
  <2>2. CASE flushBeacon
    <3>1. /\ Request(buffer, FALSE).batch = buffer /\ ~Request(buffer, FALSE).stored
          /\ buffer # <<>> /\ buffer' = <<>> /\ posts' = posts \union {Request(buffer, FALSE)}
      BY <2>2 DEF flushBeacon, Request
    <3>2. Request(buffer, FALSE) \in Requests
      BY <1>1, <3>1, RequestTyped
    <3> QED
      BY <1>1, <3>1, <3>2, SentCopies DEF Copies
  <2> QED
    BY <2>1, <2>2
<1>3. CopyTypes'
  BY <1>1, <1>2 DEF CopyTypes
<1> DEFINE more == [e \in Events |-> 0]
<1>4. /\ more \in [Events -> 0..1]
      /\ \A e \in Events : failures'[e] = failures[e] + more[e] /\ Copies(e)' <= Copies(e) + more[e]
      /\ \A e \in Events : more[e] # 1
  BY <1>1, <1>2, CopiesNat
<1> HIDE DEF more
<1> QED
  BY <1>1, <1>3, <1>4, CopiesStay

(* The steps of a request.                                                 *)
LEMMA RequestCopies ==
  ASSUME CopyInv, NEW r \in posts, _append_events(r) \/ Answer(r) \/ Vanish(r)
  PROVE  CopyInv'
<1> DEFINE q == [r EXCEPT !.stored = TRUE]
<1>1. CopyTypes /\ UNCHANGED <<buffer, recorded, failures>> /\ r \in Requests
  BY DEF _append_events, Answer, Vanish, page, history, CopyInv, CopyTypes
<1>2. q \in Requests /\ q.stored /\ q.batch = r.batch
  BY <1>1 DEF Requests
<1>3. posts' \subseteq (posts \ {r}) \union {q}
  BY DEF _append_events, Answer, Vanish, Becomes
<1> HIDE DEF q
<1>4. IsFiniteSet(posts') /\ posts' \subseteq Requests
  <2>1. posts' \subseteq posts \union {q} /\ IsFiniteSet(posts \union {q})
    BY <1>1, <1>3, FS_AddElement DEF CopyTypes
  <2> QED
    BY <1>1, <1>2, <2>1, FS_Subset DEF CopyTypes
<1>6. \/ UNCHANGED rows
      \/ ~r.stored /\ rows' = Count(rows, r.batch)
  BY DEF _append_events, Answer, Vanish
<1>7. CopyTypes'
  <2>1. rows' \in [Events -> Nat]
    BY <1>1, <1>6, CountCounts DEF CopyTypes
  <2> QED
    BY <1>1, <1>4, <2>1 DEF CopyTypes
<1>8. ASSUME NEW e \in Events PROVE Copies(e)' <= Copies(e)
  <2>1. Carrying(e)' \subseteq Carrying(e) /\ r \notin Carrying(e)'
    BY <1>2, <1>3 DEF Carrying
  <2>2. IsFiniteSet(Carrying(e)) /\ In(e, buffer)' = In(e, buffer)
    BY <1>1, CopiesNat DEF In
  <2>3. CASE rows'[e] = rows[e]
    <3>1. Cardinality(Carrying(e)') <= Cardinality(Carrying(e))
      BY <2>1, <2>2, NoMore
    <3> QED
      BY <1>1, <1>7, <2>2, <2>3, <3>1, CopiesNat, CopiesNatNext DEF In
  <2>4. CASE ~r.stored /\ e \in ToSet(r.batch) /\ rows'[e] = rows[e] + 1
    <3>1. r \in Carrying(e) /\ Carrying(e)' \subseteq Carrying(e) \ {r}
      BY <2>1, <2>4 DEF Carrying
    <3>2. Cardinality(Carrying(e)') + 1 <= Cardinality(Carrying(e))
      BY <2>2, <3>1, OneLess
    <3> QED
      BY <1>1, <1>7, <2>2, <2>4, <3>2, CopiesNat, CopiesNatNext DEF In
  <2> QED
    BY <1>6, <2>3, <2>4 DEF Count
<1> DEFINE more == [x \in Events |-> 0]
<1>9. /\ more \in [Events -> 0..1]
      /\ \A e \in Events : failures'[e] = failures[e] + more[e] /\ Copies(e)' <= Copies(e) + more[e]
      /\ \A e \in Events : more[e] # 1
  BY <1>1, <1>8, CopiesNat
<1> HIDE DEF more
<1> QED
  BY <1>1, <1>7, <1>9, CopiesStay

LEMMA FailedCopies ==
  ASSUME KeptInv, CopyInv, NEW r \in posts, BreakOff(r) \/ PostTimeOut(r)
  PROVE  CopyInv'
<1> DEFINE q == [r EXCEPT !.waiting = FALSE]
<1>1. FlushFails(r.batch) /\ UNCHANGED recorded /\ CopyTypes /\ r \in Requests
  BY DEF BreakOff, PostTimeOut, CopyInv, CopyTypes
<1>2. q \in Requests /\ q.batch = r.batch /\ q.stored = r.stored
  BY <1>1 DEF Requests
<1>3. \/ /\ ~r.stored /\ posts' = posts \ {r}
         /\ \E k \in 0..Len(r.batch) - 1 : rows' = Count(rows, SubSeq(r.batch, 1, k))
      \/ r.stored /\ posts' = posts \ {r} /\ UNCHANGED rows
      \/ ~r.stored /\ posts' = (posts \ {r}) \union {q} /\ UNCHANGED rows
  BY DEF BreakOff, PostTimeOut, Becomes
<1> HIDE DEF q
<1>4. IsFiniteSet(posts') /\ posts' \subseteq Requests
  <2>1. posts' \subseteq posts \union {q} /\ IsFiniteSet(posts \union {q})
    BY <1>1, <1>3, FS_AddElement DEF CopyTypes
  <2> QED
    BY <1>1, <1>2, <2>1, FS_Subset DEF CopyTypes
<1>5. /\ buffer' \in Seq(Events) /\ failures' \in [Events -> Nat]
      /\ \A e \in Events : /\ failures'[e] = failures[e] + In(e, r.batch)
                           /\ In(e, buffer)' <= In(e, buffer) + In(e, r.batch)
  BY <1>1, FailureCopies
<1>6. CopyTypes'
  <2>1. rows' \in [Events -> Nat]
    BY <1>1, <1>3, CountCounts DEF CopyTypes
  <2> QED
    BY <1>1, <1>4, <1>5, <2>1 DEF CopyTypes
<1>7. ASSUME NEW e \in Events
      PROVE  /\ Copies(e)' <= Copies(e) + In(e, r.batch)
             /\ In(e, r.batch) = 1 => Copies(e) > 0
  <2>1. IsFiniteSet(Carrying(e)) /\ Cardinality(Carrying(e)') \in Nat
    BY <1>1, <1>6, CopiesNat, CopiesNatNext
  <2>2. /\ rows[e] \in Nat /\ rows'[e] \in Nat /\ Cardinality(Carrying(e)) \in Nat
        /\ Cardinality(Carrying(e)') \in Nat
        /\ Copies(e) = rows[e] + Cardinality(Carrying(e)) + In(e, buffer)
        /\ Copies(e)' = rows'[e] + Cardinality(Carrying(e)') + In(e, buffer)'
        /\ In(e, buffer) \in Nat /\ In(e, buffer)' \in Nat /\ In(e, r.batch) \in Nat
        /\ In(e, buffer)' <= In(e, buffer) + In(e, r.batch)
    BY <1>1, <1>5, <1>6, CopiesNat, CopiesNatNext DEF In
  <2>3. ASSUME rows'[e] = rows[e],
               posts' = posts \ {r} \/ (~r.stored /\ posts' = (posts \ {r}) \union {q})
        PROVE  Copies(e)' <= Copies(e) + In(e, r.batch)
    <3>1. Cardinality(Carrying(e)') <= Cardinality(Carrying(e))
      <4>1. CASE Carrying(e)' \subseteq Carrying(e)
        BY <2>1, <4>1, NoMore
      <4>2. CASE r \in Carrying(e) /\ Carrying(e)' \subseteq (Carrying(e) \ {r}) \union {q}
        BY <2>1, <4>2, OneForAnother
      <4> QED
        BY <1>2, <2>3, <4>1, <4>2 DEF Carrying
    <3> QED
      BY <2>2, <2>3, <3>1
  <2>4. ASSUME ~r.stored, posts' = posts \ {r}, e \in ToSet(r.batch), rows'[e] <= rows[e] + 1
        PROVE  Copies(e)' <= Copies(e) + In(e, r.batch)
    <3>1. r \in Carrying(e) /\ Carrying(e)' \subseteq Carrying(e) \ {r}
      BY <2>4 DEF Carrying
    <3>2. Cardinality(Carrying(e)') + 1 <= Cardinality(Carrying(e))
      BY <2>1, <3>1, OneLess
    <3>3. In(e, r.batch) = 1
      BY <2>4 DEF In
    <3> QED
      BY <2>2, <2>4, <3>2, <3>3
  <2>5. Copies(e)' <= Copies(e) + In(e, r.batch)
    <3>1. ASSUME NEW k \in 0..Len(r.batch) - 1, rows' = Count(rows, SubSeq(r.batch, 1, k))
          PROVE  \/ rows'[e] = rows[e]
                 \/ e \in ToSet(r.batch) /\ rows'[e] = rows[e] + 1
      <4>1. ToSet(SubSeq(r.batch, 1, k)) \subseteq ToSet(r.batch)
        BY <1>1, ToSetSub DEF Requests
      <4> QED
        BY <3>1, <4>1 DEF Count
    <3> QED
      BY <1>1, <1>3, <2>3, <2>4, <3>1, CopiesNat
  <2>6. In(e, r.batch) = 1 => Copies(e) > 0
    <3>1. CASE r.stored /\ e \in ToSet(r.batch)
      <4>1. rows[e] > 0
        BY <3>1 DEF KeptInv, Stored
      <4> QED
        BY <1>1, <4>1, CopiesNat DEF In
    <3>2. CASE ~r.stored /\ e \in ToSet(r.batch)
      <4>1. r \in Carrying(e)
        BY <3>2 DEF Carrying
      <4>2. Cardinality(Carrying(e)) # 0
        BY <2>1, <4>1, FS_EmptySet
      <4> QED
        BY <1>1, <4>2, CopiesNat DEF In
    <3> QED
      BY <3>1, <3>2 DEF In
  <2> QED
    BY <2>5, <2>6
<1> DEFINE more == [x \in Events |-> In(x, r.batch)]
<1>8. /\ more \in [Events -> 0..1]
      /\ \A e \in Events : failures'[e] = failures[e] + more[e] /\ Copies(e)' <= Copies(e) + more[e]
      /\ \A e \in Events : more[e] = 1 => Copies(e) > 0
  BY <1>5, <1>7 DEF In
<1> HIDE DEF more
<1> QED
  BY <1>1, <1>6, <1>8, CopiesStay

LEMMA CopyStep ==
  ASSUME KeptInv, CopyInv, [LogNext]_logVars
  PROVE  CopyInv'
<1>1. CASE UNCHANGED <<buffer, posts, rows, recorded, failures>>
  BY <1>1 DEF CopyInv, CopyTypes, Copies, Carrying, In
<1>2. CASE start \/ SessionCreated \/ StartFails \/ UNCHANGED logVars
  BY <1>1, <1>2 DEF start, SessionCreated, StartFails, logVars, page, history
<1>3. CASE event
  BY <1>3, EventCopies
<1>4. CASE FlushTimer \/ flushBeacon
  BY <1>4, SendCopies
<1>5. CASE Store \/ Answered
  BY <1>5, RequestCopies DEF Store, Answered
<1>6. CASE \E r \in posts : BreakOff(r) \/ PostTimeOut(r) \/ Vanish(r)
  BY <1>6, RequestCopies, FailedCopies
<1> QED
  BY <1>2, <1>3, <1>4, <1>5, <1>6 DEF LogNext

(* An event is in the database more than once only as often as a request   *)
(* that carried it has failed, however requests, answers and timeouts      *)
(* cross: one that fails for the page may still be stored.                 *)
THEOREM TwiceOnlyIfFailedHolds == LogSpec => []TwiceOnlyIfFailed
<1>1. LogInit => KeptInv /\ CopyInv
  <2> SUFFICES ASSUME LogInit PROVE CopyInv
    BY LogAssumption DEF LogInit, KeptInv, None, Events
  <2>1. CopyTypes
    BY LogAssumption, FS_EmptySet DEF LogInit, CopyTypes, None
  <2>2. \A e \in Events : Carrying(e) = {} /\ In(e, buffer) = 0 /\ rows[e] = 0
    BY DEF LogInit, Carrying, In, ToSet, None
  <2>3. \A e \in Events : Cardinality(Carrying(e)) = 0 /\ failures[e] \in Nat
    BY <2>1, <2>2, FS_EmptySet DEF CopyTypes
  <2>4. \A e \in Events : Copies(e) = 0
    BY <2>2, <2>3 DEF Copies
  <2> QED
    BY <2>1, <2>3, <2>4 DEF CopyInv
<1>2. KeptInv /\ CopyInv /\ [LogNext]_logVars => (KeptInv /\ CopyInv)'
  BY KeptStep, CopyStep
<1>3. CopyInv => TwiceOnlyIfFailed
  <2> SUFFICES ASSUME CopyInv, NEW e \in Events PROVE rows[e] <= 1 + failures[e]
    BY DEF TwiceOnlyIfFailed
  <2> QED
    BY CopiesNat DEF CopyInv, In
<1> QED
  BY <1>1, <1>2, <1>3, PTL DEF LogSpec
=============================================================================
