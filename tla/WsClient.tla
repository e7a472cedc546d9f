------------------------------ MODULE WsClient ------------------------------
(***************************************************************************)
(* createConnection of web/js/ws.js: requests on a WebSocket that carries  *)
(* no correlation id, matched to replies in first-in first-out order, with *)
(* a timeout per request and a socket that is reopened until the page      *)
(* disconnects.  The rover at the other end handles the messages of a      *)
(* socket in order and broadcasts each reply to all of its clients.        *)
(*                                                                         *)
(* A request is its serial number, and so is the reply to it; 0 is the     *)
(* reply to a request of another client.                                   *)
(***************************************************************************)
EXTENDS Naturals, Sequences, SequencesExt

CONSTANTS
  MaxRequests,  \* bound: calls of send() in a run
  MaxLosses,    \* bound: sockets that close by themselves
  MaxForeign,   \* bound: replies to requests of other clients
  Window,       \* how many requests the page keeps pending at once
  MayTimeOut    \* can a reply take longer than REPLY_TIMEOUT_MS?

ASSUME BoundsAssumption ==
  /\ MaxRequests \in Nat /\ MaxLosses \in Nat /\ MaxForeign \in Nat
  /\ Window \in Nat \ {0}
ASSUME TimeoutAssumption == MayTimeOut \in BOOLEAN

Ids == 1..MaxRequests

VARIABLES
  sock,       \* what `ws` refers to
  alive,      \* false once the caller has called disconnect()
  reconnect,  \* is reconnectTimer set?
  sent,       \* history: calls of send() so far
  forgotten,  \* the requests sent with fireAndForget
  pending,    \* the requests with a resolver, oldest first
  status,     \* what the promise of each request has come to
  answer,     \* the reply each resolved promise was given
  toRover,    \* requests on their way on this socket
  toPage,     \* replies on their way on this socket
  losses,     \* history: sockets lost
  foreign,    \* history: replies to other clients
  slipped     \* history: has a request timed out, or a foreign reply come, on this socket?

sockVars == <<sock, alive, reconnect, losses>>
wire == <<toRover, toPage, foreign, slipped>>
requestVars == <<sent, forgotten, pending, status, answer>>
vars == <<sockVars, wire, requestVars>>

TypeOK ==
  /\ sock \in {"none", "connecting", "open", "closing"}
  /\ alive \in BOOLEAN /\ reconnect \in BOOLEAN
  /\ sent \in 0..MaxRequests
  /\ forgotten \subseteq Ids
  /\ pending \in Seq(Ids)
  /\ sock \in {"none", "connecting"} => pending = <<>>
  /\ status \in [Ids -> {"unsent", "waiting", "replied", "timeout", "disconnected", "rejected"}]
  /\ answer \in [Ids -> 0..MaxRequests]
  /\ toRover \in Seq(Ids) /\ toPage \in Seq(0..MaxRequests)
  /\ losses \in 0..MaxLosses /\ foreign \in 0..MaxForeign /\ slipped \in BOOLEAN

(* createConnection ends with connect().                                   *)
Init ==
  /\ sock = "connecting" /\ alive = TRUE /\ reconnect = FALSE /\ losses = 0
  /\ sent = 0 /\ forgotten = {} /\ pending = <<>>
  /\ status = [i \in Ids |-> "unsent"] /\ answer = [i \in Ids |-> 0]
  /\ toRover = <<>> /\ toPage = <<>> /\ foreign = 0 /\ slipped = FALSE

-----------------------------------------------------------------------------
(* The socket.                                                             *)

Open ==
  /\ sock = "connecting"
  /\ sock' = "open"
  /\ UNCHANGED <<alive, reconnect, losses, wire, requestVars>>

(* Every request with a resolver gets { error: 'disconnected' }.           *)
AnswerAllDisconnected ==
  /\ status' = [i \in Ids |-> IF i \in ToSet(pending) THEN "disconnected" ELSE status[i]]
  /\ pending' = <<>>

SocketGone ==
  /\ sock # "none"
  /\ sock = "closing" \/ losses < MaxLosses
  /\ losses' = IF sock = "closing" THEN losses ELSE losses + 1
  /\ sock' = "none"
  /\ toRover' = <<>> /\ toPage' = <<>> /\ slipped' = FALSE
  /\ UNCHANGED <<alive, foreign, sent, forgotten, answer>>

(* Mutant: a page that left comes back.                                    *)
OnClose_AlwaysRetries ==
  /\ SocketGone
  /\ AnswerAllDisconnected
  /\ reconnect' = TRUE

(* Mutant: only a socket that had been open is reopened.                   *)
OnClose_RetriesIfOpen ==
  /\ SocketGone
  /\ AnswerAllDisconnected
  /\ reconnect' = (alive /\ sock = "open")

(* onclose: of a lost socket, a connection that failed, or our own close().*)
OnClose ==
  /\ SocketGone
  /\ AnswerAllDisconnected
  /\ reconnect' = alive

(* The reconnectTimer fires.                                               *)
Connect ==
  /\ reconnect
  /\ reconnect' = FALSE
  /\ sock' = "connecting"
  /\ UNCHANGED <<alive, losses, wire, requestVars>>

(* disconnect(): `ws` is forgotten at once, its onclose comes later.       *)
Disconnect ==
  /\ alive
  /\ alive' = FALSE
  /\ reconnect' = FALSE
  /\ sock' = IF sock = "none" THEN "none" ELSE "closing"
  /\ UNCHANGED <<losses, wire, requestVars>>

-----------------------------------------------------------------------------
(* Requests.                                                               *)

NextId == sent + 1

CallSend(forget) ==
  /\ sent < MaxRequests
  /\ Len(pending) < Window
  /\ sent' = NextId
  /\ forgotten' = IF forget THEN forgotten \union {NextId} ELSE forgotten

Refuse ==
  /\ sock # "open"
  /\ status' = [status EXCEPT ![NextId] = "rejected"]
  /\ UNCHANGED <<pending, answer, sockVars, wire>>

Transmit ==
  /\ sock = "open"
  /\ status' = [status EXCEPT ![NextId] = "waiting"]
  /\ toRover' = Append(toRover, NextId)
  /\ UNCHANGED <<answer, sockVars, toPage, foreign, slipped>>

(* Mutant: a fire-and-forget request gets no resolver.                     *)
Send_ForgetNotQueued(forget) ==
  /\ CallSend(forget)
  /\ \/ Refuse
     \/ Transmit /\ pending' = IF forget THEN pending ELSE Append(pending, NextId)

(* send(): rejected unless open; otherwise queued, awaited or not.         *)
Send(forget) ==
  /\ CallSend(forget)
  /\ \/ Refuse
     \/ Transmit /\ pending' = Append(pending, NextId)

(* The rover handles the next message and broadcasts the reply.  It gives  *)
(* none to a malformed or unknown command, which the page does not send.   *)
Serve ==
  /\ sock = "open" /\ toRover # <<>>
  /\ toPage' = Append(toPage, Head(toRover))
  /\ toRover' = Tail(toRover)
  /\ UNCHANGED <<foreign, slipped, sockVars, requestVars>>

(* The reply to another client is broadcast to this page too.              *)
ServeAnother ==
  /\ sock = "open" /\ foreign < MaxForeign
  /\ toPage' = Append(toPage, 0)
  /\ foreign' = foreign + 1
  /\ slipped' = TRUE
  /\ UNCHANGED <<toRover, sockVars, requestVars>>

(* onmessage: the oldest resolver gets whatever has come in.               *)
OnMessage ==
  /\ sock = "open" /\ toPage # <<>>
  /\ toPage' = Tail(toPage)
  /\ IF pending = <<>> THEN UNCHANGED <<pending, status, answer>>
     ELSE /\ pending' = Tail(pending)
          /\ status' = [status EXCEPT ![Head(pending)] = "replied"]
          /\ answer' = [answer EXCEPT ![Head(pending)] = Head(toPage)]
  /\ UNCHANGED <<toRover, foreign, slipped, sockVars, sent, forgotten>>

(* Mutant: a request that times out is only dropped.                       *)
TimeOut_Silent ==
  /\ MayTimeOut /\ pending # <<>>
  /\ pending' = Tail(pending)
  /\ slipped' = TRUE
  /\ UNCHANGED <<status, answer, sockVars, toRover, toPage, foreign, sent, forgotten>>

(* The timer of a request: all have the same delay, so the oldest pending  *)
(* request is the next to time out.  Nobody is told of a forgotten one.    *)
TimeOut ==
  /\ MayTimeOut /\ pending # <<>>
  /\ pending' = Tail(pending)
  /\ status' = IF Head(pending) \in forgotten THEN status
               ELSE [status EXCEPT ![Head(pending)] = "timeout"]
  /\ slipped' = TRUE
  /\ UNCHANGED <<answer, sockVars, toRover, toPage, foreign, sent, forgotten>>

Next ==
  \/ Open \/ OnClose \/ Connect \/ Disconnect
  \/ \E forget \in BOOLEAN : Send(forget)
  \/ Serve \/ ServeAnother \/ OnMessage \/ TimeOut

Spec == Init /\ [][Next]_vars

(* The browser's timers fire, and a connection attempt ends one way or the *)
(* other.  Neither replies nor calls of the page are owed.                 *)
FairSpec == Spec /\ WF_vars(TimeOut) /\ WF_vars(Connect) /\ WF_vars(Open \/ OnClose)

-----------------------------------------------------------------------------
(* The FIFO discipline: the resolvers are those of the requests and the    *)
(* replies on the way, in their order, across fire-and-forget requests,    *)
(* lost sockets and reconnections, until a request times out or a reply to *)
(* another client comes.  A new socket always starts in step.              *)
InStep == ~slipped => pending = toPage \o toRover

(* What the discipline is for: a promise is resolved with the reply to its *)
(* own request.                                                            *)
RepliesMatch == \A i \in Ids : status[i] = "replied" => answer[i] = i

(* Once the caller has disconnected, nothing connects again.               *)
LeftForGood == ~alive => ~reconnect /\ sock \in {"none", "closing"}

(* "so callers don't hang forever": an awaited promise settles.            *)
Settles ==
  \A i \in Ids : status[i] = "waiting" /\ i \notin forgotten ~> status[i] # "waiting"

(* A page that has not left gets a socket again, also after an attempt     *)
(* that failed.                                                            *)
ComesBack == sock = "none" /\ alive ~> sock = "open" \/ ~alive
=============================================================================
