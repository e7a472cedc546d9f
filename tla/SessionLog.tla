----------------------------- MODULE SessionLog -----------------------------
(***************************************************************************)
(* The session log: the event buffer of the web client (logger.js), which  *)
(* ships its events in batches over HTTP, and the log server that appends  *)
(* them to SQLite (server/app.py).                                         *)
(*                                                                         *)
(* An event is the number of its recording; t_ms grows with it.  A request *)
(* may be refused, cut off half-way, or answered after the page has given  *)
(* it up; the server handles every request on a thread of its own.         *)
(***************************************************************************)
EXTENDS Integers, Sequences, SequencesExt

CONSTANTS
  MAX_BATCH,    \* events that trigger a flush
  KeptBatches,  \* batches' worth of events kept when flushes fail: 4
  MaxEvents,    \* bound: events recorded
  MaxFails      \* bound: requests that fail

ASSUME LogAssumption ==
  /\ {MAX_BATCH, KeptBatches} \subseteq Nat \ {0}
  /\ {MaxEvents, MaxFails} \subseteq Nat

Events == 1..MaxEvents

VARIABLES
  phase,     \* the logger: started, sessionId and dead
  buffer,    \* the events waiting for a flush
  posts,     \* the batches on their way, or being answered
  rows,      \* the table `events`: how many rows there are of each event
  recorded,  \* history: events recorded so far
  dropped,   \* history: events dropped from a full buffer
  entrusted, \* history: events handed to a beacon
  failures,  \* history: how many failed requests carried each event
  fails      \* bound: requests that have failed so far

page == <<phase, buffer>>
history == <<recorded, dropped, entrusted, failures, fails>>
logVars == <<page, posts, rows, history>>

None == [e \in Events |-> 0]

(* The counters of the events of s, one up.                                *)
Count(f, s) == [e \in Events |-> IF e \in ToSet(s) THEN f[e] + 1 ELSE f[e]]

(* Two requests with the same batch differ in how often it failed before.  *)
Request(batch, waiting) ==
  [batch |-> batch, waiting |-> waiting, stored |-> FALSE, before |-> failures[Head(batch)]]

LogInit ==
  /\ phase = "new" /\ buffer = <<>> /\ posts = {} /\ rows = None
  /\ recorded = 0 /\ dropped = {} /\ entrusted = {} /\ failures = None /\ fails = 0

-----------------------------------------------------------------------------
(* The page.                                                               *)

start ==
  /\ phase = "new"
  /\ phase' = "starting"
  /\ UNCHANGED <<buffer, posts, rows, history>>

(* The server has created the session, and the page has its number.        *)
SessionCreated ==
  /\ phase = "starting"
  /\ phase' = "active"
  /\ UNCHANGED <<buffer, posts, rows, history>>

(* The server cannot be reached: no more is recorded, nothing ever sent.   *)
StartFails ==
  /\ phase = "starting"
  /\ phase' = "dead"
  /\ UNCHANGED <<buffer, posts, rows, history>>

(* Mutant: the batch stays in the buffer until it is answered.             *)
Flush_Copies(b) ==
  IF phase = "active" /\ b # <<>>
  THEN buffer' = b /\ posts' = posts \union {Request(b, TRUE)}
  ELSE buffer' = b /\ UNCHANGED posts

(* flush, of a buffer that is b by now.                                    *)
Flush(b) ==
  IF phase = "active" /\ b # <<>>
  THEN buffer' = <<>> /\ posts' = posts \union {Request(b, TRUE)}
  ELSE buffer' = b /\ UNCHANGED posts

event ==
  LET b == Append(buffer, recorded + 1)
  IN  /\ phase \in {"starting", "active"} /\ recorded < MaxEvents
      /\ recorded' = recorded + 1
      /\ IF Len(b) >= MAX_BATCH THEN Flush(b) ELSE buffer' = b /\ UNCHANGED posts
      /\ UNCHANGED <<phase, rows, dropped, entrusted, failures, fails>>

(* Mutant: the timer waits for a full batch.                               *)
FlushTimer_Full ==
  /\ phase = "active" /\ Len(buffer) >= MAX_BATCH
  /\ Flush(buffer)
  /\ UNCHANGED <<phase, rows, history>>

(* The flush timer, which the start of the session sets.                   *)
FlushTimer ==
  /\ phase = "active" /\ buffer # <<>>
  /\ Flush(buffer)
  /\ UNCHANGED <<phase, rows, history>>

(* flushBeacon, on beforeunload and on pagehide; the page may live on.  A  *)
(* beacon that the browser refuses changes nothing.                        *)
flushBeacon ==
  /\ phase = "active" /\ buffer # <<>>
  /\ buffer' = <<>> /\ posts' = posts \union {Request(buffer, FALSE)}
  /\ entrusted' = entrusted \union ToSet(buffer)
  /\ UNCHANGED <<phase, rows, recorded, dropped, failures, fails>>

(* Mutant: a failed batch is not put back.                                 *)
FlushFails_Forgets(batch) ==
  /\ failures' = Count(failures, batch)
  /\ UNCHANGED <<buffer, dropped>>

(* The catch block of flush: the batch goes back to the front, and what    *)
(* the buffer has too much goes from there.                                *)
FlushFails(batch) ==
  LET all == batch \o buffer
      excess == Len(all) - KeptBatches * MAX_BATCH
      over == IF excess > 0 THEN excess ELSE 0
  IN  /\ buffer' = SubSeq(all, over + 1, Len(all))
      /\ dropped' = dropped \union ToSet(SubSeq(all, 1, over))
      /\ failures' = Count(failures, batch)

-----------------------------------------------------------------------------
(* The requests.                                                           *)

Fails == fails < MaxFails /\ fails' = fails + 1

Becomes(r, rs) == posts' = (posts \ {r}) \union rs

(* _append_events: a row per event, each of them its own transaction.      *)
_append_events(r) ==
  /\ ~r.stored
  /\ rows' = Count(rows, r.batch)
  /\ Becomes(r, IF r.waiting THEN {[r EXCEPT !.stored = TRUE]} ELSE {})
  /\ UNCHANGED <<page, history>>

Answer(r) ==
  /\ r.waiting /\ r.stored
  /\ Becomes(r, {})
  /\ UNCHANGED <<page, rows, history>>

(* The server dies, or the database fails, when some of the rows are in;   *)
(* with none of them, the request may not have reached it.                 *)
BreakOff(r) ==
  /\ Fails
  /\ r.waiting /\ ~r.stored
  /\ \E k \in 0..Len(r.batch) - 1 : rows' = Count(rows, SubSeq(r.batch, 1, k))
  /\ Becomes(r, {})
  /\ FlushFails(r.batch)
  /\ UNCHANGED <<phase, recorded, entrusted>>

(* POST_TIMEOUT_MS is over, or the answer is lost.  If the server has not  *)
(* handled the request yet, it still may.                                  *)
PostTimeOut(r) ==
  /\ Fails
  /\ r.waiting
  /\ Becomes(r, IF r.stored THEN {} ELSE {[r EXCEPT !.waiting = FALSE]})
  /\ FlushFails(r.batch)
  /\ UNCHANGED <<phase, rows, recorded, entrusted>>

(* A request nobody waits for is lost on the way.                          *)
Vanish(r) ==
  /\ ~r.waiting
  /\ Becomes(r, {})
  /\ UNCHANGED <<page, rows, history>>

Store == \E r \in posts : _append_events(r)
Answered == \E r \in posts : Answer(r)

LogNext ==
  \/ start \/ SessionCreated \/ StartFails \/ event \/ FlushTimer \/ flushBeacon
  \/ Store \/ Answered
  \/ \E r \in posts : BreakOff(r) \/ PostTimeOut(r) \/ Vanish(r)

(* The timer fires; the server goes on with what it has.                   *)
Fairness == WF_logVars(FlushTimer) /\ WF_logVars(Store) /\ WF_logVars(Answered)

LogSpec == LogInit /\ [][LogNext]_logVars /\ Fairness

-----------------------------------------------------------------------------
(* The types of the variables.                                             *)
LogTypeOK ==
  /\ phase \in {"new", "starting", "active", "dead"}
  /\ buffer \in Seq(Events)
  /\ \A r \in posts :
       /\ r.batch \in Seq(Events) \ {<<>>} /\ r.before \in 0..MaxFails
       /\ r.waiting \in BOOLEAN /\ r.stored \in BOOLEAN
  /\ rows \in [Events -> Nat] /\ failures \in [Events -> Nat]
  /\ recorded \in 0..MaxEvents /\ fails \in 0..MaxFails
  /\ dropped \subseteq Events /\ entrusted \subseteq Events

Held == ToSet(buffer) \union UNION {ToSet(r.batch) : r \in posts}
Stored == {e \in Events : rows[e] > 0}

(* Whatever fails, and however flushes overlap: an event is in the         *)
(* database, in the buffer or on its way, unless it was dropped from a     *)
(* full buffer or went with a beacon, which nobody waits for.              *)
NothingLost == 1..recorded \subseteq Held \union Stored \union dropped \union entrusted

(* An event is in the database more than once only as often as a request   *)
(* that carried it has failed for the page.                                *)
TwiceOnlyIfFailed == \A e \in Events : rows[e] <= 1 + failures[e]

(* Once requests stop failing, every event reaches the database, unless it *)
(* was dropped or went with a beacon.                                      *)
Delivered ==
  \A e \in Events :
    phase = "active" /\ e <= recorded ~> e \in Stored \union dropped \union entrusted

(* "drop the oldest to bound memory": what is dropped is older than all    *)
(* that is kept.                                                           *)
DropsOldest ==
  [][\A d \in dropped' \ dropped : \A e \in ToSet(buffer') : d <= e]_logVars

(* "don't keep retrying forever - give up after the next attempt also      *)
(* fails": no batch is sent a third time.                                  *)
GivesUp ==
  [][FlushTimer => \A e \in ToSet(buffer) : failures[e] < 2]_logVars
=============================================================================
