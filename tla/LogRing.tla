------------------------------ MODULE LogRing ------------------------------
(***************************************************************************)
(* The ring buffer of RemoteLogger and its readers: appendToRing, called   *)
(* by every task that logs (the main loop through Log, the tasks of        *)
(* ESP-IDF through the vprintf hook), readSince and totalWritten, called   *)
(* by RoverWebServer::handleLogsData on the main loop, and the /logs page, *)
(* which keeps a cursor between polls, across reboots of the rover.        *)
(*                                                                         *)
(* appendToRing takes no lock: it is cut where another task can come in    *)
(* between two of its memory accesses.  A byte is its serial number.       *)
(***************************************************************************)
EXTENDS Integers, Sequences, SequencesExt

CONSTANTS
  BufferSize,  \* bytes in the ring
  SizeMod,     \* size_t counts modulo this
  Main,        \* the main-loop task
  Others,      \* the other tasks that log
  MaxBytes     \* bound: bytes logged in one boot

ASSUME SizeAssumption ==
  /\ BufferSize \in Nat \ {0}
  /\ SizeMod \in Nat /\ BufferSize < SizeMod
  /\ MaxBytes \in Nat
ASSUME TasksAssumption == Main \notin Others

Tasks == {Main} \union Others
Slots == 0..(BufferSize - 1)
Garbage == 0     \* what malloc left in a slot; bytes are numbered from 1

VARIABLES
  allocated,   \* has begin() allocated the ring?
  ring,        \* RemoteLogger::ring
  ringHead,    \* RemoteLogger::ringHead
  ringFull,    \* RemoteLogger::ringFull
  totalBytes,  \* RemoteLogger::totalBytes
  pc,          \* where each task is in appendToRing
  local,       \* the value each task has loaded and not stored back yet
  bytes,       \* history: bytes appended since boot
  pollPc,      \* where handleLogsData is: "idle" or "cursor"
  data,        \* what readSince returned to it
  dataEnd,     \* history: totalBytes when readSince looked, where data ends
  cursor       \* the cursor the /logs page polls with

ringVars == <<allocated, ring, ringHead, ringFull, totalBytes>>
taskVars == <<pc, local>>
pollVars == <<pollPc, data, dataEnd, cursor>>
vars == <<ringVars, taskVars, bytes, pollVars>>

TypeOK ==
  /\ allocated \in BOOLEAN
  /\ ring \in [Slots -> 0..MaxBytes]
  /\ ringHead \in 0..BufferSize
  /\ ringFull \in BOOLEAN
  /\ totalBytes \in 0..(SizeMod - 1)
  /\ pc \in [Tasks -> {"idle", "store", "count", "add", "wrap", "reset"}]
  /\ local \in [Tasks -> Nat]
  /\ bytes \in 0..MaxBytes
  /\ pollPc \in {"idle", "cursor"}
  /\ data \in Seq(0..MaxBytes)
  /\ dataEnd \in 0..(SizeMod - 1)
  /\ cursor \in 0..(SizeMod - 1)

(* The state a boot starts from; the page keeps its cursor.                *)
Fresh ==
  [ring |-> [s \in Slots |-> Garbage], pc |-> [t \in Tasks |-> "idle"],
   local |-> [t \in Tasks |-> 0]]

Init ==
  /\ allocated = FALSE /\ ring = Fresh.ring /\ ringHead = 0 /\ ringFull = FALSE
  /\ totalBytes = 0
  /\ pc = Fresh.pc /\ local = Fresh.local
  /\ bytes = 0
  /\ pollPc = "idle" /\ data = <<>> /\ dataEnd = 0
  /\ cursor = 0

(* A restart of the rover while the page stays open.                       *)
Reboot ==
  /\ allocated
  /\ allocated' = FALSE /\ ring' = Fresh.ring /\ ringHead' = 0 /\ ringFull' = FALSE
  /\ totalBytes' = 0
  /\ pc' = Fresh.pc /\ local' = Fresh.local
  /\ bytes' = 0
  /\ pollPc' = "idle" /\ data' = <<>> /\ dataEnd' = cursor
  /\ UNCHANGED cursor

(* begin(): until then, and after a failed malloc, bytes are not kept.     *)
Begin ==
  /\ ~allocated
  /\ allocated' = TRUE
  /\ UNCHANGED <<ring, ringHead, ringFull, totalBytes, taskVars, bytes, pollVars>>

-----------------------------------------------------------------------------
(* appendToRing, access by access.                                         *)

MayRun(t) == t = Main => pollPc = "idle"   \* a poll runs on the main task

(* ring[ringHead++] = c: the head is loaded,                               *)
AppendLoad(t) ==
  /\ allocated /\ pc[t] = "idle" /\ MayRun(t)
  /\ bytes < MaxBytes
  /\ pc' = [pc EXCEPT ![t] = "store"]
  /\ local' = [local EXCEPT ![t] = ringHead]
  /\ UNCHANGED <<ringVars, bytes, pollVars>>

(* stored back incremented, and the byte written; a slot past the end of   *)
(* the ring is memory of somebody else, which the model does not hold.     *)
AppendStore(t) ==
  /\ pc[t] = "store"
  /\ bytes < MaxBytes
  /\ ringHead' = local[t] + 1
  /\ bytes' = bytes + 1
  /\ ring' = [s \in Slots |-> IF s = local[t] THEN bytes + 1 ELSE ring[s]]
  /\ pc' = [pc EXCEPT ![t] = "count"]
  /\ UNCHANGED <<allocated, ringFull, totalBytes, local, pollVars>>

(* totalBytes++: loaded,                                                   *)
AppendCount(t) ==
  /\ pc[t] = "count"
  /\ local' = [local EXCEPT ![t] = totalBytes]
  /\ pc' = [pc EXCEPT ![t] = "add"]
  /\ UNCHANGED <<ringVars, bytes, pollVars>>

(* and stored back.                                                        *)
AppendAdd(t) ==
  /\ pc[t] = "add"
  /\ totalBytes' = (local[t] + 1) % SizeMod
  /\ pc' = [pc EXCEPT ![t] = "wrap"]
  /\ UNCHANGED <<allocated, ring, ringHead, ringFull, local, bytes, pollVars>>

(* if (ringHead >= bufferSize)                                             *)
AppendWrap(t) ==
  /\ pc[t] = "wrap"
  /\ pc' = [pc EXCEPT ![t] = IF ringHead >= BufferSize THEN "reset" ELSE "idle"]
  /\ UNCHANGED <<ringVars, local, bytes, pollVars>>

(* Mutant: the ring is never marked full.                                  *)
AppendReset_NotFull(t) ==
  /\ pc[t] = "reset"
  /\ ringHead' = 0
  /\ pc' = [pc EXCEPT ![t] = "idle"]
  /\ UNCHANGED <<allocated, ring, ringFull, totalBytes, local, bytes, pollVars>>

(* { ringHead = 0; ringFull = true; }                                      *)
AppendReset(t) ==
  /\ pc[t] = "reset"
  /\ ringHead' = 0
  /\ ringFull' = TRUE
  /\ pc' = [pc EXCEPT ![t] = "idle"]
  /\ UNCHANGED <<allocated, ring, totalBytes, local, bytes, pollVars>>

Append1(t) ==
  \/ AppendLoad(t) \/ AppendStore(t) \/ AppendCount(t) \/ AppendAdd(t)
  \/ AppendWrap(t) \/ AppendReset(t)

-----------------------------------------------------------------------------
(* The bytes from slot start on, around the end of the ring.               *)
Around(start, n) == [i \in 1..n |-> ring[(start + i - 1) % BufferSize]]

(* Mutant: the available bytes are not cut down to the ring.               *)
readSince_Uncut(from) ==
  LET available == (totalBytes - from) % SizeMod
  IN  IF allocated THEN Around((ringHead + BufferSize - available) % BufferSize, available)
      ELSE <<>>

(* readSince: unsigned subtraction, at most a ring of bytes.               *)
readSince(from) ==
  LET behind == (totalBytes - from) % SizeMod
      available == IF behind > BufferSize THEN BufferSize ELSE behind
  IN  IF allocated THEN Around((ringHead + BufferSize - available) % BufferSize, available)
      ELSE <<>>

(* sendRingTo: what a telnet client is sent when it connects.              *)
ringDump ==
  IF ~allocated THEN <<>>
  ELSE IF ringFull THEN Around(ringHead, BufferSize)
  ELSE SubSeq(Around(0, BufferSize), 1, ringHead)

(* handleLogsData: Log.readSince(cursor) ...                               *)
PollRead ==
  /\ pollPc = "idle" /\ pc[Main] = "idle"
  /\ pollPc' = "cursor"
  /\ data' = readSince(cursor)
  /\ dataEnd' = totalBytes
  /\ UNCHANGED <<ringVars, taskVars, bytes, cursor>>

(* ... and then Log.totalWritten(), which becomes the page's cursor.       *)
PollCursor ==
  /\ pollPc = "cursor"
  /\ pollPc' = "idle"
  /\ cursor' = totalBytes
  /\ UNCHANGED <<ringVars, taskVars, bytes, data, dataEnd>>

Next ==
  \/ Begin
  \/ Reboot
  \/ \E t \in Tasks : Append1(t)
  \/ PollRead
  \/ PollCursor

Spec == Init /\ [][Next]_vars

-----------------------------------------------------------------------------
Quiet == \A t \in Tasks : pc[t] = "idle"

(* The n bytes logged last, oldest first.                                  *)
LastBytes(n) == [i \in 1..n |-> bytes - n + i]

Least(m, n) == IF m < n THEN m ELSE n

(* A reader whose cursor lies d bytes back gets exactly those d bytes, or  *)
(* the last ring of them, in order, also where the ring or size_t wraps.   *)
ReadsWhatWasWritten ==
  allocated /\ Quiet =>
    \A d \in 0..Least(bytes, SizeMod - 1) :
      readSince((totalBytes - d) % SizeMod) = LastBytes(Least(d, BufferSize))

(* A telnet client that connects gets the same tail of the log.            *)
DumpIsTail ==
  allocated /\ Quiet => ringDump = LastBytes(Least(bytes, BufferSize))

(* "total bytes ever written".                                             *)
CountsEveryByte == Quiet => totalBytes = bytes % SizeMod

(* "Anything newer than `cursor` is returned": a poll leaves the cursor     *)
(* where the bytes it returned end, so that the next one misses none.      *)
NothingSkipped == pollPc = "idle" => cursor = dataEnd

(* "read since cursor": what a poll returns was written since boot.        *)
OnlyWrittenBytes == \A i \in DOMAIN data : data[i] # Garbage
=============================================================================
