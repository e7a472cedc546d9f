-------------------------- MODULE RemoteLogProofs --------------------------
(***************************************************************************)
(* Theorems about RemoteLogger: the ring and its readers (LogRing), for    *)
(* any size of the ring and of size_t and any length of the log, while one *)
(* task logs; and the telnet clients (TelnetLog), for any number of        *)
(* clients and connections, whoever switches telnet off and whoever logs.  *)
(***************************************************************************)
EXTENDS LogRing, TelnetLog, TLAPS

-----------------------------------------------------------------------------
(* Remainders.                                                             *)

(* The remainder, opaque to the provers outside these lemmas.              *)
Rem(x, m) == x % m

LEMMA RemIs ==
  ASSUME NEW m \in Nat \ {0}, NEW q \in Int, NEW r \in 0..m - 1
  PROVE  Rem(m * q + r, m) = r
BY DEF Rem

LEMMA RemRange ==
  \A m \in Nat \ {0} : \A x \in Int : Rem(x, m) \in 0..m - 1
BY DEF Rem

LEMMA RemSmall ==
  \A m \in Nat \ {0} : \A x \in 0..m - 1 : Rem(x, m) = x
BY DEF Rem

(* u is as far from x as v is from y.                                      *)
Shifted(x, u, y, v) == u - x = v - y

LEMMA RemShift ==
  ASSUME NEW m \in Nat \ {0}, NEW x \in Int, NEW y \in Int, NEW u \in Int, NEW v \in Int,
         Rem(x, m) = Rem(y, m), Shifted(x, u, y, v)
  PROVE  Rem(u, m) = Rem(v, m)
<1> DEFINE q == x \div m
           p == y \div m
           r == x % m
           w == u \div m
           t == u % m
<1>1. q \in Int /\ p \in Int /\ r \in 0..m - 1 /\ x = m * q + r /\ y = m * p + r
  BY DEF Rem
<1>2. w \in Int /\ t \in 0..m - 1 /\ u = m * w + t
  OBVIOUS
<1> HIDE DEF q, p, r, w, t
<1> DEFINE k == w - q + p
<1>3. k \in Int /\ v = m * k + t
  <2>1. m * (w - q + p) = m * w - m * q + m * p
    BY <1>1, <1>2
  <2> QED
    BY <1>1, <1>2, <2>1 DEF Shifted
<1> HIDE DEF k
<1>4. Rem(m * k + t, m) = t
  BY <1>2, <1>3, RemIs
<1> QED
  BY <1>3, <1>4 DEF Rem, t

LEMMA RemTurn ==
  \A m \in Nat \ {0} : \A x \in Int : Rem(x + m, m) = Rem(x, m)
<1> SUFFICES ASSUME NEW m \in Nat \ {0}, NEW x \in Int PROVE Rem(x + m, m) = Rem(x, m)
  OBVIOUS
<1>1. Rem(m, m) = Rem(0, m)
  BY DEF Rem
<1> DEFINE k == x + m
<1>2. k \in Int /\ Shifted(m, k, 0, x)
  BY DEF Shifted
<1> HIDE DEF k
<1>3. Rem(k, m) = Rem(x, m)
  BY <1>1, <1>2, RemShift
<1> QED
  BY <1>3 DEF k

LEMMA RemAdd ==
  ASSUME NEW m \in Nat \ {0}, NEW x \in Int, NEW y \in Int
  PROVE  Rem(Rem(x, m) + y, m) = Rem(x + y, m)
<1> DEFINE r == Rem(x, m)
           u == r + y
           v == x + y
<1>1. r \in 0..m - 1
  BY RemRange
<1> HIDE DEF r
<1>2. r \in Int /\ u \in Int /\ v \in Int /\ Shifted(r, u, x, v)
  BY <1>1 DEF Shifted
<1> HIDE DEF u, v
<1>3. Rem(r, m) = Rem(x, m)
  BY <1>1, RemSmall DEF r
<1>4. Rem(u, m) = Rem(v, m)
  BY <1>2, <1>3, RemShift
<1> QED
  BY <1>4 DEF u, v, r

LEMMA RemApart ==
  \A m \in Nat \ {0} : \A x, y \in Int : x < y /\ y < x + m => Rem(x, m) # Rem(y, m)
<1> SUFFICES ASSUME NEW m \in Nat \ {0}, NEW x \in Int, NEW y \in Int, x < y, y < x + m, 
                   Rem(x, m) = Rem(y, m) PROVE FALSE
  OBVIOUS
<1> DEFINE k == y - x
<1>1. k \in 0..m - 1 /\ k # 0 /\ k \in Int /\ 0 \in 0..m - 1 /\ Shifted(x, 0, y, k)
  BY DEF Shifted
<1> HIDE DEF k
<1>2. Rem(0, m) = Rem(k, m)
  BY <1>1, RemShift
<1> QED
  BY <1>1, <1>2, RemSmall

LEMMA RemNext ==
  \A m \in Nat \ {0} : \A n \in Int : 
     Rem(n + 1, m) = IF Rem(n, m) + 1 < m THEN Rem(n, m) + 1 ELSE 0
<1> SUFFICES ASSUME NEW m \in Nat \ {0}, NEW n \in Int
             PROVE Rem(n + 1, m) = IF Rem(n, m) + 1 < m THEN Rem(n, m) + 1 ELSE 0
  OBVIOUS
<1>1. Rem(n, m) \in 0..m - 1
  BY RemRange
<1>2. \A y \in Int : Rem(Rem(n, m) + y, m) = Rem(n + y, m)
  BY RemAdd
<1> QED
  BY <1>1, <1>2 DEF Rem

-----------------------------------------------------------------------------
Alone == Others = {}

(* The slots hold the bytes logged last.                                   *)
Written == \A b \in 1..bytes : bytes < b + BufferSize => ring[Rem(b - 1, BufferSize)] = b

(* What the four variables are between two bytes, and while the byte that  *)
(* has been stored is still to be counted and the head to be wrapped.      *)
Between ==
  /\ ringHead = Rem(bytes, BufferSize)
  /\ totalBytes = Rem(bytes, SizeMod)
  /\ ringFull <=> bytes >= BufferSize

Ahead ==
  /\ bytes > 0
  /\ ringHead = Rem(bytes - 1, BufferSize) + 1
  /\ ringFull <=> bytes - 1 >= BufferSize

RingInv ==
  /\ bytes \in Nat
  /\ pc \in [Tasks -> {"idle", "store", "count", "add", "wrap", "reset"}]
  /\ local \in [Tasks -> Nat]
  /\ ringFull \in BOOLEAN
  /\ Written
  /\ CASE pc[Main] = "idle" -> Between
       [] pc[Main] = "store" -> Between /\ local[Main] = ringHead
       [] pc[Main] = "count" -> Ahead /\ totalBytes = Rem(bytes - 1, SizeMod)
       [] pc[Main] = "add" -> Ahead /\ local[Main] = Rem(bytes - 1, SizeMod)
       [] pc[Main] = "wrap" -> Ahead /\ totalBytes = Rem(bytes, SizeMod)
       [] OTHER -> Ahead /\ totalBytes = Rem(bytes, SizeMod) /\ ringHead >= BufferSize

LEMMA SizeFacts == BufferSize \in Nat \ {0} /\ SizeMod \in Nat \ {0} /\ BufferSize < SizeMod
BY SizeAssumption

LEMMA StoreKeeps ==
  ASSUME Alone, RingInv, AppendStore(Main)
  PROVE  RingInv'
<1> USE SizeFacts DEF Tasks, Alone
<1>1. /\ pc[Main] = "store" /\ pc'[Main] = "count" /\ bytes' = bytes + 1 /\ bytes \in Nat
      /\ ringHead' = ringHead + 1 /\ local[Main] = ringHead /\ Between
      /\ UNCHANGED <<ringFull, totalBytes, local>>
  BY DEF AppendStore, RingInv
<1>2. pc' \in [Tasks -> {"idle", "store", "count", "add", "wrap", "reset"}]
  BY DEF AppendStore, RingInv
<1>3. ringHead = Rem(bytes, BufferSize) /\ ringHead \in Slots
  BY <1>1, RemRange DEF Between, Slots
<1>4. ring' = [s \in Slots |-> IF s = ringHead THEN bytes + 1 ELSE ring[s]]
  BY <1>1 DEF AppendStore
<1>5. Written'
  <2> SUFFICES ASSUME NEW b \in 1..bytes + 1, bytes + 1 < b + BufferSize
               PROVE  ring'[Rem(b - 1, BufferSize)] = b
    BY <1>1 DEF Written
  <2>1. Rem(b - 1, BufferSize) \in Slots
    BY RemRange DEF Slots
  <2>2. CASE b = bytes + 1
    <3>1. b - 1 = bytes
      BY <1>1, <2>2
    <3> QED
      BY <1>3, <1>4, <2>1, <2>2, <3>1
  <2>3. CASE b \in 1..bytes
    <3>1. Rem(b - 1, BufferSize) # Rem(bytes, BufferSize)
      <4> DEFINE k == b - 1
      <4>1. k \in Int /\ bytes \in Int /\ k < bytes /\ bytes < k + BufferSize
        BY <1>1, <2>3
      <4> HIDE DEF k
      <4> QED
        BY <4>1, RemApart DEF k
    <3>2. ring[Rem(b - 1, BufferSize)] = b
      BY <1>1, <2>3 DEF RingInv, Written
    <3> QED
      BY <1>3, <1>4, <2>1, <3>1, <3>2
  <2> QED
    BY <1>1, <2>2, <2>3
<1>6. Ahead' /\ totalBytes' = Rem(bytes' - 1, SizeMod)
  BY <1>1, <1>3 DEF Ahead, Between
<1> QED
  BY <1>1, <1>2, <1>5, <1>6 DEF RingInv

LEMMA WrapKeeps ==
  ASSUME Alone, RingInv, AppendWrap(Main) \/ AppendReset(Main)
  PROVE  RingInv'
<1> USE SizeFacts DEF Tasks, Alone
<1>1. /\ Ahead /\ totalBytes = Rem(bytes, SizeMod) /\ bytes \in Nat /\ Written
      /\ UNCHANGED <<bytes, ring, local, totalBytes>>
  <2>1. pc[Main] = "wrap" \/ pc[Main] = "reset"
    BY DEF AppendWrap, AppendReset
  <2>2. UNCHANGED <<bytes, ring, local, totalBytes>>
    BY DEF AppendWrap, AppendReset, ringVars
  <2> QED
    BY <2>1, <2>2 DEF RingInv
<1>2. bytes - 1 \in Nat /\ (bytes - 1) + 1 = bytes
  BY <1>1 DEF Ahead
<1>3. /\ ringHead < BufferSize => Rem(bytes, BufferSize) = ringHead /\ bytes # BufferSize
      /\ ringHead >= BufferSize => Rem(bytes, BufferSize) = 0 /\ bytes >= BufferSize
  <2> DEFINE k == bytes - 1
  <2>1. k \in Nat /\ bytes = k + 1 /\ ringHead = Rem(k, BufferSize) + 1
    BY <1>1, <1>2 DEF Ahead
  <2> HIDE DEF k
  <2>2. Rem(k + 1, BufferSize) = IF Rem(k, BufferSize) + 1 < BufferSize
                                 THEN Rem(k, BufferSize) + 1 ELSE 0
    BY <2>1, RemNext
  <2>3. k < BufferSize => Rem(k, BufferSize) = k
    BY <2>1, RemSmall
  <2>4. Rem(k, BufferSize) \in 0..BufferSize - 1
    BY <2>1, RemRange
  <2> QED
    BY <2>1, <2>2, <2>3, <2>4
<1>4. Written'
  BY <1>1 DEF Written
<1>5. CASE AppendWrap(Main) /\ ringHead >= BufferSize
  <2>1. pc'[Main] = "reset" /\ UNCHANGED <<ringHead, ringFull>>
    BY <1>5 DEF AppendWrap, RingInv, ringVars
  <2> QED
    BY <1>1, <1>4, <1>5, <2>1 DEF AppendWrap, RingInv, Ahead
<1>6. CASE AppendWrap(Main) /\ ~(ringHead >= BufferSize)
  <2>1. pc'[Main] = "idle" /\ UNCHANGED <<ringHead, ringFull>>
    BY <1>6 DEF AppendWrap, RingInv, ringVars
  <2>2. ringHead \in Int
    BY <1>1, <1>2, RemRange DEF Ahead
  <2>3. Between'
    BY <1>1, <1>2, <1>3, <1>6, <2>1, <2>2 DEF Between, Ahead
  <2> QED
    BY <1>1, <1>4, <1>6, <2>1, <2>3 DEF AppendWrap, RingInv
<1>7. CASE AppendReset(Main)
  <2>1. pc[Main] = "reset" /\ pc'[Main] = "idle" /\ ringHead' = 0 /\ ringFull' = TRUE
    BY <1>7 DEF AppendReset, RingInv
  <2>2. ringHead >= BufferSize
    BY <2>1 DEF RingInv
  <2>3. Between'
    BY <1>1, <1>3, <2>1, <2>2 DEF Between
  <2> QED
    BY <1>1, <1>4, <1>7, <2>1, <2>3 DEF AppendReset, RingInv
<1> QED
  BY <1>5, <1>6, <1>7

LEMMA CountKeeps ==
  ASSUME Alone, RingInv, AppendLoad(Main) \/ AppendCount(Main) \/ AppendAdd(Main)
  PROVE  RingInv'
<1> USE SizeFacts DEF Tasks, Alone
<1>1. bytes \in Nat /\ UNCHANGED <<bytes, ring, ringHead, ringFull>>
  BY DEF AppendLoad, AppendCount, AppendAdd, RingInv, ringVars
<1>2. Written'
  BY <1>1 DEF RingInv, Written
<1>3. CASE AppendLoad(Main)
  <2>1. /\ pc[Main] = "idle" /\ pc'[Main] = "store" /\ local'[Main] = ringHead
        /\ UNCHANGED totalBytes /\ Between
    BY <1>3 DEF AppendLoad, RingInv, ringVars
  <2>2. ringHead \in 0..BufferSize - 1
    BY <1>1, <2>1, RemRange DEF Between
  <2> QED
    BY <1>1, <1>2, <1>3, <2>1, <2>2 DEF AppendLoad, RingInv, Between
<1>4. CASE AppendCount(Main)
  <2>1. /\ pc[Main] = "count" /\ pc'[Main] = "add" /\ local'[Main] = totalBytes
        /\ UNCHANGED totalBytes /\ Ahead /\ totalBytes = Rem(bytes - 1, SizeMod)
    BY <1>4 DEF AppendCount, RingInv, ringVars
  <2>2. totalBytes \in Nat
    BY <1>1, <2>1, RemRange DEF Ahead
  <2> QED
    BY <1>1, <1>2, <1>4, <2>1, <2>2 DEF AppendCount, RingInv, Ahead
<1>5. CASE AppendAdd(Main)
  <2>1. /\ pc[Main] = "add" /\ pc'[Main] = "wrap" /\ totalBytes' = Rem(local[Main] + 1, SizeMod)
        /\ UNCHANGED local /\ Ahead /\ local[Main] = Rem(bytes - 1, SizeMod)
    BY <1>5 DEF AppendAdd, RingInv, Rem
  <2>2. bytes - 1 \in Int /\ (bytes - 1) + 1 = bytes
    BY <1>1
  <2> DEFINE k == bytes - 1
  <2>3. totalBytes' = Rem(bytes, SizeMod)
    <3>1. Rem(Rem(k, SizeMod) + 1, SizeMod) = Rem(k + 1, SizeMod)
      <4>1. k \in Int
        BY <2>2
      <4> HIDE DEF k
      <4>2. \A y \in Int : Rem(Rem(k, SizeMod) + y, SizeMod) = Rem(k + y, SizeMod)
        BY <4>1, RemAdd
      <4> QED
        BY <4>2
    <3> QED
      BY <2>1, <2>2, <3>1
  <2> QED
    BY <1>1, <1>2, <1>5, <2>1, <2>3 DEF AppendAdd, RingInv, Ahead
<1> QED
  BY <1>3, <1>4, <1>5

LEMMA FreshKeeps ==
  ASSUME Alone, ring = Fresh.ring, ringHead = 0, ringFull = FALSE, totalBytes = 0,
         pc = Fresh.pc, local = Fresh.local, bytes = 0
  PROVE  RingInv
<1>1. Rem(0, BufferSize) = 0 /\ Rem(0, SizeMod) = 0
  BY SizeFacts, RemSmall
<1>2. Between /\ Written
  BY <1>1, SizeFacts DEF Between, Written
<1> QED
  BY <1>2 DEF RingInv, Fresh, Tasks

LEMMA RingStep ==
  ASSUME Alone, RingInv, [Next]_vars
  PROVE  RingInv'
<1>1. CASE UNCHANGED <<ringHead, ring, ringFull, totalBytes, taskVars, bytes>>
  BY <1>1 DEF RingInv, taskVars, Written, Between, Ahead
<1>2. CASE Begin \/ PollRead \/ PollCursor \/ UNCHANGED vars
  BY <1>1, <1>2 DEF Begin, PollRead, PollCursor, vars, ringVars
<1>3. CASE Reboot
  <2>1. /\ ring' = Fresh.ring /\ ringHead' = 0 /\ ringFull' = FALSE /\ totalBytes' = 0
        /\ pc' = Fresh.pc /\ local' = Fresh.local /\ bytes' = 0
    BY <1>3 DEF Reboot
  <2>2. Rem(0, BufferSize) = 0 /\ Rem(0, SizeMod) = 0
    BY SizeFacts, RemSmall
  <2>3. Between' /\ Written'
    BY <2>1, <2>2, SizeFacts DEF Between, Written
  <2> QED
    BY <2>1, <2>3 DEF RingInv, Fresh, Tasks
<1>4. CASE \E t \in Tasks : Append1(t)
  <2>1. Append1(Main)
    BY <1>4 DEF Tasks, Alone
  <2> QED
    BY <2>1, StoreKeeps, WrapKeeps, CountKeeps DEF Append1
<1> QED
  BY <1>2, <1>3, <1>4 DEF Next

LEMMA RingInvariant == ASSUME Alone PROVE Spec => []RingInv
<1>1. Init => RingInv
  BY Alone, FreshKeeps DEF Init
<1>2. RingInv /\ [Next]_vars => RingInv'
  BY RingStep
<1> QED
  BY <1>1, <1>2, PTL DEF Spec

(* What is read from a slot that lies n bytes back.                        *)
LEMMA AroundReads ==
  ASSUME bytes \in Nat, Written, NEW n \in 0..bytes, n <= BufferSize,
         NEW start \in Int, Rem(start, BufferSize) = Rem(bytes - n, BufferSize)
  PROVE  Around(start, n) = LastBytes(n)
<1> USE SizeFacts
<1> DEFINE old == bytes - n
<1>1. old \in Int /\ Rem(start, BufferSize) = Rem(old, BufferSize)
  OBVIOUS
<1>2. ASSUME NEW i \in 1..n PROVE ring[Rem(start + i - 1, BufferSize)] = bytes - n + i
  <2> DEFINE b == bytes - n + i
             k == b - 1
             u == start + i - 1
  <2>1. u \in Int /\ k \in Int /\ Shifted(start, u, old, k)
    BY DEF Shifted
  <2>2. b \in 1..bytes /\ bytes < b + BufferSize
    OBVIOUS
  <2>3. Rem(u, BufferSize) = Rem(k, BufferSize)
    <3> HIDE DEF u, k, old
    <3> QED
      BY <1>1, <2>1, RemShift
  <2>4. ring[Rem(b - 1, BufferSize)] = b
    <3> HIDE DEF b
    <3> QED
      BY <2>2 DEF Written
  <2> QED
    BY <2>3, <2>4
<1>3. Around(start, n) = [i \in 1..n |-> ring[Rem(start + i - 1, BufferSize)]]
  BY DEF Around, Rem
<1> QED
  BY <1>2, <1>3 DEF LastBytes

(* One task that logs: a reader gets what it has not seen, or the last     *)
(* ring of it, wherever ring and counter wrap.                             *)
THEOREM ReadersGetTheLog == ASSUME Alone PROVE Spec => []ReadsWhatWasWritten
<1>1. RingInv => ReadsWhatWasWritten
  <2> USE SizeFacts
  <2> SUFFICES ASSUME RingInv, allocated, Quiet, NEW d \in 0..Least(bytes, SizeMod - 1)
               PROVE  readSince((totalBytes - d) % SizeMod) = LastBytes(Least(d, BufferSize))
    BY DEF ReadsWhatWasWritten
  <2>1. Between /\ Written /\ bytes \in Nat
    BY DEF RingInv, Quiet, Tasks
  <2>2. d \in 0..bytes /\ d \in 0..SizeMod - 1
    BY <2>1 DEF Least
  <2>3. ringHead \in 0..BufferSize - 1 /\ ringHead = Rem(bytes, BufferSize)
    BY <2>1, RemRange DEF Between
  <2>4. totalBytes \in 0..SizeMod - 1
    BY <2>1, RemRange DEF Between
  <2> DEFINE from == (totalBytes - d) % SizeMod
             n == Least(d, BufferSize)
  <2>5. (totalBytes - from) % SizeMod = d
    <3> DEFINE x == totalBytes - d
               y == totalBytes - from
    <3>1. from = Rem(x, SizeMod) /\ x \in Int
      BY <2>2, <2>4 DEF Rem
    <3>2. from \in 0..SizeMod - 1
      <4> HIDE DEF x, from
      <4> QED
        BY <3>1, RemRange
    <3>3. Rem(from, SizeMod) = Rem(x, SizeMod)
      <4> HIDE DEF x, from
      <4> QED
        BY <3>1, <3>2, RemSmall
    <3>4. y \in Int /\ totalBytes \in Int /\ from \in Int /\ d \in Int
      BY <2>2, <2>4, <3>2
    <3>5. Rem(y, SizeMod) = Rem(d, SizeMod)
      <4> DEFINE w == x + y
      <4>1. /\ x \in Int /\ w \in Int /\ Shifted(from, totalBytes, x, w)
            /\ Shifted(totalBytes, d, w, y)
        BY <3>1, <3>4 DEF Shifted
      <4> HIDE DEF w, x, y, from
      <4>2. Rem(totalBytes, SizeMod) = Rem(w, SizeMod)
        BY <3>3, <3>4, <4>1, RemShift
      <4> QED
        BY <3>4, <4>1, <4>2, RemShift
    <3>6. Rem(d, SizeMod) = d
      BY <2>2, RemSmall
    <3> QED
      BY <3>5, <3>6 DEF Rem
  <2>6. n \in 0..bytes /\ n <= BufferSize
    BY <2>1, <2>2 DEF Least
  <2> DEFINE start == (ringHead + BufferSize - n) % BufferSize
  <2>7. readSince(from) = Around(start, n)
    <3>1. n = IF d > BufferSize THEN BufferSize ELSE d
      BY <2>2 DEF Least
    <3> HIDE DEF from, n
    <3> QED
      BY <2>5, <3>1 DEF readSince
  <2>8. start \in Int /\ Rem(start, BufferSize) = Rem(bytes - n, BufferSize)
    <3> DEFINE u == ringHead + BufferSize - n
               w == bytes + BufferSize - n
               v == bytes - n
    <3>1. u \in Int /\ v \in Int /\ w \in Int /\ Shifted(ringHead, u, bytes, w) /\ w = v + BufferSize
      BY <2>1, <2>3, <2>6 DEF Shifted
    <3>2. start = Rem(u, BufferSize)
      BY DEF Rem
    <3>3. ringHead \in Int /\ bytes \in Int /\ Rem(ringHead, BufferSize) = Rem(bytes, BufferSize)
      BY <2>1, <2>3, RemSmall
    <3> HIDE DEF u, v, w, start
    <3>4. Rem(u, BufferSize) = Rem(w, BufferSize)
      BY <3>1, <3>3, RemShift
    <3>5. Rem(w, BufferSize) = Rem(v, BufferSize)
      BY <3>1, RemTurn
    <3>6. start \in 0..BufferSize - 1
      BY <3>1, <3>2, RemRange
    <3>7. Rem(start, BufferSize) = start
      BY <3>6, RemSmall
    <3> QED
      BY <3>2, <3>4, <3>5, <3>6, <3>7 DEF v
  <2> HIDE DEF from, n, start
  <2>9. Around(start, n) = LastBytes(n)
    BY <2>1, <2>6, <2>8, AroundReads
  <2> QED
    BY <2>7, <2>9 DEF from, n, start
<1> QED
  BY <1>1, RingInvariant, PTL

(* One task that logs: a telnet client that connects gets the same.        *)
THEOREM DumpGetsTheLog == ASSUME Alone PROVE Spec => []DumpIsTail
<1>1. RingInv => DumpIsTail
  <2> USE SizeFacts
  <2> SUFFICES ASSUME RingInv, allocated, Quiet
               PROVE  ringDump = LastBytes(Least(bytes, BufferSize))
    BY DEF DumpIsTail
  <2>1. Between /\ Written /\ bytes \in Nat
    BY DEF RingInv, Quiet, Tasks
  <2>2. CASE bytes >= BufferSize
    <3>1. ringDump = Around(ringHead, BufferSize)
      BY <2>1, <2>2 DEF ringDump, Between
    <3>2. ringHead \in 0..BufferSize - 1 /\ ringHead = Rem(bytes, BufferSize)
      BY <2>1, RemRange DEF Between
    <3> DEFINE v == bytes - BufferSize
    <3>3. v \in Int /\ bytes = v + BufferSize
      BY <2>1
    <3>4. Rem(bytes, BufferSize) = Rem(v, BufferSize)
      <4> HIDE DEF v
      <4> QED
        BY <3>3, RemTurn
    <3>5. Rem(ringHead, BufferSize) = Rem(bytes - BufferSize, BufferSize)
      BY <3>2, <3>4, RemSmall
    <3>6. Around(ringHead, BufferSize) = LastBytes(BufferSize)
      BY <2>1, <2>2, <3>2, <3>5, AroundReads
    <3> QED
      BY <2>1, <2>2, <3>1, <3>6 DEF Least
  <2>3. CASE bytes < BufferSize
    <3>1. ringHead = bytes
      BY <2>1, <2>3, RemSmall DEF Between
    <3>2. ringDump = SubSeq(Around(0, BufferSize), 1, bytes)
      BY <2>1, <2>3, <3>1 DEF ringDump, Between
    <3>3. bytes - bytes = 0
      BY <2>1
    <3>4. Around(0, bytes) = LastBytes(bytes)
      BY <2>1, <2>3, <3>3, AroundReads
    <3>5. SubSeq(Around(0, BufferSize), 1, bytes) = Around(0, bytes)
      BY <2>1, <2>3 DEF Around
    <3> QED
      BY <2>1, <2>3, <3>2, <3>4, <3>5 DEF Least
  <2> QED
    BY <2>1, <2>2, <2>3
<1> QED
  BY <1>1, RingInvariant, PTL

-----------------------------------------------------------------------------
(* The telnet clients.                                                     *)

(* In a pass, the clients in front of the iterator have been read.  After  *)
(* it, the iterator has come to the end.                                   *)
PassInv ==
  /\ clients \in Seq(Nat) /\ knocking \in Seq(Nat)
  /\ arrivals \in Nat /\ it \in Nat \ {0}
  /\ ~started => clients = <<>>
  /\ loopPc # "idle" => \A i \in 1..Len(clients) : i < it => clients[i] \in served
  /\ loopPc = "idle" => \A i \in 1..Len(clients) : clients[i] \in served

LEMMA Joined ==
  ASSUME NEW f \in Seq(Nat), NEW g \in Seq(Nat)
  PROVE  /\ f \o g \in Seq(Nat) /\ Len(f \o g) = Len(f) + Len(g)
         /\ \A i \in 1..Len(f) : (f \o g)[i] = f[i]
OBVIOUS

(* An erase moves nothing that is in front of the element.                 *)
LEMMA EraseKeepsFront ==
  ASSUME NEW s \in Seq(Nat), NEW n \in 1..Len(s)
  PROVE  /\ RemoveAt(s, n) \in Seq(Nat)
         /\ Len(RemoveAt(s, n)) = Len(s) - 1
         /\ \A i \in 1..Len(s) - 1 : i < n => RemoveAt(s, n)[i] = s[i]
<1> DEFINE front == SubSeq(s, 1, n - 1)
           back == SubSeq(s, n + 1, Len(s))
<1>1. front \in Seq(Nat) /\ Len(front) = n - 1 /\ \A i \in 1..n - 1 : front[i] = s[i]
  OBVIOUS
<1>2. back \in Seq(Nat) /\ Len(back) = Len(s) - n
  OBVIOUS
<1> HIDE DEF front, back
<1>3. /\ front \o back \in Seq(Nat) /\ Len(front \o back) = Len(s) - 1
      /\ \A i \in 1..n - 1 : (front \o back)[i] = front[i]
  <2>1. front \o back \in Seq(Nat) /\ Len(front \o back) = Len(front) + Len(back)
    BY <1>1, <1>2, Joined
  <2>2. \A i \in 1..Len(front) : (front \o back)[i] = front[i]
    BY <1>1, <1>2, Joined
  <2>3. (n - 1) + (Len(s) - n) = Len(s) - 1
    OBVIOUS
  <2> QED
    BY <1>1, <1>2, <2>1, <2>2, <2>3
<1>4. RemoveAt(s, n) = front \o back
  BY DEF RemoveAt, front, back
<1>5. \A i \in 1..Len(s) - 1 : i < n => i \in 1..n - 1
  OBVIOUS
<1> QED
  BY <1>1, <1>3, <1>4, <1>5

(* stop(), where there is nobody left to have been missed.                 *)
LEMMA StopPasses ==
  ASSUME PassInv, Stop, UNCHANGED <<arrivals, loopVars>>
  PROVE  PassInv'
<1>1. clients' = <<>> /\ knocking' = <<>> /\ Len(clients') = 0
  BY DEF Stop
<1> QED
  BY <1>1 DEF PassInv, loopVars

LEMMA VisitPasses ==
  ASSUME PassInv, Visit
  PROVE  PassInv'
<1>1. /\ loopPc = "visit" /\ it # Len(clients) + 1
      /\ UNCHANGED <<started, knocking, arrivals, it, served>>
  BY DEF Visit
<1>2. CASE UNCHANGED clients /\ loopPc' \in {"visit", "input"}
  BY <1>1, <1>2 DEF PassInv
<1>3. CASE it <= Len(clients) /\ clients' = RemoveAt(clients, it) /\ UNCHANGED loopPc
  <2>1. it \in 1..Len(clients) /\ clients \in Seq(Nat)
    BY <1>3 DEF PassInv
  <2>2. /\ clients' \in Seq(Nat) /\ Len(clients') = Len(clients) - 1
        /\ \A i \in 1..Len(clients') : i < it => clients'[i] = clients[i]
    BY <1>3, <2>1, EraseKeepsFront
  <2>3. started
    BY <2>1 DEF PassInv
  <2> QED
    BY <1>1, <1>3, <2>1, <2>2, <2>3 DEF PassInv
<1>4. it \in Nat /\ Len(clients) \in Nat
  BY DEF PassInv
<1> QED
  BY <1>1, <1>2, <1>3, <1>4 DEF Visit

LEMMA InputEndPasses ==
  ASSUME PassInv, InputEnd
  PROVE  PassInv'
<1> USE DEF PassInv, InputEnd
<1>1. CASE it > Len(clients) /\ UNCHANGED loopVars
  BY <1>1 DEF loopVars
<1>2. CASE ~(it > Len(clients))
  <2>1. it \in 1..Len(clients) /\ clients[it] \in served' /\ it' = it + 1 /\ loopPc' = "visit"
    BY <1>2
  <2>2. \A i \in 1..Len(clients) : i < it + 1 => i < it \/ i = it
    BY <2>1
  <2> QED
    BY <1>2, <2>1, <2>2
<1> QED
  BY <1>1, <1>2

LEMMA PassStep ==
  ASSUME PassInv, [TelnetNext]_telnetVars
  PROVE  PassInv'
<1> USE DEF PassInv, loopVars, walkVars
<1>1. CASE Arrive
  BY <1>1 DEF Arrive
<1>2. CASE \E c \in Ids : HangUp(c)
  BY <1>2 DEF HangUp
<1>3. CASE LoopBegin
  <2>1. CASE knocking = <<>> /\ UNCHANGED <<clients, knocking>>
    BY <1>3, <2>1 DEF LoopBegin
  <2>2. CASE knocking # <<>> /\ knocking' = Tail(knocking)
             /\ (UNCHANGED clients \/ clients' = Append(clients, Head(knocking)))
    <3>1. Head(knocking) \in Nat /\ Tail(knocking) \in Seq(Nat)
      BY <2>2
    <3>2. \A n \in Nat : Append(clients, n) \in Seq(Nat)
      OBVIOUS
    <3>3. clients' \in Seq(Nat) /\ knocking' \in Seq(Nat)
      BY <2>2, <3>1, <3>2
    <3> QED
      BY <1>3, <3>3 DEF LoopBegin
  <2> QED
    BY <1>3, <2>1, <2>2 DEF LoopBegin, Accept, Push
<1>4. CASE LoopEnd
  BY <1>4 DEF LoopEnd
<1>5. CASE Visit
  BY <1>5, VisitPasses
<1>6. CASE InputOff
  BY <1>6, StopPasses DEF InputOff
<1>7. CASE InputEnd
  BY <1>7, InputEndPasses
<1>8. CASE SwitchOff
  BY <1>8, StopPasses DEF SwitchOff
<1>9. CASE SwitchOn
  BY <1>9 DEF SwitchOn
<1>10. CASE WalkBegin \/ WalkOn
  BY <1>10 DEF WalkBegin, WalkOn
<1>11. CASE UNCHANGED telnetVars
  BY <1>11 DEF telnetVars
<1> QED
  BY <1>1, <1>2, <1>3, <1>4, <1>5, <1>6, <1>7, <1>8, <1>9, <1>10, <1>11 DEF TelnetNext

(* A pass of loop() misses no client, whatever is erased under way, and    *)
(* whatever a client or another task does to the vector meanwhile.         *)
THEOREM NobodyMissed == TelnetSpec => []NoneSkipped
<1>1. TelnetInit => PassInv
  BY DEF TelnetInit, PassInv
<1>2. PassInv /\ [TelnetNext]_telnetVars => PassInv'
  BY PassStep
<1>3. PassInv => NoneSkipped
  BY DEF PassInv, NoneSkipped, ToSet
<1> QED
  BY <1>1, <1>2, <1>3, PTL DEF TelnetSpec

(* While telnet is on, the iterator stays in the vector, or right behind   *)
(* it; and only a broadcast of another task walks it besides.              *)
InsideInv ==
  /\ PassInv
  /\ started /\ loopPc = "visit" => it <= Len(clients) + 1
  /\ started /\ loopPc = "input" => it <= Len(clients)
  /\ ~SelfOff /\ loopPc # "idle" => started
  /\ OtherTasks \/ walk = 0

LEMMA InsideStep ==
  ASSUME InsideInv, [TelnetNext]_telnetVars
  PROVE  /\ InsideInv'
         /\ ~freed /\ freed' => ~started \/ walk # 0
<1> USE DEF InsideInv, loopVars, walkVars
<1>1. PassInv'
  BY PassStep
<1>2. /\ clients \in Seq(Nat) /\ it \in Nat \ {0} /\ Len(clients) \in Nat
      /\ clients' \in Seq(Nat) /\ Len(clients') \in Nat
      /\ ~started => clients = <<>>
  BY <1>1 DEF PassInv
<1>3. CASE UNCHANGED <<started, clients, loopVars, walkVars, freed>>
  BY <1>1, <1>3
<1>4. CASE Arrive \/ (\E c \in Ids : HangUp(c)) \/ UNCHANGED telnetVars
  BY <1>3, <1>4 DEF Arrive, HangUp, telnetVars
<1>5. CASE LoopBegin
  <2>1. started' /\ loopPc' = "visit" /\ it' = 1 /\ UNCHANGED freed /\ UNCHANGED walk
    BY <1>5 DEF LoopBegin, Accept, Push
  <2> QED
    BY <1>1, <1>2, <2>1
<1>6. CASE LoopEnd \/ SwitchOn
  BY <1>1, <1>2, <1>6 DEF LoopEnd, SwitchOn
<1>7. CASE Visit
  <2>1. /\ loopPc = "visit" /\ it # Len(clients) + 1
        /\ UNCHANGED <<started, it, served, walkVars>>
    BY <1>7 DEF Visit
  <2>2. CASE it > Len(clients)
    <3>1. ~started
      BY <1>2, <2>1, <2>2
    <3> QED
      BY <1>1, <1>7, <2>1, <2>2, <3>1 DEF Visit
  <2>3. CASE it <= Len(clients) /\ loopPc' = "input" /\ UNCHANGED <<clients, freed>>
    BY <1>1, <2>1, <2>3
  <2>4. CASE it <= Len(clients) /\ clients' = RemoveAt(clients, it) /\ UNCHANGED <<loopPc, freed>>
    <3>1. Len(clients') = Len(clients) - 1
      BY <1>2, <2>4, EraseKeepsFront
    <3> QED
      BY <1>1, <1>2, <2>1, <2>4, <3>1
  <2> QED
    BY <1>2, <1>7, <2>2, <2>3, <2>4 DEF Visit
<1>8. CASE InputOff \/ SwitchOff
  BY <1>1, <1>8 DEF InputOff, SwitchOff, Stop
<1>9. CASE InputEnd
  BY <1>1, <1>2, <1>9 DEF InputEnd
<1>10. CASE WalkBegin \/ WalkOn
  BY <1>1, <1>10 DEF WalkBegin, WalkOn
<1> QED
  BY <1>4, <1>5, <1>6, <1>7, <1>8, <1>9, <1>10 DEF TelnetNext

LEMMA InsideStart == TelnetInit => InsideInv
BY DEF TelnetInit, InsideInv, PassInv

(* loop() itself never leaves the vector: only a client that switches      *)
(* telnet off, and the broadcast of another task, touch what is gone.      *)
THEOREM LoopInside == TelnetSpec => LoopStaysInside
<1>1. InsideInv /\ [TelnetNext]_telnetVars => InsideInv'
  BY InsideStep
<1>2. InsideInv /\ [TelnetNext]_telnetVars => [~freed /\ freed' => ~started \/ walk # 0]_telnetVars
  BY InsideStep
<1> QED
  BY <1>1, <1>2, InsideStart, PTL DEF TelnetSpec, LoopStaysInside

(* Those two are the only ways: where no client switches telnet off from   *)
(* its own input and no other task logs, no freed client is ever touched.  *)
THEOREM NobodyFreed == ASSUME ~SelfOff, ~OtherTasks PROVE TelnetSpec => []NoFreedClient
<1>1. TelnetInit => InsideInv /\ NoFreedClient
  BY InsideStart DEF TelnetInit, NoFreedClient
<1>2. InsideInv /\ NoFreedClient /\ [TelnetNext]_telnetVars => (InsideInv /\ NoFreedClient)'
  <2> SUFFICES ASSUME InsideInv, ~freed, [TelnetNext]_telnetVars, freed' PROVE FALSE
    BY InsideStep DEF NoFreedClient
  <2>1. walk = 0 /\ ~started
    BY InsideStep DEF InsideInv
  <2>2. loopPc = "idle"
    BY <2>1 DEF InsideInv
  <2> QED
    BY <2>1, <2>2 DEF TelnetNext, telnetVars, Arrive, HangUp, LoopBegin, LoopEnd, Visit, InputOff,
       InputEnd, SwitchOff, SwitchOn, WalkBegin, WalkOn
<1> QED
  BY <1>1, <1>2, PTL DEF TelnetSpec
=============================================================================
