---------------------------- MODULE DriveProofs ----------------------------
(***************************************************************************)
(* Theorems about the control page and its rover (DriveInput) and about    *)
(* the replay on that page (Recorder), for any number of buttons held,     *)
(* any speeds, any number of messages on the way and any timers.           *)
(*                                                                         *)
(* The argument follows the wire: Ends says what a motor will do when all  *)
(* that is on its way has arrived, Armed whether the deadman will then be  *)
(* armed.  Changed is shown to bring the motors to a command whatever was  *)
(* left unsent, if the cache is Sound; every handler and the deadman leave *)
(* it so.  What a blur releases, one button after the other, is followed   *)
(* by induction over the buttons.                                          *)
(***************************************************************************)
EXTENDS Recorder, SequenceTheorems, FiniteSetTheorems, WellFoundedInduction, TLAPS

(* What a message may be.                                                  *)
Orders == {"forward", "backward", "stop"}
Kinds == {"act", "pwm"}

ActMessages == [kind : {"act"}, sides : (SUBSET Sides) \ {{}}, value : Orders]
PwmMessages == [kind : {"pwm"}, sides : (SUBSET Sides) \ {{}}, value : 0..255]
Wire == Seq(ActMessages \union PwmMessages)

-----------------------------------------------------------------------------
(* What the messages on their way will come to.                            *)

Hits(m, k, D) == m.kind = k /\ m.sides \intersect D # {}

(* Of the messages of w, the n-th is the last one for these motors, or     *)
(* none is and n is 0.                                                     *)
LastFor(w, k, D, n) ==
  /\ n \in 0..Len(w)
  /\ n # 0 => Hits(w[n], k, D)
  /\ \A i \in 1..Len(w) : i > n => ~Hits(w[i], k, D)

(* When w has arrived, this motor has this action, or this duty.           *)
Ends(w, k, d, v) ==
  \E n \in 0..Len(w) : LastFor(w, k, {d}, n) /\ (IF n = 0 THEN rover[k][d] ELSE w[n].value) = v

(* When w has arrived, the deadman is armed.                               *)
Armed(w) ==
  \E n \in 0..Len(w) :
    LastFor(w, "act", Sides, n) /\ (IF n = 0 THEN active ELSE w[n].value # "stop")

(* One more message changes what it is for, and nothing else.              *)
LEMMA LastOfMore ==
  ASSUME NEW w \in Wire, NEW m \in ActMessages \union PwmMessages, NEW k, NEW D
  PROVE  /\ Append(w, m) \in Wire /\ Len(Append(w, m)) = Len(w) + 1
         /\ \A i \in 1..Len(w) : Append(w, m)[i] = w[i]
         /\ Append(w, m)[Len(w) + 1] = m
         /\ Hits(m, k, D) => \A n : LastFor(Append(w, m), k, D, n) <=> n = Len(w) + 1
         /\ ~Hits(m, k, D) => \A n : LastFor(Append(w, m), k, D, n) <=> LastFor(w, k, D, n)
<1> DEFINE u == Append(w, m)
<1>1. /\ u \in Wire /\ Len(u) = Len(w) + 1 /\ Len(w) \in Nat
      /\ \A i \in 1..Len(w) : u[i] = w[i]
      /\ u[Len(w) + 1] = m
  BY DEF Wire
<1> HIDE DEF u
<1>2. Hits(m, k, D) => \A n : LastFor(u, k, D, n) <=> n = Len(w) + 1
  <2> SUFFICES ASSUME Hits(m, k, D), NEW n PROVE LastFor(u, k, D, n) <=> n = Len(w) + 1
    OBVIOUS
  <2>1. ASSUME LastFor(u, k, D, n) PROVE n = Len(w) + 1
    <3>1. n \in 0..Len(w) + 1 /\ ~(Len(w) + 1 > n)
      BY <1>1, <2>1 DEF LastFor
    <3> QED
      BY <1>1, <3>1
  <2>2. ASSUME n = Len(w) + 1 PROVE LastFor(u, k, D, n)
    BY <1>1, <2>2 DEF LastFor
  <2> QED
    BY <2>1, <2>2
<1>3. ~Hits(m, k, D) => \A n : LastFor(u, k, D, n) <=> LastFor(w, k, D, n)
  <2> SUFFICES ASSUME ~Hits(m, k, D), NEW n PROVE LastFor(u, k, D, n) <=> LastFor(w, k, D, n)
    OBVIOUS
  <2>1. ASSUME LastFor(u, k, D, n) PROVE LastFor(w, k, D, n)
    <3>1. n \in 0..Len(w)
      BY <1>1, <2>1 DEF LastFor
    <3> QED
      BY <1>1, <2>1, <3>1 DEF LastFor
  <2>2. ASSUME LastFor(w, k, D, n) PROVE LastFor(u, k, D, n)
    <3>1. \A i \in 1..Len(u) : i \in 1..Len(w) \/ i = Len(w) + 1
      BY <1>1
    <3>2. n \in 0..Len(w) /\ (n # 0 => n \in 1..Len(w))
      BY <1>1, <2>2 DEF LastFor
    <3> QED
      BY <1>1, <2>2, <3>1, <3>2 DEF LastFor
  <2> QED
    BY <2>1, <2>2
<1> QED
  BY <1>1, <1>2, <1>3 DEF u

LEMMA EndsMore ==
  ASSUME NEW w \in Wire, NEW m \in ActMessages \union PwmMessages, NEW k, NEW d
  PROVE  /\ Hits(m, k, {d}) => Ends(Append(w, m), k, d, m.value)
         /\ ~Hits(m, k, {d}) => \A v : Ends(w, k, d, v) => Ends(Append(w, m), k, d, v)
<1> DEFINE u == Append(w, m)
<1>1. /\ Len(u) = Len(w) + 1 /\ Len(w) \in Nat
      /\ \A i \in 1..Len(w) : u[i] = w[i]
      /\ u[Len(w) + 1] = m
      /\ Hits(m, k, {d}) => \A n : LastFor(u, k, {d}, n) <=> n = Len(w) + 1
      /\ ~Hits(m, k, {d}) => \A n : LastFor(u, k, {d}, n) <=> LastFor(w, k, {d}, n)
  <2>1. Len(w) \in Nat
    BY DEF Wire
  <2> QED
    BY <2>1, LastOfMore
<1> HIDE DEF u
<1>2. ASSUME Hits(m, k, {d}) PROVE Ends(u, k, d, m.value)
  <2> DEFINE n == Len(w) + 1
  <2>1. LastFor(u, k, {d}, n) /\ n \in 0..Len(u) /\ n # 0 /\ u[n] = m
    BY <1>1, <1>2
  <2> HIDE DEF n
  <2> QED
    BY <2>1 DEF Ends
<1>3. ASSUME ~Hits(m, k, {d}), NEW v, Ends(w, k, d, v) PROVE Ends(u, k, d, v)
  <2>1. PICK n \in 0..Len(w) :
          LastFor(w, k, {d}, n) /\ (IF n = 0 THEN rover[k][d] ELSE w[n].value) = v
    BY <1>3 DEF Ends
  <2>2. LastFor(u, k, {d}, n) /\ n \in 0..Len(u) /\ (n # 0 => u[n] = w[n])
    <3>1. n \in 0..Len(u) /\ (n # 0 => n \in 1..Len(w))
      BY <1>1
    <3> QED
      BY <1>1, <1>3, <2>1, <3>1
  <2> QED
    BY <2>1, <2>2 DEF Ends
<1> QED
  BY <1>2, <1>3 DEF u

LEMMA ArmedMore ==
  ASSUME NEW w \in Wire, NEW m \in ActMessages \union PwmMessages, Armed(Append(w, m))
  PROVE  IF m.kind = "act" THEN m.value # "stop" ELSE Armed(w)
<1> DEFINE u == Append(w, m)
<1>1. /\ Len(u) = Len(w) + 1 /\ Len(w) \in Nat
      /\ \A i \in 1..Len(w) : u[i] = w[i]
      /\ u[Len(w) + 1] = m
      /\ Hits(m, "act", Sides) => \A n : LastFor(u, "act", Sides, n) <=> n = Len(w) + 1
      /\ ~Hits(m, "act", Sides) => \A n : LastFor(u, "act", Sides, n) <=> LastFor(w, "act", Sides, n)
  BY LastOfMore DEF Wire
<1>2. Hits(m, "act", Sides) <=> m.kind = "act"
  BY DEF Hits, ActMessages, PwmMessages
<1> HIDE DEF u
<1>3. PICK n \in 0..Len(u) :
        LastFor(u, "act", Sides, n) /\ (IF n = 0 THEN active ELSE u[n].value # "stop")
  BY DEF Armed, u
<1>4. CASE m.kind = "act"
  BY <1>1, <1>2, <1>3, <1>4
<1>5. CASE m.kind # "act"
  <2>1. LastFor(w, "act", Sides, n)
    BY <1>1, <1>2, <1>3, <1>5
  <2>2. n \in 0..Len(w) /\ (n # 0 => u[n] = w[n])
    BY <1>1, <2>1 DEF LastFor
  <2> QED
    BY <1>3, <1>5, <2>1, <2>2 DEF Armed
<1> QED
  BY <1>4, <1>5

(* What has arrived.                                                       *)
LEMMA EndsNow ==
  ASSUME NEW k, NEW d, NEW v
  PROVE  Ends(<<>>, k, d, v) <=> rover[k][d] = v
<1>1. LastFor(<<>>, k, {d}, 0) /\ Len(<<>>) = 0 /\ 0..Len(<<>>) = {0}
  BY DEF LastFor
<1> QED
  BY <1>1 DEF Ends

LEMMA ArmedNow == Armed(<<>>) <=> active
<1>1. LastFor(<<>>, "act", Sides, 0) /\ Len(<<>>) = 0 /\ 0..Len(<<>>) = {0}
  BY DEF LastFor
<1> QED
  BY <1>1 DEF Armed

-----------------------------------------------------------------------------
(* What the rover does to it.                                              *)

Motors == [act : [Sides -> Orders], pwm : [Sides -> 0..255]]

RoverTypes == wire \in Wire /\ rover \in Motors /\ active \in BOOLEAN

(* A message that arrives was the last for these motors, or is not.        *)
LEMMA LastOfFewer ==
  ASSUME NEW w \in Wire, w # <<>>, NEW k, NEW D, NEW n \in Nat
  PROVE  /\ Head(w) \in ActMessages \union PwmMessages /\ Head(w) = w[1]
         /\ Tail(w) \in Wire /\ Len(w) = Len(Tail(w)) + 1
         /\ \A i \in 1..Len(Tail(w)) : Tail(w)[i] = w[i + 1]
         /\ LastFor(w, k, D, n + 1) /\ n # 0 => LastFor(Tail(w), k, D, n)
         /\ LastFor(w, k, D, 1) => LastFor(Tail(w), k, D, 0) /\ Hits(Head(w), k, D)
         /\ LastFor(w, k, D, 0) => LastFor(Tail(w), k, D, 0) /\ ~Hits(Head(w), k, D)
         /\ LastFor(Tail(w), k, D, n) /\ n # 0 => LastFor(w, k, D, n + 1)
         /\ LastFor(Tail(w), k, D, 0) =>
              IF Hits(Head(w), k, D) THEN LastFor(w, k, D, 1) ELSE LastFor(w, k, D, 0)
<1> DEFINE t == Tail(w)
<1>1. /\ Head(w) \in ActMessages \union PwmMessages /\ Head(w) = w[1]
      /\ t \in Wire /\ Len(w) = Len(t) + 1 /\ Len(t) \in Nat
      /\ \A i \in 1..Len(t) : t[i] = w[i + 1]
  BY DEF Wire
<1> HIDE DEF t
<1>2. \A i \in 1..Len(w) : i = 1 \/ (i - 1 \in 1..Len(t) /\ w[i] = t[i - 1])
  <2> SUFFICES ASSUME NEW i \in 1..Len(w), i # 1
               PROVE  i - 1 \in 1..Len(t) /\ w[i] = t[i - 1]
    OBVIOUS
  <2>1. i - 1 \in 1..Len(t) /\ (i - 1) + 1 = i
    BY <1>1
  <2> QED
    BY <1>1, <2>1
<1>3. \A i \in 1..Len(t) : i + 1 \in 1..Len(w)
  BY <1>1
<1>4. LastFor(w, k, D, n + 1) /\ n # 0 => LastFor(t, k, D, n)
  BY <1>1, <1>3 DEF LastFor
<1>5. LastFor(w, k, D, 1) => LastFor(t, k, D, 0) /\ Hits(Head(w), k, D)
  BY <1>1, <1>3 DEF LastFor
<1>6. LastFor(w, k, D, 0) => LastFor(t, k, D, 0) /\ ~Hits(Head(w), k, D)
  <2>1. 1 \in 1..Len(w)
    BY <1>1
  <2> QED
    BY <1>1, <1>3, <2>1 DEF LastFor
<1>7. LastFor(t, k, D, n) /\ n # 0 => LastFor(w, k, D, n + 1)
  <2> SUFFICES ASSUME LastFor(t, k, D, n), n # 0 PROVE LastFor(w, k, D, n + 1)
    OBVIOUS
  <2>1. n \in 1..Len(t) /\ Hits(t[n], k, D)
    BY DEF LastFor
  <2>2. \A i \in 1..Len(w) : i > n + 1 => i - 1 \in 1..Len(t) /\ w[i] = t[i - 1] /\ i - 1 > n
    BY <1>1, <1>2
  <2>3. \A i \in 1..Len(w) : i > n + 1 => ~Hits(w[i], k, D)
    BY <2>2 DEF LastFor
  <2> QED
    BY <1>1, <2>1, <2>3 DEF LastFor
<1>8. LastFor(t, k, D, 0) => IF Hits(Head(w), k, D) THEN LastFor(w, k, D, 1) ELSE LastFor(w, k, D, 0)
  <2> SUFFICES ASSUME LastFor(t, k, D, 0)
               PROVE  IF Hits(Head(w), k, D) THEN LastFor(w, k, D, 1) ELSE LastFor(w, k, D, 0)
    OBVIOUS
  <2>1. \A j \in 1..Len(t) : ~Hits(t[j], k, D)
    BY DEF LastFor
  <2>2. \A i \in 1..Len(w) : i = 1 \/ ~Hits(w[i], k, D)
    BY <1>2, <2>1
  <2>3. 0 \in 0..Len(w) /\ 1 \in 0..Len(w)
    BY <1>1
  <2> QED
    BY <1>1, <2>2, <2>3 DEF LastFor
<1> QED
  BY <1>1, <1>4, <1>5, <1>6, <1>7, <1>8 DEF t

LEMMA Obeys ==
  ASSUME RoverTypes, Deliver
  PROVE  /\ wire # <<>> /\ Head(wire) \in ActMessages \union PwmMessages
         /\ RoverTypes'
         /\ \A k \in Kinds : \A d \in Sides :
              rover'[k][d] = IF Hits(Head(wire), k, {d}) THEN Head(wire).value ELSE rover[k][d]
<1> DEFINE m == Head(wire)
<1>1. wire # <<>> /\ m \in ActMessages \union PwmMessages /\ wire' = Tail(wire) /\ wire' \in Wire
  BY DEF Deliver, RoverTypes, Wire
<1>2. rover' = [rover EXCEPT ![m.kind] = [d \in Sides |-> IF d \in m.sides THEN m.value ELSE @[d]]]
  BY DEF Deliver
<1>3. active' \in BOOLEAN
  BY DEF Deliver, RoverTypes
<1> HIDE DEF m
<1>4. CASE m \in ActMessages
  <2>1. m.kind = "act" /\ m.value \in Orders
    BY <1>4 DEF ActMessages
  <2>2. /\ rover' \in Motors /\ rover'.pwm = rover.pwm
        /\ rover'.act = [d \in Sides |-> IF d \in m.sides THEN m.value ELSE rover.act[d]]
    BY <1>2, <2>1 DEF RoverTypes, Motors
  <2> QED
    BY <1>1, <1>3, <2>1, <2>2 DEF Kinds, Hits, RoverTypes, m
<1>5. CASE m \in PwmMessages
  <2>1. m.kind = "pwm" /\ m.value \in 0..255
    BY <1>5 DEF PwmMessages
  <2>2. /\ rover' \in Motors /\ rover'.act = rover.act
        /\ rover'.pwm = [d \in Sides |-> IF d \in m.sides THEN m.value ELSE rover.pwm[d]]
    BY <1>2, <2>1 DEF RoverTypes, Motors
  <2> QED
    BY <1>1, <1>3, <2>1, <2>2 DEF Kinds, Hits, RoverTypes, m
<1> QED
  BY <1>1, <1>4, <1>5

(* What the messages come to does not change as they arrive.               *)
LEMMA DeliverEnds ==
  ASSUME RoverTypes, Deliver, NEW k \in Kinds, NEW d \in Sides, NEW v, Ends(wire, k, d, v)
  PROVE  Ends(wire, k, d, v)'
<1> DEFINE t == Tail(wire)
<1>1. /\ wire # <<>> /\ wire \in Wire /\ wire' = t
      /\ rover'[k][d] = IF Hits(Head(wire), k, {d}) THEN Head(wire).value ELSE rover[k][d]
  BY Obeys DEF RoverTypes, Deliver
<1>2. PICK n \in 0..Len(wire) :
        LastFor(wire, k, {d}, n) /\ (IF n = 0 THEN rover[k][d] ELSE wire[n].value) = v
  BY DEF Ends
<1>3. /\ Head(wire) = wire[1] /\ Len(wire) = Len(t) + 1 /\ t \in Wire
      /\ \A i \in 1..Len(t) : t[i] = wire[i + 1]
      /\ LastFor(wire, k, {d}, 1) => LastFor(t, k, {d}, 0) /\ Hits(Head(wire), k, {d})
      /\ LastFor(wire, k, {d}, 0) => LastFor(t, k, {d}, 0) /\ ~Hits(Head(wire), k, {d})
  BY <1>1, LastOfFewer
<1>4. Len(t) \in Nat
  BY <1>3 DEF Wire
<1> SUFFICES \E j \in 0..Len(t) :
               LastFor(t, k, {d}, j) /\ (IF j = 0 THEN rover'[k][d] ELSE t[j].value) = v
  BY <1>1 DEF Ends, LastFor
<1>5. CASE n = 0 \/ n = 1
  BY <1>1, <1>2, <1>3, <1>4, <1>5
<1>6. CASE n \notin {0, 1}
  <2> DEFINE j == n - 1
  <2>1. j \in Nat /\ j # 0 /\ n = j + 1 /\ j \in 1..Len(t)
    BY <1>2, <1>3, <1>4, <1>6
  <2> HIDE DEF j
  <2>2. LastFor(t, k, {d}, j)
    BY <1>1, <1>2, <2>1, LastOfFewer
  <2>3. t[j] = wire[n]
    BY <1>3, <2>1
  <2> QED
    BY <1>2, <1>6, <2>1, <2>2, <2>3
<1> QED
  BY <1>5, <1>6

LEMMA DeliverArmed ==
  ASSUME RoverTypes, Deliver, Armed(wire)'
  PROVE  Armed(wire)
<1> DEFINE t == Tail(wire)
           m == Head(wire)
<1>1. /\ wire # <<>> /\ wire \in Wire /\ wire' = t
      /\ active' = IF m.kind = "act" THEN m.value # "stop" ELSE active
  BY DEF RoverTypes, Deliver
<1>2. PICK n \in 0..Len(t) :
        LastFor(t, "act", Sides, n) /\ (IF n = 0 THEN active' ELSE t[n].value # "stop")
  BY <1>1 DEF Armed, LastFor
<1>3. /\ m = wire[1] /\ Len(wire) = Len(t) + 1 /\ t \in Wire /\ m \in ActMessages \union PwmMessages
      /\ \A i \in 1..Len(t) : t[i] = wire[i + 1]
      /\ LastFor(t, "act", Sides, n) /\ n # 0 => LastFor(wire, "act", Sides, n + 1)
      /\ LastFor(t, "act", Sides, 0) =>
           IF Hits(m, "act", Sides) THEN LastFor(wire, "act", Sides, 1) ELSE LastFor(wire, "act", Sides, 0)
  <2>1. n \in Nat
    OBVIOUS
  <2> QED
    BY <1>1, <2>1, LastOfFewer
<1>4. Len(t) \in Nat /\ Len(wire) \in Nat
  BY <1>1, <1>3 DEF Wire
<1>5. Hits(m, "act", Sides) <=> m.kind = "act"
  BY <1>3 DEF Hits, ActMessages, PwmMessages
<1> HIDE DEF t, m
<1>6. CASE n = 0
  <2>1. 0 \in 0..Len(wire) /\ 1 \in 0..Len(wire) /\ wire[1] = m
    BY <1>3, <1>4
  <2>2. CASE m.kind = "act"
    <3>1. LastFor(wire, "act", Sides, 1) /\ wire[1].value # "stop"
      BY <1>1, <1>2, <1>3, <1>5, <1>6, <2>1, <2>2
    <3> QED
      BY <2>1, <3>1 DEF Armed
  <2>3. CASE m.kind # "act"
    BY <1>1, <1>2, <1>3, <1>5, <1>6, <2>1, <2>3 DEF Armed
  <2> QED
    BY <2>2, <2>3
<1>7. CASE n # 0
  <2> DEFINE j == n + 1
  <2>1. j \in 0..Len(wire) /\ j # 0 /\ n \in 1..Len(t) /\ t[n] = wire[j] /\ LastFor(wire, "act", Sides, j)
    BY <1>2, <1>3, <1>4, <1>7
  <2> HIDE DEF j
  <2> QED
    BY <1>2, <1>7, <2>1 DEF Armed
<1> QED
  BY <1>6, <1>7

(* The deadman stops the motors; what is on its way still arrives.         *)
LEMMA CutEnds ==
  ASSUME RoverTypes, TickDeadman
  PROVE  /\ RoverTypes'
         /\ \A d \in Sides : \A v :
              Ends(wire, "act", d, v) => Ends(wire, "act", d, v)' \/ Ends(wire, "act", d, "stop")'
         /\ \A d \in Sides : \A v : Ends(wire, "pwm", d, v) => Ends(wire, "pwm", d, v)'
         /\ Armed(wire)' => Armed(wire)
<1>1. /\ wire' = wire /\ active' = FALSE /\ rover' \in Motors /\ rover'.pwm = rover.pwm
      /\ \A d \in Sides : rover'.act[d] = "stop"
  BY DEF TickDeadman, RoverTypes, Motors, Both, Orders
<1>2. RoverTypes'
  BY <1>1 DEF RoverTypes
<1>3. ASSUME NEW d \in Sides, NEW v, Ends(wire, "act", d, v)
      PROVE  Ends(wire, "act", d, v)' \/ Ends(wire, "act", d, "stop")'
  BY <1>1, <1>3 DEF Ends, LastFor
<1>4. ASSUME NEW d \in Sides, NEW v, Ends(wire, "pwm", d, v)
      PROVE  Ends(wire, "pwm", d, v)'
  BY <1>1, <1>4 DEF Ends, LastFor
<1>5. Armed(wire)' => Armed(wire)
  BY <1>1 DEF Armed, LastFor
<1> QED
  BY <1>2, <1>3, <1>4, <1>5

(* A step of the page, which appends to the wire.                          *)
LEMMA PageEnds ==
  ASSUME RoverTypes, NEW out, wire' = wire \o out, out \in Wire, UNCHANGED <<rover, active>>
  PROVE  /\ RoverTypes'
         /\ \A k, d, v : Ends(wire, k, d, v)' <=> Ends(wire \o out, k, d, v)
         /\ Armed(wire)' <=> Armed(wire \o out)
<1>1. wire \o out \in Wire
  BY ConcatProperties DEF RoverTypes, Wire
<1> QED
  BY <1>1 DEF RoverTypes, Ends, Armed, LastFor

-----------------------------------------------------------------------------
(* drive.js                                                                *)

Moving(cmd) == cmd.act["left"] \notin {"stop", None}

LEMMA DutyIsSome ==
  ASSUME NEW x \in 0..255 PROVE x # -1
OBVIOUS

LEMMA InnerIsLess ==
  ASSUME NEW s \in 0..255
  PROVE  Inner(s) \in 0..255 /\ (s # 0 => Inner(s) < s)
BY DEF Inner

(* The four cases of computeMotorCommands, told apart by whether the rover *)
(* goes straight, in an arc or on the spot.                                *)
Straight(h) == {"forward", "backward"} \intersect h # {} /\ ~({"forward", "backward"} \subseteq h)
Spins(h) == {"forward", "backward"} \intersect h = {} /\ (Turns(h).left \/ Turns(h).right)

LEMMA Commands ==
  ASSUME NEW h, NEW s
  PROVE  /\ ~Straight(h) /\ ~Spins(h) => computeMotorCommands(h, s) = StopBoth
         /\ Spins(h) =>
              computeMotorCommands(h, s) =
                [act |-> [d \in Sides |-> IF Turns(h)[d] THEN "backward" ELSE "forward"], pwm |-> Both(s)]
         /\ Straight(h) =>
              computeMotorCommands(h, s) =
                [act |-> Both(IF "forward" \in h THEN "forward" ELSE "backward"),
                 pwm |-> [d \in Sides |-> IF Turns(h)[d] THEN Inner(s) ELSE s]]
<1> DEFINE F == {"forward", "backward"} \subseteq h
           N == {"forward", "backward"} \intersect h = {}
           T == Turns(h).left \/ Turns(h).right
<1>1. F => ~N
  OBVIOUS
<1>2. /\ Straight(h) <=> ~N /\ ~F
      /\ Spins(h) <=> N /\ T
  BY DEF Straight, Spins
<1>3. computeMotorCommands(h, s) =
        CASE F -> StopBoth
          [] N /\ T -> [act |-> [d \in Sides |-> IF Turns(h)[d] THEN "backward" ELSE "forward"], pwm |-> Both(s)]
          [] N /\ ~T -> StopBoth
          [] OTHER -> [act |-> Both(IF "forward" \in h THEN "forward" ELSE "backward"),
                       pwm |-> [d \in Sides |-> IF Turns(h)[d] THEN Inner(s) ELSE s]]
  BY DEF computeMotorCommands
<1> HIDE DEF F, N, T
<1> QED
  BY <1>1, <1>2, <1>3

LEMMA CommandTypes ==
  ASSUME NEW h, NEW s \in 0..255
  PROVE  LET cmd == computeMotorCommands(h, s)
         IN  /\ cmd \in Motors
             /\ Moving(cmd) <=> Straight(h) \/ Spins(h)
             /\ Moving(cmd) => \A d \in Sides : cmd.act[d] # "stop"
             /\ ~Moving(cmd) => cmd = StopBoth
<1>1. CASE Straight(h)
  <2> DEFINE v == IF "forward" \in h THEN "forward" ELSE "backward"
             f == [d \in Sides |-> IF Turns(h)[d] THEN Inner(s) ELSE s]
  <2>1. f \in [Sides -> 0..255]
    BY InnerIsLess
  <2>2. v \in Orders /\ v # "stop" /\ v # None
    BY DEF Orders, None
  <2>3. computeMotorCommands(h, s) = [act |-> Both(v), pwm |-> f]
    BY <1>1, Commands
  <2> HIDE DEF v, f
  <2> QED
    BY <1>1, <2>1, <2>2, <2>3 DEF Motors, Moving, Sides, Both, None
<1>2. CASE Spins(h)
  <2>1. ~Straight(h)
    BY <1>2 DEF Straight, Spins
  <2> QED
    BY <1>2, <2>1, Commands DEF Motors, Moving, Sides, Orders, Both, None
<1>3. CASE ~Straight(h) /\ ~Spins(h)
  BY <1>3, Commands DEF Motors, Moving, Sides, Orders, Both, None, StopBoth
<1> QED
  BY <1>1, <1>2, <1>3

(* The speed does not change where the motors turn.                        *)
LEMMA ActsWithoutSpeed ==
  ASSUME NEW h, NEW s, NEW t
  PROVE  computeMotorCommands(h, s).act = computeMotorCommands(h, t).act
<1>1. Spins(h) => ~Straight(h)
  BY DEF Straight, Spins
<1> QED
  BY <1>1, Commands DEF StopBoth

LEMMA NothingHeld ==
  ASSUME NEW s PROVE computeMotorCommands({}, s) = StopBoth
<1>1. ~Straight({}) /\ ~Spins({})
  BY DEF Straight, Spins, Turns
<1> QED
  BY <1>1, Commands

(* One more direction, while the rover moves, is another command.          *)
LEMMA PressChanges ==
  ASSUME NEW h \in SUBSET Directions, NEW a \in Directions \ h,
         NEW s \in 1..255, NEW t \in 0..255, Moving(computeMotorCommands(h, s))
  PROVE  computeMotorCommands(h \union {a}, t) # computeMotorCommands(h, s)
<1> DEFINE c == computeMotorCommands(h, s)
           e == computeMotorCommands(h \union {a}, t)
<1>1. a \in {"forward", "backward", "left", "right"} /\ a \notin h
  BY ActsAssumption DEF Directions
<1>2. Inner(s) # s /\ (t # 0 => Inner(t) # t) /\ (t = 0 => Inner(t) # s)
  <2>1. s \in 0..255 /\ s # 0
    OBVIOUS
  <2>2. Inner(s) # s /\ Inner(t) \in 0..255 /\ (t # 0 => Inner(t) # t)
    <3>1. Inner(s) < s /\ Inner(s) \in 0..255 /\ Inner(t) \in 0..255 /\ (t # 0 => Inner(t) < t)
      BY <2>1, InnerIsLess
    <3> QED
      BY <3>1
  <2>3. t = 0 => Inner(t) = 0
    BY DEF Inner
  <2> QED
    BY <2>1, <2>2, <2>3
<1>3. Straight(h) \/ Spins(h)
  <2>1. s \in 0..255
    OBVIOUS
  <2> QED
    BY <2>1, CommandTypes
<1>4. Moving(e) <=> Straight(h \union {a}) \/ Spins(h \union {a})
  BY CommandTypes
<1>5. CASE ~(Straight(h \union {a}) \/ Spins(h \union {a}))
  BY <1>4, <1>5
<1>6. CASE Straight(h) /\ Straight(h \union {a})
  <2>1. a \in {"left", "right"}
    BY <1>1, <1>6 DEF Straight
  <2>2. /\ c.pwm["left"] = IF Turns(h).left THEN Inner(s) ELSE s
        /\ c.pwm["right"] = IF Turns(h).right THEN Inner(s) ELSE s
        /\ e.pwm["left"] = IF Turns(h \union {a}).left THEN Inner(t) ELSE t
        /\ e.pwm["right"] = IF Turns(h \union {a}).right THEN Inner(t) ELSE t
    BY <1>6, Commands DEF Sides
  <2> HIDE DEF c, e
  <2>3. ASSUME a = "left" PROVE c.pwm # e.pwm
    BY <1>1, <1>2, <2>2, <2>3 DEF Turns
  <2>4. ASSUME a = "right" PROVE c.pwm # e.pwm
    BY <1>1, <1>2, <2>2, <2>4 DEF Turns
  <2> QED
    BY <2>1, <2>3, <2>4 DEF c, e
<1>7. CASE Spins(h) /\ Straight(h \union {a})
  <2>1. e.act["left"] = e.act["right"]
    BY <1>7, Commands DEF Sides, Both
  <2>2. c.act["left"] # c.act["right"]
    <3>1. /\ c.act["left"] = IF Turns(h).left THEN "backward" ELSE "forward"
          /\ c.act["right"] = IF Turns(h).right THEN "backward" ELSE "forward"
      BY <1>7, Commands DEF Sides
    <3> HIDE DEF c
    <3> QED
      BY <1>7, <3>1 DEF Spins, Turns
  <2> QED
    BY <2>1, <2>2
<1>8. ~Spins(h \union {a})
  BY <1>1, <1>3 DEF Straight, Spins, Turns
<1> QED
  BY <1>3, <1>5, <1>6, <1>7, <1>8

-----------------------------------------------------------------------------
(* What the page sends, and what that comes to.                            *)

Caches == [act : [Sides -> Orders \union {None}], pwm : [Sides -> -1..255]]

LEMMA MotorsAreCaches == Motors \subseteq Caches /\ NoCache \in Caches
BY DEF Motors, Caches, NoCache, Both, Sides

LEMMA WireConcat ==
  ASSUME NEW u \in Wire, NEW v \in Wire
  PROVE  u \o v \in Wire /\ (u \o v = <<>> <=> u = <<>> /\ v = <<>>)
BY ConcatEqualIffEmpty, ConcatProperties DEF Wire

LEMMA WireAssociates ==
  ASSUME NEW u \in Wire, NEW v \in Wire, NEW w \in Wire
  PROVE  (u \o v) \o w = u \o (v \o w)
BY ConcatAssociative DEF Wire

(* u is w and what had to be sent after it for one cell: the cell comes to *)
(* what is commanded, the others to what they came to.                     *)
Follows(w, u, k, e, cmd, cache) ==
  /\ u \in Wire
  /\ cache[k][e] # cmd[k][e] => Ends(u, k, e, cmd[k][e])
  /\ \A j \in Kinds, d \in Sides : \A v :
       /\ Ends(w, j, d, v)
       /\ j = k /\ d = e => v = cmd[k][e] \/ cache[k][e] = cmd[k][e]
       => Ends(u, j, d, v)
  /\ Armed(u) => IF k = "act" /\ cache[k][e] # cmd[k][e] THEN cmd[k][e] # "stop" ELSE Armed(w)

LEMMA UnsentEnds ==
  ASSUME NEW w \in Wire, NEW cmd \in Motors, NEW cache, NEW k \in Kinds, NEW e \in Sides
  PROVE  /\ Unsent(k, e, cmd, cache) \in Wire /\ w \o Unsent(k, e, cmd, cache) \in Wire
         /\ cache[k][e] # cmd[k][e] => Unsent(k, e, cmd, cache) # <<>>
         /\ Follows(w, w \o Unsent(k, e, cmd, cache), k, e, cmd, cache)
<1> DEFINE m == Message(k, {e}, cmd[k][e])
           u == w \o Unsent(k, e, cmd, cache)
<1>1. m \in ActMessages \union PwmMessages /\ <<m>> \in Wire /\ <<>> \in Wire
      /\ m.kind = k /\ m.sides = {e} /\ m.value = cmd[k][e]
  BY DEF Message, ActMessages, PwmMessages, Wire, Kinds, Motors
<1> HIDE DEF m
<1>2. CASE cache[k][e] = cmd[k][e]
  <2>1. Unsent(k, e, cmd, cache) = <<>> /\ u = w
    BY <1>2 DEF Unsent, Wire
  <2> QED
    BY <1>1, <1>2, <2>1 DEF Follows
<1>3. CASE cache[k][e] # cmd[k][e]
  <2>1. Unsent(k, e, cmd, cache) = <<m>> /\ <<m>> # <<>>
    BY <1>3 DEF Unsent, m
  <2>2. u = Append(w, m) /\ u \in Wire
    BY <1>1, <2>1, AppendIsConcat DEF Wire
  <2>3. Ends(u, k, e, cmd[k][e])
    BY <1>1, <2>2, EndsMore DEF Hits
  <2>4. ASSUME NEW j \in Kinds, NEW d \in Sides, NEW v, Ends(w, j, d, v),
               j = k /\ d = e => v = cmd[k][e] \/ cache[k][e] = cmd[k][e]
        PROVE  Ends(u, j, d, v)
    <3>1. CASE j = k /\ d = e
      BY <1>3, <2>3, <2>4, <3>1
    <3>2. CASE j # k \/ d # e
      <4>1. ~Hits(m, j, {d})
        BY <1>1, <3>2 DEF Hits
      <4> QED
        BY <1>1, <2>2, <2>4, <4>1, EndsMore
    <3> QED
      BY <3>1, <3>2
  <2>5. ASSUME Armed(u) PROVE IF k = "act" THEN cmd[k][e] # "stop" ELSE Armed(w)
    BY <1>1, <2>2, <2>5, ArmedMore
  <2> QED
    BY <1>1, <1>3, <2>1, <2>2, <2>3, <2>4, <2>5 DEF Follows
<1> QED
  BY <1>2, <1>3

(* The changed cells come to what is commanded, the others to what they    *)
(* came to; the deadman is armed as far as the rover is to move.           *)
LEMMA ChangedEnds ==
  ASSUME NEW w \in Wire, NEW cmd \in Motors, NEW cache,
         ~Moving(cmd) => cmd.act = Both("stop"),
         Armed(w) => cache.act["left"] # "stop"
  PROVE  LET u == w \o Changed(cmd, cache)
         IN  /\ Changed(cmd, cache) \in Wire /\ u \in Wire
             /\ \A k \in Kinds, d \in Sides :
                  cache[k][d] # cmd[k][d] => Changed(cmd, cache) # <<>> /\ Ends(u, k, d, cmd[k][d])
             /\ \A k \in Kinds, d \in Sides :
                  Ends(w, k, d, cmd[k][d]) => Ends(u, k, d, cmd[k][d])
             /\ \A k \in Kinds, d \in Sides : \A v :
                  Ends(w, k, d, v) /\ cache[k][d] = cmd[k][d] => Ends(u, k, d, v)
             /\ Armed(u) => Moving(cmd)
<1> DEFINE A == Unsent("pwm", "left", cmd, cache)
           B == Unsent("pwm", "right", cmd, cache)
           C == Unsent("act", "left", cmd, cache)
           D == Unsent("act", "right", cmd, cache)
           wA == w \o A
           wB == wA \o B
           wC == wB \o C
           wD == wC \o D
<1>1. "pwm" \in Kinds /\ "act" \in Kinds /\ Kinds = {"act", "pwm"}
      /\ "left" \in Sides /\ "right" \in Sides /\ Sides = {"left", "right"}
  BY DEF Kinds, Sides
<1>2. /\ A \in Wire /\ wA \in Wire
      /\ cache["pwm"]["left"] # cmd["pwm"]["left"] => A # <<>>
      /\ Follows(w, wA, "pwm", "left", cmd, cache)
  BY <1>1, UnsentEnds
<1> HIDE DEF wA
<1>3. /\ B \in Wire /\ wB \in Wire
      /\ cache["pwm"]["right"] # cmd["pwm"]["right"] => B # <<>>
      /\ Follows(wA, wB, "pwm", "right", cmd, cache)
  <2>1. wA \in Wire
    BY <1>2
  <2> QED
    BY <1>1, <2>1, UnsentEnds
<1> HIDE DEF wB
<1>4. /\ C \in Wire /\ wC \in Wire
      /\ cache["act"]["left"] # cmd["act"]["left"] => C # <<>>
      /\ Follows(wB, wC, "act", "left", cmd, cache)
  <2>1. wB \in Wire
    BY <1>3
  <2> QED
    BY <1>1, <2>1, UnsentEnds
<1> HIDE DEF wC
<1>5. /\ D \in Wire /\ wD \in Wire
      /\ cache["act"]["right"] # cmd["act"]["right"] => D # <<>>
      /\ Follows(wC, wD, "act", "right", cmd, cache)
  <2>1. wC \in Wire
    BY <1>4
  <2> QED
    BY <1>1, <2>1, UnsentEnds
<1> HIDE DEF wD, A, B, C, D
<1>6. /\ Changed(cmd, cache) = ((A \o B) \o C) \o D
      /\ w \o Changed(cmd, cache) = wD /\ Changed(cmd, cache) \in Wire
      /\ A # <<>> \/ B # <<>> \/ C # <<>> \/ D # <<>> => Changed(cmd, cache) # <<>>
  <2>1. Changed(cmd, cache) = ((A \o B) \o C) \o D
    BY DEF Changed, A, B, C, D
  <2>2. A \o B \in Wire /\ (A \o B) \o C \in Wire /\ ((A \o B) \o C) \o D \in Wire
    BY <1>2, <1>3, <1>4, <1>5, WireConcat
  <2>3. w \in Wire /\ A \in Wire /\ B \in Wire /\ C \in Wire /\ D \in Wire
    BY <1>2, <1>3, <1>4, <1>5
  <2>4. w \o (((A \o B) \o C) \o D) = (((w \o A) \o B) \o C) \o D
    <3>1. w \o (((A \o B) \o C) \o D) = (w \o ((A \o B) \o C)) \o D
      BY <2>2, <2>3, WireAssociates
    <3>2. w \o ((A \o B) \o C) = (w \o (A \o B)) \o C
      BY <2>2, <2>3, WireAssociates
    <3>3. w \o (A \o B) = (w \o A) \o B
      BY <2>3, WireAssociates
    <3> QED
      BY <3>1, <3>2, <3>3
  <2>5. A # <<>> \/ B # <<>> \/ C # <<>> \/ D # <<>> => ((A \o B) \o C) \o D # <<>>
    BY <2>2, <2>3, WireConcat
  <2> QED
    BY <2>1, <2>2, <2>4, <2>5 DEF wA, wB, wC, wD
<1>7. ASSUME NEW k \in Kinds, NEW d \in Sides
      PROVE  /\ cache[k][d] # cmd[k][d] => Changed(cmd, cache) # <<>> /\ Ends(wD, k, d, cmd[k][d])
             /\ Ends(w, k, d, cmd[k][d]) => Ends(wD, k, d, cmd[k][d])
  BY <1>1, <1>2, <1>3, <1>4, <1>5, <1>6 DEF Follows
<1>8. ASSUME NEW k \in Kinds, NEW d \in Sides, NEW v, Ends(w, k, d, v), cache[k][d] = cmd[k][d]
      PROVE  Ends(wD, k, d, v)
  BY <1>1, <1>2, <1>3, <1>4, <1>5, <1>8 DEF Follows
<1>9. ASSUME Armed(wD) PROVE Moving(cmd)
  <2>1. Both("stop")["left"] = "stop" /\ Both("stop")["right"] = "stop"
    BY DEF Both, Sides
  <2> QED
    BY <1>2, <1>3, <1>4, <1>5, <1>9, <2>1 DEF Moving, Follows
<1> QED
  BY <1>5, <1>6, <1>7, <1>8, <1>9

-----------------------------------------------------------------------------
(* The cache tells what will come of the wire, except that the deadman may *)
(* have stopped the motors or the slider may have moved since; and while   *)
(* the deadman is, or will be, armed, the cache is that of a moving rover. *)
Pages == [inputs : SUBSET Directions, lastSent : Caches, out : Wire]

Sound(cache, w) ==
  /\ \A d \in Sides : Ends(w, "act", d, "stop")
                        \/ (cache.act[d] # None /\ Ends(w, "act", d, cache.act[d]))
  /\ \A d \in Sides : cache.pwm[d] # -1 => Ends(w, "pwm", d, cache.pwm[d])
  /\ Armed(w) => Moving(cache)

(* A cache that may have forgotten what was sent, but claims nothing else. *)
Honest(cache, w) ==
  /\ \A d \in Sides : \/ cache.act[d] = None
                      \/ Ends(w, "act", d, "stop") \/ Ends(w, "act", d, cache.act[d])
  /\ \A d \in Sides : cache.pwm[d] # -1 => Ends(w, "pwm", d, cache.pwm[d])
  /\ Armed(w) => cache.act["left"] # "stop"

LEMMA SoundIsHonest ==
  ASSUME NEW cache, NEW w, Sound(cache, w) PROVE Honest(cache, w)
BY DEF Sound, Honest, Moving

LEMMA ForgottenIsHonest ==
  ASSUME NEW w PROVE Honest(NoCache, w)
BY DEF Honest, NoCache, Both, Sides, None

(* The motors will turn as these inputs ask for.                           *)
Obeyed(h, w) == \A d \in Sides : Ends(w, "act", d, computeMotorCommands(h, speed).act[d])

(* The cache is what was sent for these inputs, or nothing yet.            *)
CacheIs(cache, h) ==
  \/ cache.act = Both(None) /\ h = {}
  \/ \E s \in Speeds : /\ cache.act = computeMotorCommands(h, s).act
                       /\ cache.pwm \in {Both(-1), computeMotorCommands(h, s).pwm}

LEMMA SoundDeliver ==
  ASSUME RoverTypes, Deliver, Sound(lastSent, wire)
  PROVE  Sound(lastSent, wire)'
<1>1. lastSent' = lastSent /\ "act" \in Kinds /\ "pwm" \in Kinds
  BY DEF Deliver, page, Kinds
<1>2. ASSUME NEW k \in Kinds, NEW d \in Sides, NEW v, Ends(wire, k, d, v) PROVE Ends(wire, k, d, v)'
  BY <1>2, DeliverEnds
<1>3. Armed(wire)' => Moving(lastSent)
  BY DeliverArmed DEF Sound
<1>4. ASSUME NEW d \in Sides
      PROVE  /\ Ends(wire, "act", d, "stop")' \/ (lastSent.act[d] # None /\ Ends(wire, "act", d, lastSent.act[d])')
             /\ lastSent.pwm[d] # -1 => Ends(wire, "pwm", d, lastSent.pwm[d])'
  BY <1>1, <1>2, <1>4 DEF Sound
<1> QED
  BY <1>1, <1>3, <1>4 DEF Sound, Ends, Moving

LEMMA SoundCut ==
  ASSUME RoverTypes, TickDeadman, Sound(lastSent, wire)
  PROVE  Sound(lastSent, wire)'
<1>1. lastSent' = lastSent
  BY DEF TickDeadman, page
<1>2. ASSUME NEW d \in Sides
      PROVE  /\ Ends(wire, "act", d, "stop")' \/ (lastSent.act[d] # None /\ Ends(wire, "act", d, lastSent.act[d])')
             /\ lastSent.pwm[d] # -1 => Ends(wire, "pwm", d, lastSent.pwm[d])'
  <2>1. /\ \A v : Ends(wire, "act", d, v) => Ends(wire, "act", d, v)' \/ Ends(wire, "act", d, "stop")'
        /\ \A v : Ends(wire, "pwm", d, v) => Ends(wire, "pwm", d, v)'
    BY CutEnds
  <2>2. CASE Ends(wire, "act", d, "stop")
    BY <1>1, <2>1, <2>2 DEF Sound
  <2>3. CASE lastSent.act[d] # None /\ Ends(wire, "act", d, lastSent.act[d])
    BY <1>1, <2>1, <2>3 DEF Sound
  <2> QED
    BY <2>2, <2>3 DEF Sound
<1>3. Armed(wire)' => Moving(lastSent)
  BY CutEnds DEF Sound
<1> QED
  BY <1>1, <1>2, <1>3 DEF Sound, Ends, Moving

(* What ApplyHeldInputs makes of a page.                                   *)
LEMMA Applies ==
  ASSUME RoverTypes, speed \in Speeds, NEW p \in Pages, NEW h \in SUBSET Directions,
         Honest(p.lastSent, wire \o p.out)
  PROVE  LET q == ApplyHeldInputs(p, h)
             cmd == computeMotorCommands(h, speed)
         IN  /\ q \in Pages /\ q.inputs = h /\ q.lastSent = cmd
             /\ Sound(cmd, wire \o q.out)
             /\ (\A d \in Sides : p.lastSent.act[d] # cmd.act[d]
                                    \/ Ends(wire \o p.out, "act", d, cmd.act[d]))
                  => Obeyed(h, wire \o q.out)
             /\ p.lastSent # cmd \/ p.out # <<>> => q.out # <<>>
<1> DEFINE cmd == computeMotorCommands(h, speed)
           cache == p.lastSent
           w == wire \o p.out
           q == ApplyHeldInputs(p, h)
           u == wire \o q.out
<1>1. speed \in 0..255
  BY SpeedsAssumption
<1>2. cmd \in Motors /\ (~Moving(cmd) => cmd = StopBoth)
  BY <1>1, CommandTypes
<1>3. p.inputs \in SUBSET Directions /\ cache \in Caches /\ p.out \in Wire /\ w \in Wire
  BY WireConcat DEF Pages, RoverTypes
<1>4. q.inputs = h /\ q.lastSent = cmd /\ q.out = p.out \o Changed(cmd, cache)
      /\ q = [inputs |-> h, lastSent |-> cmd, out |-> p.out \o Changed(cmd, cache)]
  BY DEF ApplyHeldInputs
<1>5. /\ Changed(cmd, cache) \in Wire /\ w \o Changed(cmd, cache) \in Wire
      /\ \A k \in Kinds, d \in Sides :
           cache[k][d] # cmd[k][d] =>
             Changed(cmd, cache) # <<>> /\ Ends(w \o Changed(cmd, cache), k, d, cmd[k][d])
      /\ \A k \in Kinds, d \in Sides :
           Ends(w, k, d, cmd[k][d]) => Ends(w \o Changed(cmd, cache), k, d, cmd[k][d])
      /\ \A k \in Kinds, d \in Sides : \A v :
           Ends(w, k, d, v) /\ cache[k][d] = cmd[k][d] => Ends(w \o Changed(cmd, cache), k, d, v)
      /\ Armed(w \o Changed(cmd, cache)) => Moving(cmd)
  <2>1. ~Moving(cmd) => cmd.act = Both("stop")
    BY <1>2 DEF StopBoth
  <2>2. Armed(w) => cache.act["left"] # "stop"
    BY DEF Honest
  <2> HIDE DEF cmd, cache, w
  <2> QED
    BY <1>2, <1>3, <2>1, <2>2, ChangedEnds
<1>6. q \in Pages
  <2>1. p.out \o Changed(cmd, cache) \in Wire
    BY <1>3, <1>5, WireConcat
  <2>2. cmd \in Caches
    BY <1>2, MotorsAreCaches
  <2> HIDE DEF cmd, cache
  <2> QED
    BY <1>4, <2>1, <2>2 DEF Pages
<1>7. u = w \o Changed(cmd, cache)
  <2>1. (wire \o p.out) \o Changed(cmd, cache) = wire \o (p.out \o Changed(cmd, cache))
    <3> HIDE DEF cmd, cache
    <3> QED
      BY <1>3, <1>5, WireAssociates DEF RoverTypes
  <2> QED
    BY <1>4, <2>1
<1>8. cache # cmd => \E k \in Kinds, d \in Sides : cache[k][d] # cmd[k][d]
  <2> SUFFICES ASSUME \A k \in Kinds, d \in Sides : cache[k][d] = cmd[k][d] PROVE cache = cmd
    OBVIOUS
  <2>1. "act" \in Kinds /\ "pwm" \in Kinds /\ cmd \in Caches
    BY <1>2, MotorsAreCaches DEF Kinds
  <2> HIDE DEF cmd, cache
  <2>2. cache.act = cmd.act
    <3>1. cache.act \in [Sides -> Orders \union {None}] /\ cmd.act \in [Sides -> Orders \union {None}]
      BY <1>3, <2>1 DEF Caches
    <3> QED
      BY <2>1, <3>1
  <2>3. cache.pwm = cmd.pwm
    <3>1. cache.pwm \in [Sides -> -1..255] /\ cmd.pwm \in [Sides -> -1..255]
      BY <1>3, <2>1 DEF Caches
    <3> QED
      BY <2>1, <3>1
  <2> QED
    BY <1>3, <2>1, <2>2, <2>3 DEF Caches
<1>9. cache # cmd \/ p.out # <<>> => q.out # <<>>
  BY <1>3, <1>4, <1>5, <1>8, WireConcat
<1> HIDE DEF cmd, cache, w, q, u
<1>10. "act" \in Kinds /\ "pwm" \in Kinds
  BY DEF Kinds
<1>11. ASSUME NEW d \in Sides
       PROVE  Ends(u, "act", d, "stop") \/ (cmd.act[d] # None /\ Ends(u, "act", d, cmd.act[d]))
  <2>1. cmd.act[d] # None
    BY <1>2 DEF Motors, Orders, None
  <2>2. CASE cache.act[d] = cmd.act[d]
    <3>1. Ends(w, "act", d, "stop") \/ Ends(w, "act", d, cache.act[d])
      BY <2>1, <2>2 DEF Honest, cache, w
    <3> QED
      BY <1>5, <1>7, <1>10, <2>1, <2>2, <3>1
  <2>3. CASE cache.act[d] # cmd.act[d]
    BY <1>5, <1>7, <1>10, <2>1, <2>3
  <2> QED
    BY <2>2, <2>3
<1>12. ASSUME NEW d \in Sides PROVE Ends(u, "pwm", d, cmd.pwm[d])
  <2>1. cmd.pwm[d] # -1
    BY <1>2 DEF Motors
  <2>2. cache.pwm[d] # -1 => Ends(w, "pwm", d, cache.pwm[d])
    BY DEF Honest, cache, w
  <2> QED
    BY <1>5, <1>7, <1>10, <2>1, <2>2
<1>13. ASSUME \A d \in Sides : cache.act[d] # cmd.act[d] \/ Ends(w, "act", d, cmd.act[d])
       PROVE  \A d \in Sides : Ends(u, "act", d, cmd.act[d])
  BY <1>5, <1>7, <1>10, <1>13
<1>14. Sound(cmd, u)
  BY <1>5, <1>7, <1>11, <1>12 DEF Sound
<1> QED
  BY <1>4, <1>6, <1>9, <1>13, <1>14 DEF cmd, cache, w, q, u, Obeyed

-----------------------------------------------------------------------------
(* Induction over the naturals, for a set of them.                         *)
LEMMA LeastElement ==
  ASSUME NEW T \in SUBSET Nat, T # {}
  PROVE  \E n \in T : \A m \in T : n <= m
<1> DEFINE R == {p \in Nat \X Nat : p[1] < p[2]}
<1>1. IsWellFoundedOn(R, Nat)
  BY NatLessThanWellFounded DEF OpToRel
<1>2. PICK n \in T : \A m \in T : ~(<<m, n>> \in R)
  <2> HIDE DEF R
  <2> QED
    BY <1>1, WFMin
<1>3. \A m \in T : ~(m < n)
  <2> SUFFICES ASSUME NEW m \in T, m < n PROVE FALSE
    OBVIOUS
  <2>1. <<m, n>> \in Nat \X Nat /\ <<m, n>>[1] < <<m, n>>[2]
    OBVIOUS
  <2> QED
    BY <1>2, <2>1
<1> QED
  BY <1>3

LEMMA SetInduction ==
  ASSUME NEW S \in SUBSET Nat, 0 \in S, \A n \in S : n + 1 \in S
  PROVE  S = Nat
<1> SUFFICES ASSUME Nat \ S # {} PROVE FALSE
  OBVIOUS
<1>1. PICK n \in Nat \ S : \A m \in Nat \ S : n <= m
  BY LeastElement
<1> QED
  BY <1>1

-----------------------------------------------------------------------------
(* The release of the buttons, one after the other.                        *)

AfterOne(p, a) == IF Reports(a) THEN ApplyHeldInputs(p, p.inputs \ {a}) ELSE p

LEMMA ReportedSteps ==
  ASSUME NEW as \in Seq(Acts)
  PROVE  /\ Reported(as)[0] = Page
         /\ \A i \in 1..Len(as) : Reported(as)[i] = AfterOne(Reported(as)[i - 1], as[i])
<1> DEFINE N == Len(as)
           Body(g, i) == IF i = 0 THEN Page ELSE AfterOne(g[i - 1], as[i])
           F(g) == [i \in 0..N |-> Body(g, i)]
           Upto(n) == \E g : g = [i \in 0..N |-> g[i]] /\ \A i \in 0..N : i <= n => g[i] = Body(g, i)
<1>1. N \in Nat
  BY LenProperties
<1> HIDE DEF N
<1>2. Upto(0)
  <2> DEFINE g == [i \in 0..N |-> Page]
  <2>1. g = [i \in 0..N |-> g[i]] /\ \A i \in 0..N : i <= 0 => g[i] = Body(g, i)
    BY <1>1
  <2> QED
    BY <2>1
<1>3. ASSUME NEW n \in Nat, Upto(n) PROVE Upto(n + 1)
  <2>1. PICK g : g = [i \in 0..N |-> g[i]] /\ \A i \in 0..N : i <= n => g[i] = Body(g, i)
    BY <1>3
  <2> DEFINE f == [i \in 0..N |-> IF i = n + 1 THEN Body(g, n + 1) ELSE g[i]]
  <2>2. \A i \in 0..N : f[i] = IF i = n + 1 THEN Body(g, n + 1) ELSE g[i]
    OBVIOUS
  <2>3. f = [i \in 0..N |-> f[i]]
    OBVIOUS
  <2> HIDE DEF f
  <2>4. ASSUME NEW i \in 0..N, i <= n + 1 PROVE f[i] = Body(f, i)
    <3>1. i # 0 => i - 1 \in 0..N /\ i - 1 # n + 1 /\ i - 1 <= n
      BY <1>1, <2>4
    <3>2. Body(f, i) = Body(g, i)
      BY <2>2, <3>1
    <3>3. i # n + 1 => i <= n
      BY <1>1, <2>4
    <3> QED
      BY <2>1, <2>2, <2>4, <3>2, <3>3
  <2> QED
    BY <2>3, <2>4
<1>4. Upto(N)
  <2> DEFINE S == {n \in Nat : Upto(n)}
  <2> HIDE DEF Upto
  <2>1. S \in SUBSET Nat /\ 0 \in S
    BY <1>2
  <2>2. \A n \in S : n + 1 \in S
    BY <1>3
  <2> HIDE DEF S
  <2>3. S = Nat
    BY <2>1, <2>2, SetInduction
  <2> QED
    BY <1>1, <2>3 DEF S
<1>5. \E g : g = F(g)
  <2>1. PICK g : g = [i \in 0..N |-> g[i]] /\ \A i \in 0..N : i <= N => g[i] = Body(g, i)
    BY <1>4
  <2>2. \A i \in 0..N : i <= N
    BY <1>1
  <2>3. g = F(g)
    <3> HIDE DEF Body
    <3>1. \A i \in 0..N : g[i] = Body(g, i)
      BY <2>1, <2>2
    <3> QED
      BY <2>1, <3>1
  <2> QED
    BY <2>3
<1>6. Reported(as) = CHOOSE g : g = F(g)
  BY DEF Reported, AfterOne, N
<1>7. Reported(as) = F(Reported(as))
  BY <1>5, <1>6
<1> HIDE DEF F
<1>8. \A i \in 0..N : Reported(as)[i] = Body(Reported(as), i)
  BY <1>7 DEF F
<1>9. 0 \in 0..N /\ \A i \in 1..N : i \in 0..N /\ i # 0
  BY <1>1
<1> QED
  BY <1>8, <1>9 DEF N

-----------------------------------------------------------------------------
(* The types of the variables of DriveInput.                               *)
DriveTypes ==
  /\ RoverTypes
  /\ pressed \subseteq Acts /\ held \subseteq Acts
  /\ keepalive \in Directions \union {None}
  /\ elapsed \in 0..KeepaliveTicks
  /\ inputs \in SUBSET Directions /\ lastSent \in Caches
  /\ speed \in Speeds /\ dragging \in BOOLEAN
  /\ cut \in BOOLEAN
  /\ age \in 0..DeadmanTicks

(* What the presses and releases make of the page: it is sound, and if the *)
(* page was obeyed it is.                                                  *)
Applied(p) ==
  /\ p \in Pages
  /\ Sound(p.lastSent, wire \o p.out)
  /\ p = Page \/ p.lastSent = computeMotorCommands(p.inputs, speed)
  /\ CacheIs(lastSent, inputs) /\ Obeyed(inputs, wire) => Obeyed(p.inputs, wire \o p.out)

LEMMA PageApplied ==
  ASSUME DriveTypes, Sound(lastSent, wire)
  PROVE  Applied(Page) /\ [Page EXCEPT !.out = <<>>] = Page
<1>1. Page \in Pages /\ Page.inputs = inputs /\ Page.lastSent = lastSent /\ Page.out = <<>>
  BY EmptySeq DEF Page, Pages, DriveTypes, Wire
<1>2. wire \o <<>> = wire
  BY ConcatEmptySeq DEF DriveTypes, RoverTypes, Wire
<1>3. [Page EXCEPT !.out = <<>>] = Page
  BY DEF Page
<1> QED
  BY <1>1, <1>2, <1>3 DEF Applied

LEMMA AppliesApplied ==
  ASSUME DriveTypes, NEW p, Applied(p), NEW h \in SUBSET Directions
  PROVE  Applied(ApplyHeldInputs(p, h)) /\ ApplyHeldInputs(p, h).inputs = h
<1> DEFINE q == ApplyHeldInputs(p, h)
           cmd == computeMotorCommands(h, speed)
           w == wire \o p.out
<1>1. /\ q \in Pages /\ q.inputs = h /\ q.lastSent = cmd
      /\ Sound(cmd, wire \o q.out)
      /\ (\A d \in Sides : p.lastSent.act[d] # cmd.act[d] \/ Ends(w, "act", d, cmd.act[d]))
           => Obeyed(h, wire \o q.out)
  BY Applies, SoundIsHonest DEF Applied, DriveTypes
<1>2. cmd \in Motors
  <2>1. speed \in 0..255
    BY SpeedsAssumption DEF DriveTypes
  <2> QED
    BY <2>1, CommandTypes
<1> HIDE DEF q, w
<1>3. ASSUME CacheIs(lastSent, inputs), Obeyed(inputs, wire), NEW d \in Sides, p.lastSent.act[d] = cmd.act[d]
      PROVE  Ends(w, "act", d, cmd.act[d])
  <2>1. Ends(w, "act", d, computeMotorCommands(p.inputs, speed).act[d])
    BY <1>3 DEF Applied, Obeyed, w
  <2>2. computeMotorCommands(p.inputs, speed).act[d] = cmd.act[d]
    <3>1. CASE p.lastSent = computeMotorCommands(p.inputs, speed)
      BY <1>3, <3>1
    <3>2. CASE p = Page
      <4>1. p.inputs = inputs /\ p.lastSent = lastSent
        BY <3>2 DEF Page
      <4>2. lastSent.act # Both(None)
        <5>1. Both(None)[d] = None /\ cmd.act[d] \in Orders /\ None \notin Orders
          BY <1>2 DEF Both, Motors, Orders, None
        <5> QED
          BY <1>3, <4>1, <5>1
      <4>3. lastSent.act = computeMotorCommands(inputs, speed).act
        BY <1>3, <4>2, ActsWithoutSpeed DEF CacheIs
      <4> QED
        BY <1>3, <4>1, <4>3
    <3> QED
      BY <3>1, <3>2 DEF Applied
  <2> QED
    BY <2>1, <2>2
<1> QED
  BY <1>1, <1>3 DEF Applied, q

LEMMA Released ==
  ASSUME DriveTypes, Sound(lastSent, wire), NEW as \in Seq(Acts)
  PROVE  LET q == Reported(as)[Len(as)]
         IN  /\ Applied(q)
             /\ q.inputs \subseteq inputs
             /\ \A a \in ToSet(as) : Reports(a) => a \notin q.inputs
<1> DEFINE N == Len(as)
           q(i) == Reported(as)[i]
           Good(i) ==
             /\ Applied(q(i)) /\ q(i).inputs \subseteq inputs
             /\ \A j \in 1..N : j <= i /\ Reports(as[j]) => as[j] \notin q(i).inputs
<1>1. N \in Nat /\ q(0) = Page /\ \A i \in 1..N : q(i) = AfterOne(q(i - 1), as[i])
  BY LenProperties, ReportedSteps
<1> HIDE DEF q, N
<1>2. Good(0)
  <2>1. Applied(q(0)) /\ q(0).inputs = inputs
    BY <1>1, PageApplied DEF Page
  <2>2. \A j \in 1..N : ~(j <= 0)
    BY <1>1
  <2> QED
    BY <2>1, <2>2
<1>3. ASSUME NEW i \in Nat, i < N, Good(i) PROVE Good(i + 1)
  <2>1. i + 1 \in 1..N /\ q(i + 1) = AfterOne(q(i), as[i + 1])
    <3>1. i + 1 \in 1..N /\ (i + 1) - 1 = i
      BY <1>1, <1>3
    <3>2. q(i + 1) = AfterOne(q((i + 1) - 1), as[i + 1])
      BY <1>1, <3>1
    <3> QED
      BY <3>1, <3>2
  <2>2. CASE ~Reports(as[i + 1])
    <3>1. q(i + 1) = q(i)
      BY <2>1, <2>2 DEF AfterOne
    <3>2. \A j \in 1..N : j <= i + 1 /\ Reports(as[j]) => j <= i
      <4>1. \A j \in 1..N : j <= i + 1 => j <= i \/ j = i + 1
        BY <1>1
      <4> QED
        BY <2>2, <4>1
    <3> QED
      BY <1>3, <3>1, <3>2
  <2>3. CASE Reports(as[i + 1])
    <3>1. q(i + 1) = ApplyHeldInputs(q(i), q(i).inputs \ {as[i + 1]})
      BY <2>1, <2>3 DEF AfterOne
    <3>2. q(i).inputs \ {as[i + 1]} \in SUBSET Directions
      BY <1>3 DEF Applied, Pages
    <3>3. Applied(q(i + 1)) /\ q(i + 1).inputs = q(i).inputs \ {as[i + 1]}
      <4>1. Applied(q(i))
        BY <1>3
      <4> QED
        BY <3>1, <3>2, <4>1, AppliesApplied
    <3>4. \A j \in 1..N : j <= i + 1 => j <= i \/ j = i + 1
      BY <1>1
    <3> QED
      BY <1>3, <3>3, <3>4
  <2> QED
    BY <2>2, <2>3
<1>4. Good(N)
  <2> DEFINE S == {i \in Nat : i <= N => Good(i)}
  <2> HIDE DEF Good
  <2>1. S \in SUBSET Nat /\ 0 \in S
    BY <1>2
  <2>2. \A i \in S : i + 1 \in S
    <3> SUFFICES ASSUME NEW i \in S, i + 1 <= N PROVE Good(i + 1)
      OBVIOUS
    <3>1. i \in Nat /\ i < N /\ Good(i)
      BY <1>1
    <3> QED
      BY <1>3, <3>1
  <2> HIDE DEF S
  <2>3. S = Nat
    BY <2>1, <2>2, SetInduction
  <2> QED
    BY <1>1, <2>3 DEF S
<1>5. \A a \in ToSet(as) : \E j \in 1..N : j <= N /\ a = as[j]
  <2>1. DOMAIN as = 1..N
    BY LenProperties DEF N
  <2>2. \A j \in 1..N : j <= N
    BY <1>1
  <2> QED
    BY <2>1, <2>2 DEF ToSet
<1> QED
  BY <1>4, <1>5 DEF q, N

-----------------------------------------------------------------------------
(* The page and the cache, in every step.                                  *)

NoGhost == inputs \subseteq held /\ keepalive \in held \union {None}

PageInv == DriveTypes /\ NoGhost /\ Sound(lastSent, wire)

(* A step that leaves the wire and the rover alone.                        *)
LEMMA Unmoved ==
  ASSUME RoverTypes, UNCHANGED <<wire, rover, active>>
  PROVE  /\ RoverTypes'
         /\ \A k, d, v : Ends(wire, k, d, v)' <=> Ends(wire, k, d, v)
         /\ UNCHANGED lastSent /\ Sound(lastSent, wire) => Sound(lastSent, wire)'
<1>1. \A k, d, v : Ends(wire, k, d, v)' <=> Ends(wire, k, d, v)
  BY DEF Ends, LastFor
<1>2. Armed(wire)' <=> Armed(wire)
  BY DEF Armed, LastFor
<1>3. UNCHANGED lastSent /\ Sound(lastSent, wire) => Sound(lastSent, wire)'
  <2> SUFFICES ASSUME UNCHANGED lastSent, Sound(lastSent, wire) PROVE Sound(lastSent, wire)'
    OBVIOUS
  <2>1. \A d \in Sides : Ends(wire, "act", d, "stop")'
                            \/ (lastSent'.act[d] # None /\ Ends(wire, "act", d, lastSent.act[d])')
    BY <1>1 DEF Sound
  <2>2. \A d \in Sides : lastSent'.pwm[d] # -1 => Ends(wire, "pwm", d, lastSent.pwm[d])'
    BY <1>1 DEF Sound
  <2> QED
    BY <1>2, <2>1, <2>2 DEF Sound, Moving
<1> QED
  BY <1>1, <1>3 DEF RoverTypes

LEMMA PageTaken ==
  ASSUME DriveTypes, NEW p \in Pages, Sound(p.lastSent, wire \o p.out),
         Becomes(p), UNCHANGED <<rover, active>>
  PROVE  /\ RoverTypes' /\ inputs' = p.inputs /\ lastSent' = p.lastSent
         /\ inputs' \in SUBSET Directions /\ lastSent' \in Caches
         /\ Sound(lastSent, wire)'
         /\ \A k, d, v : Ends(wire, k, d, v)' <=> Ends(wire \o p.out, k, d, v)
         /\ wire' = <<>> => wire = <<>> /\ p.out = <<>>
<1>1. /\ inputs' = p.inputs /\ lastSent' = p.lastSent /\ wire' = wire \o p.out
      /\ inputs' \in SUBSET Directions /\ lastSent' \in Caches /\ p.out \in Wire
  BY DEF Becomes, Pages
<1>2. /\ RoverTypes'
      /\ \A k, d, v : Ends(wire, k, d, v)' <=> Ends(wire \o p.out, k, d, v)
      /\ Armed(wire)' <=> Armed(wire \o p.out)
  BY <1>1, PageEnds DEF DriveTypes
<1>3. wire' = <<>> => wire = <<>> /\ p.out = <<>>
  BY <1>1, WireConcat DEF DriveTypes, RoverTypes
<1>4. Sound(lastSent, wire)'
  BY <1>1, <1>2 DEF Sound, Moving, Ends
<1> QED
  BY <1>1, <1>2, <1>3, <1>4

(* A press, with what its callback has sent before.                        *)
LEMMA Pressed ==
  ASSUME PageInv, NEW a \in Acts, NEW said \in Wire, Sound(lastSent, wire \o said),
         Press(a, said), pressed' \subseteq Acts, UNCHANGED roverVars
  PROVE  /\ PageInv'
         /\ a \in held => UNCHANGED <<held, keepalive, elapsed, page, wire, cut>>
         /\ a \notin held =>
              LET h == IF a = "stop" THEN {} ELSE inputs \union {a}
                  q == ApplyHeldInputs([Page EXCEPT !.out = said], h)
              IN  /\ Becomes(q) /\ inputs' = h /\ lastSent' = computeMotorCommands(h, speed)
                  /\ speed' = speed /\ dragging' = dragging /\ StillCut
                  /\ lastSent # computeMotorCommands(h, speed) \/ said # <<>> \/ wire # <<>> => wire' # <<>>
                  /\ keepalive' = IF a = "stop" THEN keepalive ELSE a
                  /\ elapsed' = IF a = "stop" THEN elapsed ELSE 0
<1>1. RoverTypes /\ DriveTypes /\ NoGhost /\ Sound(lastSent, wire) /\ UNCHANGED <<rover, active, age>>
  BY DEF PageInv, DriveTypes, roverVars
<1>2. CASE a \in held
  <2>1. UNCHANGED <<held, keepalive, elapsed, inputs, lastSent, speed, dragging, wire, cut>>
        /\ UNCHANGED page
    BY <1>2 DEF Press, page
  <2>2. RoverTypes' /\ Sound(lastSent, wire)'
    BY <1>1, <2>1, Unmoved
  <2>3. DriveTypes'
    BY <1>1, <2>1, <2>2 DEF DriveTypes
  <2>4. NoGhost'
    BY <1>1, <2>1 DEF NoGhost
  <2> QED
    BY <1>2, <2>1, <2>2, <2>3, <2>4 DEF PageInv
<1>3. CASE a \notin held
  <2> DEFINE h == IF a = "stop" THEN {} ELSE inputs \union {a}
             p == [Page EXCEPT !.out = said]
             q == ApplyHeldInputs(p, h)
             cmd == computeMotorCommands(h, speed)
  <2>1. /\ held' = held \union {a} /\ Becomes(q) /\ StillCut /\ speed' = speed /\ dragging' = dragging
        /\ keepalive' = IF a = "stop" THEN keepalive ELSE a
        /\ elapsed' = IF a = "stop" THEN elapsed ELSE 0
    BY <1>3 DEF Press
  <2>2. h \in SUBSET Directions
    BY <1>1 DEF DriveTypes, Directions
  <2>3. p \in Pages /\ p.lastSent = lastSent /\ p.out = said
    BY <1>1 DEF Page, Pages, DriveTypes
  <2> HIDE DEF h, p
  <2>4. q \in Pages /\ q.inputs = h /\ q.lastSent = cmd /\ Sound(cmd, wire \o q.out)
        /\ (lastSent # cmd \/ said # <<>> => q.out # <<>>)
    BY <1>1, <2>2, <2>3, Applies, SoundIsHonest DEF DriveTypes
  <2> HIDE DEF q, cmd
  <2>5. /\ RoverTypes' /\ inputs' = h /\ lastSent' = cmd /\ inputs' \in SUBSET Directions
        /\ lastSent' \in Caches /\ Sound(lastSent, wire)' /\ (wire' = <<>> => wire = <<>> /\ q.out = <<>>)
    BY <1>1, <2>1, <2>4, PageTaken
  <2>6. DriveTypes'
    <3>1. keepalive' \in Directions \union {None} /\ elapsed' \in 0..KeepaliveTicks
      BY <1>1, <2>1, TicksAssumption DEF DriveTypes, Directions
    <3>2. cut' \in BOOLEAN /\ held' \subseteq Acts
      BY <1>1, <2>1 DEF DriveTypes, StillCut
    <3> QED
      BY <1>1, <2>1, <2>5, <3>1, <3>2 DEF DriveTypes
  <2>7. NoGhost'
    BY <1>1, <2>1, <2>5 DEF NoGhost, h
  <2>8. lastSent # cmd \/ said # <<>> \/ wire # <<>> => wire' # <<>>
    BY <2>4, <2>5
  <2> QED
    BY <1>3, <2>1, <2>5, <2>6, <2>7, <2>8 DEF PageInv, h, p, q, cmd
<1> QED
  BY <1>2, <1>3

(* A release.                                                              *)
LEMMA Lifted ==
  ASSUME PageInv, NEW as \in Seq(Acts), Release(as), pressed' \subseteq Acts, UNCHANGED roverVars
  PROVE  LET q == Reported(as)[Len(as)]
         IN  /\ PageInv' /\ Becomes(q) /\ Applied(q) /\ StillCut
             /\ inputs' = q.inputs /\ lastSent' = q.lastSent
             /\ inputs' \subseteq inputs /\ speed' = speed /\ dragging' = dragging
             /\ wire' = <<>> => wire = <<>>
             /\ \A k, d, v : Ends(wire, k, d, v)' <=> Ends(wire \o q.out, k, d, v)
             /\ keepalive' # None => UNCHANGED <<keepalive, elapsed>>
<1> DEFINE q == Reported(as)[Len(as)]
<1>1. RoverTypes /\ DriveTypes /\ NoGhost /\ Sound(lastSent, wire) /\ UNCHANGED <<rover, active, age>>
  BY DEF PageInv, DriveTypes, roverVars
<1>2. /\ Applied(q) /\ q.inputs \subseteq inputs
      /\ \A a \in ToSet(as) : Reports(a) => a \notin q.inputs
  BY <1>1, Released
<1>3. /\ held' = held \ ToSet(as) /\ Becomes(q) /\ StillCut /\ speed' = speed /\ dragging' = dragging
      /\ IF \E a \in ToSet(as) : Reports(a)
         THEN keepalive' = None /\ elapsed' = 0 ELSE keepalive' = keepalive /\ elapsed' = elapsed
  BY DEF Release
<1> HIDE DEF q
<1>4. /\ RoverTypes' /\ inputs' = q.inputs /\ lastSent' = q.lastSent /\ inputs' \in SUBSET Directions
      /\ lastSent' \in Caches /\ Sound(lastSent, wire)' /\ (wire' = <<>> => wire = <<>>)
      /\ \A k, d, v : Ends(wire, k, d, v)' <=> Ends(wire \o q.out, k, d, v)
  <2>1. q \in Pages /\ Sound(q.lastSent, wire \o q.out)
    BY <1>2 DEF Applied
  <2> QED
    BY <1>1, <1>3, <2>1, PageTaken
<1>5. DriveTypes'
  <2>1. keepalive' \in Directions \union {None} /\ elapsed' \in 0..KeepaliveTicks
    <3>1. 0 \in 0..KeepaliveTicks
      BY TicksAssumption
    <3>2. keepalive \in Directions \union {None} /\ elapsed \in 0..KeepaliveTicks
      BY <1>1 DEF DriveTypes
    <3> QED
      BY <1>3, <3>1, <3>2
  <2>2. cut' \in BOOLEAN /\ held' \subseteq Acts
    BY <1>1, <1>3 DEF DriveTypes, StillCut
  <2> QED
    BY <1>1, <1>3, <1>4, <2>1, <2>2 DEF DriveTypes
<1>6. NoGhost'
  <2>1. \A a \in inputs' : a \in inputs /\ a \in held /\ a # "stop" /\ a \notin ToSet(as)
    BY <1>1, <1>2, <1>4 DEF NoGhost, DriveTypes, Directions, Reports
  <2>2. keepalive' \in held' \union {None}
    <3>1. CASE \E a \in ToSet(as) : Reports(a)
      BY <1>3, <3>1
    <3>2. CASE ~\E a \in ToSet(as) : Reports(a)
      <4>1. keepalive' = keepalive
        BY <1>3, <3>2
      <4>2. keepalive # None => keepalive \in held /\ keepalive # "stop"
        BY <1>1 DEF NoGhost, DriveTypes, Directions
      <4>3. keepalive # None => keepalive \notin ToSet(as)
        BY <3>2, <4>2 DEF Reports
      <4> QED
        BY <1>3, <4>1, <4>2, <4>3
    <3> QED
      BY <3>1, <3>2
  <2> QED
    BY <1>3, <2>1, <2>2 DEF NoGhost
<1> QED
  BY <1>2, <1>3, <1>4, <1>5, <1>6 DEF PageInv, q

LEMMA SpeedEnds ==
  ASSUME NEW w \in Wire, NEW s \in 0..255
  PROVE  /\ applySpeed(s) \in Wire /\ applySpeed(s) # <<>> /\ w \o applySpeed(s) \in Wire
         /\ \A d, v : Ends(w, "act", d, v) => Ends(w \o applySpeed(s), "act", d, v)
         /\ Armed(w \o applySpeed(s)) => Armed(w)
<1> DEFINE l == Message("pwm", {"left"}, s)
           r == Message("pwm", {"right"}, s)
           u == Append(Append(w, l), r)
<1>1. l \in PwmMessages /\ r \in PwmMessages /\ l.kind = "pwm" /\ r.kind = "pwm"
  BY DEF Message, PwmMessages, Sides
<1>2. applySpeed(s) = <<l, r>>
  BY DEF applySpeed
<1> HIDE DEF l, r
<1>3. w \o <<l, r>> = u /\ u \in Wire /\ Append(w, l) \in Wire /\ <<l, r>> \in Wire /\ <<l, r>> # <<>>
  BY <1>1 DEF Wire
<1>4. ASSUME NEW d, NEW v, Ends(w, "act", d, v) PROVE Ends(u, "act", d, v)
  <2>1. ~Hits(l, "act", {d}) /\ ~Hits(r, "act", {d})
    BY <1>1 DEF Hits
  <2>2. Ends(Append(w, l), "act", d, v)
    BY <1>1, <1>4, <2>1, EndsMore
  <2> QED
    BY <1>1, <1>3, <2>1, <2>2, EndsMore
<1>5. ASSUME Armed(u) PROVE Armed(w)
  <2>1. Armed(Append(w, l))
    BY <1>1, <1>3, <1>5, ArmedMore
  <2> QED
    BY <1>1, <2>1, ArmedMore
<1> QED
  BY <1>2, <1>3, <1>4, <1>5

(* The keepalive fires.                                                    *)
LEMMA Refreshed ==
  ASSUME PageInv, Keepalive
  PROVE  /\ PageInv' /\ UNCHANGED <<held, keepalive, inputs, speed, dragging, rover, active>>
         /\ lastSent' = computeMotorCommands(inputs, speed)
         /\ Obeyed(inputs, wire)' /\ wire' # <<>> /\ ~cut'
<1> DEFINE p == [Page EXCEPT !.lastSent = NoCache]
           cmd == computeMotorCommands(inputs, speed)
           q == ApplyHeldInputs(p, inputs)
<1>1. RoverTypes /\ DriveTypes /\ NoGhost
  BY DEF PageInv, DriveTypes
<1>2. /\ elapsed' = 0 /\ Becomes(q) /\ cut' = FALSE
      /\ UNCHANGED <<pressed, held, keepalive, speed, dragging, rover, active, age>>
  BY DEF Keepalive, roverVars
<1>3. /\ p \in Pages /\ p.lastSent = NoCache /\ p.out = <<>> /\ wire \o <<>> = wire
  <2>1. <<>> \in Wire /\ wire \o <<>> = wire
    BY <1>1, ConcatEmptySeq DEF RoverTypes, Wire
  <2> QED
    BY <1>1, <2>1, MotorsAreCaches DEF Page, Pages, DriveTypes
<1>4. cmd \in Motors
  <2>1. speed \in 0..255
    BY <1>1, SpeedsAssumption DEF DriveTypes
  <2> QED
    BY <2>1, CommandTypes
<1>5. /\ q \in Pages /\ q.inputs = inputs /\ q.lastSent = cmd /\ Sound(cmd, wire \o q.out)
      /\ Obeyed(inputs, wire \o q.out) /\ q.out # <<>>
  <2>1. \A d \in Sides : NoCache.act[d] = None /\ cmd.act[d] # None
    BY <1>4 DEF NoCache, Both, Motors, Orders, None
  <2>2. NoCache # cmd
    BY <2>1 DEF Sides
  <2>3. Honest(p.lastSent, wire \o p.out) /\ inputs \in SUBSET Directions /\ speed \in Speeds
    BY <1>1, <1>3, ForgottenIsHonest DEF DriveTypes
  <2> HIDE DEF p, cmd
  <2>4. /\ q \in Pages /\ q.inputs = inputs /\ q.lastSent = cmd /\ Sound(cmd, wire \o q.out)
        /\ (\A d \in Sides : p.lastSent.act[d] # cmd.act[d] \/ Ends(wire \o p.out, "act", d, cmd.act[d]))
             => Obeyed(inputs, wire \o q.out)
        /\ p.lastSent # cmd => q.out # <<>>
    BY <1>1, <1>3, <2>3, Applies DEF cmd
  <2> QED
    BY <1>3, <2>1, <2>2, <2>4
<1> HIDE DEF q, cmd
<1>6. /\ RoverTypes' /\ inputs' = inputs /\ lastSent' = cmd /\ inputs' \in SUBSET Directions
      /\ lastSent' \in Caches /\ Sound(lastSent, wire)' /\ wire' # <<>>
      /\ \A k, d, v : Ends(wire, k, d, v)' <=> Ends(wire \o q.out, k, d, v)
  BY <1>1, <1>2, <1>5, PageTaken
<1>7. Obeyed(inputs, wire)'
  BY <1>2, <1>5, <1>6 DEF Obeyed
<1>8. DriveTypes'
  <2>1. 0 \in 0..KeepaliveTicks
    BY TicksAssumption
  <2> QED
    BY <1>1, <1>2, <1>6, <2>1 DEF DriveTypes
<1>9. NoGhost'
  BY <1>1, <1>2, <1>6 DEF NoGhost
<1> QED
  BY <1>2, <1>6, <1>7, <1>8, <1>9 DEF PageInv, cmd

(* The slider is let go.                                                   *)
LEMMA SliderLetGo ==
  ASSUME PageInv, SliderChange
  PROVE  /\ PageInv' /\ UNCHANGED <<held, keepalive, elapsed, inputs, speed, rover, active>>
         /\ inputs = {} => lastSent'.act = lastSent.act /\ lastSent'.pwm = Both(-1)
         /\ inputs # {} => lastSent' = computeMotorCommands(inputs, speed)
         /\ Obeyed(inputs, wire) => Obeyed(inputs, wire)'
         /\ wire' # <<>> /\ StillCut
<1> DEFINE p == [Page EXCEPT !.lastSent.pwm = Both(-1), !.out = applySpeed(speed)]
           q == IF inputs = {} THEN p ELSE ApplyHeldInputs(p, inputs)
           cmd == computeMotorCommands(inputs, speed)
<1>1. /\ RoverTypes /\ DriveTypes /\ NoGhost /\ Sound(lastSent, wire) /\ wire \in Wire /\ lastSent \in Caches
      /\ inputs \in SUBSET Directions /\ speed \in Speeds /\ speed \in 0..255
  BY SpeedsAssumption DEF PageInv, DriveTypes, RoverTypes
<1>2. /\ dragging' = FALSE /\ Becomes(q) /\ StillCut
      /\ UNCHANGED <<pressed, held, keepalive, elapsed, speed, rover, active, age>>
  BY DEF SliderChange, bindings, roverVars
<1>3. /\ applySpeed(speed) \in Wire /\ applySpeed(speed) # <<>>
      /\ \A d, v : Ends(wire, "act", d, v) => Ends(wire \o applySpeed(speed), "act", d, v)
      /\ Armed(wire \o applySpeed(speed)) => Armed(wire)
  BY <1>1, SpeedEnds
<1>4. /\ p.inputs = inputs /\ p.lastSent.act = lastSent.act /\ p.lastSent.pwm = Both(-1)
      /\ p.out = applySpeed(speed) /\ p \in Pages
  <2> DEFINE c == [lastSent EXCEPT !.pwm = Both(-1)]
  <2>1. c \in Caches /\ c.act = lastSent.act /\ c.pwm = Both(-1)
    BY <1>1 DEF Caches, Both
  <2>2. p = [inputs |-> inputs, lastSent |-> c, out |-> applySpeed(speed)]
    <3>1. [Page EXCEPT !.lastSent.pwm = Both(-1)] = [inputs |-> inputs, lastSent |-> c, out |-> <<>>]
      BY DEF Page
    <3>2. p = [[Page EXCEPT !.lastSent.pwm = Both(-1)] EXCEPT !.out = applySpeed(speed)]
      BY Zenon
    <3> HIDE DEF c, p
    <3> QED
      BY <3>1, <3>2
  <2> HIDE DEF c, p
  <2> QED
    BY <1>1, <1>3, <2>1, <2>2 DEF Pages
<1> HIDE DEF p
<1>5. Sound(p.lastSent, wire \o p.out)
  <2>1. \A d \in Sides : Both(-1)[d] = -1
    BY DEF Both
  <2> QED
    BY <1>1, <1>3, <1>4, <2>1 DEF Sound, Moving
<1>6. /\ q \in Pages /\ Sound(q.lastSent, wire \o q.out) /\ q.inputs = inputs /\ q.out # <<>>
      /\ Obeyed(inputs, wire) => Obeyed(inputs, wire \o q.out)
      /\ inputs = {} => q = p
      /\ inputs # {} => q.lastSent = cmd
  <2>1. Obeyed(inputs, wire) => Obeyed(inputs, wire \o p.out)
    BY <1>3, <1>4 DEF Obeyed
  <2>2. CASE inputs = {}
    BY <1>3, <1>4, <1>5, <2>1, <2>2
  <2>3. CASE inputs # {}
    <3>1. q = ApplyHeldInputs(p, inputs) /\ Honest(p.lastSent, wire \o p.out)
      BY <1>5, <2>3, SoundIsHonest
    <3> HIDE DEF q, cmd
    <3>2. /\ q \in Pages /\ q.inputs = inputs /\ q.lastSent = cmd /\ Sound(cmd, wire \o q.out)
          /\ (\A d \in Sides : p.lastSent.act[d] # cmd.act[d] \/ Ends(wire \o p.out, "act", d, cmd.act[d]))
               => Obeyed(inputs, wire \o q.out)
          /\ p.out # <<>> => q.out # <<>>
      BY <1>1, <1>4, <3>1, Applies DEF cmd
    <3>3. Obeyed(inputs, wire) => Obeyed(inputs, wire \o q.out)
      BY <2>1, <3>2 DEF Obeyed, cmd
    <3> QED
      BY <1>3, <1>4, <2>3, <3>2, <3>3
  <2> QED
    BY <2>2, <2>3
<1> HIDE DEF q, cmd
<1>7. /\ RoverTypes' /\ inputs' = inputs /\ lastSent' = q.lastSent /\ inputs' \in SUBSET Directions
      /\ lastSent' \in Caches /\ Sound(lastSent, wire)' /\ wire' # <<>>
      /\ \A k, d, v : Ends(wire, k, d, v)' <=> Ends(wire \o q.out, k, d, v)
  BY <1>1, <1>2, <1>6, PageTaken
<1>8. Obeyed(inputs, wire) => Obeyed(inputs, wire)'
  BY <1>2, <1>6, <1>7 DEF Obeyed
<1>9. DriveTypes' /\ NoGhost'
  <2>1. cut' \in BOOLEAN
    BY <1>1, <1>2 DEF StillCut, DriveTypes
  <2> QED
    BY <1>1, <1>2, <1>7, <2>1 DEF DriveTypes, NoGhost
<1> QED
  BY <1>2, <1>4, <1>6, <1>7, <1>8, <1>9 DEF PageInv, cmd

(* The rover's steps, and the time's.                                      *)
LEMMA RoverKeeps ==
  ASSUME PageInv, Deliver \/ TickDeadman
  PROVE  PageInv' /\ UNCHANGED <<bindings, page>>
<1>1. RoverTypes /\ DriveTypes /\ NoGhost /\ Sound(lastSent, wire)
  BY DEF PageInv, DriveTypes
<1>2. UNCHANGED <<bindings, page>> /\ age' = 0 /\ cut' \in {cut, TRUE}
  BY DEF Deliver, TickDeadman
<1>3. UNCHANGED <<pressed, held, keepalive, elapsed, inputs, lastSent, speed, dragging>>
  BY <1>2 DEF bindings, page
<1>4. RoverTypes' /\ Sound(lastSent, wire)'
  BY <1>1, Obeys, CutEnds, SoundDeliver, SoundCut
<1>5. 0 \in 0..DeadmanTicks
  BY TicksAssumption
<1>6. DriveTypes'
  BY <1>1, <1>2, <1>3, <1>4, <1>5 DEF DriveTypes
<1> QED
  BY <1>1, <1>2, <1>3, <1>4, <1>6 DEF PageInv, NoGhost

LEMMA TickKeeps ==
  ASSUME PageInv, Tick
  PROVE  PageInv' /\ UNCHANGED <<page, wire, rover, active, cut, held, keepalive>>
<1>1. RoverTypes /\ DriveTypes /\ NoGhost /\ Sound(lastSent, wire)
  BY DEF PageInv, DriveTypes
<1>2. /\ UNCHANGED <<page, wire, rover, active, cut, pressed, held, keepalive>>
      /\ UNCHANGED <<inputs, lastSent, speed, dragging>>
  BY DEF Tick, page
<1>3. RoverTypes' /\ Sound(lastSent, wire)'
  BY <1>1, <1>2, Unmoved
<1>4. elapsed' \in 0..KeepaliveTicks /\ age' \in 0..DeadmanTicks
  BY <1>1, TicksAssumption DEF Tick, Expired, DriveTypes
<1>5. DriveTypes'
  BY <1>1, <1>2, <1>3, <1>4 DEF DriveTypes
<1> QED
  BY <1>1, <1>2, <1>3, <1>5 DEF PageInv, NoGhost

-----------------------------------------------------------------------------
(* The inductive invariant of DriveInput: the page is sound, and the cache *)
(* is that of the inputs held, which the rover will obey.                  *)
Fresh == ~dragging /\ inputs # {} => lastSent.pwm = computeMotorCommands(inputs, speed).pwm

DriveInv ==
  /\ PageInv
  /\ CacheIs(lastSent, inputs)
  /\ ~cut => Obeyed(inputs, wire)
  /\ Fresh

LEMMA DriveInit ==
  ASSUME Init PROVE DriveInv
<1>1. /\ pressed = {} /\ held = {} /\ keepalive = None /\ elapsed = 0
      /\ inputs = {} /\ lastSent = NoCache /\ speed = StartSpeed /\ dragging = FALSE
      /\ wire = <<>> /\ rover = [act |-> Both("stop"), pwm |-> Both(0)]
      /\ active = FALSE /\ age = 0 /\ cut = FALSE
  BY DEF Init
<1>2. RoverTypes
  <2>1. <<>> \in Wire
    BY DEF Wire
  <2>2. [act |-> Both("stop"), pwm |-> Both(0)] \in Motors
    BY DEF Motors, Both, Orders
  <2> QED
    BY <1>1, <2>1, <2>2 DEF RoverTypes
<1>3. DriveTypes
  <2>1. StartSpeed \in Speeds /\ 0 \in 0..KeepaliveTicks /\ 0 \in 0..DeadmanTicks
    BY SpeedsAssumption, TicksAssumption
  <2>2. NoCache \in Caches
    BY MotorsAreCaches
  <2> QED
    BY <1>1, <1>2, <2>1, <2>2 DEF DriveTypes
<1>4. \A d \in Sides : Ends(wire, "act", d, "stop")
  BY <1>1, EndsNow DEF Both
<1>5. ~Armed(wire)
  BY <1>1, ArmedNow
<1>6. Sound(lastSent, wire)
  <2>1. \A d \in Sides : lastSent.pwm[d] = -1
    BY <1>1 DEF NoCache, Both
  <2> QED
    BY <1>4, <1>5, <2>1 DEF Sound
<1>7. CacheIs(lastSent, inputs)
  BY <1>1 DEF CacheIs, NoCache
<1>8. Obeyed(inputs, wire)
  <2>1. computeMotorCommands(inputs, speed).act = Both("stop")
    BY <1>1, NothingHeld DEF StopBoth
  <2> QED
    BY <1>4, <2>1 DEF Obeyed, Both
<1> QED
  BY <1>1, <1>3, <1>6, <1>7, <1>8 DEF DriveInv, PageInv, NoGhost, Fresh

(* A page that was applied is obeyed, unless the deadman has cut in.       *)
LEMMA AppliedKeeps ==
  ASSUME DriveInv, NEW q, Applied(q), Becomes(q), StillCut,
         UNCHANGED <<speed, dragging, rover, active>>,
         q = Page \/ q.lastSent = computeMotorCommands(q.inputs, speed)
  PROVE  CacheIs(lastSent, inputs)' /\ (~cut' => Obeyed(inputs, wire)') /\ Fresh'
<1>1. DriveTypes /\ q \in Pages /\ Sound(q.lastSent, wire \o q.out) /\ speed \in 0..255 /\ speed \in Speeds
  BY SpeedsAssumption DEF DriveInv, PageInv, DriveTypes, Applied
<1>2. /\ RoverTypes' /\ inputs' = q.inputs /\ lastSent' = q.lastSent
      /\ Sound(lastSent, wire)'
      /\ \A k, d, v : Ends(wire, k, d, v)' <=> Ends(wire \o q.out, k, d, v)
  BY <1>1, PageTaken
<1>3. CacheIs(lastSent, inputs)'
  <2>1. CASE q = Page
    <3>1. inputs' = inputs /\ lastSent' = lastSent
      BY <1>2, <2>1 DEF Page
    <3> QED
      BY <3>1 DEF DriveInv, CacheIs
  <2>2. CASE q.lastSent = computeMotorCommands(q.inputs, speed)
    BY <1>1, <1>2, <2>2 DEF CacheIs
  <2> QED
    BY <2>1, <2>2
<1>4. ASSUME ~cut' PROVE Obeyed(inputs, wire)'
  <2>1. CASE ~cut
    <3>1. Obeyed(q.inputs, wire \o q.out)
      BY <2>1 DEF DriveInv, Applied
    <3> QED
      BY <1>2, <3>1 DEF Obeyed
  <2>2. CASE inputs' = {}
    <3>1. computeMotorCommands(inputs', speed').act = Both("stop")
      BY <2>2, NothingHeld DEF StopBoth
    <3>2. lastSent'.act = Both(None) \/ lastSent'.act = Both("stop")
      BY <1>3, <2>2, NothingHeld DEF CacheIs, StopBoth
    <3>3. \A d \in Sides : Ends(wire, "act", d, "stop")'
      <4>1. \A d \in Sides : lastSent'.act[d] = None \/ lastSent'.act[d] = "stop"
        BY <3>2 DEF Both
      <4> QED
        BY <1>2, <4>1 DEF Sound
    <3> QED
      BY <3>1, <3>3 DEF Obeyed, Both
  <2> QED
    BY <1>4, <2>1, <2>2 DEF StillCut
<1>5. Fresh'
  <2>1. CASE q = Page
    <3>1. inputs' = inputs /\ lastSent' = lastSent
      BY <1>2, <2>1 DEF Page
    <3> QED
      BY <3>1 DEF DriveInv, Fresh
  <2>2. CASE q.lastSent = computeMotorCommands(q.inputs, speed)
    BY <1>2, <2>2 DEF Fresh
  <2> QED
    BY <2>1, <2>2
<1> QED
  BY <1>3, <1>4, <1>5

LEMMA PressKeeps ==
  ASSUME DriveInv, NEW a \in Acts, Press(a, <<>>), pressed' \subseteq Acts, UNCHANGED roverVars
  PROVE  DriveInv'
<1>1. PageInv /\ DriveTypes /\ Sound(lastSent, wire) /\ UNCHANGED <<rover, active>>
  BY DEF DriveInv, PageInv, roverVars
<1>2. <<>> \in Wire /\ wire \o <<>> = wire
  BY <1>1, ConcatEmptySeq DEF DriveTypes, RoverTypes, Wire
<1>3. CASE a \in held
  <2>1. PageInv' /\ UNCHANGED <<held, keepalive, elapsed, page, wire, cut>>
    BY <1>1, <1>2, <1>3, Pressed
  <2>2. UNCHANGED <<inputs, lastSent, speed, dragging, cut>>
    BY <2>1 DEF page
  <2>3. \A k, d, v : Ends(wire, k, d, v)' <=> Ends(wire, k, d, v)
    BY <1>1, <2>1, Unmoved DEF DriveTypes
  <2> QED
    BY <2>1, <2>2, <2>3 DEF DriveInv, CacheIs, Obeyed, Fresh
<1>4. CASE a \notin held
  <2> DEFINE h == IF a = "stop" THEN {} ELSE inputs \union {a}
             q == ApplyHeldInputs([Page EXCEPT !.out = <<>>], h)
  <2>1. /\ PageInv' /\ Becomes(q) /\ StillCut /\ UNCHANGED <<speed, dragging>>
        /\ inputs' = h /\ lastSent' = computeMotorCommands(h, speed)
    BY <1>1, <1>2, <1>4, Pressed
  <2>2. h \in SUBSET Directions
    BY <1>1 DEF DriveTypes, Directions
  <2> HIDE DEF h
  <2>3. q = ApplyHeldInputs(Page, h) /\ Applied(q) /\ q.inputs = h
    BY <1>1, <2>2, PageApplied, AppliesApplied
  <2>4. q.lastSent = computeMotorCommands(q.inputs, speed)
    BY <2>1, <2>3 DEF Becomes
  <2> HIDE DEF q
  <2>5. CacheIs(lastSent, inputs)' /\ (~cut' => Obeyed(inputs, wire)') /\ Fresh'
    BY <1>1, <2>1, <2>3, <2>4, AppliedKeeps
  <2> QED
    BY <2>1, <2>5 DEF DriveInv
<1> QED
  BY <1>3, <1>4

LEMMA ReleaseKeeps ==
  ASSUME DriveInv, NEW as \in Seq(Acts), Release(as), pressed' \subseteq Acts, UNCHANGED roverVars
  PROVE  DriveInv'
<1> DEFINE q == Reported(as)[Len(as)]
<1>1. PageInv /\ UNCHANGED <<rover, active>>
  BY DEF DriveInv, roverVars
<1>2. PageInv' /\ Becomes(q) /\ Applied(q) /\ StillCut /\ UNCHANGED <<speed, dragging>>
  BY <1>1, Lifted
<1> HIDE DEF q
<1>3. CacheIs(lastSent, inputs)' /\ (~cut' => Obeyed(inputs, wire)') /\ Fresh'
  BY <1>1, <1>2, AppliedKeeps DEF Applied
<1> QED
  BY <1>2, <1>3 DEF DriveInv

(* The orders in which a loss of the focus may release what is held.       *)
LEMMA Orderings ==
  ASSUME NEW h \in SUBSET Acts, NEW order \in SetToSeqs(h)
  PROVE  order \in Seq(Acts)
<1>1. order \in [1..Cardinality(h) -> h]
  BY DEF SetToSeqs
<1>2. Cardinality(h) \in Nat
  <2>1. IsFiniteSet({"forward", "backward", "left", "right", "stop"})
    <3>1. /\ IsFiniteSet({}) /\ IsFiniteSet({} \union {"forward"})
          /\ IsFiniteSet(({} \union {"forward"}) \union {"backward"})
      BY FS_EmptySet, FS_AddElement
    <3>2. IsFiniteSet((({} \union {"forward"}) \union {"backward"}) \union {"left"})
      BY <3>1, FS_AddElement
    <3>3. IsFiniteSet(((({} \union {"forward"}) \union {"backward"}) \union {"left"}) \union {"right"})
      BY <3>2, FS_AddElement
    <3>4. IsFiniteSet((((({} \union {"forward"}) \union {"backward"}) \union {"left"}) \union {"right"})
                        \union {"stop"})
      BY <3>3, FS_AddElement
    <3>5. (((({} \union {"forward"}) \union {"backward"}) \union {"left"}) \union {"right"}) \union {"stop"}
            = {"forward", "backward", "left", "right", "stop"}
      OBVIOUS
    <3> QED
      BY <3>4, <3>5
  <2>2. h \in SUBSET {"forward", "backward", "left", "right", "stop"}
    BY ActsAssumption
  <2> QED
    BY <2>1, <2>2, FS_Subset, FS_CardinalityType
<1> QED
  BY <1>1, <1>2

LEMMA DriveStep ==
  ASSUME DriveInv, [Next]_vars PROVE DriveInv'
<1>1. PageInv /\ DriveTypes /\ Sound(lastSent, wire) /\ RoverTypes /\ pressed \subseteq Acts
  BY DEF DriveInv, PageInv, DriveTypes
<1>2. ASSUME NEW a \in Acts, PointerDown(a) PROVE DriveInv'
  BY <1>1, <1>2, PressKeeps DEF PointerDown
<1>3. ASSUME NEW a \in Acts, KeyDown(a) PROVE DriveInv'
  BY <1>1, <1>3, PressKeeps DEF KeyDown
<1>4. ASSUME NEW a \in Acts, PointerUp(a) PROVE DriveInv'
  <2>1. <<a>> \in Seq(Acts)
    OBVIOUS
  <2> QED
    BY <1>1, <1>4, <2>1, ReleaseKeeps DEF PointerUp
<1>5. ASSUME NEW a \in Acts, KeyUp(a) PROVE DriveInv'
  <2>1. <<a>> \in Seq(Acts)
    OBVIOUS
  <2> QED
    BY <1>1, <1>5, <2>1, ReleaseKeeps DEF KeyUp
<1>6. CASE Blur
  <2>1. PICK order \in SetToSeqs(held) : Release(order)
    BY <1>6 DEF Blur
  <2>2. order \in Seq(Acts)
    BY <1>1, Orderings DEF DriveTypes
  <2> QED
    BY <1>1, <1>6, <2>1, <2>2, ReleaseKeeps DEF Blur
<1>7. ASSUME NEW s \in Speeds, SliderInput(s) PROVE DriveInv'
  <2>1. /\ speed' = s /\ dragging' = TRUE
        /\ UNCHANGED <<pressed, held, keepalive, elapsed, inputs, lastSent, wire, cut, rover, active, age>>
    BY <1>7 DEF SliderInput, bindings, roverVars
  <2>2. RoverTypes' /\ Sound(lastSent, wire)' /\ \A k, d, v : Ends(wire, k, d, v)' <=> Ends(wire, k, d, v)
    BY <1>1, <2>1, Unmoved
  <2>3. PageInv'
    BY <1>1, <2>1, <2>2 DEF DriveInv, PageInv, DriveTypes, NoGhost
  <2>4. (~cut' => Obeyed(inputs, wire)') /\ CacheIs(lastSent, inputs)'
    BY <2>1, <2>2, ActsWithoutSpeed DEF DriveInv, Obeyed, CacheIs
  <2> QED
    BY <2>1, <2>3, <2>4 DEF DriveInv, Fresh
<1>8. CASE SliderChange
  <2>1. /\ PageInv' /\ UNCHANGED <<inputs, speed>> /\ StillCut
        /\ inputs = {} => lastSent'.act = lastSent.act /\ lastSent'.pwm = Both(-1)
        /\ inputs # {} => lastSent' = computeMotorCommands(inputs, speed)
        /\ Obeyed(inputs, wire) => Obeyed(inputs, wire)'
    BY <1>1, <1>8, SliderLetGo
  <2>2. CacheIs(lastSent, inputs)'
    <3>1. CASE inputs = {}
      BY <2>1, <3>1 DEF DriveInv, CacheIs
    <3>2. CASE inputs # {}
      BY <1>1, <2>1, <3>2 DEF CacheIs, DriveTypes
    <3> QED
      BY <3>1, <3>2
  <2>3. Fresh'
    BY <2>1 DEF Fresh
  <2>4. ASSUME ~cut' PROVE Obeyed(inputs, wire)'
    <3>1. CASE ~cut
      BY <2>1, <3>1 DEF DriveInv
    <3>2. CASE inputs = {}
      <4>1. computeMotorCommands(inputs', speed').act = Both("stop")
        BY <2>1, <3>2, NothingHeld DEF StopBoth
      <4>2. lastSent'.act = Both(None) \/ lastSent'.act = Both("stop")
        BY <2>1, <2>2, <3>2, NothingHeld DEF CacheIs, StopBoth
      <4>3. \A d \in Sides : Ends(wire, "act", d, "stop")'
        <5>1. \A d \in Sides : lastSent'.act[d] = None \/ lastSent'.act[d] = "stop"
          BY <4>2 DEF Both
        <5> QED
          BY <2>1, <5>1 DEF PageInv, Sound
      <4> QED
        BY <4>1, <4>3 DEF Obeyed, Both
    <3> QED
      BY <2>1, <2>4, <3>1, <3>2 DEF StillCut
  <2> QED
    BY <2>1, <2>2, <2>3, <2>4 DEF DriveInv
<1>9. CASE Keepalive
  <2>1. /\ PageInv' /\ UNCHANGED <<inputs, speed, dragging>>
        /\ lastSent' = computeMotorCommands(inputs, speed) /\ Obeyed(inputs, wire)'
    BY <1>1, <1>9, Refreshed
  <2> QED
    BY <1>1, <2>1 DEF DriveInv, CacheIs, Fresh, DriveTypes
<1>10. CASE Deliver
  <2>1. PageInv' /\ UNCHANGED <<inputs, lastSent, speed, dragging, cut>>
    BY <1>1, <1>10, RoverKeeps DEF Deliver, page
  <2>2. \A d \in Sides : \A v : Ends(wire, "act", d, v) => Ends(wire, "act", d, v)'
    BY <1>1, <1>10, DeliverEnds DEF Kinds
  <2> QED
    BY <2>1, <2>2 DEF DriveInv, CacheIs, Obeyed, Fresh
<1>11. CASE TickDeadman
  <2>1. PageInv' /\ UNCHANGED <<inputs, lastSent, speed, dragging>> /\ cut'
    BY <1>1, <1>11, RoverKeeps DEF TickDeadman, page
  <2> QED
    BY <2>1 DEF DriveInv, CacheIs, Fresh
<1>12. CASE Tick
  <2>1. PageInv' /\ UNCHANGED <<inputs, lastSent, speed, dragging, cut, wire, rover, active>>
    BY <1>1, <1>12, TickKeeps DEF page
  <2>2. \A k, d, v : Ends(wire, k, d, v)' <=> Ends(wire, k, d, v)
    BY <1>1, <2>1, Unmoved
  <2> QED
    BY <2>1, <2>2 DEF DriveInv, CacheIs, Obeyed, Fresh
<1>13. CASE UNCHANGED vars
  <2>1. UNCHANGED <<pressed, held, keepalive, elapsed, inputs, lastSent, speed, dragging, wire, rover, active, age, cut>>
    BY <1>13 DEF vars, bindings, page, roverVars
  <2>2. RoverTypes' /\ Sound(lastSent, wire)' /\ \A k, d, v : Ends(wire, k, d, v)' <=> Ends(wire, k, d, v)
    BY <1>1, <2>1, Unmoved
  <2>3. PageInv'
    BY <1>1, <2>1, <2>2 DEF PageInv, DriveTypes, NoGhost, DriveInv
  <2> QED
    BY <2>1, <2>2, <2>3 DEF DriveInv, CacheIs, Obeyed, Fresh
<1> QED
  BY <1>2, <1>3, <1>4, <1>5, <1>6, <1>7, <1>8, <1>9, <1>10, <1>11, <1>12, <1>13 DEF Next, UserActs

LEMMA DriveInvariant == Spec => []DriveInv
BY DriveInit, DriveStep, PTL DEF Spec

(* The variables have their types.                                         *)
THEOREM DriveTypeOK == Spec => []TypeOK
<1>1. DriveInv => TypeOK
  BY DEF DriveInv, PageInv, DriveTypes, RoverTypes, TypeOK, Caches, Motors, Orders
<1> QED
  BY <1>1, DriveInvariant, PTL

(* No input and no keepalive outlives the finger that made it.             *)
THEOREM NoInputOutlivesItsFinger == Spec => []NoGhostInput
<1>1. DriveInv => NoGhostInput
  BY DEF DriveInv, PageInv, NoGhost, NoGhostInput
<1> QED
  BY <1>1, DriveInvariant, PTL

(* Whatever is pressed, released and left out by the cache: when all has   *)
(* arrived, the rover does what the held inputs ask for.                   *)
THEOREM RoverFollowsTheInputs == Spec => []RoverFollows
<1>1. DriveInv => RoverFollows
  <2> SUFFICES ASSUME DriveInv, wire = <<>>, ~cut
               PROVE  LET cmd == computeMotorCommands(inputs, speed)
                      IN  /\ rover.act = cmd.act
                          /\ ~dragging => \A d \in Sides : rover.act[d] # "stop" => rover.pwm[d] = cmd.pwm[d]
    BY DEF RoverFollows
  <2> DEFINE cmd == computeMotorCommands(inputs, speed)
  <2>1. cmd \in Motors /\ rover \in Motors
    <3>1. speed \in 0..255
      BY SpeedsAssumption DEF DriveInv, PageInv, DriveTypes
    <3> QED
      BY <3>1, CommandTypes DEF DriveInv, PageInv, DriveTypes, RoverTypes
  <2>2. \A d \in Sides : rover.act[d] = cmd.act[d]
    BY EndsNow DEF DriveInv, Obeyed
  <2>3. rover.act = cmd.act
    <3> HIDE DEF cmd
    <3> QED
      BY <2>1, <2>2 DEF Motors
  <2>4. ASSUME ~dragging, NEW d \in Sides, rover.act[d] # "stop" PROVE rover.pwm[d] = cmd.pwm[d]
    <3>1. inputs # {}
      <4>1. inputs = {} => cmd.act = Both("stop")
        BY NothingHeld DEF StopBoth
      <4> HIDE DEF cmd
      <4> QED
        BY <2>3, <2>4, <4>1 DEF Both
    <3>2. lastSent.pwm = cmd.pwm
      BY <2>4, <3>1 DEF DriveInv, Fresh
    <3>3. cmd.pwm[d] # -1
      <4> HIDE DEF cmd
      <4>1. cmd.pwm \in [Sides -> 0..255]
        BY <2>1 DEF Motors
      <4>2. cmd.pwm[d] \in 0..255
        BY <4>1
      <4> QED
        BY <4>2, DutyIsSome
    <3>4. Ends(wire, "pwm", d, cmd.pwm[d])
      BY <3>2, <3>3 DEF DriveInv, PageInv, Sound
    <3> QED
      BY <3>4, EndsNow
  <2> QED
    BY <2>3, <2>4
<1> QED
  BY <1>1, DriveInvariant, PTL

-----------------------------------------------------------------------------
(* While a button is held and the keepalive timer runs, the rover has had  *)
(* a command since the timer was set: each press that sets it afresh sends *)
(* one, for one more direction is another command of a moving rover.  At a *)
(* duty of 0 it would not be: an arc and a straight line are the same.     *)
KeptAlive ==
  inputs # {} /\ keepalive # None /\ active => wire # <<>> \/ age <= elapsed

LEMMA PressKeepsAlive ==
  ASSUME DriveInv, KeptAlive, 0 \notin Speeds, NEW a \in Acts,
         Press(a, <<>>), pressed' \subseteq Acts, UNCHANGED roverVars
  PROVE  KeptAlive'
<1>1. PageInv /\ DriveTypes /\ Sound(lastSent, wire) /\ UNCHANGED <<rover, active, age>>
      /\ speed \in 1..255 /\ speed \in 0..255 /\ inputs \in SUBSET Directions /\ inputs \subseteq held
  BY SpeedsAssumption DEF DriveInv, PageInv, DriveTypes, NoGhost, roverVars
<1>2. <<>> \in Wire /\ wire \o <<>> = wire
  BY <1>1, ConcatEmptySeq DEF DriveTypes, RoverTypes, Wire
<1>3. CASE a \in held
  <2>1. UNCHANGED <<held, keepalive, elapsed, page, wire, cut>>
    BY <1>1, <1>2, <1>3, Pressed
  <2> QED
    BY <1>1, <2>1 DEF KeptAlive, page
<1>4. CASE a \notin held
  <2> DEFINE h == IF a = "stop" THEN {} ELSE inputs \union {a}
  <2>1. /\ inputs' = h
        /\ lastSent # computeMotorCommands(h, speed) \/ wire # <<>> => wire' # <<>>
    BY <1>1, <1>2, <1>4, Pressed
  <2>2. CASE a = "stop"
    BY <2>1, <2>2 DEF KeptAlive
  <2>3. CASE a # "stop"
    <3>1. a \in Directions \ inputs /\ h = inputs \union {a}
      BY <1>1, <1>4, <2>3 DEF Directions
    <3> HIDE DEF h
    <3>2. CASE wire # <<>> \/ lastSent # computeMotorCommands(h, speed)
      BY <2>1, <3>2 DEF KeptAlive
    <3>3. CASE wire = <<>> /\ lastSent = computeMotorCommands(h, speed)
      <4> SUFFICES ASSUME active' PROVE FALSE
        BY DEF KeptAlive
      <4>1. Moving(lastSent)
        BY <1>1, <3>3, ArmedNow DEF Sound
      <4>2. lastSent.act # Both(None) /\ lastSent.pwm # Both(-1)
        <5>1. lastSent \in Motors
          BY <1>1, <3>3, CommandTypes
        <5>2. lastSent.act["left"] \in Orders /\ lastSent.pwm["left"] \in 0..255
          BY <5>1 DEF Motors, Sides
        <5>3. Both(None)["left"] = None /\ Both(-1)["left"] = -1 /\ None \notin Orders
          BY DEF Both, Sides, Orders, None
        <5>4. lastSent.act["left"] # None /\ lastSent.pwm["left"] # -1
          BY <5>2, <5>3, DutyIsSome
        <5> QED
          BY <5>3, <5>4
      <4>3. PICK s \in Speeds : /\ lastSent.act = computeMotorCommands(inputs, s).act
                                /\ lastSent.pwm = computeMotorCommands(inputs, s).pwm
        BY <4>2 DEF DriveInv, CacheIs
      <4>4. s \in 1..255 /\ s \in 0..255
        BY SpeedsAssumption
      <4>5. lastSent = computeMotorCommands(inputs, s)
        <5>1. lastSent \in Motors /\ computeMotorCommands(inputs, s) \in Motors
          BY <1>1, <3>3, <4>4, CommandTypes
        <5> QED
          BY <4>3, <5>1 DEF Motors
      <4>6. Moving(computeMotorCommands(inputs, s))
        BY <4>1, <4>5
      <4> QED
        BY <1>1, <3>1, <3>3, <4>4, <4>5, <4>6, PressChanges
    <3> QED
      BY <3>2, <3>3
  <2> QED
    BY <2>2, <2>3
<1> QED
  BY <1>3, <1>4

LEMMA ReleaseKeepsAlive ==
  ASSUME DriveInv, KeptAlive, NEW as \in Seq(Acts),
         Release(as), pressed' \subseteq Acts, UNCHANGED roverVars
  PROVE  KeptAlive'
<1>1. PageInv /\ UNCHANGED <<active, age>>
  BY DEF DriveInv, roverVars
<1>2. /\ inputs' \subseteq inputs /\ (wire' = <<>> => wire = <<>>)
      /\ keepalive' # None => UNCHANGED <<keepalive, elapsed>>
  BY <1>1, Lifted
<1> QED
  BY <1>1, <1>2 DEF KeptAlive

LEMMA AliveStep ==
  ASSUME DriveInv, KeptAlive, 0 \notin Speeds, [Next]_vars
  PROVE  KeptAlive'
<1>1. PageInv /\ DriveTypes /\ pressed \subseteq Acts
  BY DEF DriveInv, PageInv, DriveTypes
<1>2. ASSUME NEW a \in Acts, PointerDown(a) PROVE KeptAlive'
  BY <1>1, <1>2, PressKeepsAlive DEF PointerDown
<1>3. ASSUME NEW a \in Acts, KeyDown(a) PROVE KeptAlive'
  BY <1>1, <1>3, PressKeepsAlive DEF KeyDown
<1>4. ASSUME NEW a \in Acts, PointerUp(a) PROVE KeptAlive'
  <2>1. <<a>> \in Seq(Acts)
    OBVIOUS
  <2> QED
    BY <1>1, <1>4, <2>1, ReleaseKeepsAlive DEF PointerUp
<1>5. ASSUME NEW a \in Acts, KeyUp(a) PROVE KeptAlive'
  <2>1. <<a>> \in Seq(Acts)
    OBVIOUS
  <2> QED
    BY <1>1, <1>5, <2>1, ReleaseKeepsAlive DEF KeyUp
<1>6. CASE Blur
  <2>1. PICK order \in SetToSeqs(held) : Release(order)
    BY <1>6 DEF Blur
  <2>2. order \in Seq(Acts)
    BY <1>1, Orderings DEF DriveTypes
  <2> QED
    BY <1>1, <1>6, <2>1, <2>2, ReleaseKeepsAlive DEF Blur
<1>7. ASSUME NEW s \in Speeds, SliderInput(s) PROVE KeptAlive'
  BY <1>7 DEF SliderInput, bindings, roverVars, KeptAlive
<1>8. CASE SliderChange
  <2>1. wire' # <<>>
    BY <1>1, <1>8, SliderLetGo
  <2> QED
    BY <2>1 DEF KeptAlive
<1>9. CASE Keepalive
  <2>1. wire' # <<>>
    BY <1>1, <1>9, Refreshed
  <2> QED
    BY <2>1 DEF KeptAlive
<1>10. CASE Deliver
  <2>1. age' = 0 /\ elapsed' \in Nat
    BY <1>1, <1>10, TicksAssumption DEF Deliver, bindings, DriveTypes
  <2> QED
    BY <2>1 DEF KeptAlive
<1>11. CASE TickDeadman
  BY <1>11 DEF TickDeadman, KeptAlive
<1>12. CASE Tick
  <2>1. /\ UNCHANGED <<inputs, keepalive, active, wire>> /\ wire = <<>>
        /\ keepalive # None => elapsed' = elapsed + 1
        /\ age' = IF active /\ DeadmanTicks > 0 THEN age + 1 ELSE 0
        /\ age \in Nat /\ elapsed \in Nat
    BY <1>1, <1>12, TicksAssumption DEF Tick, page, DriveTypes
  <2> QED
    BY <2>1 DEF KeptAlive
<1>13. CASE UNCHANGED vars
  BY <1>13 DEF vars, bindings, page, roverVars, KeptAlive
<1> QED
  BY <1>2, <1>3, <1>4, <1>5, <1>6, <1>7, <1>8, <1>9, <1>10, <1>11, <1>12, <1>13 DEF Next, UserActs

(* As long as the keepalive timer runs and no message is late, the deadman *)
(* does not stop a rover whose driver holds a button: if it is longer than *)
(* the timer and the motors are driven at all.                             *)
THEOREM KeepaliveSparesTheDriver ==
  ASSUME 0 \notin Speeds, KeepaliveTicks < DeadmanTicks
  PROVE  Spec => KeepaliveSpares
<1>1. Init => KeptAlive
  BY DEF Init, KeptAlive
<1>2. DriveInv /\ KeptAlive /\ [Next]_vars => KeptAlive'
  BY AliveStep
<1>3. DriveInv /\ KeptAlive /\ [Next]_vars
        => [TickDeadman => inputs = {} \/ keepalive = None \/ wire # <<>>]_vars
  <2> SUFFICES ASSUME DriveInv, KeptAlive, TickDeadman
               PROVE  inputs = {} \/ keepalive = None \/ wire # <<>>
    OBVIOUS
  <2>1. /\ active /\ age = DeadmanTicks
        /\ elapsed \in 0..KeepaliveTicks /\ KeepaliveTicks \in Nat /\ DeadmanTicks \in Nat
    BY TicksAssumption DEF TickDeadman, Expired, DriveInv, PageInv, DriveTypes
  <2> QED
    BY <2>1 DEF KeptAlive
<1> QED
  BY <1>1, <1>2, <1>3, DriveInvariant, PTL DEF Spec, KeepaliveSpares

-----------------------------------------------------------------------------
(* What a replay sends.                                                    *)

LEMMA StopsEnd ==
  ASSUME NEW w \in Wire, NEW cache, Sound(cache, w)
  PROVE  /\ StopAll \in Wire /\ w \o StopAll \in Wire /\ w \o StopAll # <<>>
         /\ Sound(cache, w \o StopAll)
         /\ \A d \in Sides : Ends(w \o StopAll, "act", d, "stop")
<1> DEFINE m == Message("act", Sides, "stop")
<1>1. m \in ActMessages /\ m.kind = "act" /\ m.sides = Sides /\ m.value = "stop"
  BY DEF Message, ActMessages, Sides, Orders
<1>2. StopAll = <<m>>
  BY DEF StopAll
<1> HIDE DEF m
<1>3. StopAll \in Wire /\ w \o StopAll = Append(w, m) /\ Append(w, m) \in Wire /\ Append(w, m) # <<>>
  <2>1. <<m>> \in Wire /\ Append(w, m) \in Wire
    BY <1>1 DEF Wire
  <2>2. w \o <<m>> = Append(w, m)
    BY <1>1, AppendIsConcat DEF Wire
  <2>3. <<m>> # <<>>
    OBVIOUS
  <2> QED
    BY <1>2, <2>1, <2>2, <2>3, WireConcat
<1>4. \A d \in Sides : Ends(Append(w, m), "act", d, "stop")
  <2>1. \A d \in Sides : Hits(m, "act", {d})
    BY <1>1 DEF Hits
  <2> QED
    BY <1>1, <2>1, EndsMore
<1>5. \A d \in Sides : \A v : Ends(w, "pwm", d, v) => Ends(Append(w, m), "pwm", d, v)
  <2>1. \A d \in Sides : ~Hits(m, "pwm", {d})
    BY <1>1 DEF Hits
  <2> QED
    BY <1>1, <2>1, EndsMore
<1>6. ~Armed(Append(w, m))
  BY <1>1, ArmedMore
<1> QED
  BY <1>3, <1>4, <1>5, <1>6 DEF Sound

LEMMA OneLonger ==
  ASSUME NEW S, NEW u \in Seq(S), NEW c \in S
  PROVE  /\ u \o <<c>> \in Seq(S) /\ Len(u \o <<c>>) = Len(u) + 1
         /\ \A i \in 1..Len(u) : (u \o <<c>>)[i] = u[i]
         /\ (u \o <<c>>)[Len(u) + 1] = c
BY AppendProperties, AppendIsConcat

LEMMA FourInARow ==
  ASSUME NEW S, NEW a \in S, NEW b \in S, NEW c \in S, NEW d \in S
  PROVE  <<a>> \o <<b>> \o <<c>> \o <<d>> = <<a, b, c, d>>
<1> DEFINE u == <<a>> \o <<b>>
           v == u \o <<c>>
           w == v \o <<d>>
           t == <<a, b, c, d>>
<1>1. u \in Seq(S) /\ Len(u) = 2 /\ u[1] = a /\ u[2] = b
  OBVIOUS
<1> HIDE DEF u
<1>2. v \in Seq(S) /\ Len(v) = 3 /\ v[1] = a /\ v[2] = b /\ v[3] = c
  <2>1. /\ v \in Seq(S) /\ Len(v) = Len(u) + 1
        /\ \A i \in 1..Len(u) : v[i] = u[i]
        /\ v[Len(u) + 1] = c
    BY <1>1, OneLonger
  <2> HIDE DEF v
  <2> QED
    BY <1>1, <2>1
<1> HIDE DEF v
<1>3. w \in Seq(S) /\ Len(w) = 4 /\ w[1] = a /\ w[2] = b /\ w[3] = c /\ w[4] = d
  <2>1. /\ w \in Seq(S) /\ Len(w) = Len(v) + 1
        /\ \A i \in 1..Len(v) : w[i] = v[i]
        /\ w[Len(v) + 1] = d
    BY <1>2, OneLonger
  <2> HIDE DEF w
  <2> QED
    BY <1>2, <2>1
<1> HIDE DEF w
<1>4. t \in Seq(S) /\ Len(t) = 4 /\ t[1] = a /\ t[2] = b /\ t[3] = c /\ t[4] = d
  OBVIOUS
<1> HIDE DEF t
<1>5. \A i \in 1..Len(w) : w[i] = t[i]
  BY <1>3, <1>4
<1>6. w = t
  BY <1>3, <1>4, <1>5, SeqEqual
<1> QED
  BY <1>6 DEF t, u, v, w

(* A dispatch for the recorder sends all four messages: it is as if the    *)
(* cache had forgotten everything.                                         *)
LEMMA DispatchEnds ==
  ASSUME NEW w \in Wire, NEW h, NEW s \in Speeds
  PROVE  LET cmd == computeMotorCommands(h, s)
         IN  /\ cmd \in Caches /\ Messages(cmd) \in Wire /\ Messages(cmd) # <<>>
             /\ Sound(cmd, w \o Messages(cmd))
<1> DEFINE cmd == computeMotorCommands(h, s)
<1>1. cmd \in Motors /\ (~Moving(cmd) => cmd = StopBoth)
  <2>1. s \in 0..255
    BY SpeedsAssumption
  <2> QED
    BY <2>1, CommandTypes
<1> HIDE DEF cmd
<1>2. \A k \in Kinds, d \in Sides : NoCache[k][d] # cmd[k][d]
  <2>1. \A d \in Sides : NoCache.act[d] = None /\ cmd.act[d] # None
    BY <1>1 DEF NoCache, Both, Motors, Orders, None
  <2>2. \A d \in Sides : NoCache.pwm[d] = -1 /\ cmd.pwm[d] # -1
    BY <1>1, DutyIsSome DEF NoCache, Both, Motors
  <2> QED
    BY <2>1, <2>2 DEF Kinds
<1>3. Messages(cmd) = Changed(cmd, NoCache) /\ Messages(cmd) # <<>>
  <2>1. \A k \in Kinds, d \in Sides : Unsent(k, d, cmd, NoCache) = <<Message(k, {d}, cmd[k][d])>>
    BY <1>2 DEF Unsent
  <2>2. /\ Unsent("pwm", "left", cmd, NoCache) = <<Message("pwm", {"left"}, cmd.pwm.left)>>
        /\ Unsent("pwm", "right", cmd, NoCache) = <<Message("pwm", {"right"}, cmd.pwm.right)>>
        /\ Unsent("act", "left", cmd, NoCache) = <<Message("act", {"left"}, cmd.act.left)>>
        /\ Unsent("act", "right", cmd, NoCache) = <<Message("act", {"right"}, cmd.act.right)>>
    BY <2>1 DEF Kinds, Sides
  <2>3. ASSUME NEW a, NEW b, NEW c, NEW d
        PROVE  <<a>> \o <<b>> \o <<c>> \o <<d>> = <<a, b, c, d>> /\ <<a, b, c, d>> # <<>>
    <3>1. <<a>> \o <<b>> \o <<c>> \o <<d>> = <<a, b, c, d>>
      <4> DEFINE S == {a, b, c, d}
      <4>1. a \in S /\ b \in S /\ c \in S /\ d \in S
        OBVIOUS
      <4> HIDE DEF S
      <4> QED
        BY <4>1, FourInARow
    <3>2. <<a, b, c, d>> # <<>>
      OBVIOUS
    <3> QED
      BY <3>1, <3>2
  <2> QED
    BY <2>2, <2>3 DEF Changed, Messages
<1>4. /\ Changed(cmd, NoCache) \in Wire
      /\ \A k \in Kinds, d \in Sides : Ends(w \o Changed(cmd, NoCache), k, d, cmd[k][d])
      /\ Armed(w \o Changed(cmd, NoCache)) => Moving(cmd)
  <2>1. ~Moving(cmd) => cmd.act = Both("stop")
    BY <1>1 DEF StopBoth
  <2>2. NoCache.act["left"] # "stop"
    BY DEF NoCache, Both, Sides, None
  <2> QED
    BY <1>1, <1>2, <2>1, <2>2, ChangedEnds
<1>5. \A d \in Sides : cmd.act[d] # None
  BY <1>1 DEF Motors, Orders, None
<1> QED
  BY <1>1, <1>3, <1>4, <1>5, MotorsAreCaches DEF Sound, Kinds, cmd

(* A step that sends something, and sets the cache.                        *)
LEMMA Sends ==
  ASSUME PageInv, NEW out \in Wire, wire' = wire \o out, Sound(lastSent', wire \o out),
         lastSent' \in Caches, UNCHANGED pageAround
  PROVE  /\ PageInv'
         /\ \A k, d, v : Ends(wire, k, d, v)' <=> Ends(wire \o out, k, d, v)
<1>1. /\ UNCHANGED <<pressed, held, keepalive, elapsed, inputs, speed, dragging, cut, rover, active, age>>
      /\ DriveTypes /\ RoverTypes /\ NoGhost
  BY DEF pageAround, bindings, roverVars, PageInv, DriveTypes
<1>2. /\ RoverTypes'
      /\ \A k, d, v : Ends(wire, k, d, v)' <=> Ends(wire \o out, k, d, v)
      /\ Armed(wire)' <=> Armed(wire \o out)
  BY <1>1, PageEnds
<1>3. Sound(lastSent, wire)'
  <2>1. \A d \in Sides : Ends(wire, "act", d, "stop")'
                            \/ (lastSent'.act[d] # None /\ Ends(wire, "act", d, lastSent.act[d])')
    BY <1>2 DEF Sound
  <2>2. \A d \in Sides : lastSent'.pwm[d] # -1 => Ends(wire, "pwm", d, lastSent.pwm[d])'
    BY <1>2 DEF Sound
  <2> QED
    BY <1>2, <2>1, <2>2 DEF Sound, Moving
<1> QED
  BY <1>1, <1>2, <1>3 DEF PageInv, DriveTypes, NoGhost

-----------------------------------------------------------------------------
(* The inductive invariant of Recorder: the page is sound in a replay too, *)
(* and with nothing held and no replay going on, or one that was aborted,  *)
(* what is on its way ends with the motors stopped.                        *)
Rest == inputs = {} /\ (~replaying \/ abort) => \A d \in Sides : Ends(wire, "act", d, "stop")

(* The types of the recorder's variables, as far as they matter.           *)
LongestNap == IF ReplayTicks > RestTicks THEN ReplayTicks ELSE RestTicks
Moves == [act : {"forward", "backward", "left", "right"}, ticks : Nat]
Legs ==
  {l \in [at : {"idle", "driving", "resting"}, act : {"forward", "backward", "left", "right", None},
          left : Nat, nap : 0..LongestNap] : l.at = "driving" => l.act # None}

RecordTypes ==
  /\ abort \in BOOLEAN /\ leg \in Legs
  /\ moves \in Seq(Moves) /\ todo \in Seq(Moves)
  /\ pressAction \in {"forward", "backward", "left", "right", None} /\ pressTicks \in Nat

RestInv == PageInv /\ Rest

LEMMA IdleIsALeg == Idle \in Legs
<1>1. 0 \in 0..LongestNap
  BY RecorderAssumption DEF LongestNap
<1> QED
  BY <1>1 DEF Idle, Legs

LEMMA RestIsALeg == [Idle EXCEPT !.at = "resting", !.nap = RestTicks] \in Legs
<1>1. RestTicks \in 0..LongestNap
  BY RecorderAssumption DEF LongestNap
<1>2. [Idle EXCEPT !.at = "resting", !.nap = RestTicks]
        = [at |-> "resting", act |-> None, left |-> 0, nap |-> RestTicks]
  <2>1. [Idle EXCEPT !.at = "resting"] = [at |-> "resting", act |-> None, left |-> 0, nap |-> 0]
    BY DEF Idle
  <2>2. [Idle EXCEPT !.at = "resting", !.nap = RestTicks] = [[Idle EXCEPT !.at = "resting"] EXCEPT !.nap = RestTicks]
    BY Zenon
  <2>3. [[at |-> "resting", act |-> None, left |-> 0, nap |-> 0] EXCEPT !.nap = RestTicks]
          = [at |-> "resting", act |-> None, left |-> 0, nap |-> RestTicks]
    OBVIOUS
  <2> QED
    BY <2>1, <2>2, <2>3, Zenon
<1>3. [at |-> "resting", act |-> None, left |-> 0, nap |-> RestTicks] \in Legs
  BY <1>1 DEF Legs
<1> QED
  BY <1>2, <1>3, Zenon

LEMMA RecordInit == InitRecorder => RecordTypes
<1>1. <<>> \in Seq(Moves)
  OBVIOUS
<1> SUFFICES ASSUME InitRecorder PROVE RecordTypes
  OBVIOUS
<1>2. /\ moves = <<>> /\ todo = <<>> /\ pressAction = None /\ pressTicks = 0
      /\ leg = Idle /\ abort = FALSE
  BY DEF InitRecorder
<1> QED
  BY <1>1, <1>2, IdleIsALeg DEF RecordTypes

LEMMA DriveTakes ==
  ASSUME NEW act \in {"forward", "backward", "left", "right"}, NEW ticks \in Nat, Drive(act, ticks)
  PROVE  leg' \in Legs
<1> DEFINE nap == IF ticks < ReplayTicks THEN ticks ELSE ReplayTicks
<1>1. nap \in 0..LongestNap /\ ticks - nap \in Nat
  BY RecorderAssumption DEF LongestNap
<1>0. act # None
  BY DEF None
<1>2. leg' = [at |-> "driving", act |-> act, left |-> ticks - nap, nap |-> nap]
  BY DEF Drive
<1> HIDE DEF nap
<1> QED
  BY <1>0, <1>1, <1>2 DEF Legs

LEMMA FirstTaken ==
  ASSUME NEW ms \in Seq(Moves), ms # <<>>, DriveFirst(ms)
  PROVE  leg' \in Legs /\ todo' \in Seq(Moves)
<1>1. Head(ms) \in Moves /\ Tail(ms) \in Seq(Moves)
  OBVIOUS
<1>2. reverseAction[Head(ms).act] \in {"forward", "backward", "left", "right"} /\ Head(ms).ticks \in Nat
  BY <1>1 DEF Moves, reverseAction
<1> QED
  BY <1>1, <1>2, DriveTakes DEF DriveFirst

LEMMA ReverseIsASequence ==
  ASSUME NEW S, NEW s \in Seq(S), s # <<>>
  PROVE  Reverse(s) \in Seq(S) /\ Reverse(s) # <<>>
<1>1. Len(s) \in Nat /\ Len(s) # 0
  BY LenProperties, EmptySeq
<1>2. \A i \in 1..Len(s) : (Len(s) - i) + 1 \in 1..Len(s)
  BY <1>1
<1>3. \A i \in 1..Len(s) : s[(Len(s) - i) + 1] \in S
  BY <1>2
<1>4. Reverse(s) \in [1..Len(s) -> S] /\ DOMAIN Reverse(s) = 1..Len(s)
  BY <1>3 DEF Reverse
<1>5. 1 \in 1..Len(s)
  BY <1>1
<1> QED
  BY <1>1, <1>4, <1>5

LEMMA RecordStep ==
  ASSUME RecordTypes, [NextRecorder]_recorderVars PROVE RecordTypes'
<1> USE DEF RecordTypes
<1>0. <<>> \in Seq(Moves) /\ 0 \in Nat
  OBVIOUS
<1>1. CASE startRecording \/ clearRecording \/ PageSteps \/ UNCHANGED recorderVars
  <2>1. CASE startRecording
    BY <1>0, <2>1 DEF startRecording, replay
  <2>2. CASE clearRecording
    BY <1>0, <2>2 DEF clearRecording, replay, press
  <2>3. CASE PageSteps \/ UNCHANGED recorderVars
    BY <2>3 DEF PageSteps, recorderVars, record, replay, press
  <2> QED
    BY <1>1, <2>1, <2>2, <2>3
<1>2. \A a \in {"forward", "backward", "left", "right"}, t \in Nat : Recorded(a, t) \in Seq(Moves)
  <2> SUFFICES ASSUME NEW a \in {"forward", "backward", "left", "right"}, NEW t \in Nat
               PROVE  Recorded(a, t) \in Seq(Moves)
    OBVIOUS
  <2>1. [act |-> a, ticks |-> t] \in Moves
    BY DEF Moves
  <2> QED
    BY <2>1 DEF Recorded
<1>3. CASE stopRecording
  BY <1>2, <1>3 DEF stopRecording, replay, None
<1>4. CASE startReplay
  <2>1. Reverse(moves) \in Seq(Moves) /\ Reverse(moves) # <<>>
    BY <1>4, ReverseIsASequence DEF startReplay
  <2> QED
    BY <1>4, <2>1, FirstTaken DEF startReplay, record, press
<1>5. CASE executeMove
  <2>1. UNCHANGED <<moves, press, abort>>
    BY <1>5 DEF executeMove, record
  <2>2. CASE leg.left > 0 /\ ~abort
    <3>1. Drive(leg.act, leg.left) /\ todo' = todo /\ leg.at = "driving"
      BY <1>5, <2>2 DEF executeMove
    <3>2. leg.act \in {"forward", "backward", "left", "right"} /\ leg.left \in Nat
      BY <3>1 DEF Legs
    <3> QED
      BY <2>1, <3>1, <3>2, DriveTakes DEF press
  <2>3. CASE ~(leg.left > 0 /\ ~abort)
    <3>1. MoveEnds
      BY <1>5, <2>3 DEF executeMove
    <3>2. leg' \in Legs /\ todo' \in Seq(Moves)
      BY <1>0, <3>1, IdleIsALeg, RestIsALeg DEF MoveEnds, Finish
    <3> QED
      BY <2>1, <3>2 DEF press
  <2> QED
    BY <2>2, <2>3
<1>6. CASE NextMove
  <2>1. UNCHANGED <<moves, press, abort>>
    BY <1>6 DEF NextMove, record
  <2>2. CASE abort \/ todo = <<>>
    <3>1. leg' \in Legs /\ todo' \in Seq(Moves)
      BY <1>0, <1>6, <2>2, IdleIsALeg DEF NextMove, Finish
    <3> QED
      BY <2>1, <3>1 DEF press
  <2>3. CASE ~(abort \/ todo = <<>>)
    <3>1. leg' \in Legs /\ todo' \in Seq(Moves)
      BY <1>6, <2>3, FirstTaken DEF NextMove
    <3> QED
      BY <2>1, <3>1 DEF press
  <2> QED
    BY <2>2, <2>3
<1>7. ASSUME NEW a \in Acts, onPress(a) PROVE RecordTypes'
  <2>1. a # "stop" => a \in {"forward", "backward", "left", "right"}
    BY ActsAssumption
  <2>2. UNCHANGED <<moves, leg, todo>> /\ abort' \in BOOLEAN
    BY <1>7 DEF onPress
  <2>3. pressAction' \in {"forward", "backward", "left", "right", None} /\ pressTicks' \in Nat
    BY <1>0, <1>7, <2>1 DEF onPress, press
  <2> QED
    BY <2>2, <2>3
<1>8. ASSUME NEW a \in Acts, onRelease(a) PROVE RecordTypes'
  <2>1. pressAction = a => a \in {"forward", "backward", "left", "right"}
    BY ActsAssumption DEF None
  <2>2. UNCHANGED replay
    BY <1>8 DEF onRelease
  <2>3. moves' \in Seq(Moves)
    BY <1>2, <1>8, <2>1 DEF onRelease
  <2>4. pressAction' \in {"forward", "backward", "left", "right", None} /\ pressTicks' \in Nat
    BY <1>0, <1>8 DEF onRelease, press
  <2> QED
    BY <2>2, <2>3, <2>4 DEF replay
<1>9. CASE RecorderTick
  <2>1. UNCHANGED <<moves, pressAction, todo, abort>>
    BY <1>9 DEF RecorderTick
  <2>2. pressTicks' \in Nat
    BY <1>9 DEF RecorderTick
  <2>3. leg' \in Legs
    <3>1. CASE replaying
      <4>1. leg.nap \in 0..LongestNap /\ leg.nap > 0 /\ leg' = [leg EXCEPT !.nap = @ - 1]
        BY <1>9, <3>1 DEF RecorderTick, Legs
      <4>2. leg.nap - 1 \in 0..LongestNap
        BY <4>1, RecorderAssumption DEF LongestNap
      <4> QED
        BY <4>1, <4>2 DEF Legs
    <3>2. CASE ~replaying
      BY <1>9, <3>2 DEF RecorderTick
    <3> QED
      BY <3>1, <3>2
  <2> QED
    BY <2>1, <2>2, <2>3
<1> QED
  BY <1>1, <1>3, <1>4, <1>5, <1>6, <1>7, <1>8, <1>9 DEF NextRecorder

LEMMA RecorderInit ==
  ASSUME InitRecorder PROVE RestInv
<1>1. DriveInv /\ wire = <<>> /\ inputs = {}
  BY DriveInit DEF InitRecorder, Init
<1>2. \A d \in Sides : Ends(wire, "act", d, "stop")
  <2>1. rover.act = Both("stop")
    BY DEF InitRecorder, Init
  <2> QED
    BY <1>1, <2>1, EndsNow DEF Both
<1> QED
  BY <1>1, <1>2 DEF RestInv, Rest, DriveInv

(* The page stays as it is.                                                *)
LEMMA PageStays ==
  ASSUME RestInv, UNCHANGED <<vars, leg, abort>> PROVE RestInv'
<1>1. UNCHANGED <<pressed, held, keepalive, elapsed, inputs, lastSent, speed, dragging, wire, rover, active, age, cut>>
  BY DEF vars, bindings, page, roverVars
<1>2. RoverTypes' /\ Sound(lastSent, wire)' /\ \A k, d, v : Ends(wire, k, d, v)' <=> Ends(wire, k, d, v)
  BY <1>1, Unmoved DEF RestInv, PageInv, DriveTypes
<1>3. PageInv'
  BY <1>1, <1>2 DEF PageInv, DriveTypes, NoGhost, RestInv
<1>4. Rest'
  BY <1>1, <1>2 DEF Rest, RestInv, replaying
<1> QED
  BY <1>3, <1>4 DEF RestInv

(* All the replay sends is a dispatch or a stop, and it never rests on a   *)
(* dispatch unless it goes on.                                             *)
LEMMA DriveSends ==
  ASSUME PageInv, NEW act, NEW ticks, Drive(act, ticks), UNCHANGED pageAround
  PROVE  PageInv' /\ wire' # <<>> /\ replaying'
<1> DEFINE cmd == computeMotorCommands({act}, speed)
<1>1. speed \in Speeds /\ wire \in Wire
  BY DEF PageInv, DriveTypes, RoverTypes
<1>2. wire' = wire \o Messages(cmd) /\ lastSent' = cmd /\ replaying'
  BY DEF Drive, replaying
<1>3. cmd \in Caches /\ Messages(cmd) \in Wire /\ Messages(cmd) # <<>> /\ Sound(cmd, wire \o Messages(cmd))
  BY <1>1, DispatchEnds
<1> HIDE DEF cmd
<1>4. wire' # <<>>
  BY <1>1, <1>2, <1>3, WireConcat
<1>5. PageInv'
  BY <1>2, <1>3, Sends
<1> QED
  BY <1>2, <1>4, <1>5

LEMMA StopSends ==
  ASSUME PageInv, UNCHANGED <<pageAround, lastSent>>,
         wire' \in {wire \o StopAll, wire \o <<>> \o StopAll, wire \o StopAll \o StopAll}
  PROVE  PageInv' /\ wire' # <<>> /\ \A d \in Sides : Ends(wire, "act", d, "stop")'
<1>1. wire \in Wire /\ Sound(lastSent, wire) /\ lastSent \in Caches
  BY DEF PageInv, DriveTypes, RoverTypes
<1>2. /\ StopAll \in Wire /\ wire \o StopAll \in Wire /\ wire \o StopAll # <<>>
      /\ Sound(lastSent, wire \o StopAll)
      /\ \A d \in Sides : Ends(wire \o StopAll, "act", d, "stop")
  BY <1>1, StopsEnd
<1>3. /\ wire \o StopAll \o StopAll \in Wire /\ wire \o StopAll \o StopAll # <<>>
      /\ Sound(lastSent, wire \o StopAll \o StopAll)
      /\ \A d \in Sides : Ends(wire \o StopAll \o StopAll, "act", d, "stop")
  BY <1>2, StopsEnd
<1>4. wire \o <<>> = wire
  BY <1>1, ConcatEmptySeq DEF Wire
<1>5. wire \o StopAll \o StopAll = wire \o (StopAll \o StopAll) /\ StopAll \o StopAll \in Wire
  BY <1>1, <1>2, WireAssociates, WireConcat
<1>6. PICK out \in Wire : /\ wire' = wire \o out /\ wire' # <<>> /\ Sound(lastSent, wire \o out)
                          /\ \A d \in Sides : Ends(wire \o out, "act", d, "stop")
  <2>1. CASE wire' = wire \o StopAll \/ wire' = wire \o <<>> \o StopAll
    BY <1>2, <1>4, <2>1
  <2>2. CASE wire' = wire \o StopAll \o StopAll
    BY <1>3, <1>5, <2>2
  <2> QED
    BY <2>1, <2>2
<1>7. lastSent' = lastSent /\ UNCHANGED pageAround
  OBVIOUS
<1>8. PageInv' /\ \A k, d, v : Ends(wire, k, d, v)' <=> Ends(wire \o out, k, d, v)
  BY <1>1, <1>6, <1>7, Sends
<1> QED
  BY <1>6, <1>8

LEMMA MoveEndsKeeps ==
  ASSUME RestInv, MoveEnds, UNCHANGED <<pageAround, abort>>
  PROVE  RestInv' /\ wire' # <<>>
<1>1. wire' \in {wire \o StopAll, wire \o StopAll \o StopAll} /\ lastSent' = lastSent
  BY DEF MoveEnds, Finish
<1>2. PageInv' /\ wire' # <<>> /\ \A d \in Sides : Ends(wire, "act", d, "stop")'
  BY <1>1, StopSends DEF RestInv
<1> QED
  BY <1>2 DEF RestInv, Rest

LEMMA ReplayKeeps ==
  ASSUME RestInv, startReplay \/ executeMove \/ NextMove
  PROVE  RestInv' /\ wire' # <<>>
<1>1. PageInv
  BY DEF RestInv
<1>2. CASE startReplay
  <2>1. PageInv' /\ wire' # <<>> /\ replaying'
    BY <1>1, <1>2, DriveSends DEF startReplay, DriveFirst
  <2>2. ~abort'
    BY <1>2 DEF startReplay
  <2> QED
    BY <2>1, <2>2 DEF RestInv, Rest
<1>3. CASE executeMove
  <2>1. CASE leg.left > 0 /\ ~abort
    <3>1. Drive(leg.act, leg.left) /\ UNCHANGED pageAround /\ ~abort'
      BY <1>3, <2>1 DEF executeMove
    <3>2. PageInv' /\ wire' # <<>> /\ replaying'
      BY <1>1, <3>1, DriveSends
    <3> QED
      BY <3>1, <3>2 DEF RestInv, Rest
  <2>2. CASE ~(leg.left > 0 /\ ~abort)
    <3>1. MoveEnds /\ UNCHANGED <<pageAround, abort>>
      BY <1>3, <2>2 DEF executeMove
    <3> QED
      BY <3>1, MoveEndsKeeps
  <2> QED
    BY <2>1, <2>2
<1>4. CASE NextMove
  <2>1. CASE abort \/ todo = <<>>
    <3>1. wire' = wire \o <<>> \o StopAll /\ UNCHANGED <<pageAround, lastSent>>
      BY <1>4, <2>1 DEF NextMove, Finish
    <3>2. PageInv' /\ wire' # <<>> /\ \A d \in Sides : Ends(wire, "act", d, "stop")'
      BY <1>1, <3>1, StopSends
    <3> QED
      BY <3>2 DEF RestInv, Rest
  <2>2. CASE ~(abort \/ todo = <<>>)
    <3>1. DriveFirst(todo) /\ UNCHANGED pageAround /\ ~abort'
      BY <1>4, <2>2 DEF NextMove
    <3>2. PageInv' /\ wire' # <<>> /\ replaying'
      BY <1>1, <3>1, DriveSends DEF DriveFirst
    <3> QED
      BY <3>1, <3>2 DEF RestInv, Rest
  <2> QED
    BY <2>1, <2>2
<1> QED
  BY <1>2, <1>3, <1>4

LEMMA onPressKeeps ==
  ASSUME RestInv, RecordTypes, NEW a \in Acts, onPress(a) PROVE RestInv'
<1> DEFINE takesOver == replaying /\ a \notin held
           said == IF takesOver THEN StopAll ELSE <<>>
<1>1. /\ PageInv /\ wire \in Wire /\ Sound(lastSent, wire) /\ pressed \subseteq Acts
  BY DEF RestInv, PageInv, DriveTypes, RoverTypes
<1>2. /\ Press(a, said) /\ abort' = (abort \/ takesOver) /\ UNCHANGED <<leg, pressed, roverVars>>
  BY DEF onPress
<1>3. said \in Wire /\ Sound(lastSent, wire \o said)
  <2>1. <<>> \in Wire /\ wire \o <<>> = wire
    BY <1>1, ConcatEmptySeq DEF Wire
  <2> QED
    BY <1>1, <2>1, StopsEnd
<1> HIDE DEF said
<1>4. /\ PageInv'
      /\ a \in held => UNCHANGED <<held, keepalive, elapsed, page, wire, cut>>
      /\ a \notin held =>
           LET h == IF a = "stop" THEN {} ELSE inputs \union {a}
           IN  inputs' = h /\ lastSent' = computeMotorCommands(h, speed)
  BY <1>1, <1>2, <1>3, Pressed
<1>5. CASE a \in held
  <2>1. UNCHANGED <<inputs, wire, rover, active, leg, abort>>
    BY <1>2, <1>4, <1>5 DEF page, roverVars, RecordTypes
  <2>2. \A k, d, v : Ends(wire, k, d, v)' <=> Ends(wire, k, d, v)
    BY <1>1, <2>1, Unmoved DEF PageInv, DriveTypes
  <2> QED
    BY <1>4, <2>1, <2>2 DEF RestInv, Rest, replaying
<1>6. CASE a \notin held
  <2> SUFFICES ASSUME inputs' = {} PROVE \A d \in Sides : Ends(wire, "act", d, "stop")'
    BY <1>4 DEF RestInv, Rest
  <2>1. lastSent' = StopBoth
    BY <1>4, <1>6, NothingHeld
  <2> QED
    BY <1>4, <2>1 DEF PageInv, Sound, StopBoth, Both
<1> QED
  BY <1>5, <1>6

LEMMA onReleaseKeeps ==
  ASSUME RestInv, NEW a \in Acts, onRelease(a) PROVE RestInv'
<1> DEFINE q == Reported(<<a>>)[Len(<<a>>)]
<1>1. PageInv /\ wire \in Wire /\ pressed \subseteq Acts
  BY DEF RestInv, PageInv, DriveTypes, RoverTypes
<1>2. Release(<<a>>) /\ UNCHANGED <<pressed, roverVars, leg, abort>> /\ <<a>> \in Seq(Acts)
  BY DEF onRelease, replay
<1>3. /\ PageInv' /\ Applied(q) /\ inputs' = q.inputs /\ lastSent' = q.lastSent
      /\ \A k, d, v : Ends(wire, k, d, v)' <=> Ends(wire \o q.out, k, d, v)
  BY <1>1, <1>2, Lifted
<1> HIDE DEF q
<1> SUFFICES ASSUME inputs' = {}, ~replaying' \/ abort'
             PROVE  \A d \in Sides : Ends(wire, "act", d, "stop")'
  BY <1>3 DEF RestInv, Rest
<1>4. CASE q = Page
  <2>1. inputs = {} /\ (~replaying \/ abort) /\ q.out = <<>>
    BY <1>2, <1>3, <1>4 DEF Page, replaying
  <2>2. wire \o <<>> = wire
    BY <1>1, ConcatEmptySeq DEF Wire
  <2> QED
    BY <1>3, <2>1, <2>2 DEF RestInv, Rest
<1>5. CASE q.lastSent = computeMotorCommands(q.inputs, speed)
  <2>1. lastSent' = StopBoth
    BY <1>3, <1>5, NothingHeld
  <2> QED
    BY <1>3, <2>1 DEF PageInv, Sound, StopBoth, Both
<1> QED
  BY <1>3, <1>4, <1>5 DEF Applied

LEMMA RecorderStep ==
  ASSUME RestInv, RecordTypes, [NextRecorder]_recorderVars PROVE RestInv'
<1>1. PageInv /\ RoverTypes
  BY DEF RestInv, PageInv, DriveTypes
<1>2. CASE startRecording \/ stopRecording \/ clearRecording \/ UNCHANGED recorderVars
  <2>1. UNCHANGED <<vars, leg, abort>>
    BY <1>2 DEF startRecording, stopRecording, clearRecording, recorderVars, replay
  <2> QED
    BY <2>1, PageStays
<1>3. CASE startReplay \/ executeMove \/ NextMove
  BY <1>3, ReplayKeeps
<1>4. ASSUME NEW a \in Acts, onPress(a) \/ onRelease(a) PROVE RestInv'
  BY <1>4, onPressKeeps, onReleaseKeeps
<1>5. CASE RecorderTick
  <2>1. PageInv' /\ UNCHANGED <<inputs, wire, rover, active, abort>>
    BY <1>1, <1>5, TickKeeps DEF RecorderTick, page
  <2>2. leg' = [leg EXCEPT !.nap = @ - 1] \/ leg' = leg
    BY <1>5 DEF RecorderTick
  <2>3. ~replaying' => ~replaying
    BY <2>2 DEF replaying, RecordTypes, Legs
  <2>4. \A k, d, v : Ends(wire, k, d, v)' <=> Ends(wire, k, d, v)
    BY <1>1, <2>1, Unmoved
  <2> QED
    BY <2>1, <2>3, <2>4 DEF RestInv, Rest
<1>6. CASE PageSteps
  <2>1. UNCHANGED <<leg, abort>>
    BY <1>6 DEF PageSteps, replay
  <2>2. CASE Keepalive
    <3>1. PageInv' /\ inputs' = inputs /\ lastSent' = computeMotorCommands(inputs, speed)
      BY <1>1, <2>2, Refreshed
    <3>2. inputs' = {} => \A d \in Sides : Ends(wire, "act", d, "stop")'
      BY <3>1, NothingHeld DEF PageInv, Sound, StopBoth, Both
    <3> QED
      BY <3>1, <3>2 DEF RestInv, Rest
  <2>3. CASE Deliver
    <3>1. PageInv' /\ inputs' = inputs
      BY <1>1, <2>3, RoverKeeps DEF Deliver, page
    <3>2. \A d \in Sides : Ends(wire, "act", d, "stop") => Ends(wire, "act", d, "stop")'
      BY <1>1, <2>3, DeliverEnds DEF Kinds
    <3> QED
      BY <2>1, <3>1, <3>2 DEF RestInv, Rest, replaying
  <2>4. CASE TickDeadman
    <3>1. PageInv' /\ inputs' = inputs
      BY <1>1, <2>4, RoverKeeps DEF TickDeadman, page
    <3>2. \A d \in Sides : Ends(wire, "act", d, "stop") => Ends(wire, "act", d, "stop")'
      BY <1>1, <2>4, CutEnds
    <3> QED
      BY <2>1, <3>1, <3>2 DEF RestInv, Rest, replaying
  <2> QED
    BY <1>6, <2>2, <2>3, <2>4 DEF PageSteps
<1> QED
  BY <1>2, <1>3, <1>4, <1>5, <1>6 DEF NextRecorder

LEMMA RestInvariant == SpecRecorder => [](RestInv /\ RecordTypes)
<1>1. InitRecorder => RestInv /\ RecordTypes
  BY RecorderInit, RecordInit
<1>2. RestInv /\ RecordTypes /\ [NextRecorder]_recorderVars => RestInv' /\ RecordTypes'
  BY RecorderStep, RecordStep
<1> QED
  BY <1>1, <1>2, PTL DEF SpecRecorder

(* With a replay going on, too, no input outlives the finger that made it. *)
THEOREM NoGhostInReplay == SpecRecorder => []NoGhostInput
<1>1. RestInv => NoGhostInput
  BY DEF RestInv, PageInv, NoGhost, NoGhostInput
<1> QED
  BY <1>1, RestInvariant, PTL

(* With nothing held and no replay going on, or one that was aborted, the  *)
(* rover stands still as soon as all has arrived.                          *)
THEOREM RestsUnlessDrivenHolds == SpecRecorder => []RestsUnlessDriven
<1>1. RestInv => RestsUnlessDriven
  <2> SUFFICES ASSUME RestInv, wire = <<>>, inputs = {}, ~replaying \/ abort
               PROVE  rover.act = Both("stop")
    BY DEF RestsUnlessDriven
  <2>1. \A d \in Sides : rover.act[d] = "stop"
    BY EndsNow DEF RestInv, Rest
  <2>2. rover.act \in [Sides -> Orders]
    BY DEF RestInv, PageInv, DriveTypes, RoverTypes, Motors
  <2> QED
    BY <2>1, <2>2 DEF Both
<1> QED
  BY <1>1, RestInvariant, PTL

-----------------------------------------------------------------------------
(* While a replay that was not aborted sleeps, what the sleep has left and *)
(* what has passed since the last command make no more than a sleep.       *)
Spared ==
  replaying /\ ~abort /\ active => wire # <<>> \/ age + leg.nap <= LongestNap

LEMMA SparedStep ==
  ASSUME RestInv, RecordTypes, Spared, [NextRecorder]_recorderVars
  PROVE  Spared'
<1>1. /\ PageInv /\ age \in Nat /\ leg.nap \in Nat /\ leg.nap <= LongestNap /\ abort \in BOOLEAN
      /\ LongestNap \in Nat
  BY TicksAssumption, RecorderAssumption DEF RestInv, PageInv, DriveTypes, RecordTypes, Legs, LongestNap
<1>2. CASE startRecording \/ stopRecording \/ clearRecording \/ UNCHANGED recorderVars
  <2>1. UNCHANGED <<vars, leg, abort>>
    BY <1>2 DEF startRecording, stopRecording, clearRecording, recorderVars, replay
  <2> QED
    BY <2>1 DEF Spared, replaying, vars, roverVars
<1>3. CASE startReplay \/ executeMove \/ NextMove
  BY <1>3, ReplayKeeps DEF Spared
<1>4. ASSUME NEW a \in Acts, onPress(a) PROVE Spared'
  <2>1. /\ UNCHANGED <<leg, active, age>> /\ abort' = (abort \/ (replaying /\ a \notin held))
        /\ a \in held => UNCHANGED wire
    BY <1>4 DEF onPress, Press, roverVars
  <2> QED
    BY <1>1, <2>1 DEF Spared, replaying
<1>5. ASSUME NEW a \in Acts, onRelease(a) PROVE Spared'
  <2>1. UNCHANGED <<leg, abort, active, age, pressed, roverVars>> /\ Release(<<a>>) /\ <<a>> \in Seq(Acts)
    BY <1>5 DEF onRelease, replay, roverVars
  <2>2. wire' = <<>> => wire = <<>>
    <3>1. pressed' \subseteq Acts
      BY <1>1, <2>1 DEF PageInv, DriveTypes
    <3> QED
      BY <1>1, <2>1, <3>1, Lifted
  <2> QED
    BY <2>1, <2>2 DEF Spared, replaying
<1>6. CASE RecorderTick
  <2> SUFFICES ASSUME replaying', ~abort', active' PROVE age' + leg'.nap <= LongestNap
    BY DEF Spared
  <2>1. /\ UNCHANGED <<abort, active, wire>> /\ wire = <<>> /\ age' \in {age + 1, 0}
        /\ leg' = IF replaying THEN [leg EXCEPT !.nap = @ - 1] ELSE leg
        /\ replaying => leg.nap > 0
    BY <1>6 DEF RecorderTick, Tick
  <2>2. replaying /\ leg'.nap = leg.nap - 1
    BY <2>1 DEF replaying, RecordTypes, Legs
  <2>3. age + leg.nap <= LongestNap
    BY <2>1, <2>2 DEF Spared
  <2> QED
    BY <1>1, <2>1, <2>2, <2>3
<1>7. CASE PageSteps
  <2>1. UNCHANGED <<leg, abort>>
    BY <1>7 DEF PageSteps, replay
  <2>2. CASE Keepalive
    BY <1>1, <2>2, Refreshed DEF Spared
  <2>3. CASE Deliver
    <3>1. age' = 0
      BY <2>3 DEF Deliver
    <3> QED
      BY <1>1, <2>1, <3>1 DEF Spared
  <2>4. CASE TickDeadman
    BY <2>4 DEF TickDeadman, Spared
  <2> QED
    BY <1>7, <2>2, <2>3, <2>4 DEF PageSteps
<1> QED
  BY <1>2, <1>3, <1>4, <1>5, <1>6, <1>7 DEF NextRecorder

(* The deadman does not stop a replay in the middle of a move: if it is    *)
(* longer than a tick of the replay, and than its rest.                    *)
THEOREM ReplayIsSpared ==
  ASSUME ReplayTicks < DeadmanTicks, RestTicks < DeadmanTicks
  PROVE  SpecRecorder => ReplaySpared
<1>1. InitRecorder => Spared
  BY DEF InitRecorder, Init, Spared
<1>2. RestInv /\ RecordTypes /\ Spared /\ [NextRecorder]_recorderVars => Spared'
  BY SparedStep
<1>3. RestInv /\ RecordTypes /\ Spared /\ [NextRecorder]_recorderVars
        => [TickDeadman => ~replaying \/ abort \/ wire # <<>>]_recorderVars
  <2> SUFFICES ASSUME RestInv, RecordTypes, Spared, TickDeadman, replaying, ~abort, wire = <<>>
               PROVE  FALSE
    OBVIOUS
  <2>1. active /\ age = DeadmanTicks /\ leg.nap \in Nat /\ age \in Nat
    BY TicksAssumption, RecorderAssumption
       DEF TickDeadman, Expired, RecordTypes, Legs, RestInv, PageInv, DriveTypes, LongestNap
  <2>2. age + leg.nap <= LongestNap
    BY <2>1 DEF Spared
  <2>3. LongestNap < DeadmanTicks /\ LongestNap \in Nat
    BY RecorderAssumption DEF LongestNap
  <2> QED
    BY <2>1, <2>2, <2>3, TicksAssumption
<1> QED
  BY <1>1, <1>2, <1>3, RestInvariant, PTL DEF SpecRecorder, ReplaySpared

(* An aborted replay sends nothing but stops.                              *)
THEOREM AbortSticksHolds == SpecRecorder => AbortSticks
<1>1. RestInv /\ RecordTypes /\ [NextRecorder]_recorderVars
        => [replaying /\ abort /\ (executeMove \/ NextMove) =>
              wire' \in {wire \o StopAll, wire \o StopAll \o StopAll}]_recorderVars
  <2> SUFFICES ASSUME RestInv, abort, executeMove \/ NextMove
               PROVE  wire' \in {wire \o StopAll, wire \o StopAll \o StopAll}
    OBVIOUS
  <2>1. wire \o <<>> = wire
    BY ConcatEmptySeq DEF RestInv, PageInv, DriveTypes, RoverTypes, Wire
  <2>2. CASE executeMove
    BY <2>2 DEF executeMove, MoveEnds, Finish
  <2>3. CASE NextMove
    BY <2>1, <2>3 DEF NextMove, Finish
  <2> QED
    BY <2>2, <2>3
<1> QED
  BY <1>1, RestInvariant, PTL DEF SpecRecorder, AbortSticks
=============================================================================
