-------------------------- MODULE AutonomousProofs --------------------------
(***************************************************************************)
(* Theorems about Autonomous, for all thresholds, duties and limits, and   *)
(* whatever the sensor may report.                                         *)
(***************************************************************************)
EXTENDS Autonomous, TLAPS

(* What a cancelled loop finds is the user's, but for a backup: that one   *)
(* ends in a stop, whoever drives.                                         *)
Yields == abort /\ motion # "stop" => byUser \/ pc = "backup"

(* Between a move forward and the next reading the last one stands.        *)
Sighted ==
  motion = "forward" /\ active /\ ~abort /\ ~byUser =>
    reading > STOP_CM /\ pc \in {"read", "drive"}

AutoInv ==
  /\ nextPivotSide \in Turns /\ attempted \in Turns
  /\ active <=> pc # "off"
  /\ active \in BOOLEAN /\ abort \in BOOLEAN /\ byUser \in BOOLEAN
  /\ Yields /\ Sighted /\ ExitStops

LEMMA SidesAreTurns == \A side \in Turns : Opposite(side) \in Turns /\ side # "forward"
BY DEF Turns, Opposite

(* The head of the loop, reached without a motor running forward, or with  *)
(* one that the last reading allows.                                       *)
LEMMA TickKeeps ==
  ASSUME AutoInv, active, pc # "backup", NextTick,
         nextPivotSide' \in Turns, attempted' \in Turns,
         UNCHANGED <<abort, byUser>>,
         reading' = reading \/ motion # "forward" \/ byUser \/ abort,
         pc \in {"read", "drive"} \/ motion # "forward" \/ byUser \/ abort
  PROVE  AutoInv'
<1> USE DEF AutoInv, Yields, Sighted, ExitStops
<1>1. CASE abort /\ Exit(FALSE)
  BY <1>1 DEF Exit, EndLoop
<1>2. CASE ~abort /\ Exit(TRUE)
  BY <1>2 DEF Exit, EndLoop
<1>3. CASE ~abort /\ pc' = "read" /\ UNCHANGED <<active, motion, pwm>>
  BY <1>3
<1> QED
  BY <1>1, <1>2, <1>3 DEF NextTick

LEMMA ReadKeeps ==
  ASSUME AutoInv, NEW raw, Read(raw)
  PROVE  AutoInv'
<1> DEFINE d == readDistance(raw)
<1> HIDE DEF d
<1> USE DEF AutoInv, Yields, Sighted, ExitStops
<1>1. pc = "read" /\ reading' = d /\ UNCHANGED <<abort, byUser>>
  BY DEF Read, d
<1>2. CASE abort /\ Exit(FALSE) /\ UNCHANGED <<nullStreak, nextPivotSide, findVars>>
  BY <1>1, <1>2 DEF Exit, EndLoop, findVars
<1>3. CASE ~abort /\ d = Null /\ OnNull
  <2>1. motion' = "stop" /\ UNCHANGED <<nextPivotSide, attempted>>
    BY <1>3 DEF OnNull, Exit, MotorStop, findVars
  <2>2. (active' = FALSE /\ pc' = "off") \/ (UNCHANGED active /\ pc' = "pause")
    BY <1>3 DEF OnNull, Exit, EndLoop
  <2> QED
    BY <1>1, <2>1, <2>2
<1>4. CASE ~abort /\ d # Null /\ d <= STOP_CM /\ OnObstacle(d)
  <2>1. PICK hint \in Turns \union {"none"} :
          LET side == IF hint \in Turns THEN hint ELSE nextPivotSide
          IN  /\ nextPivotSide' = Opposite(side)
              /\ attempted' = side
              /\ IF d < HUG_CM THEN Backup("hug") ELSE PivotBurst(side) /\ UNCHANGED after
    BY <1>4 DEF OnObstacle, FindClearance
  <2>2. nextPivotSide' \in Turns /\ attempted' \in Turns
    BY <2>1, SidesAreTurns
  <2>3. UNCHANGED active
    BY <1>4 DEF OnObstacle
  <2>4. motion' # "forward" /\ pc' # "off"
    BY <2>1, SidesAreTurns DEF Backup, PivotBurst, DispatchAct
  <2> QED
    BY <1>1, <1>4, <2>2, <2>3, <2>4
<1>5. CASE ~abort /\ d > STOP_CM /\ OnClearPath
  BY <1>1, <1>5 DEF OnClearPath, DispatchAct, findVars
<1> QED
  BY <1>2, <1>3, <1>4, <1>5 DEF Read, d

LEMMA PivotReadKeeps ==
  ASSUME AutoInv, NEW raw, PivotRead(raw)
  PROVE  AutoInv'
<1> USE DEF AutoInv, Yields, Sighted, ExitStops
<1>1. pc = "pivotRead" /\ UNCHANGED <<abort, byUser, nextPivotSide, attempted>>
  BY DEF PivotRead
<1>2. CASE NextTick
  BY <1>1, <1>2, TickKeeps
<1>3. CASE \E from \in {"giveUp", "flip"} : Backup(from) /\ UNCHANGED active
  BY <1>1, <1>3 DEF Backup, DispatchAct
<1>4. CASE ~abort /\ PivotBurst(attempted) /\ UNCHANGED active
  BY <1>1, <1>4, SidesAreTurns DEF PivotBurst, DispatchAct
<1> QED
  BY <1>2, <1>3, <1>4 DEF PivotRead

LEMMA LoopStepKeeps == ASSUME AutoInv, LoopStep PROVE AutoInv'
<1> USE DEF AutoInv, Yields, Sighted, ExitStops
<1>1. CASE \E raw \in Raw \union {Null} : Read(raw) \/ PivotRead(raw)
  BY <1>1, ReadKeeps, PivotReadKeeps
<1>2. CASE Slept
  <2>1. NextTick /\ pc \in {"pause", "drive"} /\ UNCHANGED <<abort, byUser, reading>>
    BY <1>2 DEF Slept
  <2>2. UNCHANGED <<nextPivotSide, attempted>>
    BY <1>2 DEF Slept, findVars
  <2> QED
    BY <2>1, <2>2, TickKeeps
<1>3. CASE BackupOver
  BY <1>3 DEF BackupOver, MotorStop, findVars
<1>4. CASE BackedUp
  <2>1. /\ pc = "backedUp" /\ attempted' \in Turns
        /\ UNCHANGED <<abort, byUser, reading, nextPivotSide>>
    BY <1>4, SidesAreTurns DEF BackedUp
  <2>2. CASE NextTick
    BY <2>1, <2>2, TickKeeps
  <2>3. CASE ~abort /\ PivotBurst(attempted') /\ UNCHANGED active
    BY <2>1, <2>3, SidesAreTurns DEF PivotBurst, DispatchAct
  <2> QED
    BY <1>4, <2>2, <2>3 DEF BackedUp
<1>5. CASE BurstOver \/ Settled
  <2>1. /\ pc \in {"burst", "settle"}
        /\ UNCHANGED <<abort, byUser, reading, nextPivotSide, attempted>>
    BY <1>5 DEF BurstOver, Settled, findVars
  <2>2. CASE NextTick
    BY <2>1, <2>2, TickKeeps
  <2>3. CASE ~abort /\ pc' \in {"settle", "pivotRead"} /\ UNCHANGED active
             /\ motion' \in {motion, "stop"}
    BY <2>1, <2>3
  <2> QED
    BY <1>5, <2>2, <2>3 DEF BurstOver, Settled, MotorStop
<1> QED
  BY <1>1, <1>2, <1>3, <1>4, <1>5 DEF LoopStep

(* What the user does, whatever the loop is about.                         *)
LEMMA UserKeeps ==
  ASSUME AutoInv, Start \/ Cancel \/ Press \/ Refresh \/ Release
  PROVE  AutoInv'
<1> USE DEF AutoInv, Yields, Sighted, ExitStops, findVars
<1>1. CASE Start
  BY <1>1 DEF Start, Started
<1>2. CASE Cancel
  BY <1>2 DEF Cancel, MotorStop
<1>3. CASE Press \/ Refresh
  <2>1. byUser' = TRUE /\ UNCHANGED <<active, nextPivotSide, attempted, pc, reading>>
    BY <1>3 DEF Press, Refresh
  <2>2. abort' \in BOOLEAN
    BY <1>3 DEF Press, Refresh
  <2> QED
    BY <2>1, <2>2
<1>4. CASE Release
  BY <1>4 DEF Release, DispatchAct
<1> QED
  BY <1>1, <1>2, <1>3, <1>4

LEMMA AutoInvariant == Spec => []AutoInv
<1>1. Init => AutoInv
  BY DEF Init, AutoInv, Yields, Sighted, ExitStops, Turns
<1>2. AutoInv /\ [Next]_vars => AutoInv'
  <2> SUFFICES ASSUME AutoInv, [Next]_vars PROVE AutoInv'
    OBVIOUS
  <2>1. CASE LoopStep
    BY <2>1, LoopStepKeeps
  <2>2. CASE Start \/ Cancel \/ Press \/ Refresh \/ Release
    BY <2>2, UserKeeps
  <2>3. CASE UNCHANGED vars
    BY <2>3 DEF vars, findVars, AutoInv, Yields, Sighted, ExitStops
  <2> QED
    BY <2>1, <2>2, <2>3 DEF Next
<1> QED
  BY <1>1, <1>2, PTL DEF Spec

(* While the loop is in charge the rover goes forward only on a reading    *)
(* that showed the way clear, whatever the sensor reports.                 *)
THEOREM ForwardOnSight == Spec => []DrivesOnSight
<1>1. AutoInv => DrivesOnSight
  BY DEF AutoInv, Sighted, DrivesOnSight
<1> QED
  BY <1>1, AutoInvariant, PTL

(* Whichever way loop() ends, and wherever the user cut in, no motor runs  *)
(* on but for the user.                                                    *)
THEOREM NothingRunsOn == Spec => []ExitStops
<1>1. AutoInv => ExitStops
  BY DEF AutoInv
<1> QED
  BY <1>1, AutoInvariant, PTL

(* No start() revives a loop that stop() or a press has cancelled, and its *)
(* next step ends it, but for a backup that is under way or follows the    *)
(* reading of a pivot.                                                     *)
THEOREM CancelledForGood == Spec => CancelSticks
<1> DEFINE Winds == pc' = "off" \/ <<pc, pc'>> \in {<<"pivotRead", "backup">>,
                                                  <<"backup", "backedUp">>}
<1>1. ASSUME LoopStep, abort PROVE Winds
  <2>1. NextTick => pc' = "off"
    BY <1>1 DEF NextTick, Exit, EndLoop
  <2>2. ASSUME NEW raw, Read(raw) PROVE pc' = "off"
    BY <1>1, <2>2 DEF Read, Exit, EndLoop
  <2>3. ASSUME NEW raw, PivotRead(raw) PROVE NextTick \/ <<pc, pc'>> = <<"pivotRead", "backup">>
    BY <1>1, <2>3 DEF PivotRead, Backup
  <2>4. Slept \/ BackedUp \/ BurstOver \/ Settled => NextTick
    BY <1>1 DEF Slept, BackedUp, BurstOver, Settled
  <2>5. BackupOver => <<pc, pc'>> = <<"backup", "backedUp">>
    BY DEF BackupOver
  <2> QED
    BY <1>1, <2>1, <2>2, <2>3, <2>4, <2>5 DEF LoopStep
<1>2. ASSUME LoopStep PROVE UNCHANGED abort
  BY <1>2 DEF LoopStep, Read, PivotRead, Slept, BackupOver, BackedUp, BurstOver, Settled
<1>3. ASSUME Next, ~LoopStep, abort, active PROVE abort' /\ UNCHANGED pc
  BY <1>3 DEF Next, Start, Cancel, Press, Refresh, Release
<1>4. [Next]_vars => [abort /\ active => (abort' \/ ~active') /\ (pc' # pc => Winds)]_vars
  BY <1>1, <1>2, <1>3
<1> QED
  BY <1>4, PTL DEF Spec, CancelSticks

(* Of a cancelled loop only a backup touches the motors.                   *)
THEOREM OnlyBackups == Spec => OnlyBackupOutlivesCancel
<1>1. ASSUME LoopStep, abort PROVE motion' = motion \/ "backup" \in {pc, pc'}
  <2>1. NextTick => motion' = motion
    BY <1>1 DEF NextTick, Exit
  <2>2. ASSUME NEW raw, Read(raw) PROVE motion' = motion
    BY <1>1, <2>2 DEF Read, Exit
  <2>3. ASSUME NEW raw, PivotRead(raw) PROVE NextTick \/ pc' = "backup"
    BY <1>1, <2>3 DEF PivotRead, Backup
  <2>4. Slept \/ BackedUp \/ BurstOver \/ Settled => NextTick
    BY <1>1 DEF Slept, BackedUp, BurstOver, Settled
  <2>5. BackupOver => pc = "backup"
    BY DEF BackupOver
  <2> QED
    BY <1>1, <2>1, <2>2, <2>3, <2>4, <2>5 DEF LoopStep
<1>2. [Next]_vars => [LoopStep /\ abort /\ motion' # motion => "backup" \in {pc, pc'}]_vars
  BY <1>1
<1> QED
  BY <1>2, PTL DEF Spec, OnlyBackupOutlivesCancel
=============================================================================
