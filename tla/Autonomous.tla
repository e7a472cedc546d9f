----------------------------- MODULE Autonomous -----------------------------
(***************************************************************************)
(* The autonomous mode of the web client (web/js/autonomous.js, wired up   *)
(* in control.js): an asynchronous loop that reads the distance sensor and *)
(* drives, backs up or pivots, while the user may take over at any of its  *)
(* awaits.  Each step runs from one await to the next.                     *)
(*                                                                         *)
(* Messages arrive in order, so the rover is what it was last told; the    *)
(* live-input cache and the messages on the way are in DriveInput.         *)
(***************************************************************************)
EXTENDS Integers, FiniteSets

CONSTANTS
  STOP_CM, CLEAR_CM, IMPROVEMENT_CM, HUG_CM, FAR_CM,
  PWM_MIN, PWM_MAX, VALID_MIN_CM, VALID_MAX_CM,
  NullLimit,   \* consecutive nulls after which the loop gives up
  MaxBursts,   \* bursts after which MAX_PIVOT_MS is over at the latest
  Raw,         \* what the rover may report, in cm
  UserSpeed    \* the slider position

ASSUME DistancesAssumption ==
  /\ STOP_CM \in Nat /\ CLEAR_CM \in Nat /\ IMPROVEMENT_CM \in Nat /\ HUG_CM \in Nat
  /\ VALID_MIN_CM \in Nat /\ VALID_MAX_CM \in Nat
  /\ STOP_CM < FAR_CM /\ FAR_CM \in Nat
ASSUME PwmAssumption == {PWM_MIN, PWM_MAX, UserSpeed} \subseteq 0..255 /\ PWM_MIN < PWM_MAX
ASSUME ReadingsAssumption == Raw \subseteq Int /\ -1000 \notin Raw
ASSUME LimitsAssumption == NullLimit \in Nat \ {0} /\ MaxBursts \in Nat \ {0}

Null == -1000    \* no usable reading
Turns == {"left", "right"}
Opposite(side) == IF side = "left" THEN "right" ELSE "left"

VARIABLES
  active, abort,   \* state.active, state.abort
  nextPivotSide,   \* state.nextPivotSide
  pc,              \* the await the loop is suspended at, "off" without a loop
  nullStreak,      \* of loop()
  entry, attempted, flipped, bestSeen,   \* of findClearance()
  bursts, late,    \* how often it pivoted, and is MAX_PIVOT_MS over?
  after,           \* where findClearance called backup() from
  reading,         \* history: the result of the last readDistance()
  motion, pwm,     \* what the rover was last told to do
  byUser           \* is a d-pad button held?

findVars == <<entry, attempted, flipped, bestSeen, bursts, late, after>>
vars == <<active, abort, nextPivotSide, pc, nullStreak, findVars, reading, motion, pwm, byUser>>

Awaits == {"read", "pause", "drive", "backup", "backedUp", "burst", "settle", "pivotRead"}
Distances == {Null} \union 0..VALID_MAX_CM

TypeOK ==
  /\ active \in BOOLEAN /\ abort \in BOOLEAN
  /\ active <=> pc # "off"
  /\ pc \in Awaits \union {"off"}
  /\ nextPivotSide \in Turns /\ attempted \in Turns
  /\ nullStreak \in 0..NullLimit
  /\ entry \in Distances /\ bestSeen \in Distances /\ reading \in Distances
  /\ flipped \in BOOLEAN /\ late \in BOOLEAN
  /\ bursts \in 0..MaxBursts
  /\ after \in {"hug", "flip", "giveUp"}
  /\ motion \in {"stop", "forward", "backward"} \union Turns
  /\ pwm \in 0..255
  /\ byUser \in BOOLEAN

Init ==
  /\ active = FALSE /\ abort = FALSE /\ pc = "off"
  /\ nextPivotSide = "left" /\ attempted = "left"
  /\ nullStreak = 0
  /\ entry = Null /\ bestSeen = Null /\ reading = Null
  /\ flipped = FALSE /\ late = FALSE /\ bursts = 0 /\ after = "hug"
  /\ motion = "stop" /\ pwm = UserSpeed /\ byUser = FALSE

-----------------------------------------------------------------------------
(* Helpers of the loop.                                                    *)

(* readDistance: -1 is the firmware's "nothing near"; a failed or timed    *)
(* out send is a null.                                                     *)
readDistance(raw) ==
  CASE raw = Null -> Null
    [] raw # Null /\ raw < 0 -> VALID_MAX_CM
    [] raw >= 0 /\ raw < VALID_MIN_CM -> Null
    [] raw > VALID_MAX_CM -> VALID_MAX_CM
    [] OTHER -> raw

(* pwmFor, rounded to the nearest as Math.round does.                      *)
pwmFor(d) ==
  LET span == FAR_CM - STOP_CM
  IN  CASE d >= FAR_CM -> PWM_MAX
        [] d <= STOP_CM -> PWM_MIN
        [] OTHER -> PWM_MIN + (2 * (d - STOP_CM) * (PWM_MAX - PWM_MIN) + span) \div (2 * span)

(* dispatch(act) of control.js: the duty of the slider, then the actions,  *)
(* whatever applyPwm() asked for just before.                              *)
DispatchAct(act) == motion' = act /\ pwm' = UserSpeed

MotorStop == motion' = "stop" /\ UNCHANGED pwm

(* Mutant: a loop that is over still counts as active.                     *)
EndLoop_KeepsActive ==
  /\ pc' = "off"
  /\ pwm' = UserSpeed
  /\ UNCHANGED active

(* loop() is over: back to the slider's duty, also in onStateChange.       *)
EndLoop ==
  /\ active' = FALSE /\ pc' = "off"
  /\ pwm' = UserSpeed

(* Only a natural exit stops the motors.                                   *)
Exit(natural) ==
  /\ EndLoop
  /\ motion' = IF natural THEN "stop" ELSE motion

(* Mutant: a natural exit leaves the motors alone.                         *)
NextTick_LeavesRunning ==
  \/ abort /\ Exit(FALSE)
  \/ ~abort /\ Exit(FALSE)
  \/ ~abort /\ pc' = "read" /\ UNCHANGED <<active, motion, pwm>>

(* The head of the loop: aborted, past HARD_CAP_MS, or the next reading.   *)
NextTick ==
  \/ abort /\ Exit(FALSE)
  \/ ~abort /\ Exit(TRUE)
  \/ ~abort /\ pc' = "read" /\ UNCHANGED <<active, motion, pwm>>

(* backup() and pivotBurst() up to their first await.                      *)
Backup(from) ==
  /\ DispatchAct("backward")
  /\ pc' = "backup"
  /\ after' = from

PivotBurst(side) ==
  /\ DispatchAct(side)
  /\ pc' = "burst"

-----------------------------------------------------------------------------
(* The loop, from await to await.                                          *)

(* findClearance(d) up to its first await.                                 *)
FindClearance(d) ==
  \E hint \in Turns \union {"none"} :
    LET side == IF hint \in Turns THEN hint ELSE nextPivotSide
    IN  /\ nextPivotSide' = Opposite(side)
        /\ attempted' = side
        /\ entry' = d /\ bestSeen' = d
        /\ flipped' = FALSE /\ late' = FALSE /\ bursts' = 0
        /\ IF d < HUG_CM THEN Backup("hug") ELSE PivotBurst(side) /\ UNCHANGED after

(* Mutant: a null does not stop the motors.                                *)
OnNull_KeepsDriving ==
  /\ nullStreak' = nullStreak + 1
  /\ \/ nullStreak' >= NullLimit /\ Exit(TRUE)
     \/ nullStreak' < NullLimit /\ pc' = "pause" /\ UNCHANGED <<active, motion, pwm>>
  /\ UNCHANGED <<nextPivotSide, findVars>>

(* Mutant: the streak does not build up.                                   *)
OnNull_NoStreak ==
  /\ nullStreak' = 1
  /\ pc' = "pause" /\ UNCHANGED active /\ MotorStop
  /\ UNCHANGED <<nextPivotSide, findVars>>

(* A reading that is no good: stop and wait, or give up.                   *)
OnNull ==
  /\ nullStreak' = nullStreak + 1
  /\ \/ nullStreak' >= NullLimit /\ Exit(TRUE)
     \/ nullStreak' < NullLimit /\ pc' = "pause" /\ UNCHANGED active /\ MotorStop
  /\ UNCHANGED <<nextPivotSide, findVars>>

OnObstacle(d) ==
  /\ nullStreak' = 0
  /\ FindClearance(d)
  /\ UNCHANGED active

(* driveForward: applyPwm(pwmFor(d)), then dispatch('forward').            *)
OnClearPath ==
  /\ nullStreak' = 0
  /\ DispatchAct("forward")
  /\ pc' = "drive"
  /\ UNCHANGED <<active, nextPivotSide, findVars>>

Read(raw) ==
  LET d == readDistance(raw)
  IN  /\ pc = "read"
      /\ reading' = d
      /\ \/ abort /\ Exit(FALSE) /\ UNCHANGED <<nullStreak, nextPivotSide, findVars>>
         \/ ~abort /\ d = Null /\ OnNull
         \/ ~abort /\ d # Null /\ d <= STOP_CM /\ OnObstacle(d)
         \/ ~abort /\ d > STOP_CM /\ OnClearPath
      /\ UNCHANGED <<abort, byUser>>

(* sleep(TICK_MS) after a null or a move forward.                          *)
Slept ==
  /\ pc \in {"pause", "drive"}
  /\ NextTick
  /\ UNCHANGED <<abort, nextPivotSide, nullStreak, findVars, reading, byUser>>

(* backup(): sleep(BACKUP_MS), motor(2, 2), and a short settling.          *)
BackupOver ==
  /\ pc = "backup"
  /\ MotorStop
  /\ pc' = "backedUp"
  /\ UNCHANGED <<active, abort, nextPivotSide, nullStreak, findVars, reading, byUser>>

BackedUp ==
  /\ pc = "backedUp"
  /\ attempted' = IF after = "flip" THEN Opposite(attempted) ELSE attempted
  /\ \/ (abort \/ after = "giveUp") /\ NextTick
     \/ ~abort /\ after # "giveUp" /\ PivotBurst(attempted') /\ UNCHANGED active
  /\ UNCHANGED <<abort, nextPivotSide, nullStreak, entry, flipped, bestSeen, bursts, late, after,
                 reading, byUser>>

(* Mutant: the motors are stopped without a look at abort.                 *)
BurstOver_StopsAnyway ==
  /\ pc = "burst"
  /\ MotorStop /\ pc' = "settle"
  /\ UNCHANGED <<active, abort, nextPivotSide, nullStreak, findVars, reading, byUser>>

(* pivotBurst(): sleep(PIVOT_BURST_MS), motor(2, 2), a short settling, and *)
(* the next reading.                                                       *)
BurstOver ==
  /\ pc = "burst"
  /\ \/ abort /\ NextTick
     \/ ~abort /\ MotorStop /\ pc' = "settle" /\ UNCHANGED active
  /\ UNCHANGED <<abort, nextPivotSide, nullStreak, findVars, reading, byUser>>

Settled ==
  /\ pc = "settle"
  /\ \/ abort /\ NextTick
     \/ ~abort /\ pc' = "pivotRead" /\ UNCHANGED <<active, motion, pwm>>
  /\ UNCHANGED <<abort, nextPivotSide, nullStreak, findVars, reading, byUser>>

(* The reading after a burst.  abort is looked at again only when another  *)
(* burst would follow.                                                     *)
PivotRead(raw) ==
  LET d == readDistance(raw)
  IN  /\ pc = "pivotRead"
      /\ reading' = d
      /\ bestSeen' = IF d # Null /\ d < CLEAR_CM /\ d > bestSeen THEN d ELSE bestSeen
      /\ bursts' = IF bursts < MaxBursts THEN bursts + 1 ELSE bursts
      /\ \E slow \in BOOLEAN : late' = (late \/ slow \/ bursts' = MaxBursts)
      /\ \/ d >= CLEAR_CM /\ NextTick /\ UNCHANGED <<flipped, after>>
         \/ /\ d < CLEAR_CM
            /\ \/ late' /\ flipped /\ bestSeen' >= entry + IMPROVEMENT_CM
                  /\ NextTick /\ UNCHANGED <<flipped, after>>
               \/ late' /\ flipped /\ bestSeen' < entry + IMPROVEMENT_CM
                  /\ Backup("giveUp") /\ UNCHANGED <<flipped, active>>
               \/ late' /\ ~flipped
                  /\ flipped' = TRUE /\ Backup("flip") /\ UNCHANGED active
               \/ ~late' /\ abort
                  /\ NextTick /\ UNCHANGED <<flipped, after>>
               \/ ~late' /\ ~abort
                  /\ PivotBurst(attempted) /\ UNCHANGED <<flipped, after, active>>
      /\ UNCHANGED <<abort, nextPivotSide, nullStreak, entry, attempted, byUser>>

LoopStep ==
  \/ \E raw \in Raw \union {Null} : Read(raw) \/ PivotRead(raw)
  \/ Slept \/ BackupOver \/ BackedUp \/ BurstOver \/ Settled

-----------------------------------------------------------------------------
(* The user.                                                               *)

Started ==
  /\ active' = TRUE /\ abort' = FALSE
  /\ nullStreak' = 0
  /\ pc' = "read"
  /\ UNCHANGED <<nextPivotSide, findVars, reading, motion, pwm, byUser>>

(* Mutant: the button starts the mode again while the old loop winds down. *)
Start_Anyway == (~active \/ abort) /\ Started

(* start(), and loop() up to its first await.                              *)
Start == ~active /\ Started

(* stop(), from the button or from a press of the stop button.             *)
Cancel ==
  /\ active
  /\ abort' = TRUE
  /\ MotorStop
  /\ UNCHANGED <<active, nextPivotSide, pc, nullStreak, findVars, reading, byUser>>

(* A press of the d-pad cancels the mode, and then drives,                 *)
Press ==
  /\ ~byUser
  /\ abort' = (abort \/ active)
  /\ DispatchAct("forward")
  /\ byUser' = TRUE
  /\ UNCHANGED <<active, nextPivotSide, pc, nullStreak, findVars, reading>>

(* again with every keepalive,                                             *)
Refresh ==
  /\ byUser
  /\ DispatchAct("forward")
  /\ UNCHANGED <<active, abort, nextPivotSide, pc, nullStreak, findVars, reading, byUser>>

(* until its release, which cancels nothing.                               *)
Release ==
  /\ byUser
  /\ DispatchAct("stop")
  /\ byUser' = FALSE
  /\ UNCHANGED <<active, abort, nextPivotSide, pc, nullStreak, findVars, reading>>

Next ==
  \/ LoopStep
  \/ Start \/ Cancel
  \/ Press \/ Refresh \/ Release

Spec == Init /\ [][Next]_vars

(* Sleeps end, and a send() settles by its timeout (see WsClient).         *)
FairSpec == Spec /\ WF_vars(LoopStep)

-----------------------------------------------------------------------------
(* While the loop is in charge the rover moves forward only on a reading   *)
(* that showed the way clear, and not on one that failed.                  *)
DrivesOnSight == motion = "forward" /\ active /\ ~abort /\ ~byUser => reading > STOP_CM

(* Whichever way the loop ends, it leaves no motor running: a rover in     *)
(* motion without it is in the hands of the user.                          *)
ExitStops == ~active /\ motion # "stop" => byUser

(* A cancelled loop starts nothing new: no start() revives it, and from    *)
(* whichever await it is suspended at its next step is its end, but for    *)
(* one backup, which may be under way or still follow the reading of a     *)
(* pivot.                                                                  *)
CancelSticks ==
  [][abort /\ active =>
       /\ abort' \/ ~active'
       /\ pc' # pc => pc' = "off" \/ <<pc, pc'>> \in {<<"pivotRead", "backup">>,
                                                     <<"backup", "backedUp">>}]_vars

(* A cancelled loop ends.                                                  *)
CancelEnds == abort /\ active ~> ~active

(* "exit autonomous rather than spin forever": a sensor that stays dead    *)
(* ends the mode.                                                          *)
DeadSensorEnds == ~<>[](active /\ reading = Null)

(* Once the mode is cancelled the loop touches the motors only in a backup *)
(* begun or still to begin: neither the end of a burst nor an exit of the  *)
(* loop gets in the way of a user who has taken over.                      *)
OnlyBackupOutlivesCancel ==
  [][LoopStep /\ abort /\ motion' # motion => "backup" \in {pc, pc'}]_vars

(* "they're taking over the rover": after a cancel no step of the loop     *)
(* overrides the command of the user.                                      *)
UserKeepsTheRover == [][LoopStep /\ abort /\ byUser => motion' = motion]_vars

(* "Any manual d-pad press cancels autonomous mode": after a cancel no     *)
(* step of the loop sets the rover in motion.                              *)
NoMoveAfterCancel == [][LoopStep /\ abort => motion' \in {motion, "stop"}]_vars

(* "dynamically scaling PWM with the free distance ahead".                 *)
PwmFollowsDistance == pc = "drive" /\ ~abort => pwm = pwmFor(reading)
=============================================================================
