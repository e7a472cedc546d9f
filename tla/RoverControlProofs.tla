------------------------- MODULE RoverControlProofs -------------------------
(***************************************************************************)
(* Theorems about RoverControl, for every timeout, loop time, clock width  *)
(* and set of arguments.                                                   *)
(***************************************************************************)
EXTENDS RoverControl, TLAPS

(* Type correctness: the clamp keeps every speed and duty in 8 bits, the   *)
(* clock stays below its modulus, whatever integers the clients send.      *)
THEOREM TypeCorrect == Spec => []TypeOK
<1> USE TimeAssumption DEF TypeOK, Phases, Levels, Motors, IdleCap,
        FORWARD, BACKWARD, STOP, LEFT, RIGHT, ALL, MaxPwm
<1>0. 0 \in 0..(MillisMod - 1) /\ 0 \in 0..MaxLoopMs /\ 0 \in 0..RebootDelayMs
      /\ 0 \in 0..IdleCap /\ 0 \in 0..MaxPwm
  OBVIOUS
<1>1. Init => TypeOK
  <2> SUFFICES ASSUME Init PROVE TypeOK
    OBVIOUS
  <2>1. /\ action \in [Motors -> Int] /\ speed \in [Motors -> 0..MaxPwm]
        /\ pins \in [Motors -> Levels] /\ duty \in [Motors -> 0..MaxPwm]
    BY DEF Init
  <2> QED
    BY <1>0, <2>1 DEF Init
<1>2. TypeOK /\ [Next]_vars => TypeOK'
  <2> SUFFICES ASSUME TypeOK, [Next]_vars PROVE TypeOK'
    OBVIOUS
  <2>0. ASSUME NEW act \in Int, NEW sel \in Int, MotorControlAction(act, sel)
        PROVE  /\ action' \in [Motors -> Int] /\ speed' \in [Motors -> 0..MaxPwm]
               /\ pins' \in [Motors -> Levels] /\ duty' \in [Motors -> 0..MaxPwm]
               /\ lastActionSelection' \in Int
    BY <2>0 DEF MotorControlAction, LevelsOf, Selected
  <2>1. CASE SetupCompleted
    BY <2>1 DEF SetupCompleted, motorVars, deadmanVars, timeVars
  <2>2. ASSUME NEW a \in SetMotorArgs, SetMotor(a[1], a[2])
        PROVE  TypeOK'
    <3>1. a[1] \in Int /\ a[2] \in Int
      BY ArgsAssumption
    <3>2. MotorControlAction(a[1], a[2])
      BY <2>2 DEF SetMotor, Obey
    <3>3. /\ action' \in [Motors -> Int] /\ speed' \in [Motors -> 0..MaxPwm]
          /\ pins' \in [Motors -> Levels] /\ duty' \in [Motors -> 0..MaxPwm]
          /\ lastActionSelection' \in Int
      BY <2>0, <3>1, <3>2
    <3> QED
      BY <1>0, <2>2, <3>3 DEF SetMotor, Obey, timeVars
  <2>3. ASSUME NEW a \in SetPwmArgs, SetMotorPwm(a[1], a[2])
        PROVE  TypeOK'
    <3>1. a[2] \in Int /\ constrain(a[2]) \in 0..MaxPwm
      BY ArgsAssumption DEF constrain
    <3> QED
      BY <2>3, <3>1 DEF SetMotorPwm, MotorControlSetPWM, Selected, timeVars
  <2>4. CASE Reboot
    BY <2>4 DEF Reboot, motorVars, deadmanVars
  <2>5. CASE Restart \/ Crash
    <3>1. Boot
      BY <2>5 DEF Restart, Crash
    <3>2. /\ action' \in [Motors -> Int] /\ speed' \in [Motors -> 0..MaxPwm]
          /\ pins' \in [Motors -> Levels] /\ duty' \in [Motors -> 0..MaxPwm]
      BY <3>1 DEF Boot
    <3>3. phase' \in Phases /\ motorsActive' \in BOOLEAN
      BY <3>1 DEF Boot
    <3>5. lastActionSelection' \in Int /\ deadmanTimeoutMs' \in {0, DeadmanTimeoutMs}
      BY <3>1 DEF Boot
    <3>4. /\ lastCommandMs' \in 0..(MillisMod - 1) /\ now' \in 0..(MillisMod - 1)
          /\ loopMs' \in 0..MaxLoopMs /\ delayMs' \in 0..RebootDelayMs
          /\ idle' \in 0..IdleCap
      BY <1>0, <3>1 DEF Boot
    <3> QED
      BY <3>2, <3>3, <3>4, <3>5
  <2>6. CASE TickDeadman
    <3>1. CASE Expired
      <4>1. MotorControlAction(STOP, ALL) /\ motorsActive' = FALSE
        BY <2>6, <3>1 DEF TickDeadman, Tick
      <4>2. /\ action' \in [Motors -> Int] /\ speed' \in [Motors -> 0..MaxPwm]
            /\ pins' \in [Motors -> Levels] /\ duty' \in [Motors -> 0..MaxPwm]
            /\ lastActionSelection' \in Int
        BY <2>0, <4>1
      <4> QED
        BY <1>0, <2>6, <4>1, <4>2 DEF TickDeadman, Tick
    <3>2. CASE ~Expired
      BY <1>0, <2>6, <3>2 DEF TickDeadman, Tick, motorVars
    <3> QED
      BY <3>1, <3>2
  <2>7. CASE Elapse
    <3>1. now' \in 0..(MillisMod - 1) /\ idle' \in 0..IdleCap
      BY <2>7 DEF Elapse
    <3>2. loopMs' \in 0..MaxLoopMs /\ delayMs' \in 0..RebootDelayMs
      BY <2>7 DEF Elapse
    <3> QED
      BY <2>7, <3>1, <3>2 DEF Elapse, motorVars
  <2>8. CASE UNCHANGED vars
    BY <2>8 DEF vars, motorVars, deadmanVars, timeVars
  <2> QED
    BY <2>1, <2>2, <2>3, <2>4, <2>5, <2>6, <2>7, <2>8 DEF Next
<1> QED
  BY <1>1, <1>2, PTL DEF Spec

-----------------------------------------------------------------------------
(* The strengthening that makes ArmedDeadline inductive: outside setup the *)
(* deadman has its timeout, and while it is armed the difference of clock  *)
(* readings it looks at is the true silence, which the wrap cannot hide    *)
(* because the silence never reaches the width of the clock.               *)
Configured == phase # "setup" => deadmanTimeoutMs = DeadmanTimeoutMs
ClockIsTrue == motorsActive => Since(lastCommandMs) = idle
DeadlineInv ==
  /\ phase = "setup" => ~motorsActive
  /\ Configured
  /\ DeadmanTimeoutMs > 0 => ClockIsTrue
  /\ ArmedDeadline

(* Initially nothing is armed, and every step keeps the deadline.          *)
LEMMA DeadlineStep == TypeOK /\ DeadlineInv /\ [Next]_vars => DeadlineInv'
<1> USE TimeAssumption
<1> SUFFICES ASSUME TypeOK, DeadlineInv, [Next]_vars PROVE DeadlineInv'
  OBVIOUS
<1> USE DEF TypeOK, IdleCap, DeadlineInv, Configured, ClockIsTrue, ArmedDeadline,
            Overtime, Since
<1>1. CASE SetupCompleted
  BY <1>1 DEF SetupCompleted, deadmanVars, timeVars
<1>2. ASSUME NEW a \in SetMotorArgs, SetMotor(a[1], a[2])
      PROVE  DeadlineInv'
  BY <1>2 DEF SetMotor, Obey, timeVars
<1>3. ASSUME NEW a \in SetPwmArgs, SetMotorPwm(a[1], a[2])
      PROVE  DeadlineInv'
  BY <1>3 DEF SetMotorPwm, timeVars
<1>4. CASE Reboot
  BY <1>4 DEF Reboot, deadmanVars
<1>5. CASE Restart \/ Crash
  BY <1>5 DEF Restart, Crash, Boot
<1>6. CASE TickDeadman
  BY <1>6 DEF TickDeadman, Tick, Expired, motorVars
<1>7. CASE Elapse
  BY <1>7 DEF Elapse
<1>8. CASE UNCHANGED vars
  BY <1>8 DEF vars, deadmanVars, timeVars
<1> QED
  BY <1>1, <1>2, <1>3, <1>4, <1>5, <1>6, <1>7, <1>8 DEF Next

LEMMA DeadlineInvariant == Spec => []DeadlineInv
<1>1. Init => DeadlineInv
  BY TimeAssumption DEF Init, DeadlineInv, Configured, ClockIsTrue, ArmedDeadline
<1> QED
  BY <1>1, TypeCorrect, DeadlineStep, PTL DEF Spec

(* An armed deadman leaves no driving command unanswered for longer than   *)
(* its timeout and one iteration of the loop, for every clock width.       *)
THEOREM ArmedDeadlineHolds == Spec => []ArmedDeadline
<1>1. DeadlineInv => ArmedDeadline
  BY DEF DeadlineInv
<1> QED
  BY <1>1, DeadlineInvariant, PTL

(* And it never stops motors that were commanded within the timeout.       *)
THEOREM NeverEarlyHolds == Spec => NeverEarly
<1>1. TypeOK /\ DeadlineInv /\ [Next]_vars =>
        [TickDeadman /\ motorsActive /\ ~motorsActive' => idle > DeadmanTimeoutMs]_vars
  <2> SUFFICES ASSUME TypeOK, DeadlineInv, TickDeadman, motorsActive, ~motorsActive'
               PROVE  idle > DeadmanTimeoutMs
    OBVIOUS
  <2>1. Expired
    BY DEF TickDeadman, Tick
  <2>2. phase = "loop" /\ DeadmanTimeoutMs > 0
    BY <2>1, TimeAssumption DEF TickDeadman, Tick, Expired, DeadlineInv, Configured, TypeOK
  <2> QED
    BY <2>1, <2>2, TimeAssumption DEF Expired, DeadlineInv, Configured, ClockIsTrue
<1> QED
  BY <1>1, TypeCorrect, DeadlineInvariant, PTL DEF Spec, NeverEarly

-----------------------------------------------------------------------------
(* A step that moves the motors through MotorControl::action can only set  *)
(* going the motors it selects, and a STOP of both leaves none driven.     *)
LEMMA StopAllStops ==
  ASSUME MotorControlAction(STOP, ALL)
  PROVE  ~Driving' /\ lastActionSelection' = ALL
BY DEF MotorControlAction, LevelsOf, Selected, Driving, Driven, STOP, ALL, FORWARD, BACKWARD

(* The one hole: motors run with a disarmed deadman only after a set_motor *)
(* that did not select both sides.                                         *)
THEOREM OnlyPartialStopDisarmsHolds == Spec => []OnlyPartialStopDisarms
<1> USE DEF OnlyPartialStopDisarms
<1>1. Init => OnlyPartialStopDisarms
  BY DEF Init, Driving, Driven
<1>2. OnlyPartialStopDisarms /\ [Next]_vars => OnlyPartialStopDisarms'
  <2> SUFFICES ASSUME OnlyPartialStopDisarms, [Next]_vars
               PROVE  OnlyPartialStopDisarms'
    OBVIOUS
  <2>1. ASSUME NEW a \in SetMotorArgs, SetMotor(a[1], a[2])
        PROVE  OnlyPartialStopDisarms'
    <3>1. CASE a[1] = STOP /\ a[2] = ALL
      BY <2>1, <3>1, StopAllStops DEF SetMotor, Obey
    <3>2. CASE a[1] = STOP /\ a[2] # ALL
      BY <2>1, <3>2 DEF SetMotor, Obey, MotorControlAction
    <3>3. CASE a[1] # STOP
      BY <2>1, <3>3 DEF SetMotor, Obey
    <3> QED
      BY <3>1, <3>2, <3>3
  <2>2. ASSUME NEW a \in SetPwmArgs, SetMotorPwm(a[1], a[2])
        PROVE  OnlyPartialStopDisarms'
    BY <2>2 DEF SetMotorPwm, MotorControlSetPWM, Driving, Driven
  <2>3. CASE SetupCompleted \/ Reboot \/ Elapse
    BY <2>3 DEF SetupCompleted, Reboot, Elapse, motorVars, deadmanVars, Driving, Driven
  <2>4. CASE Restart \/ Crash
    BY <2>4 DEF Restart, Crash, Boot, Driving, Driven
  <2>5. CASE TickDeadman
    BY <2>5, StopAllStops DEF TickDeadman, Tick, motorVars, Driving, Driven
  <2>6. CASE UNCHANGED vars
    BY <2>6 DEF vars, motorVars, deadmanVars, Driving, Driven
  <2> QED
    BY <2>1, <2>2, <2>3, <2>4, <2>5, <2>6 DEF Next
<1> QED
  BY <1>1, <1>2, PTL DEF Spec

-----------------------------------------------------------------------------
(* When clients stop both motors together, a running motor is armed.       *)
RunningIsArmed == Driving => motorsActive

LEMMA RunningIsArmedHolds == ASSUME WholeStops PROVE Spec => []RunningIsArmed
<1> USE DEF RunningIsArmed
<1>1. Init => RunningIsArmed
  BY DEF Init, Driving, Driven
<1>2. RunningIsArmed /\ [Next]_vars => RunningIsArmed'
  <2> SUFFICES ASSUME RunningIsArmed, [Next]_vars PROVE RunningIsArmed'
    OBVIOUS
  <2>1. ASSUME NEW a \in SetMotorArgs, SetMotor(a[1], a[2])
        PROVE  RunningIsArmed'
    <3>1. CASE a[1] = STOP
      BY <2>1, <3>1, WholeStops, StopAllStops DEF WholeStops, SetMotor, Obey
    <3>2. CASE a[1] # STOP
      BY <2>1, <3>2 DEF SetMotor, Obey
    <3> QED
      BY <3>1, <3>2
  <2>2. ASSUME NEW a \in SetPwmArgs, SetMotorPwm(a[1], a[2])
        PROVE  RunningIsArmed'
    BY <2>2 DEF SetMotorPwm, MotorControlSetPWM, Driving, Driven
  <2>3. CASE SetupCompleted \/ Reboot \/ Elapse
    BY <2>3 DEF SetupCompleted, Reboot, Elapse, motorVars, deadmanVars, Driving, Driven
  <2>4. CASE Restart \/ Crash
    BY <2>4 DEF Restart, Crash, Boot, Driving, Driven
  <2>5. CASE TickDeadman
    BY <2>5, StopAllStops DEF TickDeadman, Tick, motorVars, Driving, Driven
  <2>6. CASE UNCHANGED vars
    BY <2>6 DEF vars, motorVars, deadmanVars, Driving, Driven
  <2> QED
    BY <2>1, <2>2, <2>3, <2>4, <2>5, <2>6 DEF Next
<1> QED
  BY <1>1, <1>2, PTL DEF Spec

(* Then the deadline binds the motors themselves: a driven bridge was      *)
(* commanded within the timeout and one iteration of the loop.             *)
THEOREM DrivenDeadlineHolds == ASSUME WholeStops PROVE Spec => []DrivenDeadline
<1>1. TypeOK /\ DeadlineInv /\ RunningIsArmed => DrivenDeadline
  BY TimeAssumption DEF TypeOK, IdleCap, DeadlineInv, ArmedDeadline, RunningIsArmed,
                        DrivenDeadline, Overtime
<1>2. Spec => []RunningIsArmed
  BY RunningIsArmedHolds
<1> QED
  BY <1>1, <1>2, TypeCorrect, DeadlineInvariant, PTL

(* RoverControl implements Watchdog: every step of the detailed model is   *)
(* a command, a halt or a millisecond of the abstract one, or invisible to *)
(* it.  The timeout must be enabled.                                       *)
THEOREM Refinement ==
  ASSUME WholeStops, DeadmanTimeoutMs > 0
  PROVE  Spec => ImplementsWatchdog
<1> USE DEF Net!watched
<1>1. Init => Net!Init
  BY DEF Init, Net!Init, Driving, Driven
<1>2. TypeOK /\ DeadlineInv /\ RunningIsArmed /\ [Next]_vars => [Net!Next]_(Net!watched)
  <2> SUFFICES ASSUME TypeOK, DeadlineInv, RunningIsArmed, [Next]_vars
               PROVE  Net!Command \/ Net!Halt \/ Net!Pass \/ UNCHANGED Net!watched
    BY DEF Net!Next
  <2>0. Driving \in BOOLEAN /\ Driving' \in BOOLEAN
    BY DEF Driving
  <2>1. ASSUME NEW a \in SetMotorArgs, SetMotor(a[1], a[2])
        PROVE  Net!Command \/ Net!Halt
    <3>1. CASE a[1] = STOP
      BY <2>1, <3>1, WholeStops, StopAllStops DEF WholeStops, SetMotor, Obey, Net!Halt
    <3>2. CASE a[1] # STOP
      <4>1. idle' = 0
        BY <2>1, <3>2 DEF SetMotor, Obey
      <4>2. Driving' = Driving \/ Driving' = TRUE \/ Driving' = FALSE
        BY <2>0
      <4> QED
        BY <2>0, <4>1, <4>2 DEF Net!Command, Net!Halt
    <3> QED
      BY <3>1, <3>2
  <2>2. ASSUME NEW a \in SetPwmArgs, SetMotorPwm(a[1], a[2])
        PROVE  Net!Command \/ UNCHANGED Net!watched
    <3>1. Driving' = Driving
      BY <2>2 DEF SetMotorPwm, MotorControlSetPWM, Driving, Driven
    <3> QED
      BY <2>2, <3>1 DEF SetMotorPwm, Net!Command
  <2>3. CASE SetupCompleted \/ Reboot \/ UNCHANGED vars
    BY <2>3 DEF SetupCompleted, Reboot, vars, motorVars, deadmanVars, Driving, Driven
  <2>4. CASE Restart \/ Crash
    BY <2>4 DEF Restart, Crash, Boot, Driving, Driven, Net!Halt
  <2>5. CASE TickDeadman
    BY <2>5, StopAllStops DEF TickDeadman, Tick, motorVars, Driving, Driven, Net!Halt
  <2>6. CASE Elapse
    <3>1. Driving' = Driving
      BY <2>6 DEF Elapse, motorVars, Driving, Driven
    <3>2. Driving => idle < DeadmanTimeoutMs + MaxLoopMs + RebootDelayMs
      <4> SUFFICES ASSUME Driving
                   PROVE  idle < DeadmanTimeoutMs + MaxLoopMs + RebootDelayMs
        OBVIOUS
      <4>1. motorsActive /\ phase # "setup"
        BY DEF RunningIsArmed, DeadlineInv
      <4>2. idle <= DeadmanTimeoutMs + loopMs + Overtime
        BY <4>1 DEF DeadlineInv, ArmedDeadline
      <4> QED
        BY <2>6, <4>1, <4>2, TimeAssumption DEF Elapse, TypeOK, IdleCap, Overtime
    <3> QED
      BY <2>6, <3>1, <3>2 DEF Elapse, Net!Pass
  <2> QED
    BY <2>1, <2>2, <2>3, <2>4, <2>5, <2>6 DEF Next
<1>3. Spec => []RunningIsArmed
  BY RunningIsArmedHolds
<1> QED
  BY <1>1, <1>2, <1>3, TypeCorrect, DeadlineInvariant, PTL
  DEF Spec, ImplementsWatchdog, Net!Spec
=============================================================================
