---------------------------- MODULE RoverControl ----------------------------
(***************************************************************************)
(* Motors and deadman: MotorManager (one per side), MotorControl,          *)
(* RoverController, the set_motor, set_motor_pwm and reboot handlers of    *)
(* CommandDispatcher, and the part of RoverApplication::setup and ::loop   *)
(* that drives them.                                                       *)
(*                                                                         *)
(* Every command is dispatched on the main-loop task, so a handler is one  *)
(* step; what interleaves is commands, the passing of time and the tick of *)
(* the deadman.  Time is discrete: `now` is millis(), which wraps at       *)
(* MillisMod, as the 32-bit counter of the ESP32 does after 49 days.       *)
(***************************************************************************)
EXTENDS Integers

CONSTANTS
  SetMotorArgs,      \* the <<action, motor>> pairs set_motor is sent with
  SetPwmArgs,        \* the <<motor, pwm>> pairs set_motor_pwm is sent with
  DeadmanTimeoutMs,  \* config.deadmanTimeoutMs; 0 disables the deadman
  MaxLoopMs,         \* the longest time between two ticks of the main loop
  RebootDelayMs,     \* the delay() of RoverController::reboot
  MillisMod          \* millis() counts modulo this

(* MotorAction, MotorSelection and the 8-bit PWM range.                    *)
FORWARD  == 0
BACKWARD == 1
STOP     == 2
LEFT     == 0
RIGHT    == 1
ALL      == 2
MaxPwm   == 255

Motors == {LEFT, RIGHT}

(* Arguments are any integers (the handlers check that they are integers   *)
(* and nothing else).  The clock is wide enough to hold the deadline.      *)
ASSUME ArgsAssumption ==
  /\ SetMotorArgs \subseteq Int \X Int
  /\ SetPwmArgs \subseteq Int \X Int

ASSUME TimeAssumption ==
  /\ DeadmanTimeoutMs \in Nat
  /\ MaxLoopMs \in Nat
  /\ RebootDelayMs \in Nat
  /\ MillisMod \in Nat
  /\ DeadmanTimeoutMs + MaxLoopMs + RebootDelayMs < MillisMod

VARIABLES
  phase,                \* "setup", "loop" or "rebooting"
  action,               \* MotorManager::currentAction of each motor
  speed,                \* MotorManager::currentSpeed of each motor
  pins,                 \* the levels of pinA and pinB of each motor
  duty,                 \* the duty cycle last written to its LEDC channel
  lastActionSelection,  \* MotorControl::lastActionSelection
  motorsActive,         \* RoverController::motorsActive
  lastCommandMs,        \* RoverController::lastCommandMs
  deadmanTimeoutMs,     \* RoverController::deadmanTimeoutMs
  now,                  \* millis()
  loopMs,               \* time since the last tickDeadman
  delayMs,              \* what is left of reboot's delay()
  idle                  \* history: time since the last driving command

motorVars == <<action, speed, pins, duty, lastActionSelection>>
deadmanVars == <<motorsActive, lastCommandMs, idle>>
timeVars == <<now, loopMs, delayMs>>
vars == <<phase, motorVars, deadmanVars, timeVars, deadmanTimeoutMs>>

(* The history variable counts up to here; no property looks further.      *)
IdleCap == DeadmanTimeoutMs + MaxLoopMs + RebootDelayMs + 1

Phases == {"setup", "loop", "rebooting"}
Levels == {"LL", "HL", "LH"}

TypeOK ==
  /\ phase \in Phases
  /\ action \in [Motors -> Int]
  /\ speed \in [Motors -> 0..MaxPwm]
  /\ pins \in [Motors -> Levels]
  /\ duty \in [Motors -> 0..MaxPwm]
  /\ lastActionSelection \in Int
  /\ motorsActive \in BOOLEAN
  /\ lastCommandMs \in 0..(MillisMod - 1)
  /\ deadmanTimeoutMs \in {0, DeadmanTimeoutMs}
  /\ now \in 0..(MillisMod - 1)
  /\ loopMs \in 0..MaxLoopMs
  /\ delayMs \in 0..RebootDelayMs
  /\ idle \in 0..IdleCap

-----------------------------------------------------------------------------
(* Power-up and setup() through motorControl.begin(): both motors stopped  *)
(* with a duty of 0, the deadman disarmed and not configured yet.          *)
Init ==
  /\ phase = "setup"
  /\ action = [m \in Motors |-> STOP]
  /\ speed = [m \in Motors |-> 0]
  /\ pins = [m \in Motors |-> "LL"]
  /\ duty = [m \in Motors |-> 0]
  /\ lastActionSelection = ALL
  /\ motorsActive = FALSE
  /\ lastCommandMs = 0
  /\ deadmanTimeoutMs = 0
  /\ now = 0
  /\ loopMs = 0
  /\ delayMs = 0
  /\ idle = 0

(* ESP.restart, a panic or a power cycle: the same state again.            *)
Boot ==
  /\ phase' = "setup"
  /\ action' = [m \in Motors |-> STOP]
  /\ speed' = [m \in Motors |-> 0]
  /\ pins' = [m \in Motors |-> "LL"]
  /\ duty' = [m \in Motors |-> 0]
  /\ lastActionSelection' = ALL
  /\ motorsActive' = FALSE
  /\ lastCommandMs' = 0
  /\ deadmanTimeoutMs' = 0
  /\ now' = 0
  /\ loopMs' = 0
  /\ delayMs' = 0
  /\ idle' = 0

(* Mutant: the timeout is never configured.                                *)
SetupCompleted_NoDeadman ==
  /\ phase = "setup"
  /\ phase' = "loop"
  /\ UNCHANGED <<motorVars, deadmanVars, timeVars, deadmanTimeoutMs>>

(* setupCompleted: the deadman is configured before a transport can        *)
(* dispatch a command.                                                     *)
SetupCompleted ==
  /\ phase = "setup"
  /\ phase' = "loop"
  /\ deadmanTimeoutMs' = DeadmanTimeoutMs
  /\ UNCHANGED <<motorVars, deadmanVars, timeVars>>

-----------------------------------------------------------------------------
Selected(sel) == {m \in Motors : sel = m \/ sel = ALL}

(* The levels MotorManager::action drives; no case matches another act.    *)
LevelsOf == [a \in {FORWARD, BACKWARD, STOP} |->
               IF a = FORWARD THEN "HL" ELSE IF a = BACKWARD THEN "LH" ELSE "LL"]

constrain(pwm) == IF pwm < 0 THEN 0 ELSE IF pwm > MaxPwm THEN MaxPwm ELSE pwm

(* MotorControl::action over MotorManager::action: an act no case matches  *)
(* is recorded, and leaves the pins and the duty as they were.             *)
MotorControlAction(act, sel) ==
  /\ lastActionSelection' = sel
  /\ action' = [m \in Motors |-> IF m \in Selected(sel) THEN act ELSE action[m]]
  /\ IF act \in DOMAIN LevelsOf
     THEN /\ pins' = [m \in Motors |->
                        IF m \in Selected(sel) THEN LevelsOf[act] ELSE pins[m]]
          /\ duty' = [m \in Motors |->
                        IF m \in Selected(sel) THEN speed[m] ELSE duty[m]]
     ELSE UNCHANGED <<pins, duty>>
  /\ UNCHANGED speed

(* MotorControl::setPWM over MotorManager::changeSpeed: the LEDC channel   *)
(* is written only while the motor goes forward or backward.               *)
MotorControlSetPWM(sel, pwm) ==
  /\ speed' = [m \in Motors |->
                 IF m \in Selected(sel) THEN constrain(pwm) ELSE speed[m]]
  /\ duty' = [m \in Motors |->
                IF m \in Selected(sel) /\ action[m] \in {FORWARD, BACKWARD}
                THEN constrain(pwm) ELSE duty[m]]
  /\ UNCHANGED <<action, pins, lastActionSelection>>

-----------------------------------------------------------------------------
(* The motors obey, then the deadman is disarmed or armed afresh.          *)
Obey(act, sel, disarms) ==
  /\ phase = "loop"
  /\ MotorControlAction(act, sel)
  /\ IF disarms
     THEN motorsActive' = FALSE /\ UNCHANGED <<lastCommandMs, idle>>
     ELSE motorsActive' = TRUE /\ lastCommandMs' = now /\ idle' = 0
  /\ UNCHANGED <<phase, timeVars, deadmanTimeoutMs>>

(* Mutant: only a command to one side arms the deadman.                    *)
SetMotor_ArmsOnSide(act, sel) == Obey(act, sel, act = STOP \/ sel = ALL)

(* handleSetMotor and setMotorAction: a STOP disarms the deadman whichever *)
(* motor it selects.                                                       *)
SetMotor(act, sel) == Obey(act, sel, act = STOP)

(* handleSetMotorPWM and setMotorSpeed: a change of speed while the motors *)
(* are active counts as a driving command.                                 *)
SetMotorPwm(sel, pwm) ==
  /\ phase = "loop"
  /\ MotorControlSetPWM(sel, pwm)
  /\ IF motorsActive
     THEN lastCommandMs' = now /\ idle' = 0
     ELSE UNCHANGED <<lastCommandMs, idle>>
  /\ UNCHANGED <<phase, motorsActive, timeVars, deadmanTimeoutMs>>

(* handleReboot and handleWiFiForget end in reboot(): delay(), on the main *)
(* loop, with the motors left as they are.                                 *)
Reboot ==
  /\ phase = "loop"
  /\ phase' = "rebooting"
  /\ delayMs' = RebootDelayMs
  /\ UNCHANGED <<motorVars, deadmanVars, now, loopMs, deadmanTimeoutMs>>

(* ESP.restart() once the delay is over.                                   *)
Restart ==
  /\ phase = "rebooting"
  /\ delayMs = 0
  /\ Boot

(* A brownout, a watchdog reset or an abort, at any time.                  *)
Crash == phase # "setup" /\ Boot

-----------------------------------------------------------------------------
(* millis() - t in unsigned arithmetic: right across a wrap of the clock.  *)
Since(t) == IF now >= t THEN now - t ELSE now - t + MillisMod

Expired == deadmanTimeoutMs # 0 /\ motorsActive /\ Since(lastCommandMs) > deadmanTimeoutMs

(* One look at the timeout: if it is over, the selected motors stop.       *)
Tick(expired, sel) ==
  /\ phase = "loop"
  /\ loopMs' = 0
  /\ IF expired
     THEN MotorControlAction(STOP, sel) /\ motorsActive' = FALSE
     ELSE UNCHANGED <<motorVars, motorsActive>>
  /\ UNCHANGED <<phase, lastCommandMs, idle, now, delayMs, deadmanTimeoutMs>>

(* Mutants: a comparison the wrap of millis() defeats, one off by one, and *)
(* a deadman that stops one side.                                          *)
TickDeadman_NoWrap ==
  Tick(Expired /\ now > lastCommandMs + deadmanTimeoutMs, ALL)
TickDeadman_Early ==
  Tick(motorsActive /\ Since(lastCommandMs) >= deadmanTimeoutMs, ALL)
TickDeadman_OneSide == Tick(Expired, LEFT)

(* tickDeadman, once per iteration of loop().                              *)
TickDeadman == Tick(Expired, ALL)

(* A millisecond passes.  An iteration of the loop lasts at most MaxLoopMs,*)
(* reboot's delay lasts RebootDelayMs.                                     *)
Elapse ==
  /\ now' = IF now + 1 = MillisMod THEN 0 ELSE now + 1
  /\ idle' = IF idle < IdleCap THEN idle + 1 ELSE idle
  /\ \/ phase = "setup" /\ UNCHANGED <<loopMs, delayMs>>
     \/ phase = "loop" /\ loopMs < MaxLoopMs /\ loopMs' = loopMs + 1 /\ UNCHANGED delayMs
     \/ phase = "rebooting" /\ delayMs > 0 /\ delayMs' = delayMs - 1 /\ UNCHANGED loopMs
  /\ UNCHANGED <<phase, motorVars, motorsActive, lastCommandMs, deadmanTimeoutMs>>

Next ==
  \/ SetupCompleted
  \/ \E a \in SetMotorArgs : SetMotor(a[1], a[2])
  \/ \E a \in SetPwmArgs : SetMotorPwm(a[1], a[2])
  \/ Reboot
  \/ Restart
  \/ Crash
  \/ TickDeadman
  \/ Elapse

Spec == Init /\ [][Next]_vars

(* The loop keeps iterating and time keeps passing; nothing obliges a      *)
(* client to send, a crash to happen or a reboot to be asked for.          *)
FairSpec == Spec /\ WF_vars(TickDeadman) /\ WF_vars(Elapse) /\ WF_vars(Restart)

-----------------------------------------------------------------------------
Driven(m) == pins[m] # "LL"
Driving == \E m \in Motors : Driven(m)

(* What is left of the reboot delay bounds how much longer motors can run. *)
Overtime == IF phase = "rebooting" THEN RebootDelayMs - delayMs ELSE 0

(* While the deadman is armed, the last driving command (set_motor, or     *)
(* set_motor_pwm while active) is at most one timeout and one iteration of *)
(* the loop old, at every instant and across a wrap of millis().           *)
ArmedDeadline ==
  DeadmanTimeoutMs > 0 /\ motorsActive =>
    idle <= DeadmanTimeoutMs + loopMs + Overtime

(* The same of the motors themselves: a motor whose bridge is driven was   *)
(* commanded at most that long ago ("it forces all motors to STOP").       *)
DrivenDeadline ==
  DeadmanTimeoutMs > 0 /\ Driving =>
    idle <= DeadmanTimeoutMs + MaxLoopMs + Overtime

(* The deadman never cuts in before the timeout is over.                   *)
NeverEarly ==
  [][TickDeadman /\ motorsActive /\ ~motorsActive' => idle > DeadmanTimeoutMs]_vars

(* A motor that runs while the deadman is disarmed was left running by a   *)
(* set_motor that did not select both sides: there is no other way.        *)
OnlyPartialStopDisarms ==
  Driving /\ ~motorsActive => lastActionSelection # ALL

(* A running motor turns at the speed its manager reports: set_motor_pwm   *)
(* reaches the LEDC channel at once, and set_motor applies a speed that    *)
(* was set while the motor stood still.                                    *)
DutyIsSpeed == \A m \in Motors : Driven(m) => duty[m] = speed[m]

(* A client that goes silent has its motors stopped: an armed vehicle is   *)
(* disarmed or commanded again.                                            *)
SilenceStops ==
  (motorsActive /\ idle > 0) ~> (~Driving \/ idle = 0)

(* docs/PROTOCOL.md 3.2 gives action and motor the range 0-2, 3.3 promises *)
(* that a rejected command has no effect.                                  *)
BadArgsSideEffectFree ==
  [][\A a \in SetMotorArgs :
       SetMotor(a[1], a[2]) /\ ~(a[1] \in 0..2 /\ a[2] \in 0..2)
         => UNCHANGED <<motorVars, motorsActive>>]_vars

-----------------------------------------------------------------------------
(* RoverControl keeps the promise of Watchdog, for clients that stop both  *)
(* motors together.                                                        *)
WholeStops == \A a \in SetMotorArgs : a[1] = STOP => a[2] = ALL

Net == INSTANCE Watchdog WITH
         Limit <- DeadmanTimeoutMs + MaxLoopMs + RebootDelayMs,
         IdleCap <- IdleCap,
         moving <- Driving

ImplementsWatchdog == Net!Spec
=============================================================================
