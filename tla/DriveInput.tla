----------------------------- MODULE DriveInput -----------------------------
(***************************************************************************)
(* The control page of the web client as a driver of the rover: the d-pad  *)
(* and keyboard bindings (controls-input.js), the live-input state machine *)
(* with its cache of what was sent last (control.js), the translation of   *)
(* held inputs into motor commands (drive.js), the WebSocket that carries  *)
(* them in order, and the rover that obeys them under its deadman.         *)
(*                                                                         *)
(* Time is counted in ticks; a message is delivered and an overdue timer   *)
(* fires before the next tick.                                             *)
(***************************************************************************)
EXTENDS Integers, FiniteSets, Sequences, SequencesExt

CONSTANTS
  Acts,            \* the d-pad buttons in use
  Speeds,          \* the slider positions in use
  StartSpeed,      \* the slider position of a fresh page
  KeepaliveTicks,  \* the 700 ms of the keepalive
  DeadmanTicks,    \* the rover's deadman, as in its config; 0 disables it
  MaxHeld,         \* how many buttons the user holds down at once
  MaxWire          \* bound: messages on the way when the user acts again

ASSUME ActsAssumption == Acts \subseteq {"forward", "backward", "left", "right", "stop"}
ASSUME SpeedsAssumption == Speeds \subseteq 0..255 /\ StartSpeed \in Speeds
ASSUME TicksAssumption ==
  /\ KeepaliveTicks \in Nat \ {0} /\ DeadmanTicks \in Nat
  /\ MaxHeld \in Nat /\ MaxWire \in Nat

Sides == {"left", "right"}
None == "none"
Directions == Acts \ {"stop"}

VARIABLES
  pressed,    \* controls-input: the keys between keydown and keyup
  held,       \* controls-input: the buttons held, by finger or by key
  keepalive,  \* controls-input: heldAction, None when the timer is off
  elapsed,    \* ticks since the keepalive timer was set or fired
  inputs,     \* control.js: heldInputs
  lastSent,   \* control.js: lastSent
  speed,      \* control.js: state.speed
  dragging,   \* is the slider between its input and its change event?
  wire,       \* messages on their way to the rover
  rover,      \* the actions and duties of its motors
  active,     \* RoverController::motorsActive
  age,        \* ticks since RoverController::lastCommandMs
  cut         \* history: has the deadman cut in since the last refresh?

bindings == <<pressed, held, keepalive, elapsed>>
page == <<inputs, lastSent, speed, dragging>>
roverVars == <<rover, active, age>>
vars == <<bindings, page, wire, roverVars, cut>>

-----------------------------------------------------------------------------
(* drive.js                                                                *)

(* Which side is the inside of a turn: two turn keys cancel each other.    *)
Turns(h) ==
  [left |-> "left" \in h /\ "right" \notin h, right |-> "right" \in h /\ "left" \notin h]

(* Math.round(speed * ARC_INNER_RATIO)                                     *)
Inner(s) == (4 * s + 5) \div 10

Both(v) == [d \in Sides |-> v]
StopBoth == [act |-> Both("stop"), pwm |-> Both(0)]

computeMotorCommands(h, s) ==
  LET turn == Turns(h)
      turning == turn.left \/ turn.right
  IN  CASE {"forward", "backward"} \subseteq h -> StopBoth
        [] {"forward", "backward"} \intersect h = {} /\ turning ->
             [act |-> [d \in Sides |-> IF turn[d] THEN "backward" ELSE "forward"], pwm |-> Both(s)]
        [] {"forward", "backward"} \intersect h = {} /\ ~turning -> StopBoth
        [] OTHER ->
             [act |-> Both(IF "forward" \in h THEN "forward" ELSE "backward"),
              pwm |-> [d \in Sides |-> IF turn[d] THEN Inner(s) ELSE s]]

-----------------------------------------------------------------------------
(* What the page sends.  A message sets the duty or the action of some     *)
(* sides; the duties go first, and left before right.                      *)

Message(kind, sides, value) == [kind |-> kind, sides |-> sides, value |-> value]

Messages(cmd) ==
  <<Message("pwm", {"left"}, cmd.pwm.left), Message("pwm", {"right"}, cmd.pwm.right),
    Message("act", {"left"}, cmd.act.left), Message("act", {"right"}, cmd.act.right)>>

NoCache == [act |-> Both(None), pwm |-> Both(-1)]

(* The messages that lastSent does not say were sent already.              *)
Unsent(kind, d, cmd, cache) ==
  IF cache[kind][d] = cmd[kind][d] THEN <<>> ELSE <<Message(kind, {d}, cmd[kind][d])>>

Changed(cmd, cache) ==
  Unsent("pwm", "left", cmd, cache) \o Unsent("pwm", "right", cmd, cache)
    \o Unsent("act", "left", cmd, cache) \o Unsent("act", "right", cmd, cache)

-----------------------------------------------------------------------------
Init ==
  /\ pressed = {} /\ held = {} /\ keepalive = None /\ elapsed = 0
  /\ inputs = {} /\ lastSent = NoCache /\ speed = StartSpeed /\ dragging = FALSE
  /\ wire = <<>>
  /\ rover = [act |-> Both("stop"), pwm |-> Both(0)]
  /\ active = FALSE /\ age = 0 /\ cut = FALSE

(* A press or release, on the part of the page it changes: `out` is what  *)
(* it sends.  This is dispatch(act, 'press' | 'release' | 'refresh').      *)
Page == [inputs |-> inputs, lastSent |-> lastSent, out |-> <<>>]

ApplyHeldInputs(p, h) ==
  LET cmd == computeMotorCommands(h, speed)
  IN  [inputs |-> h, lastSent |-> cmd, out |-> p.out \o Changed(cmd, p.lastSent)]

Becomes(p) ==
  /\ inputs' = p.inputs
  /\ lastSent' = p.lastSent
  /\ wire' = wire \o p.out

StillCut == cut' = (cut /\ inputs' # {})

UserMayAct == Len(wire) < MaxWire

-----------------------------------------------------------------------------
(* controls-input.js                                                       *)

(* press: nothing if the button is held already.  A stop clears the inputs *)
(* of the state machine, but neither what the bindings hold nor the timer. *)
(* The onPress callback comes first: `said` is what it sends.              *)
Press(a, said) ==
  IF a \in held THEN UNCHANGED <<held, keepalive, elapsed, page, wire, cut>>
  ELSE /\ held' = held \union {a}
       /\ Becomes(ApplyHeldInputs([Page EXCEPT !.out = said],
                                 IF a = "stop" THEN {} ELSE inputs \union {a}))
       /\ keepalive' = IF a = "stop" THEN keepalive ELSE a
       /\ elapsed' = IF a = "stop" THEN elapsed ELSE 0
       /\ StillCut /\ UNCHANGED <<speed, dragging>>

(* release, of the buttons as one after the other: a direction that was    *)
(* held ends the keepalive, whichever button that is for, and its release  *)
(* is reported.                                                            *)
Reports(a) == a \in held /\ a # "stop"

Reported(as) ==
  LET after[i \in 0..Len(as)] ==
        IF i = 0 THEN Page
        ELSE IF Reports(as[i])
        THEN ApplyHeldInputs(after[i - 1], after[i - 1].inputs \ {as[i]})
        ELSE after[i - 1]
  IN  after

Release(as) ==
  /\ held' = held \ ToSet(as)
  /\ IF \E a \in ToSet(as) : Reports(a)
     THEN keepalive' = None /\ elapsed' = 0
     ELSE UNCHANGED <<keepalive, elapsed>>
  /\ Becomes(Reported(as)[Len(as)])
  /\ StillCut /\ UNCHANGED <<speed, dragging>>

PointerDown(a) ==
  /\ UserMayAct /\ Cardinality(held \union {a}) <= MaxHeld
  /\ Press(a, <<>>)
  /\ UNCHANGED <<pressed, roverVars>>

PointerUp(a) ==
  /\ UserMayAct /\ a \in held
  /\ Release(<<a>>)
  /\ UNCHANGED <<pressed, roverVars>>

KeyDown(a) ==
  /\ UserMayAct /\ Cardinality(held \union {a}) <= MaxHeld
  /\ a \notin pressed
  /\ pressed' = pressed \union {a}
  /\ Press(a, <<>>)
  /\ UNCHANGED roverVars

KeyUp(a) ==
  /\ UserMayAct /\ a \in pressed
  /\ pressed' = pressed \ {a}
  /\ Release(<<a>>)
  /\ UNCHANGED roverVars

(* Mutant: losing the focus forgets the buttons.                           *)
Blur_Forgets ==
  /\ UserMayAct /\ held # {}
  /\ held' = {} /\ keepalive' = None /\ elapsed' = 0
  /\ UNCHANGED <<pressed, page, wire, cut, roverVars>>

(* The window loses the focus: everything held is released; the keyup of a *)
(* key that was down goes to another window, if to any.                    *)
Blur ==
  /\ UserMayAct /\ held # {}
  /\ \E order \in SetToSeqs(held) : Release(order)
  /\ UNCHANGED <<pressed, roverVars>>

(* Mutant: a refresh sends what has changed only.                          *)
Keepalive_Deduplicated ==
  /\ keepalive # None /\ elapsed = KeepaliveTicks
  /\ elapsed' = 0
  /\ Becomes(ApplyHeldInputs(Page, inputs))
  /\ cut' = FALSE
  /\ UNCHANGED <<pressed, held, keepalive, speed, dragging, roverVars>>

(* The keepalive timer: a refresh forgets lastSent and applies the inputs. *)
Keepalive ==
  /\ keepalive # None /\ elapsed = KeepaliveTicks
  /\ elapsed' = 0
  /\ Becomes(ApplyHeldInputs([Page EXCEPT !.lastSent = NoCache], inputs))
  /\ cut' = FALSE
  /\ UNCHANGED <<pressed, held, keepalive, speed, dragging, roverVars>>

-----------------------------------------------------------------------------
(* control.js: the slider.                                                 *)

applySpeed(s) == <<Message("pwm", {"left"}, s), Message("pwm", {"right"}, s)>>

SliderInput(s) ==
  /\ UserMayAct /\ s # speed
  /\ speed' = s /\ dragging' = TRUE
  /\ UNCHANGED <<bindings, inputs, lastSent, wire, cut, roverVars>>

(* Mutant: the cached duties stay.                                         *)
SliderChange_KeepsCache ==
  LET moved == [Page EXCEPT !.out = applySpeed(speed)]
  IN  /\ UserMayAct /\ dragging
      /\ dragging' = FALSE
      /\ Becomes(IF inputs = {} THEN moved ELSE ApplyHeldInputs(moved, inputs))
      /\ StillCut /\ UNCHANGED <<bindings, speed, roverVars>>

(* The slider is let go: both duties are set, the cached ones forgotten,   *)
(* and what is held is applied again.                                      *)
SliderChange ==
  LET moved == [Page EXCEPT !.lastSent.pwm = Both(-1), !.out = applySpeed(speed)]
  IN  /\ UserMayAct /\ dragging
      /\ dragging' = FALSE
      /\ Becomes(IF inputs = {} THEN moved ELSE ApplyHeldInputs(moved, inputs))
      /\ StillCut /\ UNCHANGED <<bindings, speed, roverVars>>

-----------------------------------------------------------------------------
(* The rover: set_motor_pwm and set_motor with the deadman, which counts a *)
(* change of speed while it is armed as a command too.  Its age matters    *)
(* only while it is armed.                                                 *)

Deliver ==
  LET m == Head(wire)
  IN  /\ wire # <<>>
      /\ wire' = Tail(wire)
      /\ rover' = [rover EXCEPT ![m.kind] = [d \in Sides |-> IF d \in m.sides THEN m.value ELSE @[d]]]
      /\ active' = IF m.kind = "act" THEN m.value # "stop" ELSE active
      /\ age' = 0
      /\ UNCHANGED <<bindings, page, cut>>

Expired == DeadmanTicks > 0 /\ active /\ age = DeadmanTicks

TickDeadman ==
  /\ Expired
  /\ rover' = [rover EXCEPT !.act = Both("stop")]
  /\ active' = FALSE /\ age' = 0
  /\ cut' = TRUE
  /\ UNCHANGED <<bindings, page, wire>>

Tick ==
  /\ wire = <<>> /\ ~Expired
  /\ keepalive # None => elapsed < KeepaliveTicks
  /\ elapsed' = IF keepalive = None THEN 0 ELSE elapsed + 1
  /\ age' = IF active /\ DeadmanTicks > 0 THEN age + 1 ELSE 0
  /\ UNCHANGED <<pressed, held, keepalive, page, wire, cut, rover, active>>

UserActs ==
  \/ \E a \in Acts : PointerDown(a) \/ PointerUp(a) \/ KeyDown(a) \/ KeyUp(a)
  \/ Blur
  \/ \E s \in Speeds : SliderInput(s)
  \/ SliderChange

Next ==
  \/ UserActs
  \/ Keepalive
  \/ Deliver \/ TickDeadman \/ Tick

Spec == Init /\ [][Next]_vars

-----------------------------------------------------------------------------
TypeOK ==
  /\ pressed \subseteq Acts /\ held \subseteq Acts
  /\ keepalive \in Directions \union {None}
  /\ elapsed \in 0..KeepaliveTicks
  /\ inputs \subseteq Directions
  /\ \A cmd \in {lastSent, rover} :
       /\ cmd.act \in [Sides -> {"forward", "backward", "stop", None}]
       /\ cmd.pwm \in [Sides -> -1..255]
  /\ speed \in Speeds /\ dragging \in BOOLEAN
  /\ active \in BOOLEAN /\ cut \in BOOLEAN
  /\ age \in 0..DeadmanTicks

(* No input and no keepalive outlives the finger that made it.             *)
NoGhostInput == inputs \union ({keepalive} \ {None}) \subseteq held

(* Once the page's messages have arrived, the rover does what the inputs   *)
(* held at this moment ask for, in whatever order they were pressed,       *)
(* released or cleared, and whatever the cache left out; unless the        *)
(* deadman has cut in, and then from the next refresh on.                  *)
RoverFollows ==
  wire = <<>> /\ ~cut =>
    LET cmd == computeMotorCommands(inputs, speed)
    IN  /\ rover.act = cmd.act
        /\ ~dragging => \A d \in Sides : rover.act[d] # "stop" => rover.pwm[d] = cmd.pwm[d]

(* The deadman does not stop a rover whose driver holds a button, as long  *)
(* as the keepalive timer runs and no message is late: also when presses   *)
(* keep setting the timer afresh.                                          *)
KeepaliveSpares ==
  [][TickDeadman => inputs = {} \/ keepalive = None \/ wire # <<>>]_vars

(* "the firmware's deadman (1500 ms) sees fresh activity while the user    *)
(* holds a button".                                                        *)
DeadmanSparesHolder == [][TickDeadman => inputs = {} \/ wire # <<>>]_vars
=============================================================================
