------------------------------ MODULE Recorder ------------------------------
(***************************************************************************)
(* The move recorder and its reverse replay (recording.js), on the control *)
(* page of DriveInput: the presses and releases of the user pass through   *)
(* the recorder, and a replay drives the rover through the same cache, the *)
(* same WebSocket and under the same deadman.  The slider, the keys and    *)
(* the loss of the focus are left to DriveInput.  The replay button is     *)
(* disabled while a replay goes on, so only a press of the d-pad aborts it.*)
(***************************************************************************)
EXTENDS DriveInput

CONSTANTS
  ReplayTicks,  \* TICK of executeMove: 700 ms
  RestTicks,    \* the 200 ms between two moves of a replay
  MinPress,     \* the 100 ms below which a press is not a move
  MaxPress,     \* bound: how long a recorded press lasts
  MaxMoves,     \* bound: moves in a recording
  MaxReplays    \* bound: replays started

ASSUME RecorderAssumption ==
  /\ {ReplayTicks, RestTicks, MinPress} \subseteq Nat \ {0}
  /\ {MaxPress, MaxMoves, MaxReplays} \subseteq Nat

VARIABLES
  recording,    \* state.recording
  moves,        \* state.moves
  pressAction,  \* state.pressAction
  pressTicks,   \* the time since state.pressStart
  leg,          \* where startReplay is suspended, and in which move
  todo,         \* the moves of the replay that are still to be driven
  abort,        \* state.abortReplay
  replays,      \* bound: replays started so far
  trail,        \* history: where the rover is, seen from where recording began
  astray,       \* history: has it moved otherwise than recorded or replayed?
  tapped        \* history: was a press that moved it too short to be recorded?

press == <<pressAction, pressTicks>>
record == <<recording, moves, press>>
replay == <<leg, todo, abort, replays>>
history == <<trail, astray, tapped>>
recorderVars == <<vars, record, replay, history>>

Idle == [at |-> "idle", act |-> None, left |-> 0, nap |-> 0]
replaying == leg.at # "idle"

InitRecorder ==
  /\ Init
  /\ recording = FALSE /\ moves = <<>>
  /\ pressAction = None /\ pressTicks = 0
  /\ leg = Idle /\ todo = <<>> /\ abort = FALSE /\ replays = 0
  /\ trail = <<>> /\ astray = TRUE /\ tapped = FALSE

-----------------------------------------------------------------------------
(* The record button.                                                      *)

startRecording ==
  /\ ~recording /\ ~replaying
  /\ recording' = TRUE /\ moves' = <<>>
  /\ pressAction' = None /\ pressTicks' = 0
  /\ trail' = <<>> /\ astray' = FALSE /\ tapped' = FALSE
  /\ UNCHANGED <<vars, replay>>

(* A press becomes a move if it was long enough.                           *)
Recorded(a, ticks) ==
  IF ticks >= MinPress THEN Append(moves, [act |-> a, ticks |-> ticks]) ELSE moves

(* The press that ends is no move, but has driven the rover.               *)
Tap == pressAction # None /\ 0 < pressTicks /\ pressTicks < MinPress

(* A press that is still going on ends here, as a move.                    *)
stopRecording ==
  /\ recording
  /\ recording' = FALSE
  /\ tapped' = (tapped \/ Tap)
  /\ moves' = IF pressAction = None THEN moves ELSE Recorded(pressAction, pressTicks)
  /\ pressAction' = None /\ pressTicks' = 0
  /\ UNCHANGED <<vars, replay, trail, astray>>

(* A long press on it; the page asks only if there is something to clear.  *)
clearRecording ==
  /\ moves # <<>>
  /\ recording' = FALSE /\ moves' = <<>>
  /\ UNCHANGED <<vars, press, replay, history>>

-----------------------------------------------------------------------------
(* What the replay sends.                                                  *)

reverseAction ==
  [forward |-> "backward", backward |-> "forward", left |-> "right", right |-> "left"]

(* motor(2, 2), which passes the cache of control.js by.                   *)
StopAll == <<Message("act", Sides, "stop")>>

(* dispatch(act), in its form for the recorder, and a sleep for a TICK or  *)
(* for what is left of the move.                                           *)
Drive(act, ticks) ==
  LET cmd == computeMotorCommands({act}, speed)
      nap == IF ticks < ReplayTicks THEN ticks ELSE ReplayTicks
  IN  /\ wire' = wire \o Messages(cmd)
      /\ lastSent' = cmd
      /\ leg' = [at |-> "driving", act |-> act, left |-> ticks - nap, nap |-> nap]

DriveFirst(ms) ==
  /\ Drive(reverseAction[Head(ms).act], Head(ms).ticks)
  /\ todo' = Tail(ms)

Finish(said) ==
  /\ wire' = wire \o said \o StopAll
  /\ leg' = Idle /\ todo' = <<>>
  /\ astray' = TRUE /\ trail' = <<>> /\ tapped' = FALSE
  /\ UNCHANGED lastSent

pageAround == <<bindings, inputs, speed, dragging, cut, roverVars>>

(* Mutant: the moves are replayed in the order of the recording.           *)
startReplay_Forwards ==
  /\ UserMayAct /\ replays < MaxReplays
  /\ ~replaying /\ ~recording /\ moves # <<>>
  /\ abort' = FALSE /\ replays' = replays + 1
  /\ DriveFirst(moves)
  /\ UNCHANGED <<pageAround, record, history>>

startReplay ==
  /\ UserMayAct /\ replays < MaxReplays
  /\ ~replaying /\ ~recording /\ moves # <<>>
  /\ abort' = FALSE /\ replays' = replays + 1
  /\ DriveFirst(Reverse(moves))
  /\ UNCHANGED <<pageAround, record, history>>

(* The end of a move: the motors stop, and unless the replay is aborted    *)
(* there is a rest.                                                        *)
MoveEnds ==
  IF abort THEN Finish(StopAll)
  ELSE /\ wire' = wire \o StopAll
       /\ leg' = [Idle EXCEPT !.at = "resting", !.nap = RestTicks]
       /\ UNCHANGED <<todo, lastSent, history>>

(* Mutant: a long move is dispatched once.                                 *)
executeMove_Once ==
  /\ leg.at = "driving" /\ leg.nap = 0
  /\ IF leg.left > 0 /\ ~abort
     THEN leg' = [leg EXCEPT !.nap = leg.left, !.left = 0] /\ UNCHANGED <<todo, lastSent, wire, history>>
     ELSE MoveEnds
  /\ UNCHANGED <<pageAround, record, abort, replays>>

(* Mutant: the loop does not look at the abort.                            *)
executeMove_Deaf ==
  /\ leg.at = "driving" /\ leg.nap = 0
  /\ IF leg.left > 0 THEN Drive(leg.act, leg.left) /\ UNCHANGED <<todo, history>> ELSE MoveEnds
  /\ UNCHANGED <<pageAround, record, abort, replays>>

(* executeMove awakes: it goes on with the move, or ends it.               *)
executeMove ==
  /\ leg.at = "driving" /\ leg.nap = 0
  /\ IF leg.left > 0 /\ ~abort
     THEN Drive(leg.act, leg.left) /\ UNCHANGED <<todo, history>>
     ELSE MoveEnds
  /\ UNCHANGED <<pageAround, record, abort, replays>>

(* Mutant: it does not look at the abort between two moves.                *)
NextMove_Deaf ==
  /\ leg.at = "resting" /\ leg.nap = 0
  /\ IF todo = <<>> THEN Finish(<<>>) ELSE DriveFirst(todo) /\ UNCHANGED history
  /\ UNCHANGED <<pageAround, record, abort, replays>>

(* The loop of startReplay awakes between two moves.                       *)
NextMove ==
  /\ leg.at = "resting" /\ leg.nap = 0
  /\ IF abort \/ todo = <<>> THEN Finish(<<>>) ELSE DriveFirst(todo) /\ UNCHANGED history
  /\ UNCHANGED <<pageAround, record, abort, replays>>

-----------------------------------------------------------------------------
(* The input layer.                                                        *)

(* A press aborts the replay, then drives.  The trail is not followed past *)
(* the next press after a tap, which bounds it.                            *)
onPress(a) ==
  LET takesOver == replaying /\ a \notin held
      records == recording /\ a \notin held /\ a # "stop"
  IN  /\ UserMayAct /\ Cardinality(held \union {a}) <= MaxHeld
      /\ records => Len(moves) < MaxMoves
      /\ Press(a, IF takesOver THEN StopAll ELSE <<>>)
      /\ abort' = (abort \/ takesOver)
      /\ IF records THEN pressAction' = a /\ pressTicks' = 0 ELSE UNCHANGED press
      /\ astray' = (astray \/ held # {} \/ tapped)
      /\ UNCHANGED <<pressed, roverVars, recording, moves, leg, todo, replays, trail, tapped>>

onRelease(a) ==
  LET records == recording /\ pressAction = a
  IN  /\ UserMayAct /\ a \in held
      /\ Release(<<a>>)
      /\ IF records
         THEN moves' = Recorded(a, pressTicks) /\ pressAction' = None /\ pressTicks' = 0
         ELSE UNCHANGED <<moves, press>>
      /\ tapped' = (tapped \/ (records /\ Tap))
      /\ astray' = (astray \/ replaying)
      /\ UNCHANGED <<pressed, roverVars, recording, replay, trail>>

-----------------------------------------------------------------------------
(* Time, and the way of the rover: the word of its motions, tick by tick,  *)
(* in which a motion and its opposite next to each other cancel out.       *)

Motion == [d \in Sides |-> IF rover.pwm[d] > 0 THEN rover.act[d] ELSE "stop"]

Opposite(m) == [d \in Sides |-> IF m[d] = "stop" THEN "stop" ELSE reverseAction[m[d]]]

Further(t, m) ==
  IF m = Both("stop") THEN t
  ELSE IF t # <<>> /\ Last(t) = Opposite(m) THEN Front(t)
  ELSE Append(t, m)

(* The user drives with the one button whose press is being recorded, or   *)
(* keeps off the buttons; and a replay, if there is one, is not aborted.   *)
ByTheBook ==
  IF recording /\ held # {} THEN held = {pressAction} /\ inputs = held
  ELSE held = {} /\ ~(replaying /\ abort)

RecorderTick ==
  /\ Tick
  /\ replaying => leg.nap > 0
  /\ leg' = IF replaying THEN [leg EXCEPT !.nap = @ - 1] ELSE leg
  /\ IF recording /\ pressAction # None
     THEN pressTicks < MaxPress /\ pressTicks' = pressTicks + 1
     ELSE UNCHANGED pressTicks
  /\ astray' = (astray \/ ~ByTheBook)
  /\ trail' = IF astray' THEN <<>> ELSE Further(trail, Motion)
  /\ UNCHANGED <<tapped, recording, moves, pressAction, todo, abort, replays>>

PageSteps ==
  /\ Keepalive \/ Deliver \/ TickDeadman
  /\ UNCHANGED <<record, replay, history>>

NextRecorder ==
  \/ startRecording \/ stopRecording \/ clearRecording
  \/ startReplay \/ executeMove \/ NextMove
  \/ \E a \in Acts : onPress(a) \/ onRelease(a)
  \/ RecorderTick
  \/ PageSteps

SpecRecorder == InitRecorder /\ [][NextRecorder]_recorderVars

-----------------------------------------------------------------------------
(* The types of the recorder's variables.                                  *)
RecorderTypeOK ==
  /\ recording \in BOOLEAN /\ abort \in BOOLEAN
  /\ astray \in BOOLEAN /\ tapped \in BOOLEAN
  /\ \A ms \in {moves, todo} :
       ms \in Seq([act : Directions, ticks : MinPress..MaxPress]) /\ Len(ms) <= MaxMoves
  /\ pressAction \in Directions \union {None} /\ pressTicks \in 0..MaxPress
  /\ leg.at \in {"idle", "driving", "resting"}
  /\ leg.left \in 0..MaxPress /\ leg.nap \in 0..MaxPress
  /\ trail \in Seq([Sides -> {"forward", "backward", "stop"}])

(* A replay that ran to its end has brought the rover back to where the    *)
(* recording began, along the way it came, if one button at a time was     *)
(* pressed while recording, none of them too briefly to be recorded, and   *)
(* none between the two or in the replay.  The trail has no speed in it:   *)
(* a replay drives at the slider's of its own time (control.js:240), and   *)
(* the way back is as long as the way only if the slider stays.            *)
ComesHome ==
  [][replaying /\ ~replaying' /\ ~abort /\ ~astray /\ ~tapped => trail = <<>>]_recorderVars

(* "Replay walks the list backwards with each direction inverted": the     *)
(* same without the exception.  Not so: a tap drives the rover as well.    *)
TapsComeHome ==
  [][replaying /\ ~replaying' /\ ~abort /\ ~astray => trail = <<>>]_recorderVars

(* With no input held and no replay going on, or one that was aborted, the *)
(* rover stands still as soon as the messages have arrived.                *)
RestsUnlessDriven ==
  wire = <<>> /\ inputs = {} /\ (~replaying \/ abort) => rover.act = Both("stop")

(* An aborted replay does not move the rover again.                        *)
AbortSticks ==
  [][replaying /\ abort /\ (executeMove \/ NextMove) =>
       wire' \in {wire \o StopAll, wire \o StopAll \o StopAll}]_recorderVars

(* The deadman does not stop a replay in the middle of a move, as long as  *)
(* no message is late: the replay keeps it alive by itself.                *)
ReplaySpared == [][TickDeadman => ~replaying \/ abort \/ wire # <<>>]_recorderVars

(* "next d-pad press will see the real current state": what the page       *)
(* believes to have sent is what the rover does, once nothing is driven.   *)
CacheInSync ==
  wire = <<>> /\ ~cut /\ ~replaying =>
    \A d \in Sides : lastSent.act[d] \in {None, rover.act[d]}

(* "manually pressing any d-pad button cancels the replay so you can take  *)
(* over": once a replay is cancelled, a button that has just been pressed  *)
(* drives the rover.                                                       *)
UserTakesOver ==
  wire = <<>> /\ ~cut /\ abort /\ inputs # {} /\ keepalive # None /\ elapsed = 0 =>
    rover.act = computeMotorCommands(inputs, speed).act
=============================================================================
