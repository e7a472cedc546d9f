--------------------------- MODULE MCRoverControl ---------------------------
(***************************************************************************)
(* Arguments for the model checking of RoverControl.                       *)
(***************************************************************************)
EXTENDS RoverControl

(* Clients that drive each side on its own and stop the whole vehicle.     *)
WholeStopArgs == {<<FORWARD, LEFT>>, <<BACKWARD, RIGHT>>, <<FORWARD, ALL>>, <<STOP, ALL>>}

(* Every action for every selection of the protocol.                       *)
ProtocolArgs == {FORWARD, BACKWARD, STOP} \X {LEFT, RIGHT, ALL}

(* Integers the protocol does not know, among those it does.               *)
UncheckedArgs == {FORWARD, STOP, 3} \X {LEFT, ALL, 3}

OneSpeed == {<<ALL, 300>>}

(* One speed for one side, and one for both that is clamped.               *)
TwoSpeeds == {<<LEFT, 120>>, <<ALL, 300>>}

(* Any speed, also out of range, for every selection.                      *)
ProtocolSpeeds == {LEFT, RIGHT, ALL} \X {-1, 120, 300}
=============================================================================
