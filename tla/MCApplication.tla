--------------------------- MODULE MCApplication ---------------------------
(* Application with one closed network, and one without a password.  What  *)
(* trimString does shows only when a password is typed with a space around *)
(* it: take "padded" into Passwords to see that.                           *)
EXTENDS Application

MCPasswordOf ==
  [n \in Networks |-> CASE n = "open" -> ""
                        [] n # "open" /\ "padded" \in Passwords -> "padded"
                        [] OTHER -> "right"]
MCTrimmed == [s \in Strings |-> IF s = "padded" THEN "right" ELSE s]
=============================================================================
