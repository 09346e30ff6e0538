------------------------------- MODULE Speeds -------------------------------
(***************************************************************************)
(* The speeds a robot command carries, in tenths of a unit.  linear is the *)
(* magnitude of (linear_x, linear_y): both nodes scale the two components  *)
(* by the same factor, so only the magnitude matters to a limit.  The      *)
(* fields are floats and one float is no number: every comparison with NaN *)
(* is false, which decides which branch a limit takes.                     *)
(***************************************************************************)
EXTENDS Integers

CONSTANT NaN

ASSUME NaNAssumption == NaN \notin Int

\* The float fields of a command.
Speed == Int \cup {NaN}
Twists == [linear : Speed, yaw : Speed, max_speed : Speed]

IsAbove(a, b) == a # NaN /\ b # NaN /\ a > b

\* Python's min and max return the first argument unless the second is
\* strictly smaller, or larger.
PyMin(a, b) == IF IsAbove(a, b) THEN b ELSE a
PyMax(a, b) == IF IsAbove(b, a) THEN b ELSE a

Magnitude(a) == IF a # NaN /\ a < 0 THEN -a ELSE a
=============================================================================
