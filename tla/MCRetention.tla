---------------------------- MODULE MCRetention ----------------------------
(* Model checking Retention with the search constants of the code. *)
EXTENDS RetentionProperties

\* Around today - 89, within and beyond the brackets, and a missing day.
MCHeldFrom == {170, 211, 222, 245}
=============================================================================
