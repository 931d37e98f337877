------------------------------- MODULE Absent -------------------------------
(* The value of a pointer that is nil and of a field that is not reported. *)
CONSTANT Nil
=============================================================================
