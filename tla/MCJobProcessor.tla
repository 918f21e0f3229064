--------------------------- MODULE MCJobProcessor ---------------------------
(* The chapter scheduler on small instances. *)
EXTENDS JobProcessor, TLC

=============================================================================
