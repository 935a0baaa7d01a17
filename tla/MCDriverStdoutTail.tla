------------------------- MODULE MCDriverStdoutTail -------------------------
(* Two callers, and files of up to three units: a line and half of the next. *)
EXTENDS DriverStdoutTail
=============================================================================
