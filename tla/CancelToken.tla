---------------------------- MODULE CancelToken ----------------------------
(***************************************************************************)
(* The token a command hands to everything it starts.  The first Ctrl-C    *)
(* sets it; nothing takes it back.                                         *)
(***************************************************************************)
VARIABLE cancelled

NotCancelled == cancelled = FALSE

\* The first Ctrl-C.
Interrupt == ~cancelled /\ cancelled' = TRUE
=============================================================================
