-------------------------- MODULE ProgressiveBody --------------------------
(***************************************************************************)
(* What ContentPipeline.h promises of a streamed body: the sanitized       *)
(* document, in pieces, in document order, and all of it at the end.       *)
(***************************************************************************)
EXTENDS Sequences, SequencesExt

VARIABLES
  whole,   \* the sanitized document
  given,   \* the pieces handed out so far, one after the other
  ended    \* no further piece will come

vars == <<whole, given, ended>>

Init == given = <<>> /\ ended = FALSE

(* A piece, which may be empty, continues where the last one stopped. *)
Piece ==
  /\ ~ended
  /\ IsPrefix(given, given') /\ IsPrefix(given', whole)
  /\ UNCHANGED <<whole, ended>>

Finish ==
  /\ ~ended
  /\ given' = whole
  /\ ended' = TRUE
  /\ UNCHANGED whole

Next == Piece \/ Finish

Spec == Init /\ [][Next]_vars
=============================================================================
