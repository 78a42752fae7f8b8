---------------------------- MODULE MCProtonSync ----------------------------
(* An instance of ProtonSync for TLC: one message, which may be in either    *)
(* label, move between the two, or be gone.                                  *)
EXTENDS ProtonSync

MCLabels == {"inbox", "archive"}
MCMsgs == {"m"}
=============================================================================
