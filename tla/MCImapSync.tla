----------------------------- MODULE MCImapSync -----------------------------
(* An instance of ImapSync for TLC: one folder and two messages, so that a   *)
(* listing can be incomplete in the middle; one rotation and one reset.      *)
EXTENDS ImapSync

MCFolders == {"inbox"}
MCMsgs == {"m", "n"}
=============================================================================
