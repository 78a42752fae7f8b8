----------------------------- MODULE MCAccounts -----------------------------
(* An instance of Accounts for TLC: an IMAP account, a Proton account and    *)
(* two Delta Chat invites, submitted by either of two users.                 *)
EXTENDS Accounts

Imap == [type |-> "imap", user |-> "ann", host |-> "mail", addr |-> ""]
Proton == [type |-> "proton", user |-> "ann@p", host |-> "", addr |-> ""]
Invite1 == [type |-> "deltachat", user |-> "", host |-> "", addr |-> "a@chat"]
Invite2 == [type |-> "deltachat", user |-> "", host |-> "", addr |-> "b@chat"]

MCAddresses == {"ann@p", "a@chat", "b@chat"}
MCNames == MCAddresses \cup {"", "ann", "mail"}

\* One submits everything once; the other repeats submissions and set-ups, with
\* two invites, which share a provisional id.
MCUsers ==
  {[creds |-> {Imap, Proton, Invite1}, resubmits |-> FALSE, setsUpAgain |-> FALSE],
   [creds |-> {Invite1, Invite2}, resubmits |-> TRUE, setsUpAgain |-> TRUE]}
=============================================================================
