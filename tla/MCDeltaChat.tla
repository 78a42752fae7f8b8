----------------------------- MODULE MCDeltaChat -----------------------------
(* Instances of DeltaChat for TLC: an account added by a QR code, one that is *)
(* loaded, and an attempt on a directory that holds an account already.       *)
EXTENDS DeltaChat

Start(role, qr, on, asks, some, refusals, restarts, busy) ==
  [role |-> role, qr |-> qr, store |-> on, asks |-> asks, events |-> some,
   faults |-> refusals, resets |-> restarts, calls |-> busy]

MCStarts ==
  {Start("attempt", TRUE, "empty", {"convs"}, {"m"}, 1, 0, 2),
   Start("attempt", FALSE, "configured", {"convs"}, {}, 1, 0, 2),
   Start("account", FALSE, "configured", {"msgs"}, {"m"}, 1, 0, 2),
   Start("account", FALSE, "configured", {}, Events, 2, 0, 1),
   Start("account", FALSE, "configured", {"send", "convs"}, {}, 1, 0, 1),
   Start("account", FALSE, "account", {"body", "save", "apply", "backup"}, {}, 1, 0, 1),
   Start("account", FALSE, "configured", {"convs"}, {"m"}, 1, 1, 1)}
MCChats == {1, 2}
MCMessages == {"m"}
=============================================================================
