---------------------------- MODULE MCSelection ----------------------------
(* Instances of Selection for TLC: account 1 polls (IMAP), account 2 pushes  *)
(* (Proton) or is a chat account, account 3 pushes, and all may hold the      *)
(* same message ids.                                                        *)
EXTENDS Selection

MCTwo == {<<1, 1>>, <<2, 1>>}
MCThree == MCTwo \cup {<<3, 1>>}
MCBoth == {"m", "n"}
MCMessages == {"m"}
NoOne == {}
Account1 == {1}
Account2 == {2}

Scenario(convs, msgs, reads, removes, any, n) ==
  [convs |-> convs, msgs |-> msgs, reading |-> reads, removing |-> removes,
   anyId |-> any, inFlight |-> n]
MCScenarios == {Scenario(MCTwo, {"m"}, FALSE, TRUE, FALSE, 1),
                Scenario({<<2, 1>>, <<3, 1>>}, MCBoth, TRUE, FALSE, FALSE, 2),
                Scenario(MCTwo, {"m"}, FALSE, FALSE, TRUE, 1)}
MCLive == {Scenario(MCTwo, {"m"}, FALSE, FALSE, FALSE, 1),
           Scenario({<<1, 1>>}, {"m"}, FALSE, FALSE, FALSE, 2)}
=============================================================================
