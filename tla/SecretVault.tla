---------------------------- MODULE SecretVault ----------------------------
(***************************************************************************)
(* What the vault promises, without its files: one pair of secrets opens   *)
(* it, and it changes from one pair to the next at once.                   *)
(***************************************************************************)
CONSTANTS Pair, NoPair

VARIABLES
    opener,   \* the pair the vault can be opened or rewritten with
    held,     \* the pair of the open session, if there is one
    wanted,   \* the pair last submitted to become, or shown to be, the opener
    changing  \* somebody has submitted a pair since the program was started

Init == opener = NoPair /\ held = NoPair /\ wanted = NoPair /\ changing = FALSE

\* Anyone may found a vault where there is none; an existing one takes orders
\* from an open session, or from someone who shows its pair.
Submit(c) ==
    /\ opener \in {NoPair, c} \/ held # NoPair
    /\ wanted' = c /\ changing' = TRUE
    /\ UNCHANGED <<opener, held>>

\* The session whose pair opens the vault replaces that pair, or there was none.
\* The session may take the new pair at the same time.
Change ==
    /\ opener \in {NoPair, held} /\ wanted # NoPair /\ changing
    /\ opener' = wanted
    /\ held' \in {held, wanted}
    /\ UNCHANGED <<wanted, changing>>

Open ==
    /\ opener # NoPair
    /\ held' = opener
    /\ UNCHANGED <<opener, wanted, changing>>

Close ==
    /\ held' = NoPair /\ changing' = FALSE
    /\ UNCHANGED <<opener, wanted>>

\* A session that has begun to change the vault may take it along when it ends;
\* one that has only opened it cannot.
Lose ==
    /\ held = opener /\ changing
    /\ opener' = NoPair /\ held' = NoPair /\ changing' = FALSE
    /\ UNCHANGED wanted

Next == (\E c \in Pair : Submit(c)) \/ Change \/ Open \/ Close \/ Lose

Spec == Init /\ [][Next]_<<opener, held, wanted, changing>>
=============================================================================
