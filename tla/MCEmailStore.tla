---------------------------- MODULE MCEmailStore ----------------------------
\* TLC instances of EmailStore: two messages, two labels (a message can be in
\* both), two data keys (before and after a rotation).
EXTENDS EmailStore, TLC

\* Messages, labels and keys are only ever compared for equality.
Symmetric == Permutations(Msg) \cup Permutations(Label) \cup Permutations(Key)
=============================================================================
