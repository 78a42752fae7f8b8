------------------------------ MODULE MCVault ------------------------------
\* TLC instance of Vault: two passwords, two phrases, three wrap salts (two
\* files may hold one each, so a fresh one always exists).
EXTENDS Vault, TLC

\* Passwords, phrases and salts are only ever compared for equality.
Symmetric ==
    Permutations(Password) \cup Permutations(Phrase) \cup Permutations(Salt)
=============================================================================
