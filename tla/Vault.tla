------------------------------- MODULE Vault -------------------------------
(***************************************************************************)
(* The vault: MasterKeyManager (three files and the key held in RAM) and   *)
(* the controller flows around it (createVault, unlockWithPassphrase,      *)
(* recoverVault, rotateVault) as far as they touch the key of accounts.db. *)
(*                                                                         *)
(* The data key is Argon2id(password, SHA-256(phrase)): a function of the  *)
(* credential pair, so a pair stands for its data key.  secret-key.enc is  *)
(* a box over the phrase under the wrap key Argon2id(password, wrap salt), *)
(* keycheck.enc a box over a constant under the data key.  A secretbox     *)
(* opens exactly under the key it was sealed with.                         *)
(*                                                                         *)
(* Every entry point runs to completion on the main thread: what may come  *)
(* between two of its file operations is the end of the process, or an     *)
(* operation that fails.  A write is buffered by QFile and reaches the     *)
(* disk with flush and close, whose results nobody asks for: a full disk   *)
(* leaves a short file, and the entry point goes on as if it were whole.   *)
(* The files are not fsynced; the loss of what the kernel has buffered, as *)
(* in a power cut, is not modelled.                                        *)
(***************************************************************************)
CONSTANTS Password,  \* master passwords
          Phrase,    \* Secret Key phrases, normalised and not blank
          Salt,      \* values of wrap-salt.bin
          Keep,      \* an empty argument of rotateVault: keep what is held
          NoFile,    \* the content of a file that does not exist
          Short,     \* the content of a file the disk did not take whole
          NoPair     \* no credential pair

Pair == [pass : Password, phrase : Phrase]
Box  == [phrase : Phrase, pass : Password, salt : Salt]

ASSUME VaultAssumption ==
    /\ {NoFile, Short} \cap (Salt \cup Pair \cup Box) = {}
    /\ NoFile # Short
    /\ NoPair \notin Pair
    /\ Keep \notin Password \cup Phrase

VARIABLES
    saltFile,  \* wrap-salt.bin
    skFile,    \* secret-key.enc
    kcFile,    \* keycheck.enc, as the pair whose data key sealed it
    dbKey,     \* the key accounts.db is encrypted with
    held,      \* the pair in RAM (m_password, m_phrase, m_dataKey); NoPair: locked
    op,        \* the entry point the main thread is in
    phase,     \* the step of it that comes next
    file,      \* the file writeFileAtomic is at
    whole,     \* whether its path.tmp holds all that was written to it
    want,      \* the pair of the last entry point that began to write
    newSalt,   \* its fresh wrap salt
    oldKey,    \* rotateVault's copy of the key before the rotation
    acked,     \* history: the pair last adopted, over all runs of the program
    torn,      \* history: a rotation ended between the old keycheck's removal
               \* and the re-key of accounts.db
    wrote      \* history: this run of the program has begun to write the vault

disk == <<saltFile, skFile, kcFile, dbKey>>
job  == <<op, phase, file, whole, want, newSalt, oldKey>>
vars == <<saltFile, skFile, kcFile, dbKey, held, op, phase, file, whole, want,
          newSalt, oldKey, acked, torn, wrote>>

Op    == {"none", "create", "unlock", "recover", "rotate"}
Phase == {"idle", "tmp", "remove", "rename", "adopt", "load", "rekey"}
File  == {"none", "salt", "sk", "kc"}

TypeOK ==
    /\ saltFile \in Salt \cup {NoFile, Short}
    /\ skFile \in Box \cup {NoFile, Short}
    /\ kcFile \in Pair \cup {NoFile, Short}
    /\ dbKey \in Pair \cup {NoFile}
    /\ held \in Pair \cup {NoPair}
    /\ op \in Op /\ phase \in Phase /\ file \in File /\ whole \in BOOLEAN
    /\ want \in Pair \cup {NoPair}
    /\ newSalt \in Salt
    /\ oldKey \in Pair \cup {NoPair}
    /\ acked \in Pair \cup {NoPair}
    /\ torn \in BOOLEAN /\ wrote \in BOOLEAN

Init ==
    /\ saltFile = NoFile /\ skFile = NoFile /\ kcFile = NoFile /\ dbKey = NoFile
    /\ held = NoPair
    /\ op = "none" /\ phase = "idle" /\ file = "none" /\ whole = TRUE
    /\ want = NoPair /\ newSalt \in Salt /\ oldKey = NoPair
    /\ acked = NoPair /\ torn = FALSE /\ wrote = FALSE

-----------------------------------------------------------------------------

vaultExists == kcFile # NoFile
isLocked    == held = NoPair

\* The random salt is none of those a file on disk was made with.
FreshSalt(s) ==
    /\ s # saltFile
    /\ skFile \in Box => s # skFile.salt

\* unlock(password): the phrase box opens under the wrap key, and the data
\* key of password and phrase opens the keycheck.  A short salt has the wrong
\* size, a short box does not open.
PasswordOpens(p) ==
    /\ skFile \in Box
    /\ skFile.pass = p /\ skFile.salt = saltFile
    /\ kcFile = [pass |-> p, phrase |-> skFile.phrase]

\* Mutant: recover takes the user's word for it.
PairOpensUnchecked(c) == kcFile # c \/ kcFile = c

\* recover(password, phrase): the pair's data key opens the keycheck.
PairOpens(c) == kcFile = c

\* The main thread is free: an entry point is called.
Idle == phase = "idle"

\* Mutant: the new key is adopted before the files are written.
StartWritingAdopts(o, c, s) ==
    /\ op' = o /\ phase' = "tmp" /\ file' = "salt"
    /\ want' = c /\ newSalt' = s /\ held' = c /\ wrote' = TRUE
    /\ UNCHANGED <<whole, acked, torn>> /\ UNCHANGED disk

StartWriting(o, c, s) ==
    /\ op' = o /\ phase' = "tmp" /\ file' = "salt"
    /\ want' = c /\ newSalt' = s /\ wrote' = TRUE
    /\ UNCHANGED <<whole, held, acked, torn>> /\ UNCHANGED disk

create(c, s) ==
    /\ Idle /\ ~vaultExists /\ FreshSalt(s)
    /\ StartWriting("create", c, s)
    /\ UNCHANGED oldKey

unlock(p) ==
    /\ Idle /\ PasswordOpens(p)
    /\ op' = "unlock" /\ phase' = "load"
    /\ held' = kcFile /\ acked' = kcFile
    /\ UNCHANGED <<file, whole, want, newSalt, oldKey, torn, wrote>>
    /\ UNCHANGED disk

recover(c, s) ==
    /\ Idle /\ vaultExists /\ PairOpens(c) /\ FreshSalt(s)
    /\ StartWriting("recover", c, s)
    /\ UNCHANGED oldKey

\* Mutant: an empty argument of rotate is taken as the new secret.
RotatedPairEmpty(p, ph) == [pass |-> p, phrase |-> ph]

\* What rotate's arguments select: an empty one keeps what the vault holds.
RotatedPair(p, ph) == [pass   |-> IF p = Keep THEN held.pass ELSE p,
                       phrase |-> IF ph = Keep THEN held.phrase ELSE ph]

rotate(p, ph, s) ==
    /\ Idle /\ ~isLocked /\ FreshSalt(s)
    /\ StartWriting("rotate", RotatedPair(p, ph), s)
    /\ oldKey' = held

-----------------------------------------------------------------------------
\* writeFileAtomic: write path.tmp, remove path, rename path.tmp to path.

\* Mutant: recover renews the wrap salt and leaves the phrase box as it is.
NextFileSaltOnly(o, f) ==
    CASE f = "salt" -> IF o = "recover" THEN "none" ELSE "sk"
      [] f = "sk"   -> "kc"
      [] OTHER      -> "none"

\* Mutant: the keycheck is written before the phrase box.
NextFileKeycheckFirst(o, f) ==
    CASE f = "salt" -> IF o = "recover" THEN "sk" ELSE "kc"
      [] f = "kc"   -> "sk"
      [] OTHER      -> "none"

\* The files an entry point writes, in the order of writeVault and recover.
NextFile(o, f) ==
    CASE f = "salt" -> "sk"
      [] f = "sk"   -> IF o = "recover" THEN "none" ELSE "kc"
      [] OTHER      -> "none"

EndJob ==
    /\ op' = "none" /\ phase' = "idle" /\ file' = "none" /\ whole' = TRUE
    /\ oldKey' = NoPair

\* Set when a rotation ends with the old keycheck gone and the re-key not done.
TearsRotation ==
    /\ op = "rotate"
    /\ \/ phase = "rename" /\ file = "kc"
       \/ phase \in {"adopt", "rekey"}

\* write() has filled QFile's buffer, which is always long enough; whether
\* flush and close bring it to the disk, the code does not ask.
WriteTmp ==
    /\ phase = "tmp"
    /\ phase' = "remove"
    /\ whole' \in BOOLEAN
    /\ UNCHANGED <<held, op, file, want, newSalt, oldKey, acked, torn, wrote>>
    /\ UNCHANGED disk

\* The temporary file cannot be opened: the one failure of a write that is seen.
OpenTmpFails ==
    /\ phase = "tmp"
    /\ EndJob
    /\ UNCHANGED <<held, want, newSalt, acked, torn, wrote>> /\ UNCHANGED disk

RemoveOld ==
    /\ phase = "remove"
    /\ phase' = "rename"
    /\ saltFile' = IF file = "salt" THEN NoFile ELSE saltFile
    /\ skFile'   = IF file = "sk" THEN NoFile ELSE skFile
    /\ kcFile'   = IF file = "kc" THEN NoFile ELSE kcFile
    /\ UNCHANGED <<dbKey, held, op, file, whole, want, newSalt, oldKey, acked, torn, wrote>>

Written(content) == IF whole THEN content ELSE Short

Rename ==
    /\ phase = "rename"
    /\ saltFile' = IF file = "salt" THEN Written(newSalt) ELSE saltFile
    /\ skFile'   = IF file = "sk"
                   THEN Written([phrase |-> want.phrase, pass |-> want.pass, salt |-> newSalt])
                   ELSE skFile
    /\ kcFile'   = IF file = "kc" THEN Written(want) ELSE kcFile
    /\ file'  = NextFile(op, file)
    /\ phase' = IF NextFile(op, file) = "none" THEN "adopt" ELSE "tmp"
    /\ whole' = TRUE
    /\ UNCHANGED <<dbKey, held, op, want, newSalt, oldKey, acked, torn, wrote>>

RenameFails ==
    /\ phase = "rename"
    /\ EndJob
    /\ torn' = (torn \/ TearsRotation)
    /\ UNCHANGED <<held, want, newSalt, acked, wrote>> /\ UNCHANGED disk

adopt ==
    /\ phase = "adopt"
    /\ held' = want /\ acked' = want
    /\ phase' = IF op = "rotate" THEN "rekey" ELSE "load"
    /\ UNCHANGED <<op, file, whole, want, newSalt, oldKey, torn, wrote>>
    /\ UNCHANGED disk

-----------------------------------------------------------------------------
\* What the controller does with accounts.db once the vault has a key.

\* AccountStore::open: an absent database is created under the key, another
\* is readable only under its own.
StoreOpens(k) == dbKey \in {NoFile, k}

onVaultUnlocked ==
    /\ phase = "load"
    /\ dbKey' = IF StoreOpens(held) THEN held ELSE dbKey
    /\ torn' = (torn /\ ~StoreOpens(held))
    /\ EndJob
    /\ UNCHANGED <<saltFile, skFile, kcFile, held, want, newSalt, acked, wrote>>

\* SQLite cannot open or create the file; the error is shown, and that is all.
onVaultUnlockedFails ==
    /\ phase = "load"
    /\ EndJob
    /\ UNCHANGED <<held, want, newSalt, acked, torn, wrote>> /\ UNCHANGED disk

\* Mutant: rotateVault leaves accounts.db under the old key.
rekeyForgotten ==
    /\ phase = "rekey"
    /\ torn' = ~StoreOpens(oldKey)
    /\ EndJob
    /\ UNCHANGED <<held, want, newSalt, acked, wrote>> /\ UNCHANGED disk

\* sqlite3_rekey is one transaction: it happens or it does not.
rekey ==
    /\ phase = "rekey"
    /\ dbKey' = IF StoreOpens(oldKey) THEN held ELSE dbKey
    /\ torn' = ~StoreOpens(oldKey)
    /\ EndJob
    /\ UNCHANGED <<saltFile, skFile, kcFile, held, want, newSalt, acked, wrote>>

\* Open or rekey fails: reported, and the rotation carries on without it.
rekeyFails ==
    /\ phase = "rekey"
    /\ torn' = TRUE
    /\ EndJob
    /\ UNCHANGED <<held, want, newSalt, acked, wrote>> /\ UNCHANGED disk

\* The process ends, in the middle of an entry point or between two, and is
\* started again: locked, whatever the files say.
Restart ==
    /\ phase # "idle" \/ ~isLocked
    /\ held' = NoPair /\ wrote' = FALSE
    /\ torn' = (torn \/ TearsRotation)
    /\ EndJob
    /\ UNCHANGED <<want, newSalt, acked>> /\ UNCHANGED disk

\* Outside the program: wrap-salt.bin or secret-key.enc is lost, or was left
\* behind when the vault was copied to another machine.
LoseConvenienceFile ==
    /\ phase = "idle"
    /\ \/ saltFile # NoFile /\ saltFile' = NoFile /\ UNCHANGED skFile
       \/ skFile # NoFile /\ skFile' = NoFile /\ UNCHANGED saltFile
    /\ UNCHANGED <<kcFile, dbKey, held, acked, torn, wrote>> /\ UNCHANGED job

-----------------------------------------------------------------------------

Call ==
    \/ \E c \in Pair, s \in Salt : create(c, s) \/ recover(c, s)
    \/ \E p \in Password : unlock(p)
    \/ \E p \in Password \cup {Keep}, ph \in Phrase \cup {Keep}, s \in Salt :
          rotate(p, ph, s)

WriteStep == WriteTmp \/ OpenTmpFails \/ RemoveOld \/ Rename \/ RenameFails

KeyStep == adopt \/ onVaultUnlocked \/ onVaultUnlockedFails \/ rekey \/ rekeyFails

Next == Call \/ WriteStep \/ KeyStep \/ Restart \/ LoseConvenienceFile

Spec == Init /\ [][Next]_vars

-----------------------------------------------------------------------------
(* Properties *)

\* While the vault is unlocked and no entry point runs, a keycheck on disk that
\* opens at all opens under the key in RAM: neither a failed rotation nor a
\* recovery leaves the session with a key other than the vault's
\* (MasterKeyManager::adopt runs only after every write has been handed over).
SessionKeyIsVaultKey ==
    phase = "idle" /\ held # NoPair /\ kcFile \in Pair => kcFile = held

\* The pair that opens the vault is one the user has just used: the last one
\* accepted, or the last one submitted to an operation that began to write.
\* Holds at every point at which the program can stop.
LastPairOpens == kcFile \in Pair => kcFile \in {acked, want}

\* When create, unlock, recover or rotate reports success, the password alone
\* opens the vault at the next start, unless the disk cut a file of the rewrite
\* short, which the code does not notice.  Even then password and phrase recover
\* the vault if the keycheck is not that file; after recover it never is.
SuccessIsUnlockable ==
    phase \in {"load", "rekey"} =>
        /\ \/ PasswordOpens(held.pass)
           \/ op # "unlock" /\ Short \in {saltFile, skFile, kcFile}
        /\ \/ PairOpens(held)
           \/ op \in {"create", "rotate"} /\ kcFile = Short

\* accounts.db has the vault's key in every unlocked session, unless a
\* rotation was cut off between the removal of the old keycheck and the end
\* of the re-key: no other crash or failed write separates the two.
DbFollowsVault ==
    phase = "idle" /\ held # NoPair /\ ~torn => dbKey \in {NoFile, held}

\* As long as the vault is locked, an existing keycheck is neither replaced
\* nor removed: create refuses, recover rewrites the two other files only.
LockedKeepsKeycheck == [][isLocked /\ vaultExists => kcFile' = kcFile]_vars

\* The keycheck is the last file of a rewrite: in the step that puts a new one
\* in place, the password-only path of the same pair is already on disk, unless
\* the disk cut one of its two files short.
KeycheckCommitsLast ==
    [][kcFile' \notin {kcFile, NoFile, Short} =>
         PasswordOpens(kcFile.pass)' \/ Short \in {saltFile, skFile}']_vars

\* Both: no step takes away, or puts in place, a keycheck the user could not
\* go on with.
KeycheckDiscipline == LockedKeepsKeycheck /\ KeycheckCommitsLast

\* The vault without its files. A session that is open can still write the
\* keycheck that is not there, or is cut short: as long as it lasts, its pair
\* is the opener.
Secrets == INSTANCE SecretVault
    WITH opener <- IF kcFile \in Pair THEN kcFile ELSE held, wanted <- want,
         changing <- wrote

\* Through every order of file operations, failures and ends of the process, the
\* pair that opens the vault changes at once, only by the order of a session that
\* holds it, and is lost only at the end of a session that had begun to change it:
\* in the middle of the change, or after one whose keycheck the disk cut short.
IsSecretVault == Secrets!Spec

\* Claimed by the comment on the vault files ("all optional for recovery"):
\* once a vault has been created, and its keycheck was not cut short, a pair the
\* user has used recovers it.
RecoveryNeedsNoFile ==
    phase = "idle" /\ acked # NoPair /\ kcFile # Short =>
        PairOpens(acked) \/ PairOpens(want)

=============================================================================
