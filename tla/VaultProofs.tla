---------------------------- MODULE VaultProofs ----------------------------
(***************************************************************************)
(* Proofs about Vault, for every set of passwords, phrases and salts.      *)
(*                                                                         *)
(* The safety properties are not inductive.  IInv adds what each step of   *)
(* an entry point has already put on disk, whole or cut short (Progress),  *)
(* what the session holds at each phase (Session), and, as long as no      *)
(* rotation was cut off in its last steps, how keycheck, session and       *)
(* accounts.db go together (Untorn).  The vault without its files,         *)
(* SecretVault, is implemented with the session's pair standing for a      *)
(* keycheck that is not there, or is cut short.                            *)
(***************************************************************************)
EXTENDS Vault, TLAPS

Writers == {"create", "recover", "rotate"}
Writing == {"tmp", "remove", "rename"}

\* Which phases and files belong to which entry point.
Shape ==
    /\ phase = "idle" <=> op = "none"
    /\ file # "none" <=> phase \in Writing
    /\ phase \in Writing \cup {"adopt"} => op \in Writers
    /\ phase = "load" => op \in {"create", "unlock", "recover"}
    /\ phase = "rekey" => op = "rotate"
    /\ op = "recover" => file # "kc"
    /\ op \in Writers => want \in Pair /\ wrote

WantBox == [phrase |-> want.phrase, pass |-> want.pass, salt |-> newSalt]

\* The files behind the current one have their new content, as far as the disk
\* took it.
Progress ==
    /\ file \in {"sk", "kc"} \/ phase = "adopt" => saltFile \in {newSalt, Short}
    /\ file = "kc" \/ phase = "adopt" => skFile \in {WantBox, Short}
    /\ phase = "adopt" => kcFile \in {want, Short}
    /\ op = "recover" => kcFile = want
    /\ op = "create" /\ phase \in Writing => kcFile = NoFile
    /\ file = "kc" /\ phase = "rename" => kcFile = NoFile

\* What is held, and what opens with it.
Session ==
    /\ held # NoPair => acked = held
    /\ op = "rotate" => held \in Pair /\ oldKey \in Pair
    /\ op = "rotate" /\ phase # "rekey" => held = oldKey
    /\ phase = "load" => held \in Pair
    /\ held # NoPair /\ kcFile \in Pair => kcFile = held \/ phase = "adopt"
    /\ held # NoPair \/ kcFile # NoFile => want # NoPair
    /\ held # NoPair /\ kcFile \notin Pair => wrote

Untorn ==
    ~torn =>
        /\ dbKey \in {NoFile, kcFile} \/ kcFile = Short \/ TearsRotation
        /\ held # NoPair => kcFile \in {held, Short} \/ TearsRotation
        /\ held # NoPair => dbKey \in {NoFile, held} \/ TearsRotation
        /\ TearsRotation => dbKey \in {NoFile, oldKey}
        /\ op = "create" => dbKey = NoFile

IInv ==
    /\ TypeOK /\ Shape /\ Progress /\ Session /\ Untorn
    /\ LastPairOpens /\ SuccessIsUnlockable

-----------------------------------------------------------------------------

LEMMA InitIInv == Init => IInv
  BY VaultAssumption
  DEF Init, IInv, TypeOK, Shape, Progress, Session, Untorn, LastPairOpens,
      SuccessIsUnlockable, Op, Phase, File, Writers, Writing

\* The three ways to begin writing, and unlock, which writes nothing.
LEMMA CallStep == IInv /\ Call => IInv'
  <1> SUFFICES ASSUME IInv, Call PROVE IInv'
    OBVIOUS
  <1> USE VaultAssumption
          DEF IInv, TypeOK, Op, Phase, File, Writers, Writing, disk, Idle
  <1>1. ASSUME NEW c \in Pair, NEW s \in Salt, create(c, s) PROVE IInv'
    BY <1>1 DEF create, StartWriting, vaultExists, Shape, Progress, Session,
                Untorn, LastPairOpens, SuccessIsUnlockable, TearsRotation
  <1>2. ASSUME NEW c \in Pair, NEW s \in Salt, recover(c, s) PROVE IInv'
    BY <1>2 DEF recover, PairOpens, StartWriting, vaultExists, Shape, Progress,
                Session, Untorn, LastPairOpens, SuccessIsUnlockable, TearsRotation
  <1>3. ASSUME NEW p \in Password, unlock(p) PROVE IInv'
    <2>1. kcFile \in Pair /\ kcFile.pass = p
      BY <1>3 DEF unlock, PasswordOpens, Pair, Box
    <2>2. PasswordOpens(kcFile.pass)' /\ held' = kcFile
      BY <1>3, <2>1 DEF unlock, PasswordOpens
    <2> QED
      BY <1>3, <2>1, <2>2 DEF unlock, Shape, Progress, Session, Untorn,
         LastPairOpens, SuccessIsUnlockable, TearsRotation, PairOpens
  <1>4. ASSUME NEW p \in Password \cup {Keep}, NEW ph \in Phrase \cup {Keep},
               NEW s \in Salt, rotate(p, ph, s)
        PROVE IInv'
    <2>1. held \in Pair
      BY <1>4 DEF rotate, isLocked
    <2>2. RotatedPair(p, ph) \in Pair
      BY <2>1 DEF RotatedPair, Pair
    <2> QED
      BY <1>4, <2>1, <2>2 DEF rotate, StartWriting, isLocked, Shape, Progress,
         Session, Untorn, LastPairOpens, SuccessIsUnlockable, TearsRotation
  <1> QED
    BY <1>1, <1>2, <1>3, <1>4 DEF Call

\* writeFileAtomic, one step of it at a time.
LEMMA WriteStepStep == IInv /\ WriteStep => IInv'
  <1> SUFFICES ASSUME IInv, WriteStep PROVE IInv'
    OBVIOUS
  <1> USE VaultAssumption
          DEF IInv, TypeOK, Op, Phase, File, Writers, Writing, disk
  <1>1. CASE WriteTmp
    BY <1>1 DEF WriteTmp, Shape, Progress, Session, Untorn, LastPairOpens,
                SuccessIsUnlockable, TearsRotation, WantBox
  <1>2. CASE OpenTmpFails
    BY <1>2 DEF OpenTmpFails, EndJob, Shape, Progress, Session, Untorn,
                LastPairOpens, SuccessIsUnlockable, TearsRotation
  <1>3. CASE RemoveOld
    BY <1>3 DEF RemoveOld, Shape, Progress, Session, Untorn, LastPairOpens,
                SuccessIsUnlockable, TearsRotation, WantBox
  <1>4. CASE Rename
    <2>1. want \in Pair /\ WantBox \in Box
      BY <1>4 DEF Rename, Shape, WantBox, Pair, Box
    <2> QED
      BY <1>4, <2>1 DEF Rename, Written, NextFile, Shape, Progress, Session, Untorn,
         LastPairOpens, SuccessIsUnlockable, TearsRotation, WantBox
  <1>5. CASE RenameFails
    BY <1>5 DEF RenameFails, EndJob, Shape, Progress, Session, Untorn,
                LastPairOpens, SuccessIsUnlockable, TearsRotation
  <1> QED
    BY <1>1, <1>2, <1>3, <1>4, <1>5 DEF WriteStep

\* Adoption of the new key, and what the controller does with it.
LEMMA KeyStepStep == IInv /\ KeyStep => IInv'
  <1> SUFFICES ASSUME IInv, KeyStep PROVE IInv'
    OBVIOUS
  <1> USE VaultAssumption
          DEF IInv, TypeOK, Op, Phase, File, Writers, Writing, disk
  <1>1. CASE adopt
    <2>1. /\ want \in Pair /\ op \in Writers /\ kcFile \in {want, Short}
          /\ saltFile \in {newSalt, Short} /\ skFile \in {WantBox, Short}
      BY <1>1 DEF adopt, Shape, Progress
    <2>2. Short \in {saltFile, skFile, kcFile} \/ PasswordOpens(want.pass)
      <3>1. want = [pass |-> want.pass, phrase |-> want.phrase] /\ WantBox \in Box
        BY <2>1 DEF WantBox, Pair, Box
      <3> QED
        BY <2>1, <3>1 DEF PasswordOpens, WantBox
    <2>3. SuccessIsUnlockable'
      BY <1>1, <2>1, <2>2 DEF adopt, SuccessIsUnlockable, PasswordOpens, PairOpens,
         Shape, Progress
    <2> QED
      BY <1>1, <2>1, <2>3 DEF adopt, Shape, Progress, Session, Untorn,
         LastPairOpens, TearsRotation
  <1>2. CASE onVaultUnlocked
    BY <1>2 DEF onVaultUnlocked, StoreOpens, EndJob, Shape, Progress, Session,
                Untorn, LastPairOpens, SuccessIsUnlockable, TearsRotation, PairOpens
  <1>3. CASE onVaultUnlockedFails
    BY <1>3 DEF onVaultUnlockedFails, EndJob, Shape, Progress, Session, Untorn,
                LastPairOpens, SuccessIsUnlockable, TearsRotation
  <1>4. CASE rekey
    BY <1>4 DEF rekey, StoreOpens, EndJob, Shape, Progress, Session, Untorn,
                LastPairOpens, SuccessIsUnlockable, TearsRotation, PairOpens
  <1>5. CASE rekeyFails
    BY <1>5 DEF rekeyFails, EndJob, Shape, Progress, Session, Untorn,
                LastPairOpens, SuccessIsUnlockable, TearsRotation
  <1> QED
    BY <1>1, <1>2, <1>3, <1>4, <1>5 DEF KeyStep

\* The end of the process, and the loss of a file the vault can do without.
LEMMA OutsideStep == IInv /\ (Restart \/ LoseConvenienceFile) => IInv'
  <1> SUFFICES ASSUME IInv, Restart \/ LoseConvenienceFile PROVE IInv'
    OBVIOUS
  <1> USE VaultAssumption
          DEF IInv, TypeOK, Op, Phase, File, Writers, Writing, disk, job
  <1>1. CASE Restart
    <2>1. TypeOK' /\ Shape' /\ Progress' /\ LastPairOpens' /\ SuccessIsUnlockable'
      BY <1>1 DEF Restart, EndJob, Shape, Progress, LastPairOpens, SuccessIsUnlockable
    <2>2. Session'
      BY <1>1 DEF Restart, EndJob, Shape, Session
    <2>3. Untorn'
      BY <1>1 DEF Restart, EndJob, Untorn, TearsRotation
    <2> QED
      BY <2>1, <2>2, <2>3
  <1>2. CASE LoseConvenienceFile
    BY <1>2 DEF LoseConvenienceFile, Shape, Progress, Session, Untorn,
                LastPairOpens, SuccessIsUnlockable, TearsRotation
  <1> QED
    BY <1>1, <1>2

LEMMA StutterStep == IInv /\ UNCHANGED vars => IInv'
  BY DEF vars, IInv, TypeOK, Shape, Progress, Session, Untorn, LastPairOpens,
         SuccessIsUnlockable, TearsRotation, PasswordOpens, PairOpens, WantBox

LEMMA IInvStep == IInv /\ [Next]_vars => IInv'
  BY CallStep, WriteStepStep, KeyStepStep, OutsideStep, StutterStep DEF Next

-----------------------------------------------------------------------------

\* The strengthened invariant holds in every reachable state.
THEOREM VaultInvariant == Spec => []IInv
  BY InitIInv, IInvStep, PTL DEF Spec

\* Every variable keeps its type.
THEOREM TypeCorrect == Spec => []TypeOK
  <1>1. IInv => TypeOK
    BY DEF IInv
  <1> QED
    BY VaultInvariant, <1>1, PTL

\* The session's key opens the keycheck, if any key does, whenever the main
\* thread is free: after any sequence of calls, crashes, failed writes and files
\* the disk cut short.
THEOREM SessionKey == Spec => []SessionKeyIsVaultKey
  <1>1. IInv => SessionKeyIsVaultKey
    BY DEF IInv, Session, SessionKeyIsVaultKey
  <1> QED
    BY VaultInvariant, <1>1, PTL

\* Whenever the program stops, the pair that opens the vault is the last one
\* accepted or the last one submitted.
THEOREM LastPair == Spec => []LastPairOpens
  <1>1. IInv => LastPairOpens
    BY DEF IInv
  <1> QED
    BY VaultInvariant, <1>1, PTL

\* An operation that has succeeded leaves a vault the password alone opens, or
\* one of whose files the disk has cut short.
THEOREM Unlockable == Spec => []SuccessIsUnlockable
  <1>1. IInv => SuccessIsUnlockable
    BY DEF IInv
  <1> QED
    BY VaultInvariant, <1>1, PTL

\* accounts.db has the session's key, unless a rotation was cut off between
\* the removal of the old keycheck and the end of the re-key.
THEOREM DbKey == Spec => []DbFollowsVault
  <1>1. IInv => DbFollowsVault
    BY DEF IInv, Shape, Untorn, TearsRotation, DbFollowsVault
  <1> QED
    BY VaultInvariant, <1>1, PTL

\* A locked vault's keycheck survives everything.
THEOREM KeycheckKept == Spec => LockedKeepsKeycheck
  <1>1. ASSUME IInv, [Next]_vars PROVE [isLocked /\ vaultExists => kcFile' = kcFile]_vars
    <2> SUFFICES ASSUME Next, isLocked, vaultExists PROVE kcFile' = kcFile
      BY <1>1
    <2> USE <1>1 DEF disk
    <2>1. CASE Call
      BY <2>1 DEF Call, create, recover, unlock, rotate, StartWriting
    <2>2. CASE WriteStep
      <3>1. CASE RemoveOld
        BY <3>1, VaultAssumption DEF RemoveOld, IInv, Shape, Progress, Session,
           Writers, Writing, isLocked, vaultExists, TypeOK, Op
      <3>2. CASE Rename
        BY <3>2, VaultAssumption DEF Rename, IInv, Shape, Progress, Session,
           Writers, Writing, isLocked, vaultExists, TypeOK, Op
      <3> QED
        BY <2>2, <3>1, <3>2 DEF WriteStep, WriteTmp, OpenTmpFails, RenameFails
    <2>3. CASE KeyStep
      BY <2>3 DEF KeyStep, adopt, onVaultUnlocked, onVaultUnlockedFails, rekey,
                  rekeyFails
    <2>4. CASE Restart \/ LoseConvenienceFile
      BY <2>4 DEF Restart, LoseConvenienceFile
    <2> QED
      BY <2>1, <2>2, <2>3, <2>4 DEF Next
  <1> QED
    BY VaultInvariant, <1>1, PTL DEF Spec, LockedKeepsKeycheck

\* The keycheck of a pair appears only when its password already opens it, or
\* one of the files it needs for that was cut short.
THEOREM KeycheckLast == Spec => KeycheckCommitsLast
  <1> DEFINE New == kcFile' \notin {kcFile, NoFile, Short}
  <1>1. ASSUME IInv, Next, New
        PROVE  PasswordOpens(kcFile.pass)' \/ Short \in {saltFile, skFile}'
    <2>1. Rename /\ file = "kc"
      BY <1>1 DEF Next, Call, WriteStep, KeyStep, disk, create, recover, unlock,
         rotate, StartWriting, WriteTmp, OpenTmpFails, RemoveOld, Rename,
         RenameFails, adopt, onVaultUnlocked, onVaultUnlockedFails, rekey,
         rekeyFails, Restart, LoseConvenienceFile
    <2>2. want \in Pair /\ newSalt \in Salt /\ WantBox \in Box
      BY <1>1, <2>1 DEF IInv, Shape, TypeOK, Rename, Writing, Writers, WantBox, Pair, Box
    <2>3. /\ kcFile' = want
          /\ saltFile' \in {newSalt, Short} /\ skFile' \in {WantBox, Short}
      BY <1>1, <2>1 DEF Rename, Written, IInv, Progress
    <2>4. want = [pass |-> want.pass, phrase |-> want.phrase]
      BY <2>2 DEF Pair
    <2> QED
      BY <2>2, <2>3, <2>4 DEF PasswordOpens, WantBox
  <1>2. IInv /\ [Next]_vars =>
          [New => PasswordOpens(kcFile.pass)' \/ Short \in {saltFile, skFile}']_vars
    BY <1>1
  <1> QED
    BY VaultInvariant, <1>2, PTL DEF Spec, KeycheckCommitsLast

\* Both together: what the keycheck goes through, in every behaviour.
THEOREM KeycheckSafe == Spec => KeycheckDiscipline
  BY KeycheckKept, KeycheckLast DEF KeycheckDiscipline
-----------------------------------------------------------------------------
(* The refinement. *)

Opener == IF kcFile \in Pair THEN kcFile ELSE held

\* A step of the vault keeps the three, or is a step of the vault without files.
AbstractStep == Secrets!Next \/ UNCHANGED <<Opener, held, want, wrote>>

LEMMA CallRefines == IInv /\ Call => AbstractStep
  <1> SUFFICES ASSUME IInv, Call PROVE AbstractStep
    OBVIOUS
  <1> USE VaultAssumption DEF Secrets!Next, AbstractStep, Opener
  <1>1. ASSUME NEW c \in Pair, Secrets!Submit(c) PROVE AbstractStep
    BY <1>1
  <1>2. ASSUME NEW c \in Pair, NEW s \in Salt, create(c, s) PROVE Secrets!Submit(c)
    BY <1>2 DEF create, vaultExists, StartWriting, disk, Secrets!Submit, IInv, TypeOK
  <1>3. ASSUME NEW c \in Pair, NEW s \in Salt, recover(c, s) PROVE Secrets!Submit(c)
    BY <1>3 DEF recover, vaultExists, PairOpens, StartWriting, disk, Secrets!Submit
  <1>4. ASSUME NEW p \in Password, unlock(p) PROVE Secrets!Open
    <2>1. kcFile \in Pair
      BY <1>4 DEF unlock, PasswordOpens, Pair, Box
    <2>2. held' = kcFile /\ UNCHANGED <<kcFile, want, wrote>>
      BY <1>4 DEF unlock, disk
    <2> QED
      BY <2>1, <2>2 DEF Secrets!Open, Pair
  <1>5. ASSUME NEW p \in Password \cup {Keep}, NEW ph \in Phrase \cup {Keep},
               NEW s \in Salt, rotate(p, ph, s)
        PROVE  /\ RotatedPair(p, ph) \in Pair
               /\ Secrets!Submit(RotatedPair(p, ph))
    <2>1. held \in Pair
      BY <1>5 DEF rotate, isLocked, IInv, TypeOK
    <2>2. RotatedPair(p, ph) \in Pair
      BY <2>1 DEF RotatedPair, Pair
    <2> QED
      BY <1>5, <2>1, <2>2 DEF rotate, isLocked, StartWriting, disk, Secrets!Submit
  <1> QED
    BY <1>1, <1>2, <1>3, <1>4, <1>5 DEF Call

LEMMA WriteRefines == IInv /\ WriteStep => AbstractStep
  <1> SUFFICES ASSUME IInv, WriteStep PROVE AbstractStep
    OBVIOUS
  <1> USE VaultAssumption DEF Secrets!Next, AbstractStep, Opener
  <1>1. CASE WriteTmp \/ OpenTmpFails \/ RenameFails
    BY <1>1 DEF WriteTmp, OpenTmpFails, RenameFails, disk
  <1>2. CASE RemoveOld
    \* While the keycheck is not there, the session's pair stands for it.
    BY <1>2 DEF RemoveOld, IInv, TypeOK, Shape, Progress, Session, Writers, Writing
  <1>3. CASE Rename
    <2>1. want \in Pair /\ op \in {"create", "rotate", "recover"}
      BY <1>3 DEF Rename, IInv, Shape, Writers, Writing
    <2>2. CASE file # "kc"
      BY <1>3, <2>2 DEF Rename
    <2>3. CASE file = "kc"
      <3>1. /\ kcFile = NoFile /\ kcFile' \in {want, Short} /\ wrote
            /\ UNCHANGED <<held, want, wrote>>
        BY <1>3, <2>3 DEF Rename, Written, IInv, Shape, Progress, Writers, Writing
      <3>2. CASE kcFile' = want
        <4>1. Secrets!Change
          BY <2>1, <3>1, <3>2 DEF Secrets!Change, Pair
        <4> QED
          BY <4>1
      <3>3. CASE kcFile' = Short
        BY <3>1, <3>3
      <3> QED
        BY <3>1, <3>2, <3>3
    <2> QED
      BY <2>2, <2>3
  <1> QED
    BY <1>1, <1>2, <1>3 DEF WriteStep

LEMMA KeyRefines == IInv /\ KeyStep => AbstractStep
  <1> SUFFICES ASSUME IInv, KeyStep PROVE AbstractStep
    OBVIOUS
  <1> USE VaultAssumption DEF Secrets!Next, AbstractStep, Opener
  <1>1. CASE adopt
    <2>1. /\ want \in Pair /\ wrote /\ op \in Writers
          /\ held' = want /\ UNCHANGED <<kcFile, want, wrote>>
      BY <1>1 DEF adopt, disk, IInv, Shape, Progress, Writers, Writing
    <2>2. CASE kcFile = want
      <3>1. Secrets!Open
        BY <2>1, <2>2 DEF Secrets!Open, Pair
      <3> QED
        BY <3>1
    <2>3. CASE kcFile = Short
      \* Nothing on disk opens the vault: session and opener change together.
      <3>1. Secrets!Change
        BY <2>1, <2>3 DEF Secrets!Change, Pair
      <3> QED
        BY <3>1
    <2> QED
      BY <1>1, <2>2, <2>3 DEF adopt, IInv, Progress
  <1>2. CASE onVaultUnlocked \/ onVaultUnlockedFails \/ rekey \/ rekeyFails
    BY <1>2 DEF onVaultUnlocked, onVaultUnlockedFails, rekey, rekeyFails, disk
  <1> QED
    BY <1>1, <1>2 DEF KeyStep

LEMMA OutsideRefines == IInv /\ (Restart \/ LoseConvenienceFile) => AbstractStep
  <1> SUFFICES ASSUME IInv, Restart \/ LoseConvenienceFile PROVE AbstractStep
    OBVIOUS
  <1> USE VaultAssumption DEF Secrets!Next, AbstractStep, Opener
  <1>1. CASE LoseConvenienceFile
    BY <1>1 DEF LoseConvenienceFile, job
  <1>2. CASE Restart /\ kcFile \in Pair
    <2>1. Secrets!Close
      BY <1>2 DEF Restart, disk, Secrets!Close
    <2> QED
      BY <2>1
  <1>3. CASE Restart /\ kcFile \notin Pair /\ held # NoPair
    <2>1. Secrets!Lose
      BY <1>3 DEF Restart, disk, Secrets!Lose, IInv, Session
    <2> QED
      BY <2>1
  <1>4. CASE Restart /\ kcFile \notin Pair /\ held = NoPair
    <2>1. Secrets!Close
      BY <1>4 DEF Restart, disk, Secrets!Close
    <2> QED
      BY <2>1
  <1> QED
    BY <1>1, <1>2, <1>3, <1>4

\* The vault with its files, crashes and failures implements the vault without
\* them: nobody changes it but a session that holds its pair, and then at once.
THEOREM Implements == Spec => IsSecretVault
  <1>1. Init => Secrets!Init
    BY VaultAssumption DEF Init, Secrets!Init
  <1>2. IInv /\ [Next]_vars => AbstractStep
    <2>1. IInv /\ UNCHANGED vars => AbstractStep
      BY DEF vars, AbstractStep, Opener
    <2> QED
      BY <2>1, CallRefines, WriteRefines, KeyRefines, OutsideRefines DEF Next
  <1>3. AbstractStep <=> [Secrets!Next]_<<Opener, held, want, wrote>>
    BY DEF AbstractStep
  <1> QED
    BY <1>1, <1>2, <1>3, VaultInvariant, PTL
    DEF Spec, IsSecretVault, Secrets!Spec, Opener
=============================================================================
