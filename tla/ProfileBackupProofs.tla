------------------------ MODULE ProfileBackupProofs ------------------------
(***************************************************************************)
(* Proofs about ProfileBackup, for any number of saves and crashes and any *)
(* set of failing operations: IInv is inductive, and the properties of the *)
(* runs follow from it.                                                    *)
(***************************************************************************)
EXTENDS ProfileBackup, TLAPS

USE FilesDistinct, BoundsNat

(* A process may find any list on the card, and any backup. *)
LEMMA InitInvariant == Init => IInv
<1> SUFFICES ASSUME Init PROVE IInv OBVIOUS
<1> USE DEF Init
<1>1. TypeOK
  <2>1. prim \in Files /\ good \in Files /\ 0 \in 0..MaxSaves /\ 0 \in 0..MaxCrashes
    BY DEF Files, Versions
  <2>2. failed \in SUBSET FaultSteps OBVIOUS
  <2> QED BY <2>1, <2>2 DEF TypeOK, Files
<1>2. FilesInv BY DEF FilesInv, CopyLabels, RenameLabels, BootLabels
<1>3. Accounted BY DEF Accounted, Versions
<1>4. NoGap BY DEF NoGap, Versions
<1>5. NoGapSeen BY DEF NoGapSeen, Versions
<1> QED BY <1>1, <1>2, <1>3, <1>4, <1>5 DEF IInv

(* recover_profile_bundle_if_needed and the first read. *)
LEMMA RecoverSteps == ASSUME IInv, Recover PROVE IInv'
<1> USE DEF IInv, files, flags, ghosts, bounds, Goto, Works, Nonempty, AtLeast,
        Files, Versions, BootLabels, CopyLabels, RenameLabels
<1>1. CASE RecoverCheck
  <2>1. TypeOK' BY <1>1 DEF RecoverCheck, TypeOK, FilesInv
  <2>2. FilesInv' BY <1>1 DEF RecoverCheck, TypeOK, FilesInv
  <2>3. Accounted' BY <1>1 DEF RecoverCheck, TypeOK, FilesInv, Accounted
  <2>4. NoGap' BY <1>1 DEF RecoverCheck, TypeOK, FilesInv, Accounted, NoGap
  <2>5. NoGapSeen' BY <1>1 DEF RecoverCheck, TypeOK, FilesInv, Accounted, NoGap, NoGapSeen
  <2> QED BY <2>1, <2>2, <2>3, <2>4, <2>5 DEF IInv
<1>2. CASE RecoverClear
  <2>1. TypeOK' BY <1>2 DEF RecoverClear, TypeOK, FilesInv
  <2>2. FilesInv' BY <1>2 DEF RecoverClear, TypeOK, FilesInv
  <2>3. Accounted' BY <1>2 DEF RecoverClear, TypeOK, FilesInv, Accounted
  <2>4. NoGap' BY <1>2 DEF RecoverClear, TypeOK, FilesInv, Accounted, NoGap
  <2>5. NoGapSeen' BY <1>2 DEF RecoverClear, TypeOK, FilesInv, Accounted, NoGap, NoGapSeen
  <2> QED BY <2>1, <2>2, <2>3, <2>4, <2>5 DEF IInv
<1>3. CASE RecoverOpen
  <2>1. TypeOK' BY <1>3 DEF RecoverOpen, TypeOK, FilesInv
  <2>2. FilesInv' BY <1>3 DEF RecoverOpen, TypeOK, FilesInv
  <2>3. Accounted' BY <1>3 DEF RecoverOpen, TypeOK, FilesInv, Accounted
  <2>4. NoGap' BY <1>3 DEF RecoverOpen, TypeOK, FilesInv, Accounted, NoGap
  <2>5. NoGapSeen' BY <1>3 DEF RecoverOpen, TypeOK, FilesInv, Accounted, NoGap, NoGapSeen
  <2> QED BY <2>1, <2>2, <2>3, <2>4, <2>5 DEF IInv
<1>4. CASE RecoverCopy
  <2>1. TypeOK'
    <3>1. failed' \in SUBSET FaultSteps BY <1>4 DEF RecoverCopy, Fail, TypeOK
    <3>2. UNCHANGED <<saves, crashes>> BY <1>4 DEF RecoverCopy, Fail
    <3> QED BY <1>4, <3>1, <3>2 DEF RecoverCopy, TypeOK, FilesInv
  <2>2. FilesInv' BY <1>4 DEF RecoverCopy, Fail, TypeOK, FilesInv
  <2>3. Accounted' BY <1>4 DEF RecoverCopy, Fail, TypeOK, FilesInv, Accounted
  <2>4. NoGap' BY <1>4 DEF RecoverCopy, Fail, TypeOK, FilesInv, Accounted, NoGap
  <2>5. NoGapSeen' BY <1>4 DEF RecoverCopy, Fail, TypeOK, FilesInv, Accounted, NoGap, NoGapSeen
  <2> QED BY <2>1, <2>2, <2>3, <2>4, <2>5 DEF IInv
<1>5. CASE RecoverRename
  <2>1. TypeOK'
    <3>1. failed' \in SUBSET FaultSteps BY <1>5 DEF RecoverRename, Fail, TypeOK
    <3>2. UNCHANGED <<saves, crashes>> BY <1>5 DEF RecoverRename, Fail
    <3> QED BY <1>5, <3>1, <3>2 DEF RecoverRename, TypeOK, FilesInv
  <2>2. FilesInv' BY <1>5 DEF RecoverRename, Fail, TypeOK, FilesInv
  <2>3. Accounted' BY <1>5 DEF RecoverRename, Fail, TypeOK, FilesInv, Accounted
  <2>4. NoGap' BY <1>5 DEF RecoverRename, Fail, TypeOK, FilesInv, Accounted, NoGap
  <2>5. NoGapSeen' BY <1>5 DEF RecoverRename, Fail, TypeOK, FilesInv, Accounted, NoGap, NoGapSeen
  <2> QED BY <2>1, <2>2, <2>3, <2>4, <2>5 DEF IInv
<1>6. CASE RecoverDone
  <2>1. TypeOK' BY <1>6 DEF RecoverDone, TypeOK, FilesInv
  <2>2. FilesInv' BY <1>6 DEF RecoverDone, TypeOK, FilesInv
  <2>3. Accounted' BY <1>6 DEF RecoverDone, TypeOK, FilesInv, Accounted
  <2>4. NoGap' BY <1>6 DEF RecoverDone, TypeOK, FilesInv, Accounted, NoGap
  <2>5. NoGapSeen' BY <1>6 DEF RecoverDone, TypeOK, FilesInv, Accounted, NoGap, NoGapSeen
  <2> QED BY <2>1, <2>2, <2>3, <2>4, <2>5 DEF IInv
<1>7. CASE Read
  <2>1. TypeOK' BY <1>7 DEF Read, TypeOK, FilesInv
  <2>2. FilesInv' BY <1>7 DEF Read, TypeOK, FilesInv
  <2>3. Accounted' BY <1>7 DEF Read, TypeOK, FilesInv, Accounted
  <2>4. NoGap' BY <1>7 DEF Read, TypeOK, FilesInv, Accounted, NoGap
  <2>5. NoGapSeen' BY <1>7 DEF Read, TypeOK, FilesInv, Accounted, NoGap, NoGapSeen
  <2> QED BY <2>1, <2>2, <2>3, <2>4, <2>5 DEF IInv
<1> QED BY <1>1, <1>2, <1>3, <1>4, <1>5, <1>6, <1>7 DEF Recover

(* backup_local_profiles_locked. *)
LEMMA BackupSteps == ASSUME IInv, Backup PROVE IInv'
<1> USE DEF IInv, files, flags, ghosts, bounds, Goto, Works, Nonempty, AtLeast,
        Files, Versions, BootLabels, CopyLabels, RenameLabels
<1>1. CASE BackupCheck
  <2>1. TypeOK' BY <1>1 DEF BackupCheck, TypeOK, FilesInv
  <2>2. FilesInv' BY <1>1 DEF BackupCheck, TypeOK, FilesInv
  <2>3. Accounted' BY <1>1 DEF BackupCheck, TypeOK, FilesInv, Accounted
  <2>4. NoGap' BY <1>1 DEF BackupCheck, TypeOK, FilesInv, Accounted, NoGap
  <2>5. NoGapSeen' BY <1>1 DEF BackupCheck, TypeOK, FilesInv, Accounted, NoGap, NoGapSeen
  <2> QED BY <2>1, <2>2, <2>3, <2>4, <2>5 DEF IInv
<1>2. CASE BackupClear
  <2>1. TypeOK' BY <1>2 DEF BackupClear, TypeOK, FilesInv
  <2>2. FilesInv' BY <1>2 DEF BackupClear, TypeOK, FilesInv
  <2>3. Accounted' BY <1>2 DEF BackupClear, TypeOK, FilesInv, Accounted
  <2>4. NoGap' BY <1>2 DEF BackupClear, TypeOK, FilesInv, Accounted, NoGap
  <2>5. NoGapSeen' BY <1>2 DEF BackupClear, TypeOK, FilesInv, Accounted, NoGap, NoGapSeen
  <2> QED BY <2>1, <2>2, <2>3, <2>4, <2>5 DEF IInv
<1>3. CASE BackupOpen
  <2>1. TypeOK'
    <3>1. failed' \in SUBSET FaultSteps BY <1>3 DEF BackupOpen, Fail, TypeOK
    <3>2. UNCHANGED <<saves, crashes>> BY <1>3 DEF BackupOpen, Fail
    <3> QED BY <1>3, <3>1, <3>2 DEF BackupOpen, TypeOK, FilesInv
  <2>2. FilesInv' BY <1>3 DEF BackupOpen, Fail, TypeOK, FilesInv
  <2>3. Accounted' BY <1>3 DEF BackupOpen, Fail, TypeOK, FilesInv, Accounted
  <2>4. NoGap' BY <1>3 DEF BackupOpen, Fail, TypeOK, FilesInv, Accounted, NoGap
  <2>5. NoGapSeen' BY <1>3 DEF BackupOpen, Fail, TypeOK, FilesInv, Accounted, NoGap, NoGapSeen
  <2> QED BY <2>1, <2>2, <2>3, <2>4, <2>5 DEF IInv
<1>4. CASE BackupCopy
  <2>1. TypeOK'
    <3>1. failed' \in SUBSET FaultSteps BY <1>4 DEF BackupCopy, Fail, TypeOK
    <3>2. UNCHANGED <<saves, crashes>> BY <1>4 DEF BackupCopy, Fail
    <3> QED BY <1>4, <3>1, <3>2 DEF BackupCopy, TypeOK, FilesInv
  <2>2. FilesInv' BY <1>4 DEF BackupCopy, Fail, TypeOK, FilesInv
  <2>3. Accounted' BY <1>4 DEF BackupCopy, Fail, TypeOK, FilesInv, Accounted
  <2>4. NoGap' BY <1>4 DEF BackupCopy, Fail, TypeOK, FilesInv, Accounted, NoGap
  <2>5. NoGapSeen' BY <1>4 DEF BackupCopy, Fail, TypeOK, FilesInv, Accounted, NoGap, NoGapSeen
  <2> QED BY <2>1, <2>2, <2>3, <2>4, <2>5 DEF IInv
<1>5. CASE BackupDrop
  <2>1. TypeOK' BY <1>5 DEF BackupDrop, TypeOK, FilesInv
  <2>2. FilesInv' BY <1>5 DEF BackupDrop, TypeOK, FilesInv
  <2>3. Accounted' BY <1>5 DEF BackupDrop, TypeOK, FilesInv, Accounted
  <2>4. NoGap' BY <1>5 DEF BackupDrop, TypeOK, FilesInv, Accounted, NoGap
  <2>5. NoGapSeen' BY <1>5 DEF BackupDrop, TypeOK, FilesInv, Accounted, NoGap, NoGapSeen
  <2> QED BY <2>1, <2>2, <2>3, <2>4, <2>5 DEF IInv
<1>6. CASE BackupRename
  <2>1. TypeOK'
    <3>1. failed' \in SUBSET FaultSteps BY <1>6 DEF BackupRename, Fail, TypeOK
    <3>2. UNCHANGED <<saves, crashes>> BY <1>6 DEF BackupRename, Fail
    <3>3. good' \in Files /\ goodTmp' \in Files /\ saved' \in BOOLEAN
      BY <1>6 DEF BackupRename, TypeOK
    <3>4. UNCHANGED <<prim, recTmp, gameTmp, recovered, start, peek>> /\ pc' = "ren"
      BY <1>6 DEF BackupRename
    <3> QED BY <3>1, <3>2, <3>3, <3>4 DEF TypeOK
  <2>2. FilesInv' BY <1>6 DEF BackupRename, Fail, TypeOK, FilesInv
  <2>3. Accounted' BY <1>6 DEF BackupRename, Fail, TypeOK, FilesInv, Accounted
  <2>4. NoGap' BY <1>6 DEF BackupRename, Fail, TypeOK, FilesInv, Accounted, NoGap
  <2>5. NoGapSeen' BY <1>6 DEF BackupRename, Fail, TypeOK, FilesInv, Accounted, NoGap, NoGapSeen
  <2> QED BY <2>1, <2>2, <2>3, <2>4, <2>5 DEF IInv
<1> QED BY <1>1, <1>2, <1>3, <1>4, <1>5, <1>6 DEF Backup

(* The save and rename_fake. *)
LEMMA ReplaceSteps == ASSUME IInv, Replace PROVE IInv'
<1> USE DEF IInv, files, flags, ghosts, bounds, Goto, Works, Nonempty, AtLeast,
        Files, Versions, BootLabels, CopyLabels, RenameLabels
<1>1. CASE WriteTmp
  <2>1. TypeOK' BY <1>1 DEF WriteTmp, TypeOK, FilesInv
  <2>2. FilesInv' BY <1>1 DEF WriteTmp, TypeOK, FilesInv
  <2>3. Accounted' BY <1>1 DEF WriteTmp, TypeOK, FilesInv, Accounted
  <2>4. NoGap' BY <1>1 DEF WriteTmp, TypeOK, FilesInv, Accounted, NoGap
  <2>5. NoGapSeen' BY <1>1 DEF WriteTmp, TypeOK, FilesInv, Accounted, NoGap, NoGapSeen
  <2> QED BY <2>1, <2>2, <2>3, <2>4, <2>5 DEF IInv
<1>2. CASE CloseTmp
  <2>1. TypeOK'
    <3>1. saves' \in 0..MaxSaves BY <1>2 DEF CloseTmp, TypeOK, FilesInv
    <3> QED BY <1>2, <3>1 DEF CloseTmp, TypeOK, FilesInv
  <2>2. FilesInv' BY <1>2 DEF CloseTmp, TypeOK, FilesInv
  <2>3. Accounted' BY <1>2 DEF CloseTmp, TypeOK, FilesInv, Accounted
  <2>4. NoGap' BY <1>2 DEF CloseTmp, TypeOK, FilesInv, Accounted, NoGap
  <2>5. NoGapSeen' BY <1>2 DEF CloseTmp, TypeOK, FilesInv, Accounted, NoGap, NoGapSeen
  <2> QED BY <2>1, <2>2, <2>3, <2>4, <2>5 DEF IInv
<1>3. CASE Rename
  <2>1. TypeOK'
    <3>1. failed' \in SUBSET FaultSteps BY <1>3 DEF Rename, Fail, TypeOK
    <3>2. UNCHANGED <<saves, crashes>> BY <1>3 DEF Rename, Fail
    <3> QED BY <1>3, <3>1, <3>2 DEF Rename, TypeOK, FilesInv
  <2>2. FilesInv' BY <1>3 DEF Rename, Fail, TypeOK, FilesInv
  <2>3. Accounted'
    <3>1. CASE prim = NoFile /\ prim' = gameTmp /\ pc' = "play" /\ UNCHANGED failed
      BY <1>3, <3>1 DEF Rename, TypeOK, FilesInv, Accounted
    <3>2. CASE UNCHANGED prim /\ pc' = "ren_rm"
      <4>1. failed \subseteq failed' BY <1>3 DEF Rename, Fail
      <4>2. UNCHANGED <<good, saved, start>> BY <1>3 DEF Rename
      <4> QED BY <1>3, <3>2, <4>1, <4>2 DEF Rename, Accounted
    <3> QED BY <1>3, <3>1, <3>2 DEF Rename
  <2>4. NoGap' BY <1>3 DEF Rename, Fail, TypeOK, FilesInv, Accounted, NoGap
  <2>5. NoGapSeen' BY <1>3 DEF Rename, Fail, TypeOK, FilesInv, Accounted, NoGap, NoGapSeen
  <2> QED BY <2>1, <2>2, <2>3, <2>4, <2>5 DEF IInv
<1>4. CASE RenameRemove
  <2>1. TypeOK'
    <3>1. failed' \in SUBSET FaultSteps BY <1>4 DEF RenameRemove, Fail, TypeOK
    <3>2. UNCHANGED <<saves, crashes>> BY <1>4 DEF RenameRemove, Fail
    <3> QED BY <1>4, <3>1, <3>2 DEF RenameRemove, TypeOK, FilesInv
  <2>2. FilesInv' BY <1>4 DEF RenameRemove, Fail, TypeOK, FilesInv
  <2>3. Accounted' BY <1>4 DEF RenameRemove, Fail, TypeOK, FilesInv, Accounted
  <2>4. NoGap' BY <1>4 DEF RenameRemove, Fail, TypeOK, FilesInv, Accounted, NoGap
  <2>5. NoGapSeen' BY <1>4 DEF RenameRemove, Fail, TypeOK, FilesInv, Accounted, NoGap, NoGapSeen
  <2> QED BY <2>1, <2>2, <2>3, <2>4, <2>5 DEF IInv
<1>5. CASE RenameAgain
  <2>1. TypeOK'
    <3>1. failed' \in SUBSET FaultSteps BY <1>5 DEF RenameAgain, Fail, TypeOK
    <3>2. UNCHANGED <<saves, crashes>> BY <1>5 DEF RenameAgain, Fail
    <3> QED BY <1>5, <3>1, <3>2 DEF RenameAgain, TypeOK, FilesInv
  <2>2. FilesInv' BY <1>5 DEF RenameAgain, Fail, TypeOK, FilesInv
  <2>3. Accounted' BY <1>5 DEF RenameAgain, Fail, TypeOK, FilesInv, Accounted
  <2>4. NoGap' BY <1>5 DEF RenameAgain, Fail, TypeOK, FilesInv, Accounted, NoGap
  <2>5. NoGapSeen' BY <1>5 DEF RenameAgain, Fail, TypeOK, FilesInv, Accounted, NoGap, NoGapSeen
  <2> QED BY <2>1, <2>2, <2>3, <2>4, <2>5 DEF IInv
<1> QED BY <1>1, <1>2, <1>3, <1>4, <1>5 DEF Replace

(* Another thread looks, or the process dies. *)
LEMMA OtherSteps == ASSUME IInv, Peek \/ Crash PROVE IInv'
<1> USE DEF IInv, files, flags, ghosts, bounds, Goto, Works, Nonempty, AtLeast,
        Files, Versions, BootLabels, CopyLabels, RenameLabels
<1>1. CASE Peek
  <2>1. TypeOK' BY <1>1 DEF Peek, Locked, TypeOK, FilesInv
  <2>2. FilesInv' BY <1>1 DEF Peek, Locked, TypeOK, FilesInv
  <2>3. Accounted' BY <1>1 DEF Peek, Locked, TypeOK, FilesInv, Accounted
  <2>4. NoGap' BY <1>1 DEF Peek, Locked, TypeOK, FilesInv, Accounted, NoGap
  <2>5. NoGapSeen' BY <1>1 DEF Peek, Locked, TypeOK, FilesInv, Accounted, NoGap, NoGapSeen
  <2> QED BY <2>1, <2>2, <2>3, <2>4, <2>5 DEF IInv
<1>2. CASE Crash
  <2>1. TypeOK'
    <3>1. crashes' \in 0..MaxCrashes BY <1>2 DEF Crash, TypeOK
    <3>2. failed' \in SUBSET FaultSteps /\ saves' \in 0..MaxSaves BY <1>2 DEF Crash, TypeOK
    <3>3. saved' \in BOOLEAN /\ recovered' \in BOOLEAN /\ peek' \in Files BY <1>2 DEF Crash
    <3>4. UNCHANGED <<prim, good, goodTmp, recTmp, gameTmp, start>> BY <1>2 DEF Crash
    <3>5. pc' = "boot" BY <1>2 DEF Crash
    <3> QED BY <3>1, <3>2, <3>3, <3>4, <3>5 DEF TypeOK
  <2>2. FilesInv' BY <1>2 DEF Crash, TypeOK, FilesInv
  <2>3. Accounted' BY <1>2 DEF Crash, TypeOK, FilesInv, Accounted
  <2>4. NoGap' BY <1>2 DEF Crash, TypeOK, FilesInv, Accounted, NoGap
  <2>5. NoGapSeen' BY <1>2 DEF Crash, TypeOK, FilesInv, Accounted, NoGap, NoGapSeen
  <2> QED BY <2>1, <2>2, <2>3, <2>4, <2>5 DEF IInv
<1> QED BY <1>1, <1>2

(* Every step preserves the invariant. *)
LEMMA NextInvariant == IInv /\ [Next]_vars => IInv'
<1> SUFFICES ASSUME IInv, [Next]_vars PROVE IInv' OBVIOUS
<1>1. CASE Next BY <1>1, RecoverSteps, BackupSteps, ReplaceSteps, OtherSteps DEF Next
<1>2. CASE UNCHANGED vars
  BY <1>2 DEF vars, files, flags, ghosts, bounds, IInv, TypeOK, FilesInv,
     Accounted, NoGap, NoGapSeen, Nonempty, AtLeast, Versions, Files,
     BootLabels, CopyLabels, RenameLabels
<1> QED BY <1>1, <1>2

(* The invariant holds of every run. *)
THEOREM Invariance == Spec => []IInv
<1> QED BY InitInvariant, NextInvariant, PTL DEF Spec

(* The list and its backup are always whole files. *)
THEOREM ListsWhole == Spec => []NeverTorn
<1>1. IInv => NeverTorn BY DEF IInv, FilesInv, NeverTorn
<1> QED BY <1>1, Invariance, PTL

(* Until a backup copy fails, what the process began with is in the list or *)
(* in its backup, at every instant and across every crash.                  *)
THEOREM StartPreserved == Spec => []PreservedUnlessCopyFails
<1>1. IInv => PreservedUnlessCopyFails
  BY DEF IInv, TypeOK, FilesInv, Accounted, PreservedUnlessCopyFails,
     PreservedFromStart, AtLeast, Versions
<1> QED BY <1>1, Invariance, PTL

(* The next process starts from a list no older than the last one did. *)
THEOREM NeverOlder == Spec => NoRollback
<1>1. IInv /\ [Next]_vars =>
        [Read /\ failed \cap {"copy", "recover"} = {} /\ start \in Versions =>
           AtLeast(prim, start)]_vars
  BY DEF IInv, TypeOK, FilesInv, Accounted, Read, Nonempty, AtLeast, Versions, BootLabels
<1> QED BY <1>1, Invariance, PTL DEF Spec, NoRollback

(* The two renames are one step to every other thread. *)
THEOREM GapHidden == Spec => []NoGapSeen
<1>1. IInv => NoGapSeen BY DEF IInv
<1> QED BY <1>1, Invariance, PTL

(* List and backup are whole, and their gap is hidden from the readers.     *)
THEOREM ListIsSound == Spec => []ListSound
BY Invariance, ListsWhole, GapHidden, PTL DEF ListSound
=============================================================================
