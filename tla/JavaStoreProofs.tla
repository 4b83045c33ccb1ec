-------------------------- MODULE JavaStoreProofs --------------------------
(***************************************************************************)
(* Proofs about JavaStore, for any keys, values, bounds and set of failing *)
(* operations.  IInv is inductive: every step of a save keeps the file the *)
(* loader reads whole, and accounts for where the last committed snapshot  *)
(* is.                                                                     *)
(***************************************************************************)
EXTENDS JavaStore, TLAPS

USE KeysDistinct, ValuesDistinct, FilesDistinct, BoundsNat

(* Every file the program starts from is a map that fits. *)
LEMMA HistoricIsMap == HistoricFile \in Maps /\ Fits(HistoricFile) /\ Empty \in Maps
BY DEF HistoricFile, Maps, Fits, Empty, Keys

(* A setter stays inside the stores' domain. *)
LEMMA MapChange ==
  ASSUME NEW m \in Maps, NEW k \in Keys, NEW v \in Values \cup {Absent}
  PROVE  [m EXCEPT ![k] = v] \in Maps
BY DEF Maps

(* A setter keeps memory, the unsaved keys and the counter in their domains. *)
LEMMA ChangeTypes ==
  ASSUME TypeOK, NEW k \in Keys, NEW v \in Values \cup {Absent}, Change(k, v)
  PROVE  mem' \in Maps /\ unsaved' \in SUBSET Keys /\ sets' \in 0..MaxSets
<1>1. mem' \in Maps BY MapChange DEF Change, TypeOK
<1>2. unsaved' \in SUBSET Keys BY DEF Change, TypeOK
<1>3. sets' \in 0..MaxSets BY DEF Change, TypeOK
<1> QED BY <1>1, <1>2, <1>3

(* The stores begin empty and unloaded, beside a whole file or none. *)
LEMMA InitInvariant == Init => IInv
<1> SUFFICES ASSUME Init PROVE IInv OBVIOUS
<1> USE HistoricIsMap DEF Init
<1>1. TypeOK
  <2>1. mem \in Maps /\ blob \in Maps /\ prim \in Files /\ tmp \in Files /\ durable \in Files
    BY DEF Files
  <2>2. unsaved \in SUBSET Keys OBVIOUS
  <2>3. sets \in 0..MaxSets /\ crashes \in 0..MaxCrashes /\ faults \in 0..MaxFaults
    OBVIOUS
  <2> QED BY <2>1, <2>2, <2>3 DEF TypeOK, Callers
<1>2. NeverTorn BY DEF NeverTorn
<1>3. PendingHasRetry BY DEF PendingHasRetry
<1>4. SnapshotReady BY DEF SnapshotReady
<1>5. AllFits BY DEF AllFits, Saving
<1>6. InPlace BY DEF InPlace
<1> QED BY <1>1, <1>2, <1>3, <1>4, <1>5, <1>6 DEF IInv

(* A step that leaves the files, the save and the ghosts alone, and does    *)
(* not disarm a timer, keeps everything but the types to check.             *)
LEMMA FilesUntouched ==
  ASSUME IInv, TypeOK', UNCHANGED <<prim, tmp, pc, blob, durable, cut>>,
         PendingHasRetry'
  PROVE  IInv'
BY DEF IInv, NeverTorn, SnapshotReady, AllFits, InPlace, Fits, Saving

(* The arming of a save, from a point where none is running. *)
LEMMA SaveStarts ==
  ASSUME IInv, TypeOK', pc \in {"run", "migrate", "backfill"},
         NEW who, NEW m, StartSave(who, m),
         UNCHANGED <<prim, tmp, durable, cut>>, PendingHasRetry'
  PROVE  IInv'
<1>1. NeverTorn' BY DEF IInv, NeverTorn
<1>2. SnapshotReady' BY DEF StartSave, AfterSave, SnapshotReady
<1>3. AllFits' BY DEF IInv, StartSave, AfterSave, AllFits, Fits, Saving
<1>4. InPlace' BY DEF IInv, StartSave, AfterSave, InPlace
<1> QED BY <1>1, <1>2, <1>3, <1>4 DEF IInv

(* Loading, whole or in part, touches no file and preserves the invariant. *)
LEMMA LoadStep == ASSUME IInv, Load \/ LoadFails PROVE IInv'
<1> USE HistoricIsMap DEF memVars, timerVars, diskVars, ghostVars, boundVars
<1>1. CASE Load
  <2>1. TypeOK' BY <1>1 DEF Load, Accepted, NoFault, IInv, TypeOK
  <2>2. NeverTorn' /\ PendingHasRetry' /\ SnapshotReady' /\ AllFits' /\ InPlace'
    BY <1>1 DEF Load, NoFault, IInv, NeverTorn, PendingHasRetry, SnapshotReady,
       AllFits, InPlace, Fits, Saving
  <2> QED BY <2>1, <2>2 DEF IInv
<1>2. CASE LoadFails
  <2>1. mem' \in Maps
    BY <1>2 DEF LoadFails, Accepted, IInv, TypeOK, Maps
  <2>2. TypeOK' BY <1>2, <2>1 DEF LoadFails, Fail, MayFail, IInv, TypeOK
  <2>3. PendingHasRetry' BY <1>2 DEF LoadFails, IInv, PendingHasRetry
  <2> QED BY <1>2, <2>2, <2>3, FilesUntouched DEF LoadFails
<1> QED BY <1>1, <1>2

(* java_store_save, one file operation after another. *)
LEMMA SaveSteps == ASSUME IInv, SaveStep PROVE IInv'
<1> USE DEF memVars, timerVars, diskVars, ghostVars, boundVars, Saving, Files,
        NoFault, Fail, MayFail
<1>1. CASE SaveOpen
  <2>1. TypeOK' BY <1>1 DEF SaveOpen, IInv, TypeOK
  <2>2. NeverTorn' /\ PendingHasRetry' /\ SnapshotReady' /\ AllFits' /\ InPlace'
    BY <1>1 DEF SaveOpen, IInv, NeverTorn, PendingHasRetry, SnapshotReady,
       AllFits, InPlace, Fits
  <2> QED BY <2>1, <2>2 DEF IInv
<1>2. CASE SaveWrite
  <2>1. TypeOK' BY <1>2 DEF SaveWrite, IInv, TypeOK
  <2>2. NeverTorn' /\ PendingHasRetry' /\ SnapshotReady' /\ AllFits' /\ InPlace'
    BY <1>2 DEF SaveWrite, IInv, NeverTorn, PendingHasRetry, SnapshotReady,
       AllFits, InPlace, Fits
  <2> QED BY <2>1, <2>2 DEF IInv
<1>3. ASSUME Commit, UNCHANGED <<memVars, leaving, caller, blob, boundVars>>,
             pc \in {"s_rename", "s_again"}
      PROVE  IInv'
  <2>1. tmp = blob /\ blob \in Maps /\ Fits(blob)
    BY <1>3 DEF IInv, SnapshotReady, AllFits, TypeOK
  <2>2. TypeOK' BY <1>3, <2>1 DEF Commit, AfterSave, IInv, TypeOK
  <2>3. NeverTorn' /\ InPlace' BY <1>3, <2>1 DEF Commit, NeverTorn, InPlace
  <2>4. PendingHasRetry' BY <1>3 DEF Commit, PendingHasRetry
  <2>5. SnapshotReady' /\ AllFits'
    BY <1>3, <2>1 DEF Commit, AfterSave, SnapshotReady, AllFits, Fits
  <2> QED BY <2>2, <2>3, <2>4, <2>5 DEF IInv
<1>4. CASE SaveRename
  <2>1. CASE pc' = "s_remove"
    <3>1. UNCHANGED <<memVars, timerVars, diskVars, ghostVars, leaving, caller, blob>>
      BY <1>4, <2>1 DEF SaveRename, Commit, AfterSave
    <3>2. TypeOK' BY <1>4, <2>1, <3>1 DEF SaveRename, Commit, AfterSave, IInv, TypeOK
    <3>3. NeverTorn' /\ PendingHasRetry' /\ SnapshotReady' /\ AllFits' /\ InPlace'
      BY <1>4, <2>1, <3>1 DEF SaveRename, IInv, NeverTorn, PendingHasRetry,
         SnapshotReady, AllFits, InPlace, Fits
    <3> QED BY <3>2, <3>3 DEF IInv
  <2>2. CASE pc' # "s_remove" BY <1>3, <1>4, <2>2 DEF SaveRename
  <2> QED BY <2>1, <2>2
<1>5. CASE SaveRemove
  <2>1. TypeOK' BY <1>5 DEF SaveRemove, IInv, TypeOK
  <2>2. NeverTorn' /\ PendingHasRetry' /\ SnapshotReady' /\ AllFits' /\ InPlace'
    BY <1>5 DEF SaveRemove, IInv, NeverTorn, PendingHasRetry, SnapshotReady,
       AllFits, InPlace, Fits
  <2> QED BY <2>1, <2>2 DEF IInv
<1>6. CASE SaveRenameAgain
  <2>1. CASE pc' = "s_unlink"
    <3>1. /\ UNCHANGED <<memVars, timerVars, diskVars, durable, unsaved,
                         leaving, caller, blob>>
          /\ cut' = (prim = NoFile)
      BY <1>6, <2>1 DEF SaveRenameAgain, Commit, AfterSave
    <3>2. TypeOK' BY <1>6, <2>1, <3>1 DEF SaveRenameAgain, Commit, AfterSave, IInv, TypeOK
    <3>3. NeverTorn' /\ PendingHasRetry' /\ SnapshotReady' /\ AllFits' /\ InPlace'
      BY <1>6, <2>1, <3>1 DEF SaveRenameAgain, IInv, NeverTorn, PendingHasRetry,
         SnapshotReady, AllFits, InPlace, Fits
    <3> QED BY <3>2, <3>3 DEF IInv
  <2>2. CASE pc' # "s_unlink" BY <1>3, <1>6, <2>2 DEF SaveRenameAgain
  <2> QED BY <2>1, <2>2
<1>7. CASE SaveUnlink
  <2>1. TypeOK' BY <1>7 DEF SaveUnlink, AfterSave, IInv, TypeOK
  <2>2. NeverTorn' /\ PendingHasRetry' /\ SnapshotReady' /\ AllFits' /\ InPlace'
    BY <1>7 DEF SaveUnlink, AfterSave, IInv, NeverTorn, PendingHasRetry,
       SnapshotReady, AllFits, InPlace, Fits
  <2> QED BY <2>1, <2>2 DEF IInv
<1> QED BY <1>1, <1>2, <1>4, <1>5, <1>6, <1>7 DEF SaveStep

(* What follows a load, and the setters: memory changes, then perhaps a     *)
(* save is armed.                                                           *)
LEMMA ChangeSteps ==
  ASSUME IInv,
         \/ Migrate \/ Backfill
         \/ \E k \in Keys, v \in Values : SetProperty(k, v) \/ SetString(k, v)
         \/ \E k \in Keys, v \in Values \cup {Absent} : SetNimble(k, v)
  PROVE  IInv'
<1> USE DEF memVars, timerVars, diskVars, ghostVars, boundVars
<1>1. CASE Migrate
  <2>1. mem' \in Maps BY <1>1 DEF Migrate, IInv, TypeOK, Maps
  <2>2. TypeOK' BY <1>1, <2>1 DEF Migrate, StartSave, AfterSave, IInv, TypeOK,
                                  Saving, Callers
  <2>3. PendingHasRetry' BY <1>1 DEF Migrate, IInv, PendingHasRetry
  <2>4. CASE mem[Pcpid] = Legacy
    BY <1>1, <2>2, <2>3, <2>4, SaveStarts DEF Migrate
  <2>5. CASE mem[Pcpid] # Legacy
    BY <1>1, <2>2, <2>3, <2>5 DEF Migrate, IInv, NeverTorn, SnapshotReady,
       AllFits, InPlace, Fits, Saving
  <2> QED BY <2>4, <2>5
<1>2. CASE Backfill
  <2>1. mem' \in Maps BY <1>2 DEF Backfill, IInv, TypeOK, Maps
  <2>2. TypeOK' BY <1>2, <2>1 DEF Backfill, StartSave, AfterSave, IInv, TypeOK,
                                  Saving, Callers
  <2>3. PendingHasRetry' BY <1>2 DEF Backfill, IInv, PendingHasRetry
  <2>4. CASE mem[Age] # Absent /\ mem[AgeUp] = Absent
    BY <1>2, <2>2, <2>3, <2>4, SaveStarts DEF Backfill
  <2>5. CASE ~(mem[Age] # Absent /\ mem[AgeUp] = Absent)
    BY <1>2, <2>2, <2>3, <2>5 DEF Backfill, IInv, NeverTorn, SnapshotReady,
       AllFits, InPlace, Fits, Saving
  <2> QED BY <2>4, <2>5
<1>3. ASSUME NEW k \in Keys, NEW v \in Values, SetProperty(k, v) PROVE IInv'
  <2>1. mem' \in Maps /\ unsaved' \in SUBSET Keys /\ sets' \in 0..MaxSets
    BY <1>3, ChangeTypes DEF SetProperty, IInv
  <2>2. TypeOK' BY <1>3, <2>1 DEF SetProperty, Change, StartSave, AfterSave,
                                  IInv, TypeOK, Saving, Callers
  <2>3. PendingHasRetry' BY <1>3 DEF SetProperty, Change, IInv, PendingHasRetry
  <2> QED BY <1>3, <2>2, <2>3, SaveStarts DEF SetProperty, Change
<1>4. ASSUME NEW k \in Keys, NEW v \in Values, SetString(k, v) PROVE IInv'
  <2>1. mem' \in Maps /\ unsaved' \in SUBSET Keys /\ sets' \in 0..MaxSets
    BY <1>4, ChangeTypes DEF SetString, IInv
  <2>2. TypeOK' BY <1>4, <2>1 DEF SetString, Change, IInv, TypeOK
  <2>3. PendingHasRetry' BY <1>4 DEF SetString, Change, IInv, PendingHasRetry
  <2> QED BY <1>4, <2>2, <2>3, FilesUntouched DEF SetString, Change
<1>5. ASSUME NEW k \in Keys, NEW v \in Values \cup {Absent}, SetNimble(k, v)
      PROVE IInv'
  <2>1. mem' \in Maps /\ unsaved' \in SUBSET Keys /\ sets' \in 0..MaxSets
    BY <1>5, ChangeTypes DEF SetNimble, IInv
  <2>2. TypeOK' BY <1>5, <2>1 DEF SetNimble, Change, IInv, TypeOK
  <2>3. PendingHasRetry' BY <1>5 DEF SetNimble, Change, IInv, PendingHasRetry
  <2> QED BY <1>5, <2>2, <2>3, FilesUntouched DEF SetNimble, Change
<1> QED BY <1>1, <1>2, <1>3, <1>4, <1>5

(* The pumps, the exit and the restarts. *)
LEMMA LoopSteps ==
  ASSUME IInv,
         \/ TimerPasses \/ PumpDeferred \/ PumpNimble \/ Synchronize
         \/ Exit \/ Restart \/ Crash
  PROVE  IInv'
<1> USE DEF memVars, timerVars, diskVars, ghostVars, boundVars
<1>1. CASE TimerPasses
  <2>1. TypeOK' BY <1>1 DEF TimerPasses, IInv, TypeOK
  <2>2. PendingHasRetry' BY <1>1 DEF TimerPasses, IInv, PendingHasRetry
  <2> QED BY <1>1, <2>1, <2>2, FilesUntouched DEF TimerPasses
<1>2. ASSUME NEW who \in Callers, Save(who), leaving' \in BOOLEAN PROVE IInv'
  <2>1. TypeOK' BY <1>2 DEF Save, StartSave, AfterSave, IInv, TypeOK, Saving
  <2>2. PendingHasRetry' BY <1>2 DEF Save, IInv, PendingHasRetry
  <2> QED BY <1>2, <2>1, <2>2, SaveStarts DEF Save
<1>3. CASE PumpDeferred \/ PumpNimble \/ Synchronize
  BY <1>2, <1>3 DEF PumpDeferred, PumpNimble, Synchronize, Callers, IInv, TypeOK
<1>4. CASE Exit
  <2>1. CASE dirty BY <1>2, <1>4, <2>1 DEF Exit, Callers
  <2>2. CASE ~dirty
    <3>1. TypeOK' BY <1>4, <2>2 DEF Exit, IInv, TypeOK
    <3>2. PendingHasRetry' BY <1>4, <2>2 DEF Exit, IInv, PendingHasRetry
    <3> QED BY <1>4, <2>2, <3>1, <3>2, FilesUntouched DEF Exit
  <2> QED BY <2>1, <2>2
<1>5. CASE Restart \/ Crash
  <2>1. Boot BY <1>5 DEF Restart, Crash
  <2>2. crashes' \in 0..MaxCrashes BY <1>5 DEF Restart, Crash, IInv, TypeOK
  <2>3. TypeOK' BY <2>1, <2>2, HistoricIsMap DEF Boot, IInv, TypeOK, Callers
  <2>4. PendingHasRetry' BY <2>1 DEF Boot, PendingHasRetry
  <2>5. NeverTorn' /\ SnapshotReady' /\ AllFits' /\ InPlace'
    BY <2>1 DEF Boot, IInv, NeverTorn, SnapshotReady, AllFits, InPlace, Fits, Saving
  <2> QED BY <2>3, <2>4, <2>5 DEF IInv
<1> QED BY <1>1, <1>3, <1>4, <1>5

(* Every step of the stores preserves the invariant. *)
LEMMA NextInvariant == IInv /\ [Next]_vars => IInv'
<1> SUFFICES ASSUME IInv, [Next]_vars PROVE IInv' OBVIOUS
<1>1. CASE Next BY <1>1, LoadStep, SaveSteps, ChangeSteps, LoopSteps DEF Next
<1>2. CASE UNCHANGED vars
  BY <1>2 DEF vars, memVars, timerVars, diskVars, ghostVars, boundVars, IInv,
     TypeOK, NeverTorn, PendingHasRetry, SnapshotReady, AllFits, InPlace, Fits
<1> QED BY <1>1, <1>2

(* The invariant holds of every run of the stores. *)
THEOREM Invariance == Spec => []IInv
<1> QED BY InitInvariant, NextInvariant, PTL DEF Spec

(* Wherever a save is cut or fails, the file the loader reads is whole.     *)
THEOREM FileWhole == Spec => []NeverTorn
<1>1. IInv => NeverTorn BY DEF IInv
<1> QED BY <1>1, Invariance, PTL

(* A failed save of the string store or of Nimble's keeps its timer armed.  *)
THEOREM RetryArmed == Spec => []PendingHasRetry
<1>1. IInv => PendingHasRetry BY DEF IInv
<1> QED BY <1>1, Invariance, PTL

(* The old file is removed only beside the complete new one. *)
THEOREM CopyKept == Spec => OnlyCopyKept
<1>1. IInv /\ [Next]_vars =>
        [(prim \in Maps) => (prim' \in Maps \/ tmp' \in Maps)]_vars
  <2> SUFFICES ASSUME IInv, Next, prim \in Maps
               PROVE  prim' \in Maps \/ tmp' \in Maps OBVIOUS
  <2> USE DEF timerVars, diskVars, ghostVars
  <2>1. CASE SaveStep
    BY <2>1 DEF SaveStep, SaveOpen, SaveWrite, SaveRename, SaveRemove,
       SaveRenameAgain, SaveUnlink, Commit, IInv, SnapshotReady, TypeOK
  <2>2. CASE ~SaveStep
    BY <2>2 DEF Next, Load, LoadFails, Migrate, Backfill, SetProperty, SetString,
       SetNimble, Change, TimerPasses, PumpDeferred, PumpNimble, Synchronize,
       Save, Exit, Restart, Crash, Boot
  <2> QED BY <2>1, <2>2
<1> QED BY <1>1, Invariance, PTL DEF Spec, OnlyCopyKept

(* When the loader takes every value that a save lets through, a process    *)
(* loads the last committed snapshot, unless the one before it was cut      *)
(* between the removal and the second rename.                               *)
THEOREM Durability == ASSUME TooLong = Huge PROVE Spec => CommittedUnlessCut
<1>1. IInv /\ [Next]_vars => [Load /\ ~cut => mem' = AsMap(durable)]_vars
  <2> SUFFICES ASSUME IInv, Load, ~cut PROVE mem' = AsMap(durable) OBVIOUS
  <2>1. prim = durable BY DEF IInv, InPlace, Load
  <2>2. CASE prim = NoFile
    BY <2>1, <2>2 DEF Load, Accepted, AsMap
  <2>3. CASE prim # NoFile
    <3>1. prim \in Maps BY <2>3 DEF IInv, TypeOK, Files, NeverTorn
    <3>2. Accepted(prim) BY <2>1, <3>1 DEF IInv, AllFits, Fits, Accepted
    <3> QED BY <2>1, <2>3, <3>2 DEF Load, AsMap
  <2> QED BY <2>2, <2>3
<1> QED BY <1>1, Invariance, PTL DEF Spec, CommittedUnlessCut

(* The file is whole and every unsaved change has its retry, through any    *)
(* failures and crashes.                                                    *)
THEOREM StoreIsSound == Spec => []StoreSound
BY Invariance, FileWhole, RetryArmed, PTL DEF StoreSound
=============================================================================
