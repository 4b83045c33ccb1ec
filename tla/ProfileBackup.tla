---------------------------- MODULE ProfileBackup ----------------------------
(***************************************************************************)
(* The player's profile list, local_profiles, as source/libc_shim.c keeps  *)
(* it: the game writes a temporary file and renames it over the old list,  *)
(* rename_fake first copies the list that the process started from to      *)
(* local_profiles.lastgood, and the first read of a process restores that  *)
(* copy when the list is missing.  A crash may come between any two file   *)
(* operations, and the operations in FaultSteps may fail.                  *)
(*                                                                         *)
(* A file is NoFile, Hollow (it exists but is empty), Torn (written in     *)
(* part), or the number of the save it holds.                              *)
(***************************************************************************)
EXTENDS Naturals

CONSTANTS
  NoFile, Hollow, Torn,
  FaultSteps,                        \* the operations that may fail
  MaxSaves, MaxCrashes               \* bounds

Versions == 0..MaxSaves
Files == Versions \cup {NoFile, Hollow, Torn}

ASSUME FilesDistinct ==
  /\ NoFile # Hollow /\ NoFile # Torn /\ Hollow # Torn
  /\ {NoFile, Hollow, Torn} \cap Nat = {}
ASSUME BoundsNat == MaxSaves \in Nat /\ MaxCrashes \in Nat

VARIABLES
  prim,          \* local_profiles
  good, goodTmp, \* local_profiles.lastgood and its .tmp
  recTmp,        \* local_profiles.recover.tmp
  gameTmp,       \* the game's own temporary file
  saved,         \* g_local_profiles_lastgood_saved
  recovered,     \* g_profile_startup_recovery_done
  pc,
  start,         \* ghost: the list the last process to read it started from
  peek,          \* ghost: what a second thread last saw when it opened the list
  failed,        \* ghost: the operations that have failed
  saves, crashes

files == <<prim, good, goodTmp, recTmp, gameTmp>>
flags == <<saved, recovered>>
ghosts == <<start, peek>>
bounds == <<saves, crashes>>
vars == <<files, flags, pc, ghosts, failed, bounds>>

Init ==
  /\ prim \in {NoFile, Hollow, 0} /\ good \in {NoFile, 0}
  /\ goodTmp = NoFile /\ recTmp = NoFile /\ gameTmp = NoFile
  /\ saved = FALSE /\ recovered = FALSE
  /\ pc = "boot" /\ start = NoFile /\ peek = NoFile
  /\ failed = {} /\ saves = 0 /\ crashes = 0

Nonempty(f) == f \notin {NoFile, Hollow}        \* file_nonempty_locked

Goto(l) == pc' = l
Fail(step) == step \in FaultSteps /\ failed' = failed \cup {step}
Works == UNCHANGED failed

-----------------------------------------------------------------------------
(* recover_profile_bundle_if_needed, under the file lock. *)

(* Mutant: an empty list is as good as a list. *)
RecoverCheck_AnyFile ==
  /\ pc = "boot" /\ ~recovered
  /\ Goto("rec_done")
  /\ UNCHANGED <<files, flags, ghosts, failed, bounds>>

RecoverCheck ==
  /\ pc = "boot" /\ ~recovered
  /\ IF ~Nonempty(prim) /\ Nonempty(good) THEN Goto("rec_rm") ELSE Goto("rec_done")
  /\ UNCHANGED <<files, flags, ghosts, failed, bounds>>

RecoverClear ==
  /\ pc = "rec_rm"
  /\ recTmp' = NoFile /\ Goto("rec_open")
  /\ UNCHANGED <<prim, good, goodTmp, gameTmp, flags, ghosts, failed, bounds>>

(* copy_file_locked: the destination is torn until all of it is written, and *)
(* removed when that fails.                                                  *)
RecoverOpen ==
  /\ pc = "rec_open"
  /\ recTmp' = Torn /\ Goto("rec_copy")
  /\ UNCHANGED <<prim, good, goodTmp, gameTmp, flags, ghosts, failed, bounds>>

RecoverCopy ==
  /\ pc = "rec_copy"
  /\ \/ recTmp' = good /\ Goto("rec_ren") /\ Works
     \/ Fail("recover") /\ recTmp' = NoFile /\ Goto("rec_done")
  /\ UNCHANGED <<prim, good, goodTmp, gameTmp, flags, ghosts, bounds>>

(* replace_file_locked: a rename never replaces a file on the card, so the  *)
(* empty list goes first; the copy goes when the second rename fails.       *)
RecoverRename ==
  /\ pc = "rec_ren"
  /\ \/ /\ prim = NoFile /\ Works
        /\ prim' = recTmp /\ recTmp' = NoFile /\ Goto("rec_done")
     \/ /\ prim # NoFile /\ Works
        /\ prim' = NoFile /\ UNCHANGED <<recTmp, pc>>
     \/ /\ prim = NoFile /\ Fail("recover")
        /\ recTmp' = NoFile /\ Goto("rec_done") /\ UNCHANGED prim
  /\ UNCHANGED <<good, goodTmp, gameTmp, flags, ghosts, bounds>>

RecoverDone ==
  /\ pc = "rec_done"
  /\ recovered' = TRUE /\ Goto("read")
  /\ UNCHANGED <<files, saved, ghosts, failed, bounds>>

(* The game reads the list; with none it starts a new one. *)
Read ==
  /\ pc = "read"
  /\ start' = prim /\ peek' = prim /\ Goto("play")
  /\ UNCHANGED <<files, flags, failed, bounds>>

-----------------------------------------------------------------------------
(* A save: the game writes its temporary file ... *)

WriteTmp ==
  /\ pc = "play" /\ saves < MaxSaves
  /\ gameTmp' = Torn /\ Goto("tmp")
  /\ UNCHANGED <<prim, good, goodTmp, recTmp, flags, ghosts, failed, bounds>>

CloseTmp ==
  /\ pc = "tmp"
  /\ saves' = saves + 1 /\ gameTmp' = saves'
  /\ Goto("bak_check")
  /\ UNCHANGED <<prim, good, goodTmp, recTmp, flags, ghosts, failed, crashes>>

(* Mutant: the backup is skipped when one exists already. *)
BackupCheck_Once ==
  /\ pc = "bak_check"
  /\ IF Nonempty(good) \/ ~Nonempty(prim) THEN Goto("ren") ELSE Goto("bak_rm")
  /\ UNCHANGED <<files, flags, ghosts, failed, bounds>>

(* ... and renames it.  backup_local_profiles_locked copies the old list    *)
(* once per process.                                                        *)
BackupCheck ==
  /\ pc = "bak_check"
  /\ IF saved \/ ~Nonempty(prim) THEN Goto("ren") ELSE Goto("bak_rm")
  /\ UNCHANGED <<files, flags, ghosts, failed, bounds>>

BackupClear ==
  /\ pc = "bak_rm"
  /\ goodTmp' = NoFile /\ Goto("bak_open")
  /\ UNCHANGED <<prim, good, recTmp, gameTmp, flags, ghosts, failed, bounds>>

(* Mutant: the backup is copied in place, without a temporary file. *)
BackupOpen_InPlace ==
  /\ pc = "bak_open"
  /\ good' = Torn /\ goodTmp' = Torn /\ Goto("bak_copy") /\ Works
  /\ UNCHANGED <<prim, recTmp, gameTmp, flags, ghosts, bounds>>

BackupOpen ==
  /\ pc = "bak_open"
  /\ \/ goodTmp' = Torn /\ Goto("bak_copy") /\ Works
     \/ Fail("copy") /\ Goto("ren") /\ UNCHANGED goodTmp
  /\ UNCHANGED <<prim, good, recTmp, gameTmp, flags, ghosts, bounds>>

BackupCopy ==
  /\ pc = "bak_copy"
  /\ \/ goodTmp' = prim /\ Goto("bak_drop") /\ Works
     \/ Fail("copy") /\ goodTmp' = NoFile /\ Goto("ren")
  /\ UNCHANGED <<prim, good, recTmp, gameTmp, flags, ghosts, bounds>>

BackupDrop ==
  /\ pc = "bak_drop"
  /\ good' = NoFile /\ Goto("bak_ren")
  /\ UNCHANGED <<prim, goodTmp, recTmp, gameTmp, flags, ghosts, failed, bounds>>

BackupRename ==
  /\ pc = "bak_ren"
  /\ \/ good' = goodTmp /\ goodTmp' = NoFile /\ saved' = TRUE /\ Works
     \/ Fail("copy") /\ goodTmp' = NoFile /\ UNCHANGED <<good, saved>>
  /\ Goto("ren")
  /\ UNCHANGED <<prim, recTmp, gameTmp, recovered, ghosts, bounds>>

(* rename_fake *)
Rename ==
  /\ pc = "ren"
  /\ \/ /\ prim = NoFile /\ Works
        /\ prim' = gameTmp /\ gameTmp' = NoFile /\ Goto("play")
     \/ /\ IF prim = NoFile THEN Fail("rename") ELSE Works
        /\ Goto("ren_rm") /\ UNCHANGED <<prim, gameTmp>>
  /\ UNCHANGED <<good, goodTmp, recTmp, flags, ghosts, bounds>>

RenameRemove ==
  /\ pc = "ren_rm"
  /\ \/ prim' = NoFile /\ Works
     \/ prim # NoFile /\ Fail("remove") /\ UNCHANGED prim
  /\ Goto("ren_again")
  /\ UNCHANGED <<good, goodTmp, recTmp, gameTmp, flags, ghosts, bounds>>

RenameAgain ==
  /\ pc = "ren_again"
  /\ \/ prim = NoFile /\ Works /\ prim' = gameTmp /\ gameTmp' = NoFile
     \/ /\ IF prim = NoFile THEN Fail("rename") ELSE Works
        /\ UNCHANGED <<prim, gameTmp>>
  /\ Goto("play")
  /\ UNCHANGED <<good, goodTmp, recTmp, flags, ghosts, bounds>>

-----------------------------------------------------------------------------
(* Where g_file_lock is held. *)
Locked == pc \in {"rec_rm", "rec_open", "rec_copy", "rec_ren", "rec_done",
                  "bak_check", "bak_rm", "bak_open", "bak_copy", "bak_drop",
                  "bak_ren", "ren", "ren_rm", "ren_again"}

(* Another thread opens the list: it waits for the lock. *)
Peek ==
  /\ recovered /\ pc # "read" /\ ~Locked
  /\ peek' = prim
  /\ UNCHANGED <<files, flags, pc, start, failed, bounds>>

(* The process dies, or the player closes it; the next one begins. *)
Crash ==
  /\ crashes < MaxCrashes /\ crashes' = crashes + 1
  /\ saved' = FALSE /\ recovered' = FALSE /\ pc' = "boot" /\ peek' = NoFile
  /\ UNCHANGED <<files, start, failed, saves>>

Recover == \/ RecoverCheck \/ RecoverClear \/ RecoverOpen \/ RecoverCopy
           \/ RecoverRename \/ RecoverDone \/ Read
Backup == \/ BackupCheck \/ BackupClear \/ BackupOpen \/ BackupCopy
          \/ BackupDrop \/ BackupRename
Replace == WriteTmp \/ CloseTmp \/ Rename \/ RenameRemove \/ RenameAgain

Next == Recover \/ Backup \/ Replace \/ Peek \/ Crash

Spec == Init /\ [][Next]_vars

-----------------------------------------------------------------------------
(* Properties *)

(* Every variable stays in its domain. *)
TypeOK ==
  /\ prim \in Files /\ good \in Files /\ goodTmp \in Files
  /\ recTmp \in Files /\ gameTmp \in Files
  /\ saved \in BOOLEAN /\ recovered \in BOOLEAN
  /\ start \in Files /\ peek \in Files
  /\ pc \in {"boot", "rec_rm", "rec_open", "rec_copy", "rec_ren", "rec_done",
             "read", "play", "tmp", "bak_check", "bak_rm", "bak_open",
             "bak_copy", "bak_drop", "bak_ren", "ren", "ren_rm", "ren_again"}
  /\ failed \in SUBSET FaultSteps
  /\ saves \in 0..MaxSaves /\ crashes \in 0..MaxCrashes

(* Neither the list nor its backup is ever a half-written file. *)
NeverTorn == prim # Torn /\ good # Torn /\ good # Hollow

AtLeast(f, v) == f \in Versions /\ f >= v

(* "Preserve the profile-list file that was valid at process start": at     *)
(* every instant the list or its backup holds what the process began with,  *)
(* or something later.                                                      *)
PreservedFromStart ==
  start \in Versions => AtLeast(prim, start) \/ AtLeast(good, start)

(* The promise as far as it goes: it holds until a backup copy fails.       *)
PreservedUnlessCopyFails == "copy" \in failed \/ PreservedFromStart

(* A process that follows a crash begins from a list, and from none older   *)
(* than the crashed process began from; the final rename may have failed,   *)
(* the copies to and from the backup not.                                   *)
NoRollback ==
  [][Read /\ failed \cap {"copy", "recover"} = {} /\ start \in Versions =>
       AtLeast(prim, start)]_vars

(* While no operation fails, a thread that opens the list while another     *)
(* replaces it never finds it missing: the two renames are one transaction  *)
(* under g_file_lock.                                                       *)
NoGapSeen ==
  failed = {} /\ start \in Versions /\ recovered /\ pc # "read" =>
    peek \in Versions
-----------------------------------------------------------------------------
(* The inductive invariant behind these properties *)

BootLabels == {"boot", "rec_rm", "rec_open", "rec_copy", "rec_ren", "rec_done", "read"}
CopyLabels == {"bak_rm", "bak_open", "bak_copy", "bak_drop", "bak_ren"}
RenameLabels == {"ren", "ren_rm", "ren_again"}

(* Saves are numbered, and what each file can hold follows from pc. *)
FilesInv ==
  /\ prim \in 0..saves \cup {NoFile, Hollow}
  /\ good \in 0..saves \cup {NoFile}
  /\ start \in 0..saves \cup {NoFile, Hollow}
  /\ pc = "tmp" => saves < MaxSaves
  /\ pc \in {"bak_check"} \cup CopyLabels \cup RenameLabels => gameTmp = saves
  /\ pc \in {"rec_rm", "rec_open", "rec_copy", "rec_ren"} =>
       ~Nonempty(prim) /\ Nonempty(good)
  /\ pc = "rec_ren" => recTmp = good
  /\ pc \in CopyLabels => Nonempty(prim)
  /\ pc \in {"bak_drop", "bak_ren"} => goodTmp = prim
  /\ pc \in BootLabels \cup CopyLabels => ~saved
  /\ recovered <=> pc \notin BootLabels \ {"read"}

(* Where the list of the process's start is, as long as no copy failed: in  *)
(* the backup once that was made, in the list itself until then.            *)
Accounted ==
  "copy" \notin failed /\ start \in Versions =>
    /\ Nonempty(prim) => AtLeast(prim, start)
    /\ pc \in BootLabels => AtLeast(prim, start) \/ AtLeast(good, start)
    /\ pc \notin BootLabels => IF saved THEN AtLeast(good, start)
                                        ELSE AtLeast(prim, start)
    /\ pc \in RenameLabels => saved
    /\ pc \in {"rec_done", "read"} /\ "recover" \notin failed => Nonempty(prim)

(* Without failures the list is missing only inside the rename. *)
NoGap ==
  failed = {} /\ start \in Versions /\ pc \notin BootLabels =>
    /\ pc # "ren_again" => prim \in Versions
    /\ pc = "ren_again" => prim = NoFile

IInv == TypeOK /\ FilesInv /\ Accounted /\ NoGap /\ NoGapSeen

(* List and backup are whole, and without failures no reader meets the gap  *)
(* of the rename.                                                           *)
ListSound == IInv /\ NeverTorn /\ NoGapSeen
=============================================================================
