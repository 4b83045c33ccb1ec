------------------------------ MODULE JavaStore ------------------------------
(***************************************************************************)
(* The persistent Java stores of source/pvz2.c: the property store, the    *)
(* string store and the Nimble scopes kept among the properties, one file  *)
(* written through tmp + rename_fake (source/libc_shim.c), and the file    *)
(* system under it, with crashes and I/O failures between any two of its   *)
(* operations.                                                             *)
(*                                                                         *)
(* The callers are the game's main loop and the JNI upcalls it makes: one  *)
(* save runs at a time.  A file is NoFile, Torn (not all of it written) or *)
(* the map it stores.                                                      *)
(***************************************************************************)
EXTENDS Naturals, FiniteSets

CONSTANTS
  PropKeys,      \* keys saved at once by store_set and its like
  StringKeys,    \* keys of the string store, saved 250 ms later
  NimbleKeys,    \* keys of Nimble scopes, saved 500 ms later
  Pcpid, IdKeys, \* the player-identity bundle, and the key that betrays it
  Age, AgeUp,    \* agegate.age and agegate.ageUpToAdult
  Values, Absent,
  Legacy,        \* LEGACY_PLAYER_ID
  FalseText,     \* "false"
  TooLong,       \* values longer than 65536 bytes
  Huge,          \* values that do not fit JAVA_STORE_MAX_FILE
  NoFile, Torn,
  FaultSteps,    \* the file operations that may fail
  MaxSets, MaxCrashes, MaxFaults   \* bounds

Keys == PropKeys \cup StringKeys \cup NimbleKeys
Maps == [Keys -> Values \cup {Absent}]
Empty == [k \in Keys |-> Absent]

ASSUME KeysDistinct ==
  /\ IdKeys \subseteq PropKeys \cup StringKeys
  /\ {Pcpid, Age, AgeUp} \subseteq PropKeys
  /\ PropKeys \cap (StringKeys \cup NimbleKeys) = {}
  /\ StringKeys \cap NimbleKeys = {}
ASSUME ValuesDistinct ==
  /\ {Legacy, FalseText} \subseteq Values /\ Absent \notin Values
  /\ TooLong \subseteq Values /\ Huge \subseteq TooLong
  /\ Legacy \notin TooLong /\ FalseText \notin TooLong
ASSUME BoundsNat == MaxSets \in Nat /\ MaxCrashes \in Nat /\ MaxFaults \in Nat
ASSUME FilesDistinct == NoFile # Torn /\ {NoFile, Torn} \cap Maps = {}

VARIABLES
  mem,           \* property_store and string_store
  loaded,        \* java_store_loaded
  dirty, due,    \* java_store_deferred_dirty, and its tick has passed
  nDirty, nDue,  \* nimble_persistence_dirty, and its tick has passed
  prim, tmp,     \* the two files
  leaving,       \* main has left its loop
  pc, caller,    \* where the running call is, and who asked for the save
  blob,          \* the snapshot being saved
  durable,       \* ghost: the last snapshot a save reported committed
  unsaved,       \* ghost: keys the game changed since then
  cut,           \* ghost: the old file was removed and the new one never came
  sets, crashes, faults

memVars == <<mem, loaded>>
timerVars == <<dirty, due, nDirty, nDue>>
diskVars == <<prim, tmp>>
ghostVars == <<durable, unsaved, cut>>
boundVars == <<sets, crashes, faults>>
vars == <<memVars, timerVars, diskVars, leaving, pc, caller, blob, ghostVars, boundVars>>

Callers == {"sync", "deferred", "nimble", "synchronize", "flush", "migrate", "backfill"}

(* What an earlier version may have left on the card. *)
HistoricFile == [k \in Keys |-> IF k \in IdKeys THEN Legacy
                                ELSE IF k = Age THEN FalseText ELSE Absent]
AsMap(f) == IF f = NoFile THEN Empty ELSE f

Init ==
  /\ mem = Empty /\ loaded = FALSE
  /\ dirty = FALSE /\ due = FALSE /\ nDirty = FALSE /\ nDue = FALSE
  /\ prim \in {NoFile, HistoricFile} /\ tmp = NoFile
  /\ leaving = FALSE /\ pc = "run" /\ caller = "sync" /\ blob = Empty
  /\ durable = prim /\ unsaved = {} /\ cut = FALSE
  /\ sets = 0 /\ crashes = 0 /\ faults = 0

(* An operation of the file system fails. *)
MayFail(step) == step \in FaultSteps /\ faults < MaxFaults
Fail(step) == MayFail(step) /\ faults' = faults + 1 /\ UNCHANGED <<sets, crashes>>
NoFault == UNCHANGED boundVars

-----------------------------------------------------------------------------
(* java_store_ensure_loaded *)

(* Mutant: the reader takes a file with a removed key for a damaged one. *)
Accepted_FullOnly(f) == f \in Maps /\ \A k \in Keys : f[k] # Absent

(* What the reader makes of the file; it rejects the whole file when one    *)
(* value is too long.                                                       *)
Accepted(f) == f \in Maps /\ \A k \in Keys : f[k] \notin TooLong

Load ==
  /\ pc = "run" /\ ~loaded
  /\ loaded' = TRUE
  /\ IF Accepted(prim) THEN mem' = prim /\ pc' = "migrate"
                       ELSE mem' = Empty /\ pc' = "run"
  /\ NoFault
  /\ UNCHANGED <<timerVars, diskVars, leaving, caller, blob, ghostVars>>

(* The file cannot be opened or read, or memory runs out among its entries: *)
(* those before stay, and no migration runs.                                *)
LoadFails ==
  /\ pc = "run" /\ ~loaded
  /\ prim # NoFile
  /\ Fail("load")
  /\ loaded' = TRUE
  /\ \/ mem' = Empty
     \/ /\ Accepted(prim)
        /\ \E K \in SUBSET {k \in Keys : prim[k] # Absent} :
             mem' = [k \in Keys |-> IF k \in K THEN prim[k] ELSE Absent]
  /\ UNCHANGED <<timerVars, diskVars, leaving, pc, caller, blob, ghostVars>>

-----------------------------------------------------------------------------
(* java_store_save *)

(* The blob does not fit: the save returns 0 and touches nothing. *)
Fits(m) == \A k \in Keys : m[k] \notin Huge

(* What the call that asked for the save does with the result. *)
AfterSave(who) == IF who = "migrate" THEN "backfill" ELSE "run"

(* m is memory when the save starts; a failed pump restarts its timer. *)
StartSave(who, m) ==
  /\ IF Fits(m)
     THEN /\ pc' = "s_open" /\ caller' = who /\ blob' = m
     ELSE /\ pc' = AfterSave(who)
          /\ UNCHANGED <<caller, blob>>
  /\ due' = IF who = "deferred" THEN FALSE ELSE due
  /\ nDue' = IF who = "nimble" THEN FALSE ELSE nDue

SaveOpen ==
  /\ pc = "s_open"
  /\ \/ tmp' = Torn /\ pc' = "s_write" /\ NoFault
     \/ Fail("open") /\ pc' = "s_unlink" /\ UNCHANGED tmp
  /\ UNCHANGED <<memVars, timerVars, prim, leaving, caller, blob, ghostVars>>

(* fwrite, fflush, fsync, fclose. *)
SaveWrite ==
  /\ pc = "s_write"
  /\ \/ tmp' = blob /\ pc' = "s_rename" /\ NoFault
     \/ Fail("write") /\ pc' = "s_unlink" /\ UNCHANGED tmp
  /\ UNCHANGED <<memVars, timerVars, prim, leaving, caller, blob, ghostVars>>

(* The store is committed: java_store_deferred_dirty is cleared, and so is  *)
(* Nimble's flag when it was Nimble that asked.                             *)
Commit ==
  /\ prim' = tmp /\ tmp' = NoFile
  /\ durable' = tmp /\ unsaved' = {} /\ cut' = FALSE
  /\ dirty' = FALSE /\ due' = FALSE
  /\ IF caller \in {"nimble", "synchronize"}
     THEN nDirty' = FALSE /\ nDue' = FALSE ELSE UNCHANGED <<nDirty, nDue>>
  /\ pc' = AfterSave(caller)

(* rename_fake: the card's file systems refuse to replace a file. *)
SaveRename ==
  /\ pc = "s_rename"
  /\ \/ prim = NoFile /\ Commit /\ NoFault
     \/ /\ prim # NoFile /\ pc' = "s_remove" /\ NoFault
        /\ UNCHANGED <<timerVars, diskVars, ghostVars>>
     \/ /\ prim = NoFile /\ Fail("rename") /\ pc' = "s_remove"
        /\ UNCHANGED <<timerVars, diskVars, ghostVars>>
  /\ UNCHANGED <<memVars, leaving, caller, blob>>

(* Mutant: the temporary file is dropped with the old one. *)
SaveRemove_Both ==
  /\ pc = "s_remove"
  /\ prim' = NoFile /\ tmp' = NoFile /\ NoFault
  /\ pc' = "s_again"
  /\ UNCHANGED <<memVars, timerVars, leaving, caller, blob, ghostVars>>

(* ... so it removes the old file and tries again. *)
SaveRemove ==
  /\ pc = "s_remove"
  /\ \/ prim' = NoFile /\ NoFault
     \/ prim # NoFile /\ Fail("remove") /\ UNCHANGED prim
  /\ pc' = "s_again"
  /\ UNCHANGED <<memVars, timerVars, tmp, leaving, caller, blob, ghostVars>>

SaveRenameAgain ==
  /\ pc = "s_again"
  /\ \/ prim = NoFile /\ Commit /\ NoFault
     \/ /\ IF prim = NoFile THEN Fail("rename") ELSE NoFault
        /\ cut' = (prim = NoFile)
        /\ pc' = "s_unlink"
        /\ UNCHANGED <<timerVars, diskVars, durable, unsaved>>
  /\ UNCHANGED <<memVars, leaving, caller, blob>>

(* Mutant: the failed save clears the deferred flag as a good one would. *)
SaveUnlink_Clears ==
  /\ pc = "s_unlink"
  /\ tmp' = NoFile /\ NoFault
  /\ pc' = AfterSave(caller)
  /\ dirty' = FALSE /\ due' = FALSE
  /\ UNCHANGED <<memVars, nDirty, nDue, prim, leaving, caller, blob, ghostVars>>

(* The save failed: the temporary file goes. *)
SaveUnlink ==
  /\ pc = "s_unlink"
  /\ \/ tmp' = NoFile /\ NoFault
     \/ tmp # NoFile /\ Fail("unlink") /\ UNCHANGED tmp
  /\ pc' = AfterSave(caller)
  /\ UNCHANGED <<memVars, timerVars, prim, leaving, caller, blob, ghostVars>>

-----------------------------------------------------------------------------
(* What follows a good load. *)

(* identity_remove_legacy_game_identity_bundle *)
Migrate ==
  /\ pc = "migrate"
  /\ IF mem[Pcpid] = Legacy
     THEN /\ mem' = [k \in Keys |-> IF k \in IdKeys THEN Absent ELSE mem[k]]
          /\ StartSave("migrate", mem')
     ELSE /\ pc' = "backfill"
          /\ UNCHANGED <<mem, caller, blob, due, nDue>>
  /\ UNCHANGED <<loaded, dirty, nDirty, diskVars, leaving, ghostVars, boundVars>>

Backfill ==
  /\ pc = "backfill"
  /\ IF mem[Age] # Absent /\ mem[AgeUp] = Absent
     THEN /\ mem' = [mem EXCEPT ![AgeUp] = FalseText]
          /\ StartSave("backfill", mem')
     ELSE /\ pc' = "run"
          /\ UNCHANGED <<mem, caller, blob, due, nDue>>
  /\ UNCHANGED <<loaded, dirty, nDirty, diskVars, leaving, ghostVars, boundVars>>

-----------------------------------------------------------------------------
(* The stores' setters; store_set_raw reports whether the value changed. *)

Change(k, v) ==
  /\ pc = "run" /\ loaded
  /\ sets < MaxSets /\ sets' = sets + 1 /\ UNCHANGED <<crashes, faults>>
  /\ mem[k] # v
  /\ mem' = [mem EXCEPT ![k] = v]
  /\ unsaved' = unsaved \cup {k}
  /\ UNCHANGED <<loaded, diskVars, leaving, durable, cut>>

(* store_set and the other setters that save at once. *)
SetProperty(k, v) ==
  /\ k \in PropKeys
  /\ Change(k, v)
  /\ StartSave("sync", mem')
  /\ UNCHANGED <<dirty, nDirty>>

(* java_store_schedule_deferred_save: the 250 ms start again. *)
SetString(k, v) ==
  /\ k \in StringKeys
  /\ Change(k, v)
  /\ dirty' = TRUE /\ due' = FALSE
  /\ UNCHANGED <<nDirty, nDue, pc, caller, blob>>

(* Persistence.setValue, which rejects a value the loader would not take; a *)
(* null value removes the key.  nimble_persistence_flag_change.             *)
SetNimble(k, v) ==
  /\ k \in NimbleKeys /\ v \notin TooLong
  /\ Change(k, v)
  /\ nDirty' = TRUE /\ nDue' = FALSE
  /\ UNCHANGED <<dirty, due, pc, caller, blob>>

TimerPasses ==
  /\ pc = "run" /\ ~leaving
  /\ \/ dirty /\ ~due /\ due' = TRUE /\ UNCHANGED nDue
     \/ nDirty /\ ~nDue /\ nDue' = TRUE /\ UNCHANGED due
  /\ UNCHANGED <<memVars, dirty, nDirty, diskVars, leaving, pc, caller, blob,
                 ghostVars, boundVars>>

(* A save that leaves memory as it is. *)
Save(who) ==
  /\ pc = "run" /\ loaded
  /\ StartSave(who, mem)
  /\ UNCHANGED <<memVars, dirty, nDirty, diskVars, ghostVars, boundVars>>

PumpDeferred == dirty /\ due /\ ~leaving /\ Save("deferred") /\ UNCHANGED leaving
PumpNimble == nDirty /\ nDue /\ ~leaving /\ Save("nimble") /\ UNCHANGED leaving

(* Persistence.synchronize *)
Synchronize == Save("synchronize") /\ UNCHANGED leaving

(* Mutant: the exit path saves nothing. *)
Exit_NoFlush ==
  /\ pc = "run" /\ ~leaving
  /\ leaving' = TRUE
  /\ UNCHANGED <<memVars, timerVars, diskVars, pc, caller, blob,
                 ghostVars, boundVars>>

(* main leaves its loop: pvz2_java_store_flush_deferred, then the game's    *)
(* lifecycle callbacks, which may still call the setters.                   *)
Exit ==
  /\ pc = "run" /\ ~leaving
  /\ leaving' = TRUE
  /\ IF dirty
     THEN Save("flush")
     ELSE UNCHANGED <<memVars, timerVars, diskVars, pc, caller, blob,
                      ghostVars, boundVars>>

(* The process starts again. *)
Boot ==
  /\ mem' = Empty /\ loaded' = FALSE
  /\ dirty' = FALSE /\ due' = FALSE /\ nDirty' = FALSE /\ nDue' = FALSE
  /\ leaving' = FALSE /\ pc' = "run" /\ caller' = "sync" /\ blob' = Empty
  /\ unsaved' = {} /\ cut' = (cut \/ (pc = "s_again" /\ prim = NoFile))
  /\ UNCHANGED <<diskVars, durable, sets, faults>>

Restart == pc = "run" /\ leaving /\ Boot /\ UNCHANGED crashes
Crash == crashes < MaxCrashes /\ Boot /\ crashes' = crashes + 1

SaveStep == \/ SaveOpen \/ SaveWrite \/ SaveRename \/ SaveRemove
            \/ SaveRenameAgain \/ SaveUnlink

Next ==
  \/ Load \/ LoadFails \/ Migrate \/ Backfill \/ SaveStep
  \/ \E k \in Keys, v \in Values : SetProperty(k, v) \/ SetString(k, v)
  \/ \E k \in Keys, v \in Values \cup {Absent} : SetNimble(k, v)
  \/ TimerPasses \/ PumpDeferred \/ PumpNimble \/ Synchronize
  \/ Exit \/ Restart \/ Crash

Spec == Init /\ [][Next]_vars

(* The main loop runs: a save in progress goes on, time passes, and the     *)
(* pumps are called every frame.                                            *)
Fairness == /\ WF_vars(Load \/ Migrate \/ Backfill \/ SaveStep)
            /\ WF_vars(TimerPasses)
            /\ SF_vars(PumpDeferred) /\ SF_vars(PumpNimble)

FairSpec == Spec /\ Fairness

-----------------------------------------------------------------------------
(* Properties *)

Files == Maps \cup {NoFile, Torn}
Saving == {"s_open", "s_write", "s_rename", "s_remove", "s_again", "s_unlink"}

(* Every variable stays in its domain. *)
TypeOK ==
  /\ mem \in Maps /\ loaded \in BOOLEAN
  /\ dirty \in BOOLEAN /\ due \in BOOLEAN /\ nDirty \in BOOLEAN /\ nDue \in BOOLEAN
  /\ prim \in Files /\ tmp \in Files
  /\ leaving \in BOOLEAN /\ pc \in {"run", "migrate", "backfill"} \cup Saving
  /\ caller \in Callers /\ blob \in Maps
  /\ durable \in Files /\ unsaved \in SUBSET Keys /\ cut \in BOOLEAN
  /\ sets \in 0..MaxSets /\ crashes \in 0..MaxCrashes /\ faults \in 0..MaxFaults

(* The file the loader reads is never a half-written one, wherever a save   *)
(* was cut or failed.                                                       *)
NeverTorn == prim # Torn

(* A change that has not reached the card is waiting behind a timer that    *)
(* will save it: a failed save does not forget string or Nimble changes.    *)
PendingHasRetry ==
  /\ unsaved \cap StringKeys # {} => dirty
  /\ unsaved \cap NimbleKeys # {} => nDirty

(* Whatever fails, the step that takes the old file away leaves the new     *)
(* snapshot complete beside it.                                             *)
OnlyCopyKept ==
  [][(prim \in Maps) => (prim' \in Maps \/ tmp' \in Maps)]_vars

(* A snapshot that a save reported committed is what the next process      *)
(* loads.                                                                   *)
CommittedSurvives == [][Load => mem' = AsMap(durable)]_vars

(* The promise as far as it goes: it holds through failed saves and crashes *)
(* except a cut between the removal of the old file and the second rename.  *)
CommittedUnlessCut == [][Load /\ ~cut => mem' = AsMap(durable)]_vars

(* While no file operation fails and the values fit the file, no string     *)
(* change made before main left its loop outlives the flush unsaved.        *)
Flushed == leaving /\ pc = "run"
ExitFlushes ==
  [][~Flushed /\ Flushed' /\ faults' = 0 /\ Fits(mem') =>
       unsaved' \cap StringKeys = {}]_vars

(* While the game does not exit and the values fit the file, a deferred     *)
(* change is saved, after as many retries as the card needs.                *)
DeferredSaved == dirty ~> ~dirty \/ leaving \/ ~Fits(mem)

(* A save that is owed happens, at the latest when the process leaves its   *)
(* loop, unless the values no longer fit the file.                          *)
SavesHappen == ExitFlushes /\ DeferredSaved
-----------------------------------------------------------------------------
(* The inductive invariant behind the safety properties *)

(* The temporary file is complete before the first rename. *)
SnapshotReady == pc \in {"s_rename", "s_remove", "s_again"} => tmp = blob

(* What is committed fits the file, and so does what is being saved. *)
AllFits ==
  /\ durable \in Maps => Fits(durable)
  /\ pc \in Saving \ {"s_unlink"} => Fits(blob)

(* The file is the last committed snapshot, but for the gap between the     *)
(* removal and the second rename, which a crash or a failure makes lasting. *)
InPlace == /\ durable # Torn
           /\ cut => prim = NoFile
           /\ ~cut => prim = durable \/ (prim = NoFile /\ pc = "s_again")

IInv == TypeOK /\ NeverTorn /\ PendingHasRetry /\ SnapshotReady /\ AllFits /\ InPlace

(* Wherever a save is cut or fails, the file is whole and what is unsaved   *)
(* has its retry armed.                                                     *)
StoreSound == IInv /\ NeverTorn /\ PendingHasRetry
=============================================================================
