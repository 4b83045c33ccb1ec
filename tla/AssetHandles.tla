---------------------------- MODULE AssetHandles ----------------------------
(***************************************************************************)
(* AAssetManager over the SD card (libc_shim.c).  An open looks for an     *)
(* override under mods/, then for the installed loose file, then in the    *)
(* OBB, and reads the first it finds into memory; the handle then walks    *)
(* that memory.  Closing frees the memory and keeps the handle, because    *)
(* the game goes on using handles it has closed.                           *)
(***************************************************************************)
EXTENDS Naturals

CONSTANTS
  Handles,
  Sizes,         \* byte counts of an asset
  MaxCalls       \* bound: calls on handles

VARIABLES
  mounted,       \* fsdevGetDeviceFileSystem("sdmc") answers
  modRoot,       \* mods/ is on the card
  modState,      \* g_mod_root_state: "unknown", "absent", "present"
  disk,          \* which of the three sources has the asset
  asset,         \* the Asset behind each handle
  memory,        \* the handles whose buffer is allocated
  returned,      \* what the last call returned: [call, value]
  touched,       \* the calls that dereferenced memory that is not there
  calls

assetVars == <<mounted, modRoot, modState, disk, asset, memory, returned, touched, calls>>

Sources == {"mods", "loose", "obb"}
Unopened == [live |-> FALSE, mem |-> FALSE, size |-> 0, pos |-> 0, from |-> "none"]
Error == 1000  \* -1 of the C interface

AssetConstants == Sizes \subseteq 0 .. Error - 1 /\ MaxCalls \in Nat

Init ==
  /\ mounted \in BOOLEAN /\ modRoot \in BOOLEAN
  /\ modState = "unknown"
  /\ disk \in SUBSET Sources
  /\ asset = [h \in Handles |-> Unopened]
  /\ memory = {} /\ touched = {}
  /\ returned = [call |-> "none", value |-> 0]
  /\ calls = 0

-----------------------------------------------------------------------------

Call(name, value) ==
  /\ calls < MaxCalls /\ calls' = calls + 1
  /\ returned' = [call |-> name, value |-> value]

(* mod_root_available: the answer is remembered, but not while the card is *)
(* not mounted yet.                                                        *)
ModState ==
  IF modState # "unknown" \/ ~ mounted THEN modState
  ELSE IF modRoot THEN "present" ELSE "absent"

(* The sources are tried in the order mods, loose, obb; one that is there  *)
(* but cannot be read falls through to the next, so each can be the one.   *)
Choices == disk \cap ({"loose", "obb"} \cup
             IF ModState = "present" /\ modRoot THEN {"mods"} ELSE {})

Open(h) ==
  /\ ~ asset[h].live
  /\ modState' = ModState
  /\ \/ /\ \E n \in Sizes, source \in Choices :
             /\ asset' = [asset EXCEPT ![h] =
                  [live |-> TRUE, mem |-> TRUE, size |-> n, pos |-> 0, from |-> source]]
             /\ Call("open", n)
        /\ memory' = memory \cup {h}
     \/ Call("open", Error) /\ UNCHANGED <<asset, memory>>
  /\ UNCHANGED <<mounted, modRoot, disk, touched>>

(* The buffer goes and the pointer to it stays. *)
Close_KeepsPointer(h) ==
  /\ asset[h].live
  /\ asset' = [asset EXCEPT ![h].size = 0, ![h].pos = 0]
  /\ memory' = memory \ {h}
  /\ Call("close", 0)
  /\ UNCHANGED <<mounted, modRoot, modState, disk, touched>>

(* AAsset_close frees the buffer, clears the fields and keeps the struct.  *)
Close(h) ==
  /\ asset[h].live
  /\ asset' = [asset EXCEPT ![h].mem = FALSE, ![h].size = 0, ![h].pos = 0]
  /\ memory' = memory \ {h}
  /\ Call("close", 0)
  /\ UNCHANGED <<mounted, modRoot, modState, disk, touched>>

(* A call dereferences the buffer, or the stream, behind a handle. *)
Deref(h, name) == touched' = IF h \in memory THEN touched ELSE touched \cup {name}

Least(a, b) == IF a < b THEN a ELSE b

Read(h, count) ==
  LET n == Least(count, asset[h].size - asset[h].pos) IN
  /\ asset[h].live
  /\ IF ~ asset[h].mem THEN Call("read", Error) /\ UNCHANGED <<asset, touched>>
     ELSE IF asset[h].pos >= asset[h].size
       THEN Call("read", 0) /\ UNCHANGED <<asset, touched>>
       ELSE /\ Deref(h, "read")
            /\ asset' = [asset EXCEPT ![h].pos = @ + n]
            /\ Call("read", n)
  /\ UNCHANGED <<mounted, modRoot, modState, disk, memory>>

(* AAsset_seek to an absolute place; a place outside the asset is refused. *)
Seek(h, to) ==
  /\ asset[h].live
  /\ IF asset[h].mem /\ to <= asset[h].size
       THEN asset' = [asset EXCEPT ![h].pos = to] /\ Call("seek", to)
       ELSE Call("seek", Error) /\ UNCHANGED asset
  /\ UNCHANGED <<mounted, modRoot, modState, disk, memory, touched>>

GetBuffer(h) ==
  /\ asset[h].live
  /\ IF asset[h].mem THEN Deref(h, "buffer") /\ Call("buffer", asset[h].size)
                     ELSE Call("buffer", Error) /\ UNCHANGED touched
  /\ UNCHANGED <<mounted, modRoot, modState, disk, asset, memory>>

GetLength(h) ==
  /\ asset[h].live
  /\ Call("length", asset[h].size)
  /\ UNCHANGED <<mounted, modRoot, modState, disk, asset, memory, touched>>

(* AAsset_getRemainingLength asks the stream of a handle that has none.    *)
GetRemainingLength(h) ==
  /\ asset[h].live
  /\ IF asset[h].mem
       THEN Call("remaining", asset[h].size - asset[h].pos) /\ UNCHANGED touched
       ELSE Call("remaining", Error) /\ Deref(h, "remaining")
  /\ UNCHANGED <<mounted, modRoot, modState, disk, asset, memory>>

(* The card comes up; files and mods/ come and go. *)
CardChanges ==
  /\ \/ ~ mounted /\ mounted' = TRUE /\ UNCHANGED <<modRoot, disk>>
     \/ modRoot' = ~ modRoot /\ UNCHANGED <<mounted, disk>>
     \/ disk' \in SUBSET Sources /\ UNCHANGED <<mounted, modRoot>>
  /\ UNCHANGED <<modState, asset, memory, returned, touched, calls>>

Next ==
  \/ CardChanges
  \/ \E h \in Handles :
       \/ Open(h) \/ Close(h) \/ GetBuffer(h) \/ GetLength(h) \/ GetRemainingLength(h)
       \/ \E n \in {0, 1, 3} : Read(h, n) \/ Seek(h, n)

Spec == Init /\ [][Next]_assetVars

-----------------------------------------------------------------------------
(* Properties *)

(* Reading, searching or mapping a handle after it was closed touches no   *)
(* memory, an open handle walks inside its buffer, and an override is only *)
(* taken in a process that found mods/ when it first looked.               *)
ClosedStaysHarmless ==
  /\ touched \subseteq {"remaining"}
  /\ \A h \in Handles :
       /\ asset[h].pos <= asset[h].size
       /\ asset[h].from = "mods" => modState = "present"

(* The comment at asset_ok: every AAsset_* entry point can fail safe.  The *)
(* remaining length of a closed handle asks a stream that is not there.    *)
EveryEntryFailsSafe == touched = {}

-----------------------------------------------------------------------------
(* The inductive invariant *)

TypeOK ==
  /\ modState \in {"unknown", "absent", "present"}
  /\ asset \in [Handles -> [live : BOOLEAN, mem : BOOLEAN, size : 0 .. Error - 1,
                            pos : Nat, from : Sources \cup {"none"}]]
  /\ memory \subseteq Handles

(* A handle says it has memory when it has, and without it is at 0 of 0. *)
MemoryKnown ==
  \A h \in Handles : /\ asset[h].mem <=> h \in memory
                     /\ ~ asset[h].mem => asset[h].size = 0 /\ asset[h].pos = 0

IInv == TypeOK /\ MemoryKnown /\ ClosedStaysHarmless
=============================================================================
