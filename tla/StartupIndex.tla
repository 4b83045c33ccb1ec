---------------------------- MODULE StartupIndex ----------------------------
(***************************************************************************)
(* stat() of the content directories (libc_shim.c).  While the title       *)
(* screen is in loading state 3 one call site of the game probes thousands *)
(* of names under hotpackagestorage; those are answered from a snapshot    *)
(* that a worker thread, or else the first probe, takes of the directory.  *)
(* Every other stat asks the file system.  Downloads and deletions go on   *)
(* while the snapshot is taken and while it is used.                       *)
(***************************************************************************)
EXTENDS Naturals

CONSTANTS
  Names,         \* names under hotpackagestorage that the game probes
  MaxChanges     \* bound: downloads and deletions

VARIABLES
  files,         \* the names that exist
  state,         \* g_startup_hot_index_state: 0, 1, 2, or 3 for -1 (failed)
  builder,       \* who builds: "none", "starting", "worker", "stat"
  visited,       \* the names the scan has come past
  build,         \* the names the scan has found
  index,         \* g_startup_hot_index: published with state 2
  loading,       \* the title screen's loading state: 2, 3 or 4
  probe,         \* the name the call site asks for, or NoName
  answer,        \* its last answer: [name, found], or NoAnswer
  held,          \* per name, what was true of it since the scan began
  changes

indexVars == <<files, state, builder, visited, build, index, loading, probe,
               answer, held, changes>>

NoName == "no name"
NoAnswer == [name |-> NoName, found |-> FALSE]

IndexConstants == NoName \notin Names /\ MaxChanges \in Nat

Init ==
  /\ files \in SUBSET Names
  /\ state = 0 /\ builder = "none"
  /\ visited = {} /\ build = {} /\ index = {}
  /\ loading = 2
  /\ probe = NoName /\ answer = NoAnswer
  /\ held = [n \in Names |-> {(n \in files)}]
  /\ changes = 0

-----------------------------------------------------------------------------
(* Building *)

ScanStarts ==
  /\ visited' = {} /\ build' = {}
  /\ held' = [n \in Names |-> {(n \in files)}]

(* startup_hot_index_prebuild_async: the state is claimed first, and given *)
(* back if no thread can be had.                                           *)
Prebuild ==
  /\ state = 0 /\ builder = "none"
  /\ state' = 1 /\ builder' = "starting"
  /\ UNCHANGED <<files, visited, build, index, loading, probe, answer, held, changes>>

Spawn ==
  /\ builder = "starting"
  /\ \/ builder' = "worker" /\ ScanStarts /\ UNCHANGED state
     \/ builder' = "none" /\ state' = 0 /\ UNCHANGED <<visited, build, held>>
  /\ UNCHANGED <<files, index, loading, probe, answer, changes>>

(* startup_hot_index_scan_dir comes past one more entry. *)
Scan(n) ==
  /\ builder \in {"worker", "stat"} /\ n \notin visited
  /\ visited' = visited \cup {n}
  /\ build' = IF n \in files THEN build \cup {n} ELSE build
  /\ UNCHANGED <<files, state, builder, index, loading, probe, answer, held, changes>>

(* The sorted table is published before the state that says it is there. *)
Publish ==
  /\ builder \in {"worker", "stat"} /\ visited = Names
  /\ index' = build /\ state' = 2 /\ builder' = "none"
  /\ UNCHANGED <<files, visited, build, loading, probe, answer, held, changes>>

(* No memory, no directory, a name too long: no index, for good. *)
BuildFails ==
  /\ builder \in {"worker", "stat"}
  /\ state' = 3 /\ builder' = "none"
  /\ UNCHANGED <<files, visited, build, index, loading, probe, answer, held, changes>>

-----------------------------------------------------------------------------
(* Probing *)

TitleGoesOn ==
  /\ loading < 4 /\ probe = NoName
  /\ loading' = loading + 1
  /\ answer' = NoAnswer
  /\ UNCHANGED <<files, state, builder, visited, build, index, probe, held, changes>>

Ask(n) ==
  /\ probe = NoName
  /\ probe' = n
  /\ UNCHANGED <<files, state, builder, visited, build, index, loading, answer, held, changes>>

(* An index that is being built is taken for a finished one. *)
IndexReady_WhileBuilding == state \in {1, 2}

IndexReady == state = 2

Reply(found) ==
  /\ answer' = [name |-> probe, found |-> found]
  /\ probe' = NoName
  /\ UNCHANGED <<files, state, builder, visited, build, index, loading, held, changes>>

(* startup_hot_index_stat in loading state 3. *)
StatFromIndex ==
  /\ probe # NoName /\ loading = 3 /\ IndexReady
  /\ Reply(probe \in index)

(* direct_content_stat: outside state 3, and while there is no index. *)
StatDirect ==
  /\ probe # NoName /\ builder # "stat"
  /\ loading # 3 \/ ~ IndexReady
  /\ loading = 3 => state # 0
  /\ Reply(probe \in files)

(* A probe that finds the state unclaimed builds the index itself. *)
StatBuilds ==
  /\ probe # NoName /\ loading = 3 /\ state = 0
  /\ state' = 1 /\ builder' = "stat"
  /\ ScanStarts
  /\ UNCHANGED <<files, index, loading, probe, answer, changes>>

(* A package is downloaded or deleted. *)
Change(n) ==
  /\ changes < MaxChanges /\ changes' = changes + 1
  /\ files' = IF n \in files THEN files \ {n} ELSE files \cup {n}
  /\ held' = [held EXCEPT ![n] = @ \cup {(n \in files')}]
  /\ answer' = NoAnswer
  /\ UNCHANGED <<state, builder, visited, build, index, loading, probe>>

Next ==
  \/ Prebuild \/ Spawn \/ Publish \/ BuildFails
  \/ TitleGoesOn \/ StatFromIndex \/ StatDirect \/ StatBuilds
  \/ \E n \in Names : Scan(n) \/ Ask(n) \/ Change(n)

Spec == Init /\ [][Next]_indexVars

-----------------------------------------------------------------------------
(* What stat says was so at some time since the scan began, and outside    *)
(* state 3 it is so now: no name is missed because the snapshot was not    *)
(* finished, and none of it is used later.                                 *)
StatHonest ==
  answer # NoAnswer =>
    IF loading = 3 THEN answer.found \in held[answer.name]
                   ELSE answer.found = (answer.name \in files)

-----------------------------------------------------------------------------
(* The inductive invariant *)

TypeOK ==
  /\ state \in 0 .. 3 /\ builder \in {"none", "starting", "worker", "stat"}
  /\ state # 1 => builder = "none"
  /\ loading \in 2 .. 4
  /\ held \in [Names -> SUBSET BOOLEAN]
  /\ probe \in Names \cup {NoName}
  /\ build \subseteq visited
  /\ answer # NoAnswer => answer \in [name : Names, found : BOOLEAN]

(* What held since the scan began includes what is so now, what the scan    *)
(* has found and, once it is published, what the index says.                *)
HeldSince ==
  \A n \in Names :
    /\ (n \in files) \in held[n]
    /\ builder \in {"worker", "stat"} /\ n \in visited => (n \in build) \in held[n]
    /\ state = 2 => (n \in index) \in held[n]

(* A change takes the answer back, so before the index is there an answer   *)
(* says what is so now.                                                     *)
DirectNow == answer # NoAnswer /\ state # 2 => answer.found = (answer.name \in files)

IInv == TypeOK /\ HeldSince /\ DirectNow /\ StatHonest
=============================================================================
