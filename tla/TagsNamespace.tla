--------------------------- MODULE TagsNamespace ---------------------------
(***************************************************************************)
(* The private directory tags/ (libc_shim.c).  The game clears it          *)
(* recursively with removePrivateData("tags"), caches personalisation      *)
(* payloads in it, and reads and writes tags/app_version, which the port   *)
(* answers from the manifest: a read seeds the file when it is missing or  *)
(* empty, a write stores the manifest version and hands the caller a sink. *)
(* Every call takes the file lock on its own, so calls of other threads    *)
(* come between the calls of one function.                                 *)
(***************************************************************************)
EXTENDS Naturals, FiniteSets

CONSTANTS
  Threads,
  MaxCalls,      \* bound: calls of the interface in a behaviour
  MaxFaults      \* bound: SD operations that fail

VARIABLES
  dir,           \* tags/ exists
  version,       \* tags/app_version: "absent", "empty", "manifest"
  cache,         \* another cached payload: "absent", "legacy", "payload"
  holders,       \* the threads that have app_version open
  pc,            \* where each thread is
  todo,          \* the names a clearing thread has still to delete
  got,           \* what a thread's last call returned
  disturbed,     \* another thread's call, or a fault, came into this call
  calls, faults  \* calls begun, operations failed

tagVars == <<dir, version, cache, holders, pc, todo, got, disturbed, calls, faults>>

TagConstants == MaxCalls \in Nat /\ MaxFaults \in Nat

Init ==
  /\ dir \in BOOLEAN
  /\ version \in IF dir THEN {"absent", "empty", "manifest"} ELSE {"absent"}
  /\ cache \in IF dir THEN {"absent", "legacy", "payload"} ELSE {"absent"}
  /\ holders = {}
  /\ pc = [t \in Threads |-> "idle"]
  /\ todo = [t \in Threads |-> {}]
  /\ got = [t \in Threads |-> "none"]
  /\ disturbed = [t \in Threads |-> FALSE]
  /\ calls = 0 /\ faults = 0

-----------------------------------------------------------------------------

Busy == {t \in Threads : pc[t] # "idle"}

Begin(t, where) ==
  /\ pc[t] = "idle" /\ calls < MaxCalls
  /\ calls' = calls + 1
  /\ pc' = [pc EXCEPT ![t] = where]
  /\ got' = [got EXCEPT ![t] = "none"]
  /\ disturbed' = [u \in Threads |->
       IF u = t THEN Busy # {} ELSE disturbed[u] \/ u \in Busy]
  /\ UNCHANGED <<dir, version, cache, holders, todo, faults>>

Return(t, value) ==
  /\ pc' = [pc EXCEPT ![t] = "idle"]
  /\ got' = [got EXCEPT ![t] = value]

Goto(t, where) == pc' = [pc EXCEPT ![t] = where] /\ UNCHANGED got

Fault(t) ==
  /\ faults < MaxFaults /\ faults' = faults + 1
  /\ disturbed' = [disturbed EXCEPT ![t] = TRUE]

NoFault == UNCHANGED <<faults, disturbed>>

(* fopen(tags/app_version, "r"): the directories above the file are made,  *)
(* and a fault only leaves them missing.                                   *)
MakeParents(t, then) ==
  /\ \/ dir' = TRUE /\ NoFault
     \/ ~ dir /\ Fault(t) /\ UNCHANGED dir
  /\ Goto(t, then)
  /\ UNCHANGED <<version, cache, holders, todo, calls>>

ReadParents(t) == pc[t] = "parents" /\ MakeParents(t, "probe")
WriteParents(t) == pc[t] = "wparents" /\ MakeParents(t, "persist")

(* A file that opens is taken for a good one. *)
Usable_AnyFile == version # "absent"

(* The file is usable if it opens and is not empty. *)
Usable == version = "manifest"

Probe(t) ==
  /\ pc[t] = "probe"
  /\ Goto(t, IF Usable THEN "open" ELSE "seed")
  /\ UNCHANGED <<dir, version, cache, holders, todo, disturbed, calls, faults>>

(* fopen(path, "wb") truncates or creates; it fails without the directory, *)
(* on a file that is open, or by a fault.                                  *)
Truncate(t) == dir /\ holders = {} /\ version' = "empty" /\ holders' = {t}

Seed(t) ==
  /\ pc[t] = "seed"
  /\ \/ Truncate(t) /\ Goto(t, "seeding") /\ NoFault
     \/ ~ (dir /\ holders = {}) /\ Goto(t, "open") /\ UNCHANGED <<version, holders>> /\ NoFault
     \/ Fault(t) /\ Goto(t, "open") /\ UNCHANGED <<version, holders>>
  /\ UNCHANGED <<dir, cache, todo, calls>>

(* fwrite and fclose: the short write is not looked at. *)
FillAndClose(t) ==
  /\ \/ version' = "manifest" /\ NoFault
     \/ Fault(t) /\ UNCHANGED version
  /\ holders' = holders \ {t}
  /\ UNCHANGED <<dir, cache, todo, calls>>

Seeding(t) == pc[t] = "seeding" /\ FillAndClose(t) /\ Goto(t, "open")

(* The open the caller asked for, and the bytes it finds. *)
Open(t) ==
  /\ pc[t] = "open"
  /\ IF dir /\ version # "absent" THEN Return(t, version) ELSE Return(t, "null")
  /\ UNCHANGED <<dir, version, cache, holders, todo, disturbed, calls, faults>>

(* fopen(tags/app_version, "w"): the manifest version is stored and the    *)
(* caller writes into a sink; if it cannot be stored the caller's own open *)
(* goes through.                                                           *)
Persist(t) ==
  /\ pc[t] = "persist"
  /\ \/ Truncate(t) /\ Goto(t, "persisting") /\ NoFault
     \/ ~ (dir /\ holders = {}) /\ Goto(t, "open") /\ UNCHANGED <<version, holders>> /\ NoFault
     \/ Fault(t) /\ Goto(t, "open") /\ UNCHANGED <<version, holders>>
  /\ UNCHANGED <<dir, cache, todo, calls>>

Persisting(t) == pc[t] = "persisting" /\ FillAndClose(t) /\ Return(t, "sink")

(* The cache of a personalisation payload: the game writes it, and a read  *)
(* of the historical empty payload is refused.                             *)
WriteCache(t) ==
  /\ pc[t] = "idle" /\ dir
  /\ cache' = "payload"
  /\ UNCHANGED <<dir, version, holders, pc, todo, got, disturbed, calls, faults>>

ReadCache(t) ==
  /\ pc[t] = "idle" /\ calls < MaxCalls
  /\ calls' = calls + 1
  /\ got' = [got EXCEPT ![t] = IF cache = "payload" THEN "payload" ELSE "nocache"]
  /\ UNCHANGED <<dir, version, cache, holders, pc, todo, disturbed, faults>>

Present(name) == (IF name = "version" THEN version ELSE cache) # "absent"

(* remove_private_tree_L: the directory is opened, its names are deleted   *)
(* one by one, the directory is removed if they all went.                  *)
ClearStart(t) ==
  /\ pc[t] = "clear"
  /\ IF ~ dir THEN Return(t, "cleared") /\ UNCHANGED todo
     ELSE /\ todo' = [todo EXCEPT ![t] = {n \in {"version", "cache"} : Present(n)}]
          /\ Goto(t, "unlink")
  /\ UNCHANGED <<dir, version, cache, holders, disturbed, calls, faults>>

(* A name that has gone since counts as cleared, or fails the walk if it   *)
(* goes between the two calls; one that is open does not go.               *)
ClearName(t, name) ==
  /\ pc[t] = "unlink" /\ name \in todo[t]
  /\ \/ /\ name = "cache" \/ holders = {}
        /\ IF name = "cache" THEN cache' = "absent" /\ UNCHANGED version
                             ELSE version' = "absent" /\ UNCHANGED cache
        /\ todo' = [todo EXCEPT ![t] = @ \ {name}]
        /\ UNCHANGED <<pc, got>> /\ NoFault
     \/ /\ (name = "version" /\ holders # {}) \/ ~ Present(name)
        /\ Return(t, "failed") /\ UNCHANGED <<version, cache, todo>> /\ NoFault
     \/ Fault(t) /\ Return(t, "failed") /\ UNCHANGED <<version, cache, todo>>
  /\ UNCHANGED <<dir, holders, calls>>

ClearDirectory(t) ==
  /\ pc[t] = "unlink" /\ todo[t] = {}
  /\ IF version = "absent" /\ cache = "absent"
       THEN dir' = FALSE /\ Return(t, "cleared")
       ELSE Return(t, "failed") /\ UNCHANGED dir
  /\ UNCHANGED <<version, cache, holders, todo, disturbed, calls, faults>>

Next ==
  \E t \in Threads :
    \/ Begin(t, "parents") \/ Begin(t, "wparents") \/ Begin(t, "clear")
    \/ ReadParents(t) \/ Probe(t) \/ Seed(t) \/ Seeding(t) \/ Open(t)
    \/ WriteParents(t) \/ Persist(t) \/ Persisting(t)
    \/ WriteCache(t) \/ ReadCache(t)
    \/ ClearStart(t) \/ ClearDirectory(t)
    \/ \E name \in {"version", "cache"} : ClearName(t, name)

Spec == Init /\ [][Next]_tagVars

-----------------------------------------------------------------------------
(* After a clear the next read of app_version finds the manifest version,  *)
(* whatever earlier calls left behind, unless an operation of that read    *)
(* fails or another thread's call comes in between.                        *)
VersionAfterClear ==
  \A t \in Threads : got[t] \in {"null", "empty"} => disturbed[t]

-----------------------------------------------------------------------------
(* The inductive invariant *)

TypeOK ==
  /\ dir \in BOOLEAN
  /\ version \in {"absent", "empty", "manifest"}
  /\ pc \in [Threads -> {"idle", "parents", "probe", "seed", "seeding", "open", "wparents",
                         "persist", "persisting", "clear", "unlink"}]
  /\ got \in [Threads -> {"none", "null", "empty", "manifest", "sink", "payload", "nocache",
                          "cleared", "failed"}]
  /\ disturbed \in [Threads -> BOOLEAN]
  /\ holders \subseteq {t \in Threads : pc[t] \in {"seeding", "persisting"}}

(* A call that nothing came into is alone, finds the directory it made and, *)
(* when it opens the file for its caller, a file that was usable or seeded. *)
Undisturbed(t) ==
  /\ \A u \in Threads : u # t => pc[u] = "idle"
  /\ pc[t] \in {"probe", "seed", "seeding", "open", "persist", "persisting"} => dir
  /\ pc[t] = "open" => version = "manifest"

IInv ==
  /\ TypeOK /\ VersionAfterClear
  /\ \A t \in Threads : pc[t] # "idle" /\ ~ disturbed[t] => Undisturbed(t)
=============================================================================
