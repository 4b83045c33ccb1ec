---------------------------- MODULE HeapSwitch ----------------------------
(***************************************************************************)
(* malloc and its family as the Android libraries see them (imports.c).    *)
(* Until Wwise has configured the rpmalloc that is bundled with the game,  *)
(* blocks come from newlib behind a header that says so; afterwards they   *)
(* come from rpmalloc and carry nothing.  A block is told apart when it is *)
(* freed, by the magic word in front of it, long after the switch.         *)
(*                                                                         *)
(* rpmalloc maps its own memory through mmap, which is newlib's memalign   *)
(* here, so a block of one allocator may lie where one of the other lay.   *)
(***************************************************************************)
EXTENDS Naturals, FiniteSets

CONSTANTS
  Users,       \* threads of the game
  Places,      \* addresses a block may have
  Bytes,       \* sizes asked for; all positive
  MaxOps       \* bound: allocations

Idle == [op |-> "none", place |-> "none", size |-> 0]
None == [owner |-> "none", size |-> 0]

VARIABLES
  block,       \* the live block at a place: its allocator and its size
  magic,       \* the word in front of the place is PVZ2_EARLY_HEAP_MAGIC
  header,      \* the size the header in front of the place states
  kept,        \* bytes of the block that hold what the game wrote
  configured,  \* Wwise has initialised rpmalloc
  active,      \* g_pvz2_heap_game_base is set
  tried,       \* main has called pvz2_heap_set_game_base
  call,        \* what a thread is about to do, chosen before the switch or after
  crossed,     \* a block was given to the other allocator
  lost,        \* a realloc dropped bytes it had to keep
  ops

heapVars == <<block, magic, header, kept, configured, active, tried, call, crossed, lost,
              ops>>

HeapConstants == MaxOps \in Nat /\ 0 \notin Bytes /\ Bytes \subseteq Nat

Init ==
  /\ block = [p \in Places |-> None]
  /\ magic = [p \in Places |-> FALSE]
  /\ header = [p \in Places |-> 0]
  /\ kept = [p \in Places |-> 0]
  /\ configured = FALSE
  /\ active = FALSE
  /\ tried = FALSE
  /\ call = [u \in Users |-> Idle]
  /\ crossed = FALSE
  /\ lost = FALSE
  /\ ops = 0

-----------------------------------------------------------------------------

Free(p) == block[p] = None
Smaller(a, b) == IF a < b THEN a ELSE b
ToolsOf(live) == IF live THEN "rpmalloc" ELSE "newlib"

(* Wwise initialises its memory manager before main returns to it, if the  *)
(* native call was reached at all.                                          *)
Configure ==
  /\ ~ configured /\ ~ tried
  /\ configured' = TRUE
  /\ UNCHANGED <<block, magic, header, kept, active, tried, call, crossed, lost, ops>>

(* The switch is refused until main has configured the game's allocator. *)
Ready == configured

(* pvz2_heap_set_game_base, once, from main. *)
SetGameBase ==
  /\ ~ tried
  /\ tried' = TRUE
  /\ active' = Ready
  /\ UNCHANGED <<block, magic, header, kept, configured, call, crossed, lost, ops>>

(* A thread enters malloc, calloc, memalign, strdup or vasprintf; free; or  *)
(* realloc.                                                                 *)
Enter(u, op, p, size) ==
  /\ call[u] = Idle
  /\ IF op = "malloc" THEN p = "none" ELSE p # "none"
  /\ op \in {"free", "realloc"} =>
       /\ ~ Free(p) /\ \A v \in Users : call[v].place # p
  /\ op = "free" => size = 0
  /\ op = "malloc" => ops < MaxOps /\ size > 0
  /\ op = "realloc" => ops < MaxOps /\ size > 0
  /\ ops' = IF op = "free" THEN ops ELSE ops + 1
  /\ call' = [call EXCEPT ![u] = [op |-> op, place |-> p, size |-> size]]
  /\ UNCHANGED <<block, magic, header, kept, configured, active, tried, crossed, lost>>

(* pvz2_early_heap_alloc or rpmalloc; the latter leaves the words in front   *)
(* of the block as they are.                                                 *)
Given(p, size) == [owner |-> ToolsOf(active), size |-> size]
MagicAfter(p) == IF active THEN magic[p] ELSE TRUE
HeaderAfter(p, size) == IF active THEN header[p] ELSE size

Malloc(u, p) ==
  /\ call[u].op = "malloc" /\ Free(p)
  /\ block' = [block EXCEPT ![p] = Given(p, call[u].size)]
  /\ magic' = [magic EXCEPT ![p] = MagicAfter(p)]
  /\ header' = [header EXCEPT ![p] = HeaderAfter(p, call[u].size)]
  /\ kept' = [kept EXCEPT ![p] = call[u].size]
  /\ crossed' = (crossed \/ (active /\ ~ configured))
  /\ call' = [call EXCEPT ![u] = Idle]
  /\ UNCHANGED <<configured, active, tried, lost, ops>>

(* A free that leaves the magic word behind. *)
MagicFreed_Left == TRUE

MagicFreed == FALSE

(* The allocator pvz2_heap_free picks for a block. *)
Picked(p) == IF magic[p] THEN "newlib" ELSE ToolsOf(active)

FreeBlock(u) ==
  LET p == call[u].place
  IN /\ call[u].op = "free"
     /\ crossed' = (crossed \/ Picked(p) # block[p].owner)
     /\ block' = [block EXCEPT ![p] = None]
     /\ magic' = [magic EXCEPT ![p] = IF @ THEN MagicFreed ELSE FALSE]
     /\ kept' = [kept EXCEPT ![p] = 0]
     /\ call' = [call EXCEPT ![u] = Idle]
     /\ UNCHANGED <<header, configured, active, tried, lost, ops>>

(* realloc of a block with a header moves it, to rpmalloc once that is active, *)
(* and copies what fits of the size the header states.                         *)
MoveEarly(u, q) ==
  LET p == call[u].place
      copied == Smaller(header[p], call[u].size)
  IN /\ call[u].op = "realloc" /\ magic[p] /\ Free(q)
     /\ crossed' = (crossed \/ block[p].owner # "newlib")
     /\ lost' = (lost \/ copied # Smaller(kept[p], call[u].size))
     /\ block' = [block EXCEPT ![p] = None, ![q] = Given(q, call[u].size)]
     /\ magic' = [magic EXCEPT ![p] = MagicFreed, ![q] = MagicAfter(q)]
     /\ header' = [header EXCEPT ![q] = HeaderAfter(q, call[u].size)]
     /\ kept' = [kept EXCEPT ![p] = 0, ![q] = call[u].size]
     /\ call' = [call EXCEPT ![u] = Idle]
     /\ UNCHANGED <<configured, active, tried, ops>>

(* realloc of a block without one is the active allocator's own. *)
ReallocNative(u) ==
  LET p == call[u].place
  IN /\ call[u].op = "realloc" /\ ~ magic[p]
     /\ crossed' = (crossed \/ block[p].owner # ToolsOf(active))
     /\ block' = [block EXCEPT ![p].size = call[u].size]
     /\ kept' = [kept EXCEPT ![p] = call[u].size]
     /\ call' = [call EXCEPT ![u] = Idle]
     /\ UNCHANGED <<magic, header, configured, active, tried, lost, ops>>

(* No memory: NULL, and the old block stays as it was. *)
Fail(u) ==
  /\ call[u].op \in {"malloc", "realloc"}
  /\ call' = [call EXCEPT ![u] = Idle]
  /\ UNCHANGED <<block, magic, header, kept, configured, active, tried, crossed, lost, ops>>

Next ==
  \/ Configure \/ SetGameBase
  \/ \E u \in Users, op \in {"malloc", "free", "realloc"}, p \in Places \cup {"none"},
        size \in Bytes \cup {0} : Enter(u, op, p, size)
  \/ \E u \in Users : FreeBlock(u) \/ ReallocNative(u) \/ Fail(u)
  \/ \E u \in Users, p \in Places : Malloc(u, p) \/ MoveEarly(u, p)

Spec == Init /\ [][Next]_heapVars

-----------------------------------------------------------------------------
(* The switch: every block goes back to the allocator that made it,        *)
(* rpmalloc is not entered before Wwise configured it, and a block that    *)
(* moves from one to the other keeps what was written to it.               *)
HeapSound == ~ crossed /\ ~ lost

(* What HeapSound rests on: a live block has the magic word exactly when   *)
(* newlib made it, and then its header states its size.                    *)
HeaderHonest ==
  \A p \in Places :
    ~ Free(p) => /\ magic[p] <=> block[p].owner = "newlib"
                 /\ magic[p] => header[p] = block[p].size

-----------------------------------------------------------------------------
(* The inductive invariant *)

Owners == {"newlib", "rpmalloc"}
Calls == [op : {"none", "malloc", "free", "realloc"}, place : Places \cup {"none"}, size : Nat]

TypeOK ==
  /\ block \in [Places -> [owner : Owners \cup {"none"}, size : Nat]]
  /\ magic \in [Places -> BOOLEAN]
  /\ header \in [Places -> Nat] /\ kept \in [Places -> Nat]
  /\ call \in [Users -> Calls]
  /\ active \in BOOLEAN /\ configured \in BOOLEAN

(* A place without a block has no magic word; a block has one exactly when  *)
(* it is newlib's, and is rpmalloc's only after the switch, which is final. *)
Marked(p) ==
  IF Free(p) THEN ~ magic[p]
  ELSE /\ block[p].owner \in Owners
       /\ magic[p] <=> block[p].owner = "newlib"
       /\ magic[p] => header[p] = kept[p]
       /\ kept[p] = block[p].size
       /\ block[p].owner = "rpmalloc" => active

(* What a thread is about to free or to resize is live and its own. *)
Held(u) ==
  call[u].op \in {"free", "realloc"} =>
    /\ call[u].place \in Places \ {"none"} /\ ~ Free(call[u].place)
    /\ \A v \in Users : v # u => call[v].place # call[u].place

IInv ==
  /\ TypeOK /\ HeapSound
  /\ active => tried /\ configured
  /\ \A p \in Places : Marked(p)
  /\ \A u \in Users : Held(u)
=============================================================================
