----------------------------- MODULE MmapTable -----------------------------
(***************************************************************************)
(* mmap and munmap (os_shims.c): every mapping is a heap block, filled     *)
(* from the file through the descriptor's own position, and a table of     *)
(* block addresses tells munmap which addresses it may free.  The table's  *)
(* mutex is initialised by whoever comes first.                            *)
(***************************************************************************)
EXTENDS Naturals, FiniteSets, Sequences

CONSTANTS
  Threads,
  Blocks,        \* addresses the heap hands out
  MaxCalls,      \* bound: calls in a behaviour
  FirstCallAlone \* the first call of the process overlaps no other

VARIABLES
  table,         \* g_maps[0 .. g_maps_len)
  inited,        \* g_maps_mtx_init
  holders,       \* the threads inside maps_lock
  free,          \* blocks the heap has
  mapped,        \* blocks mmap returned that munmap has not been given
  pc, block, index, \* per thread: its place, its block, the length it read
  lost,          \* a munmap of a mapped block freed nothing
  calls

mapVars == <<table, inited, holders, free, mapped, pc, block, index, lost, calls>>

NoBlock == "no block"

MapConstants == NoBlock \notin Blocks /\ MaxCalls \in Nat /\ FirstCallAlone \in BOOLEAN

Init ==
  /\ table = << >> /\ inited = FALSE /\ holders = {}
  /\ free = Blocks /\ mapped = {}
  /\ pc = [t \in Threads |-> "idle"]
  /\ block = [t \in Threads |-> NoBlock]
  /\ index = [t \in Threads |-> 0]
  /\ lost = FALSE /\ calls = 0

-----------------------------------------------------------------------------

Goto(t, where) == pc' = [pc EXCEPT ![t] = where]

(* An anonymous mapping needs no file. *)
Alloc(t, anonymous) ==
  /\ pc[t] = "idle" /\ calls < MaxCalls /\ calls' = calls + 1
  /\ FirstCallAlone /\ ~ inited => \A u \in Threads : pc[u] = "idle"
  /\ \E b \in free :
       /\ free' = free \ {b}
       /\ block' = [block EXCEPT ![t] = b]
  /\ Goto(t, IF anonymous THEN "remember" ELSE "fill")
  /\ UNCHANGED <<table, inited, holders, mapped, index, lost>>

(* A mapping of a file is filled by seek and read; a short read gives the  *)
(* block back.                                                             *)
Fill(t) ==
  /\ pc[t] = "fill"
  /\ \/ Goto(t, "remember") /\ UNCHANGED <<free, block>>
     \/ /\ Goto(t, "idle")
        /\ free' = free \cup {block[t]}
        /\ block' = [block EXCEPT ![t] = NoBlock]
  /\ UNCHANGED <<table, inited, holders, mapped, index, lost, calls>>

(* maps_lock: the flag is read, the mutex made anew if it was not set, and *)
(* then locked.                                                            *)
TestFlag(t, from, first, lock) ==
  /\ pc[t] = from
  /\ Goto(t, IF inited THEN lock ELSE first)
  /\ UNCHANGED <<table, inited, holders, free, mapped, block, index, lost, calls>>

InitMutex(t, first, lock) ==
  /\ pc[t] = first
  /\ holders' = {} /\ inited' = TRUE
  /\ Goto(t, lock)
  /\ UNCHANGED <<table, free, mapped, block, index, lost, calls>>

LockMutex(t, lock, inside) ==
  /\ pc[t] = lock /\ holders = {}
  /\ holders' = {t}
  /\ Goto(t, inside)
  /\ UNCHANGED <<table, inited, free, mapped, block, index, lost, calls>>

(* maps_remember: the length is read, the record written at that place,    *)
(* the length stored.                                                      *)
ReadLength(t) ==
  /\ pc[t] = "length"
  /\ index' = [index EXCEPT ![t] = Len(table)]
  /\ Goto(t, "store")
  /\ UNCHANGED <<table, inited, holders, free, mapped, block, lost, calls>>

Store(t) ==
  /\ pc[t] = "store"
  /\ table' = [i \in 1 .. index[t] + 1 |->
                 IF i = index[t] + 1 \/ i > Len(table) THEN block[t] ELSE table[i]]
  /\ mapped' = mapped \cup {block[t]}
  /\ block' = [block EXCEPT ![t] = NoBlock]
  /\ holders' = holders \ {t}
  /\ Goto(t, "idle")
  /\ UNCHANGED <<inited, free, index, lost, calls>>

(* munmap frees only what maps_forget finds; the last record takes its     *)
(* place.                                                                  *)
Unmap(t) ==
  /\ pc[t] = "idle" /\ calls < MaxCalls /\ calls' = calls + 1
  /\ inited
  /\ \E b \in mapped :
       /\ block' = [block EXCEPT ![t] = b]
       /\ mapped' = mapped \ {b}
  /\ Goto(t, "forget")
  /\ UNCHANGED <<table, inited, holders, free, index, lost>>

Places(b) == {i \in 1 .. Len(table) : table[i] = b}

Without(i) == SubSeq([table EXCEPT ![i] = table[Len(table)]], 1, Len(table) - 1)

Forget(t) ==
  /\ pc[t] = "find"
  /\ IF Places(block[t]) = {}
       THEN lost' = TRUE /\ UNCHANGED <<table, free>>
       ELSE /\ table' = Without(CHOOSE i \in Places(block[t]) :
                                  \A j \in Places(block[t]) : i <= j)
            /\ free' = free \cup {block[t]}
            /\ UNCHANGED lost
  /\ block' = [block EXCEPT ![t] = NoBlock]
  /\ holders' = holders \ {t}
  /\ Goto(t, "idle")
  /\ UNCHANGED <<inited, mapped, index, calls>>

Next ==
  \E t \in Threads :
    \/ Alloc(t, TRUE) \/ Alloc(t, FALSE) \/ Fill(t)
    \/ TestFlag(t, "remember", "makelock", "lock")
    \/ InitMutex(t, "makelock", "lock") \/ LockMutex(t, "lock", "length")
    \/ ReadLength(t) \/ Store(t)
    \/ Unmap(t) \/ TestFlag(t, "forget", "makeforget", "lockforget")
    \/ InitMutex(t, "makeforget", "lockforget") \/ LockMutex(t, "lockforget", "find")
    \/ Forget(t)

Spec == Init /\ [][Next]_mapVars

-----------------------------------------------------------------------------
(* What the comment above the table promises: it remembers every mapping   *)
(* so that munmap can free it, and once only.  A record is there for each  *)
(* mapped block, and none for a block the heap has.                        *)
MappingsRemembered ==
  /\ ~ lost
  /\ \A b \in mapped : Cardinality(Places(b)) = 1
  /\ \A b \in free : Places(b) = {}

-----------------------------------------------------------------------------
(* The inductive invariant *)

Inside == {"length", "store", "find"}
Making == {"makelock", "makeforget"}
Locking == {"lock", "lockforget"}
Forgetting == {"forget", "makeforget", "lockforget", "find"}

TypeOK ==
  /\ table \in Seq(Blocks) /\ inited \in BOOLEAN
  /\ free \subseteq Blocks /\ mapped \subseteq Blocks
  /\ pc \in [Threads -> {"idle", "fill", "remember", "lock"} \cup Inside \cup Making
                        \cup Forgetting]
  /\ block \in [Threads -> Blocks \cup {NoBlock}]
  /\ index \in [Threads -> Nat]

(* While the mutex is not made one thread is at work at most, so it is made *)
(* once and before it is locked; from then on it keeps the others out.      *)
LockInv ==
  /\ ~ inited => \A t, u \in Threads : pc[t] # "idle" /\ pc[u] # "idle" => t = u
  /\ \A t \in Threads : /\ pc[t] \in Making => ~ inited
                        /\ pc[t] \in Locking \cup Inside => inited
                        /\ pc[t] \in Inside => holders = {t}
                        /\ pc[t] = "store" => index[t] = Len(table)

(* A block is the heap's, a thread's or mapped. *)
BlockInv ==
  /\ free \cap mapped = {}
  /\ \A t \in Threads :
       /\ pc[t] = "idle" <=> block[t] = NoBlock
       /\ block[t] \notin free \cup mapped
       /\ \A u \in Threads : block[t] = block[u] /\ block[t] # NoBlock => t = u

(* The table has a record of what is mapped and of what is being unmapped,  *)
(* and of nothing else.                                                     *)
Recorded(b) == b \in mapped \/ \E t \in Threads : block[t] = b /\ pc[t] \in Forgetting
TableInv ==
  /\ \A i, j \in 1 .. Len(table) : table[i] = table[j] => i = j
  /\ \A b \in Blocks : Recorded(b) <=> \E i \in 1 .. Len(table) : table[i] = b

IInv == TypeOK /\ LockInv /\ BlockInv /\ TableInv /\ ~ lost
=============================================================================
