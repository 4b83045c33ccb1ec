----------------------------- MODULE GuestSync -----------------------------
(***************************************************************************)
(* The smaller synchronisation primitives that guest threads share: futex, *)
(* pthread_once, lazy read-write locks and thread keys.  They have no      *)
(* state in common, so a behaviour exercises one of them, chosen at the    *)
(* start, while the others rest: every behaviour of each is covered.       *)
(***************************************************************************)
EXTENDS Naturals

CONSTANTS
  Parts,         \* the primitives a run exercises
  Threads, Addrs, Hash, FutexVals, Controls, Objs, NumKeys, NumSlots, KeyVals, Null

VARIABLES
  part,                                          \* the primitive in use
  word, bucketLock, fpc, uaddr, val, timed,
  control, opc, once, began, ran, passed,
  slot, allocated, writer, readers, rpc, want, created, rw, holds,
  ptkVal, ptkTid, ptkUsed, kpc, kcall, mySlot, made, expect, wrong

F == INSTANCE Futex WITH Vals <- FutexVals, NoOne <- Null
O == INSTANCE PthreadOnce
R == INSTANCE LazyRwLock WITH Nil <- Null
K == INSTANCE PthreadKeys WITH Vals <- KeyVals, NoOne <- Null

(* What the proofs about the four assume of the constants. *)
ASSUME GuestConstants ==
  /\ Parts \subseteq {"futex", "once", "rwlock", "keys"}
  /\ F!FutexConstants /\ O!OnceConstants /\ R!RwConstants /\ K!KeyConstants

futexVars == <<word, bucketLock, fpc, uaddr, val, timed>>
onceVars == <<control, opc, once, began, ran, passed>>
rwVars == <<slot, allocated, writer, readers, rpc, want, created, rw, holds>>
keyVars == <<ptkVal, ptkTid, ptkUsed, kpc, kcall, mySlot, made, expect, wrong>>
vars == <<part, futexVars, onceVars, rwVars, keyVars>>

Init ==
  /\ part \in Parts
  /\ F!Init /\ O!Init /\ R!Init /\ K!Init
  /\ part # "futex" => word = [a \in Addrs |-> CHOOSE v \in FutexVals : TRUE]

FutexNext == part = "futex" /\ F!Next /\ UNCHANGED <<part, onceVars, rwVars, keyVars>>
OnceNext == part = "once" /\ O!Next /\ UNCHANGED <<part, futexVars, rwVars, keyVars>>
RwLockNext == part = "rwlock" /\ R!Next /\ UNCHANGED <<part, futexVars, onceVars, keyVars>>
KeysNext == part = "keys" /\ K!Next /\ UNCHANGED <<part, futexVars, onceVars, rwVars>>

Next == FutexNext \/ OnceNext \/ RwLockNext \/ KeysNext

Spec == Init /\ [][Next]_vars

(* Each primitive under its own assumptions of fairness. *)
FairSpec == Spec /\ F!Fairness /\ O!Fairness

-----------------------------------------------------------------------------
(* Properties *)

(* The invariants the proofs rest on hold, and no futex wake is lost: a     *)
(* thread that sleeps on a changed word is about to be woken.               *)
FutexNoLostWake == F!NoLostWake
GuestSound == F!IInv /\ O!IInv /\ R!IInv /\ K!IInv /\ FutexNoLostWake

(* The routine of pthread_once is run to its end once before anybody goes   *)
(* on.                                                                      *)
OnceBeforeUse == O!OnceBeforeUse

(* A writer has the lock alone, and the racing first users leave one object *)
(* and no other.                                                            *)
RwLockSound == R!WriterAlone /\ R!OneObject

(* A thread's values are its own.                                           *)
KeysPrivate == K!KeysPrivate

(* A futex sleeper whose word has changed wakes up, with no time-out, and   *)
(* every caller that polls a once control gets through.                     *)
GuestWakes == F!SleeperWakes /\ O!OnceReturns
=============================================================================
