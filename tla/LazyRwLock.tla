----------------------------- MODULE LazyRwLock -----------------------------
(***************************************************************************)
(* The read-write locks of source/libc_shim.c: the guest's slot is a       *)
(* pointer to a libnx RwLock that the first user makes; racing first users *)
(* each make one, and a compare-and-swap decides whose is kept.            *)
(*                                                                         *)
(* The clients keep POSIX's contract: a thread takes the lock once at a    *)
(* time, releases what it holds, and nobody destroys a lock in use.        *)
(***************************************************************************)
EXTENDS Naturals

CONSTANTS Threads, Objs, Nil

(* What the proofs assume of the constants; GuestSync has TLC evaluate it. *)
RwConstants == Nil \notin Objs

VARIABLES
  slot,          \* the guest's pthread_rwlock_t
  allocated,     \* FakeRwLock objects on the heap
  writer, readers,   \* what each libnx RwLock holds
  rpc,           \* where each thread is
  want,          \* "read", "write" or "none": the call it makes
  created, rw,   \* its local pointers: the object it made, the one it uses
  holds          \* ghost: the mode it was told it holds

lockVars == <<writer, readers>>
localVars == <<want, created, rw>>
vars == <<slot, allocated, lockVars, rpc, localVars, holds>>

Init ==
  /\ slot = Nil /\ allocated = {}
  /\ writer = [o \in Objs |-> {}] /\ readers = [o \in Objs |-> {}]
  /\ rpc = [t \in Threads |-> "idle"]
  /\ want = [t \in Threads |-> "none"]
  /\ created = [t \in Threads |-> Nil] /\ rw = [t \in Threads |-> Nil]
  /\ holds = [t \in Threads |-> "none"]

Goto(t, l) == rpc' = [rpc EXCEPT ![t] = l]

Return(t, mode) ==
  /\ Goto(t, "idle")
  /\ want' = [want EXCEPT ![t] = "none"]
  /\ created' = [created EXCEPT ![t] = Nil] /\ rw' = [rw EXCEPT ![t] = Nil]
  /\ holds' = [holds EXCEPT ![t] = mode]

CallLock(t, mode) ==
  /\ rpc[t] = "idle" /\ holds[t] = "none"
  /\ want' = [want EXCEPT ![t] = mode]
  /\ Goto(t, "load")
  /\ UNCHANGED <<slot, allocated, lockVars, created, rw, holds>>

(* get_rwlock *)
LoadSlot(t) ==
  /\ rpc[t] = "load"
  /\ rw' = [rw EXCEPT ![t] = slot]
  /\ Goto(t, IF slot = Nil THEN "make" ELSE "lock")
  /\ UNCHANGED <<slot, allocated, lockVars, want, created, holds>>

MakeLock(t) ==
  /\ rpc[t] = "make"
  /\ \E o \in Objs \ allocated :
       /\ allocated' = allocated \cup {o}
       /\ writer' = [writer EXCEPT ![o] = {}] /\ readers' = [readers EXCEPT ![o] = {}]
       /\ created' = [created EXCEPT ![t] = o]
  /\ Goto(t, "cas")
  /\ UNCHANGED <<slot, want, rw, holds>>

(* calloc gives nothing: ENOMEM. *)
MakeFails(t) ==
  /\ rpc[t] = "make"
  /\ Return(t, "none")
  /\ UNCHANGED <<slot, allocated, lockVars>>

(* Mutant: the object is stored without a comparison. *)
Install_Blind(t) ==
  /\ rpc[t] = "cas"
  /\ slot' = created[t]
  /\ rw' = [rw EXCEPT ![t] = created[t]]
  /\ Goto(t, "lock")
  /\ UNCHANGED <<allocated, lockVars, want, created, holds>>

(* The loser of the race frees its own object and uses the winner's. *)
Install(t) ==
  /\ rpc[t] = "cas"
  /\ \/ slot = Nil /\ slot' = created[t] /\ UNCHANGED allocated
     \/ slot # Nil /\ allocated' = allocated \ {created[t]} /\ UNCHANGED slot
  /\ rw' = [rw EXCEPT ![t] = slot']
  /\ Goto(t, "lock")
  /\ UNCHANGED <<lockVars, want, created, holds>>

(* rwlockReadLock, rwlockWriteLock *)
AcquireRead(t) ==
  /\ rpc[t] = "lock" /\ want[t] = "read"
  /\ writer[rw[t]] = {}
  /\ readers' = [readers EXCEPT ![rw[t]] = @ \cup {t}]
  /\ Return(t, "read")
  /\ UNCHANGED <<slot, allocated, writer>>

AcquireWrite(t) ==
  /\ rpc[t] = "lock" /\ want[t] = "write"
  /\ writer[rw[t]] = {} /\ readers[rw[t]] = {}
  /\ writer' = [writer EXCEPT ![rw[t]] = {t}]
  /\ Return(t, "write")
  /\ UNCHANGED <<slot, allocated, readers>>

(* pthread_rwlock_unlock_fake asks the lock itself how it was taken. *)
Unlock(t) ==
  /\ rpc[t] = "idle" /\ holds[t] # "none" /\ slot # Nil
  /\ IF t \in writer[slot]
     THEN writer' = [writer EXCEPT ![slot] = {}] /\ UNCHANGED readers
     ELSE readers' = [readers EXCEPT ![slot] = @ \ {t}] /\ UNCHANGED writer
  /\ holds' = [holds EXCEPT ![t] = "none"]
  /\ UNCHANGED <<slot, allocated, rpc, localVars>>

(* pthread_rwlock_destroy_fake, pthread_rwlock_init_fake after it. *)
Destroy ==
  /\ slot # Nil
  /\ \A t \in Threads : rpc[t] = "idle" /\ holds[t] = "none"
  /\ slot' = Nil /\ allocated' = allocated \ {slot}
  /\ UNCHANGED <<lockVars, rpc, localVars, holds>>

Step(t) == \/ LoadSlot(t) \/ MakeLock(t) \/ MakeFails(t) \/ Install(t)
           \/ AcquireRead(t) \/ AcquireWrite(t)

Next ==
  \/ \E t \in Threads : \/ Step(t) \/ Unlock(t)
                        \/ \E mode \in {"read", "write"} : CallLock(t, mode)
  \/ Destroy

Spec == Init /\ [][Next]_vars

-----------------------------------------------------------------------------
(* Properties *)

(* Every variable stays in its domain. *)
TypeOK ==
  /\ slot \in Objs \cup {Nil} /\ allocated \in SUBSET Objs
  /\ writer \in [Objs -> SUBSET Threads] /\ readers \in [Objs -> SUBSET Threads]
  /\ rpc \in [Threads -> {"idle", "load", "make", "cas", "lock"}]
  /\ want \in [Threads -> {"none", "read", "write"}]
  /\ created \in [Threads -> Objs \cup {Nil}] /\ rw \in [Threads -> Objs \cup {Nil}]
  /\ holds \in [Threads -> {"none", "read", "write"}]

(* A thread that was told it has the lock for writing has it alone, however *)
(* many first users made an object for the slot.                            *)
WriterAlone ==
  \A t, u \in Threads : holds[t] = "write" /\ t # u => holds[u] = "none"

(* The heap holds the object the slot names and those still to be offered   *)
(* to it; whatever a thread is about to lock is the slot's object.          *)
OneObject ==
  /\ allocated = {o \in Objs : o = slot \/ \E t \in Threads :
                                            rpc[t] = "cas" /\ created[t] = o}
  /\ \A t \in Threads : rpc[t] = "lock" => rw[t] = slot /\ slot # Nil

(* The inductive invariant: a hold is recorded in the slot's lock. *)
HoldsInv ==
  \A t \in Threads :
    /\ holds[t] # "none" => rpc[t] = "idle" /\ slot # Nil
    /\ slot # Nil => /\ holds[t] = "write" <=> t \in writer[slot]
                     /\ holds[t] = "read" <=> t \in readers[slot]
    /\ rpc[t] # "idle" => want[t] # "none"
    /\ rpc[t] = "cas" =>
         /\ created[t] \in Objs /\ created[t] # slot
         /\ writer[created[t]] = {} /\ readers[created[t]] = {}
         /\ \A u \in Threads : rpc[u] = "cas" /\ u # t => created[u] # created[t]
IInv == TypeOK /\ WriterAlone /\ OneObject /\ HoldsInv
=============================================================================
