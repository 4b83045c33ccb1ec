-------------------------- MODULE GuestSyncProofs --------------------------
(***************************************************************************)
(* Proofs about the primitives of GuestSync, for any threads, words, keys, *)
(* slots and heap, and about their composition.  Each primitive comes      *)
(* first on its own, with the inductive invariant its module states; the   *)
(* last section shows that a behaviour of GuestSync is, seen through the   *)
(* variables of one primitive, one of its behaviours or at rest.           *)
(***************************************************************************)
EXTENDS GuestSync, TLAPS

-----------------------------------------------------------------------------
(* futex: no wake is lost *)

USE DEF F!FutexConstants

(* The bucket of a thread's word is one of the buckets. *)
LEMMA FutexBucketInBuckets ==
  ASSUME F!FutexConstants, F!TypeOK, NEW t \in Threads PROVE F!Bucket(t) \in F!Buckets
BY DEF F!TypeOK, F!Bucket, F!Buckets

(* Nobody has called at the start. *)
LEMMA FutexInitInvariant == ASSUME F!FutexConstants PROVE F!Init => F!IInv
<1> SUFFICES ASSUME F!Init PROVE F!IInv OBVIOUS
<1>1. F!NoCall.uaddr \in Addrs /\ F!NoCall.val \in FutexVals BY DEF F!NoCall
<1>2. F!TypeOK BY <1>1 DEF F!Init, F!TypeOK, F!Labels
<1>3. F!LockInv BY DEF F!Init, F!LockInv, F!LockedLabels, F!Buckets
<1>4. \A t \in Threads : F!WakeComing(t) BY DEF F!Init, F!WakeComing
<1> QED BY <1>2, <1>3, <1>4 DEF F!IInv

(* Every step preserves the invariant: a change of a word is followed by    *)
(* its own wake, which needs the lock the waiter holds until it sleeps.     *)
LEMMA FutexStepInvariant ==
  ASSUME F!FutexConstants, F!IInv, NEW t \in Threads,
         \/ \E a \in Addrs : F!CallWait(t, a) \/ \E v \in FutexVals : F!Store(t, a, v)
         \/ F!Step(t) \/ F!TimeOut(t)
  PROVE F!IInv'
<1> USE DEF F!IInv, F!Goto, F!callVars
<1>0. \A u \in Threads : F!Bucket(u) \in F!Buckets BY FutexBucketInBuckets
<1>1. ASSUME NEW a \in Addrs, F!CallWait(t, a) PROVE F!IInv'
  <2>1. F!TypeOK' BY <1>1, <1>0 DEF F!CallWait, F!TypeOK, F!Labels
  <2>2. F!LockInv' BY <1>1, <1>0 DEF F!CallWait, F!TypeOK, F!LockInv, F!LockedLabels,
      F!Bucket
  <2>3. (\A u \in Threads : F!WakeComing(u))'
    BY <1>1, <1>0 DEF F!CallWait, F!TypeOK, F!LockInv, F!LockedLabels, F!WakeComing,
        F!Waking, F!Bucket
  <2> QED BY <2>1, <2>2, <2>3
<1>2. ASSUME NEW a \in Addrs, NEW v \in FutexVals, F!Store(t, a, v) PROVE F!IInv'
  <2>1. F!TypeOK' BY <1>2, <1>0 DEF F!Store, F!TypeOK, F!Labels
  <2>2. F!LockInv' BY <1>2, <1>0 DEF F!Store, F!TypeOK, F!LockInv, F!LockedLabels,
      F!Bucket
  <2>3. (\A u \in Threads : F!WakeComing(u))'
    BY <1>2, <1>0 DEF F!Store, F!TypeOK, F!LockInv, F!LockedLabels, F!WakeComing,
        F!Waking, F!Bucket
  <2> QED BY <2>1, <2>2, <2>3
<1>3. ASSUME F!LockToWait(t) PROVE F!IInv'
  <2>1. F!TypeOK' BY <1>3, <1>0 DEF F!LockToWait, F!Lock, F!TypeOK, F!Labels
  <2>2. F!LockInv' BY <1>3, <1>0 DEF F!LockToWait, F!Lock, F!TypeOK, F!LockInv,
      F!LockedLabels, F!Bucket
  <2>3. (\A u \in Threads : F!WakeComing(u))'
    BY <1>3, <1>0 DEF F!LockToWait, F!Lock, F!TypeOK, F!LockInv, F!LockedLabels,
        F!WakeComing, F!Waking, F!Bucket
  <2> QED BY <2>1, <2>2, <2>3
<1>4. ASSUME F!Compare(t) PROVE F!IInv'
  <2>1. F!TypeOK' BY <1>4, <1>0 DEF F!Compare, F!TypeOK, F!Labels
  <2>2. F!LockInv' BY <1>4, <1>0 DEF F!Compare, F!TypeOK, F!LockInv, F!LockedLabels,
      F!Bucket
  <2>3. (\A u \in Threads : F!WakeComing(u))'
    BY <1>4, <1>0 DEF F!Compare, F!TypeOK, F!LockInv, F!LockedLabels, F!WakeComing,
        F!Waking, F!Bucket
  <2> QED BY <2>1, <2>2, <2>3
<1>5. ASSUME F!Sleep(t) PROVE F!IInv'
  <2>1. F!TypeOK' BY <1>5, <1>0 DEF F!Sleep, F!Unlock, F!TypeOK, F!Labels
  <2>2. F!LockInv' BY <1>5, <1>0 DEF F!Sleep, F!Unlock, F!TypeOK, F!LockInv,
      F!LockedLabels, F!Bucket
  <2>3. (\A u \in Threads : F!WakeComing(u))'
    BY <1>5, <1>0 DEF F!Sleep, F!Unlock, F!TypeOK, F!LockInv, F!LockedLabels,
        F!WakeComing, F!Waking, F!Bucket
  <2> QED BY <2>1, <2>2, <2>3
<1>6. ASSUME F!TimeOut(t) PROVE F!IInv'
  <2>1. F!TypeOK' BY <1>6, <1>0 DEF F!TimeOut, F!TypeOK, F!Labels
  <2>2. F!LockInv' BY <1>6, <1>0 DEF F!TimeOut, F!TypeOK, F!LockInv, F!LockedLabels,
      F!Bucket
  <2>3. (\A u \in Threads : F!WakeComing(u))'
    BY <1>6, <1>0 DEF F!TimeOut, F!TypeOK, F!LockInv, F!LockedLabels, F!WakeComing,
        F!Waking, F!Bucket
  <2> QED BY <2>1, <2>2, <2>3
<1>7. ASSUME F!Relock(t) PROVE F!IInv'
  <2>1. F!TypeOK' BY <1>7, <1>0 DEF F!Relock, F!Lock, F!TypeOK, F!Labels
  <2>2. F!LockInv' BY <1>7, <1>0 DEF F!Relock, F!Lock, F!TypeOK, F!LockInv,
      F!LockedLabels, F!Bucket
  <2>3. (\A u \in Threads : F!WakeComing(u))'
    BY <1>7, <1>0 DEF F!Relock, F!Lock, F!TypeOK, F!LockInv, F!LockedLabels,
        F!WakeComing, F!Waking, F!Bucket
  <2> QED BY <2>1, <2>2, <2>3
<1>8. ASSUME F!Leave(t) PROVE F!IInv'
  <2>1. F!TypeOK' BY <1>8, <1>0 DEF F!Leave, F!Unlock, F!NoCall, F!TypeOK, F!Labels
  <2>2. F!LockInv' BY <1>8, <1>0 DEF F!Leave, F!Unlock, F!NoCall, F!TypeOK, F!LockInv,
      F!LockedLabels, F!Bucket
  <2>3. (\A u \in Threads : F!WakeComing(u))'
    <3> SUFFICES ASSUME NEW u \in Threads, F!WakeComing(u), fpc'[u] \in {"sleep",
        "asleep"},
                        word'[uaddr'[u]] # val'[u]
                 PROVE F!Waking(F!Bucket(u))'
      BY DEF F!WakeComing
    <3>1. fpc' = [fpc EXCEPT ![t] = "idle"] /\ word' = word BY <1>8 DEF F!Leave
    <3>2. \A w \in Threads : w # t => uaddr'[w] = uaddr[w] /\ val'[w] = val[w]
      BY <1>8 DEF F!Leave, F!TypeOK
    <3>3. u # t BY <3>1 DEF F!TypeOK
    <3>4. PICK w \in Threads : fpc[w] \in {"k_lock", "k_wake"} /\ F!Bucket(w) =
        F!Bucket(u)
      BY <3>1, <3>2, <3>3 DEF F!TypeOK, F!WakeComing, F!Waking
    <3>5. w # t BY <3>4, <1>8 DEF F!Leave
    <3> QED BY <3>1, <3>2, <3>3, <3>4, <3>5 DEF F!TypeOK, F!Waking, F!Bucket
  <2> QED BY <2>1, <2>2, <2>3
<1>9. ASSUME F!LockToWake(t) PROVE F!IInv'
  <2>1. F!TypeOK' BY <1>9, <1>0 DEF F!LockToWake, F!Lock, F!TypeOK, F!Labels
  <2>2. F!LockInv' BY <1>9, <1>0 DEF F!LockToWake, F!Lock, F!TypeOK, F!LockInv,
      F!LockedLabels, F!Bucket
  <2>3. (\A u \in Threads : F!WakeComing(u))'
    BY <1>9, <1>0 DEF F!LockToWake, F!Lock, F!TypeOK, F!LockInv, F!LockedLabels,
        F!WakeComing, F!Waking, F!Bucket
  <2> QED BY <2>1, <2>2, <2>3
<1>10. ASSUME F!WakeAll(t) PROVE F!IInv'
  <2>1. F!TypeOK' BY <1>10, <1>0 DEF F!WakeAll, F!Asleep, F!Woken, F!TypeOK, F!Labels
  <2>2. F!LockInv' BY <1>10, <1>0 DEF F!WakeAll, F!Asleep, F!Woken, F!TypeOK, F!LockInv,
      F!LockedLabels, F!Bucket
  <2>3. (\A u \in Threads : F!WakeComing(u))'
    BY <1>10, <1>0 DEF F!WakeAll, F!Asleep, F!Woken, F!TypeOK, F!LockInv, F!LockedLabels,
        F!WakeComing, F!Waking, F!Bucket
  <2> QED BY <2>1, <2>2, <2>3
<1> QED BY <1>1, <1>2, <1>3, <1>4, <1>5, <1>6, <1>7, <1>8, <1>9, <1>10 DEF F!Step

(* A stuttering step changes nothing the invariant is about. *)
LEMMA FutexStutterInvariant == F!IInv /\ UNCHANGED F!vars => F!IInv'
BY DEF F!IInv, F!TypeOK, F!LockInv, F!WakeComing, F!Waking, F!Bucket, F!Buckets, F!vars,
    F!callVars

(* The invariant holds in every reachable state. *)
THEOREM FutexInvariantHolds == ASSUME F!FutexConstants PROVE F!Spec => []F!IInv
<1>1. F!Init => F!IInv BY FutexInitInvariant
<1>2. F!IInv /\ [F!Next]_(F!vars) => F!IInv' BY FutexStepInvariant, FutexStutterInvariant
    DEF F!Next
<1> QED BY <1>1, <1>2, PTL DEF F!Spec

(* No thread sleeps on a word that has changed unless a wake of its bucket  *)
(* is on the way: the claim of the comment above futex_impl.                *)
THEOREM NoWakeIsLost == ASSUME F!FutexConstants PROVE F!Spec => []F!NoLostWake
<1>1. F!IInv => F!NoLostWake BY DEF F!IInv, F!WakeComing, F!NoLostWake
<1>2. F!Spec => []F!IInv BY FutexInvariantHolds
<1> QED BY <1>1, <1>2, PTL

-----------------------------------------------------------------------------
(* pthread_once *)

USE DEF O!OnceConstants

(* No routine has been begun at the start. *)
LEMMA OnceInitInvariant == ASSUME O!OnceConstants PROVE O!Init => O!IInv
BY DEF O!Init, O!IInv, O!TypeOK, O!ControlInv, O!RunnerInv, O!Running

(* Every step of a thread preserves the invariant. *)
LEMMA OnceStepInvariant ==
  ASSUME O!OnceConstants, O!IInv, NEW t \in Threads, O!Step(t) \/ \E c \in Controls :
      O!Call(t, c)
  PROVE O!IInv'
<1> USE DEF O!IInv, O!Goto, O!Return
<1>1. ASSUME NEW c \in Controls, O!Call(t, c) PROVE O!IInv'
  <2>1. O!TypeOK' BY <1>1 DEF O!Call, O!TypeOK, O!ControlInv, O!RunnerInv, O!Running
  <2>2. O!ControlInv' BY <1>1 DEF O!Call, O!TypeOK, O!ControlInv, O!RunnerInv, O!Running
  <2>3. O!RunnerInv' BY <1>1 DEF O!Call, O!TypeOK, O!ControlInv, O!RunnerInv, O!Running
  <2> QED BY <2>1, <2>2, <2>3
<1>2. ASSUME O!CompareAndSwap(t) PROVE O!IInv'
  <2>1. O!TypeOK' BY <1>2 DEF O!CompareAndSwap, O!TypeOK, O!ControlInv, O!RunnerInv,
      O!Running
  <2>2. O!ControlInv' BY <1>2 DEF O!CompareAndSwap, O!TypeOK, O!ControlInv, O!RunnerInv,
      O!Running
  <2>3. O!RunnerInv' BY <1>2 DEF O!CompareAndSwap, O!TypeOK, O!ControlInv, O!RunnerInv,
      O!Running
  <2> QED BY <2>1, <2>2, <2>3
<1>3. ASSUME O!Nap(t) PROVE O!IInv'
  <2>1. O!TypeOK' BY <1>3 DEF O!Nap, O!TypeOK, O!ControlInv, O!RunnerInv, O!Running
  <2>2. O!ControlInv' BY <1>3 DEF O!Nap, O!TypeOK, O!ControlInv, O!RunnerInv, O!Running
  <2>3. O!RunnerInv' BY <1>3 DEF O!Nap, O!TypeOK, O!ControlInv, O!RunnerInv, O!Running
  <2> QED BY <2>1, <2>2, <2>3
<1>4. ASSUME O!RoutineReturns(t) PROVE O!IInv'
  <2>1. O!TypeOK' BY <1>4 DEF O!RoutineReturns, O!TypeOK, O!ControlInv, O!RunnerInv,
      O!Running
  <2>2. O!ControlInv' BY <1>4 DEF O!RoutineReturns, O!TypeOK, O!ControlInv, O!RunnerInv,
      O!Running
  <2>3. O!RunnerInv' BY <1>4 DEF O!RoutineReturns, O!TypeOK, O!ControlInv, O!RunnerInv,
      O!Running
  <2> QED BY <2>1, <2>2, <2>3
<1>5. ASSUME O!Publish(t) PROVE O!IInv'
  <2>1. O!TypeOK' BY <1>5 DEF O!Publish, O!TypeOK, O!ControlInv, O!RunnerInv, O!Running
  <2>2. O!ControlInv' BY <1>5 DEF O!Publish, O!TypeOK, O!ControlInv, O!RunnerInv,
      O!Running
  <2>3. O!RunnerInv' BY <1>5 DEF O!Publish, O!TypeOK, O!ControlInv, O!RunnerInv, O!Running
  <2> QED BY <2>1, <2>2, <2>3
<1> QED BY <1>1, <1>2, <1>3, <1>4, <1>5 DEF O!Step

(* A stuttering step changes nothing the invariant is about. *)
LEMMA OnceStutterInvariant == O!IInv /\ UNCHANGED O!vars => O!IInv'
BY DEF O!IInv, O!TypeOK, O!ControlInv, O!RunnerInv, O!Running, O!vars

(* The invariant holds in every reachable state. *)
THEOREM OnceInvariantHolds == ASSUME O!OnceConstants PROVE O!Spec => []O!IInv
<1>1. O!Init => O!IInv BY OnceInitInvariant
<1>2. O!IInv /\ [O!Next]_(O!vars) => O!IInv' BY OnceStepInvariant, OnceStutterInvariant
    DEF O!Next
<1> QED BY <1>1, <1>2, PTL DEF O!Spec

(* pthread_once returns to nobody before the routine has been run to its    *)
(* end, and the routine is never begun twice.                               *)
THEOREM RoutineRunsOnceFirst == ASSUME O!OnceConstants PROVE O!Spec =>
    []O!OnceBeforeUse
<1>1. O!IInv => O!OnceBeforeUse BY DEF O!IInv, O!TypeOK, O!ControlInv, O!OnceBeforeUse
<1>2. O!Spec => []O!IInv BY OnceInvariantHolds
<1> QED BY <1>1, <1>2, PTL

-----------------------------------------------------------------------------
(* Read-write locks: the compare-and-swap leaves one lock, so it excludes *)

USE DEF R!RwConstants

(* The slot is empty at the start. *)
LEMMA RwLockInitInvariant == ASSUME R!RwConstants PROVE R!Init => R!IInv
BY DEF R!Init, R!IInv, R!TypeOK, R!WriterAlone, R!OneObject, R!HoldsInv

(* Every step of a thread preserves the invariant. *)
LEMMA RwLockStepInvariant ==
  ASSUME R!RwConstants, R!IInv, NEW t \in Threads,
         R!Step(t) \/ R!Unlock(t) \/ \E mode \in {"read", "write"} : R!CallLock(t, mode)
  PROVE R!IInv'
<1> USE DEF R!IInv, R!Goto, R!Return, R!lockVars, R!localVars
<1>1. ASSUME R!LoadSlot(t) PROVE R!IInv'
  <2>1. R!TypeOK' BY <1>1 DEF R!LoadSlot, R!TypeOK, R!OneObject
  <2>2. R!WriterAlone' BY <1>1 DEF R!LoadSlot, R!TypeOK, R!WriterAlone, R!OneObject,
      R!HoldsInv
  <2>3. R!OneObject' BY <1>1 DEF R!LoadSlot, R!TypeOK, R!OneObject, R!HoldsInv
  <2>4. R!HoldsInv' BY <1>1 DEF R!LoadSlot, R!TypeOK, R!WriterAlone, R!OneObject,
      R!HoldsInv
  <2> QED BY <2>1, <2>2, <2>3, <2>4
<1>2. ASSUME R!MakeLock(t) PROVE R!IInv'
  <2>1. R!TypeOK' BY <1>2 DEF R!MakeLock, R!TypeOK, R!OneObject
  <2>2. R!WriterAlone' BY <1>2 DEF R!MakeLock, R!TypeOK, R!WriterAlone, R!OneObject,
      R!HoldsInv
  <2>3. R!OneObject' BY <1>2 DEF R!MakeLock, R!TypeOK, R!OneObject, R!HoldsInv
  <2>4. R!HoldsInv' BY <1>2 DEF R!MakeLock, R!TypeOK, R!WriterAlone, R!OneObject,
      R!HoldsInv
  <2> QED BY <2>1, <2>2, <2>3, <2>4
<1>3. ASSUME R!MakeFails(t) PROVE R!IInv'
  <2>1. R!TypeOK' BY <1>3 DEF R!MakeFails, R!TypeOK, R!OneObject
  <2>2. R!WriterAlone' BY <1>3 DEF R!MakeFails, R!TypeOK, R!WriterAlone, R!OneObject,
      R!HoldsInv
  <2>3. R!OneObject' BY <1>3 DEF R!MakeFails, R!TypeOK, R!OneObject, R!HoldsInv
  <2>4. R!HoldsInv' BY <1>3 DEF R!MakeFails, R!TypeOK, R!WriterAlone, R!OneObject,
      R!HoldsInv
  <2> QED BY <2>1, <2>2, <2>3, <2>4
<1>4. ASSUME R!Install(t) PROVE R!IInv'
  <2>1. R!TypeOK' BY <1>4 DEF R!Install, R!TypeOK, R!OneObject
  <2>2. R!WriterAlone' BY <1>4 DEF R!Install, R!TypeOK, R!WriterAlone, R!OneObject,
      R!HoldsInv
  <2>3. R!OneObject' BY <1>4 DEF R!Install, R!TypeOK, R!OneObject, R!HoldsInv
  <2>4. R!HoldsInv'
    <3>1. CASE slot = Null
      BY <1>4, <3>1 DEF R!Install, R!TypeOK, R!OneObject, R!HoldsInv
    <3>2. CASE slot # Null
      BY <1>4, <3>2 DEF R!Install, R!TypeOK, R!OneObject, R!HoldsInv
    <3> QED BY <3>1, <3>2
  <2> QED BY <2>1, <2>2, <2>3, <2>4
<1>5. ASSUME R!AcquireRead(t) PROVE R!IInv'
  <2>1. R!TypeOK' BY <1>5 DEF R!AcquireRead, R!TypeOK, R!OneObject
  <2>2. R!WriterAlone' BY <1>5 DEF R!AcquireRead, R!TypeOK, R!WriterAlone, R!OneObject,
      R!HoldsInv
  <2>3. R!OneObject' BY <1>5 DEF R!AcquireRead, R!TypeOK, R!OneObject, R!HoldsInv
  <2>4. R!HoldsInv' BY <1>5 DEF R!AcquireRead, R!TypeOK, R!WriterAlone, R!OneObject,
      R!HoldsInv
  <2> QED BY <2>1, <2>2, <2>3, <2>4
<1>6. ASSUME R!AcquireWrite(t) PROVE R!IInv'
  <2>1. R!TypeOK' BY <1>6 DEF R!AcquireWrite, R!TypeOK, R!OneObject
  <2>2. R!WriterAlone' BY <1>6 DEF R!AcquireWrite, R!TypeOK, R!WriterAlone, R!OneObject,
      R!HoldsInv
  <2>3. R!OneObject' BY <1>6 DEF R!AcquireWrite, R!TypeOK, R!OneObject, R!HoldsInv
  <2>4. R!HoldsInv' BY <1>6 DEF R!AcquireWrite, R!TypeOK, R!WriterAlone, R!OneObject,
      R!HoldsInv
  <2> QED BY <2>1, <2>2, <2>3, <2>4
<1>7. ASSUME R!Unlock(t) PROVE R!IInv'
  <2>1. R!TypeOK' BY <1>7 DEF R!Unlock, R!TypeOK, R!OneObject
  <2>2. R!WriterAlone' BY <1>7 DEF R!Unlock, R!TypeOK, R!WriterAlone, R!OneObject,
      R!HoldsInv
  <2>3. R!OneObject' BY <1>7 DEF R!Unlock, R!TypeOK, R!OneObject, R!HoldsInv
  <2>4. R!HoldsInv' BY <1>7 DEF R!Unlock, R!TypeOK, R!WriterAlone, R!OneObject, R!HoldsInv
  <2> QED BY <2>1, <2>2, <2>3, <2>4
<1>8. ASSUME NEW mode \in {"read", "write"}, R!CallLock(t, mode) PROVE R!IInv'
  <2>1. R!TypeOK' BY <1>8 DEF R!CallLock, R!TypeOK, R!OneObject
  <2>2. R!WriterAlone' BY <1>8 DEF R!CallLock, R!TypeOK, R!WriterAlone, R!OneObject,
      R!HoldsInv
  <2>3. R!OneObject' BY <1>8 DEF R!CallLock, R!TypeOK, R!OneObject, R!HoldsInv
  <2>4. R!HoldsInv' BY <1>8 DEF R!CallLock, R!TypeOK, R!WriterAlone, R!OneObject,
      R!HoldsInv
  <2> QED BY <2>1, <2>2, <2>3, <2>4
<1> QED BY <1>1, <1>2, <1>3, <1>4, <1>5, <1>6, <1>7, <1>8 DEF R!Step

(* So does the destruction of a lock nobody uses. *)
LEMMA RwLockDestroyInvariant == ASSUME R!RwConstants PROVE R!IInv /\ R!Destroy => R!IInv'
BY DEF R!Destroy, R!IInv, R!TypeOK, R!WriterAlone, R!OneObject, R!HoldsInv, R!lockVars,
    R!localVars

(* A stuttering step changes nothing the invariant is about. *)
LEMMA RwLockStutterInvariant == R!IInv /\ UNCHANGED R!vars => R!IInv'
BY DEF R!IInv, R!TypeOK, R!WriterAlone, R!OneObject, R!HoldsInv, R!vars, R!lockVars,
    R!localVars

(* The invariant holds in every reachable state. *)
THEOREM RwLockInvariantHolds == ASSUME R!RwConstants PROVE R!Spec => []R!IInv
<1>1. R!Init => R!IInv BY RwLockInitInvariant
<1>2. R!IInv /\ [R!Next]_(R!vars) => R!IInv'
  BY RwLockStepInvariant, RwLockDestroyInvariant, RwLockStutterInvariant DEF R!Next
<1> QED BY <1>1, <1>2, PTL DEF R!Spec

(* Whoever has the lock for writing has it alone, however the first users   *)
(* raced to make it; and the losers' objects are all freed.                 *)
THEOREM WritersExclude == ASSUME R!RwConstants PROVE R!Spec => [](R!WriterAlone /\
    R!OneObject)
<1>1. R!IInv => R!WriterAlone /\ R!OneObject BY DEF R!IInv
<1>2. R!Spec => []R!IInv BY RwLockInvariantHolds
<1> QED BY <1>1, <1>2, PTL

-----------------------------------------------------------------------------
(* Thread keys *)

USE DEF K!KeyConstants

(* There is a first key and a first slot. *)
LEMMA KeysFirstOfEach == ASSUME K!KeyConstants PROVE 1 \in K!Keys /\ 1 \in K!Slots BY DEF
    K!Keys, K!Slots

(* The table is empty at the start. *)
LEMMA KeysInitInvariant == ASSUME K!KeyConstants PROVE K!Init => K!IInv
BY KeysFirstOfEach DEF K!Init, K!IInv, K!TypeOK, K!SlotInv, K!ValueInv, K!KeysPrivate,
    K!Mine, K!Free, K!NoCall

(* Who owns which slot is told by ptkTid alone. *)
LEMMA KeysSameSlots ==
  UNCHANGED ptkTid => K!Free' = K!Free /\ \A u \in Threads : K!Mine(u)' = K!Mine(u)
BY DEF K!Free, K!Mine

(* A thread finds the slot it has. *)
LEMMA KeysFindSlotStep == ASSUME K!KeyConstants, K!IInv, NEW t \in Threads, K!FindSlot(t)
    PROVE K!IInv'
<1> USE DEF K!IInv, K!FindSlot, K!Goto, K!tableVars, K!ghostVars
<1>1. K!Free' = K!Free /\ \A u \in Threads : K!Mine(u)' = K!Mine(u) BY KeysSameSlots
<1>2. K!TypeOK'
  <2>1. kpc' \in [Threads -> {"idle", "find", "claim", "access", "clear"}] BY DEF K!TypeOK
  <2>2. mySlot' \in [Threads -> K!Slots] BY DEF K!TypeOK, K!Mine
  <2> QED BY <2>1, <2>2 DEF K!TypeOK
<1>3. K!SlotInv' BY <1>1 DEF K!TypeOK, K!SlotInv
<1>4. K!ValueInv' BY <1>1 DEF K!ValueInv
<1>5. K!KeysPrivate' BY <1>1 DEF K!TypeOK, K!KeysPrivate, K!Shares
<1> QED BY <1>2, <1>3, <1>4, <1>5

(* A thread claims a free slot, which holds nothing yet, or shares the first. *)
LEMMA KeysClaimSlotStep == ASSUME K!KeyConstants, K!IInv, NEW t \in Threads,
    K!ClaimSlot(t) PROVE K!IInv'
<1> USE DEF K!IInv, K!Goto, K!ghostVars
<1>1. /\ kpc[t] = "claim" /\ kpc' = [kpc EXCEPT ![t] = "access"]
      /\ UNCHANGED <<ptkVal, ptkUsed, kcall, made, expect, wrong>>
  BY DEF K!ClaimSlot
<1>2. kcall[t].key \in made /\ K!Mine(t) = {} BY <1>1 DEF K!SlotInv
<1>3. ASSUME NEW s \in K!Slots, s \in K!Free, ptkTid' = [ptkTid EXCEPT ![s] = t],
             mySlot' = [mySlot EXCEPT ![t] = s]
      PROVE K!IInv'
  <2>1. /\ K!Mine(t)' = {s} /\ K!Free' = K!Free \ {s}
        /\ \A u \in Threads \ {t} : K!Mine(u)' = K!Mine(u)
    <3>1. ptkTid'[s] = t /\ \A r \in K!Slots \ {s} : ptkTid'[r] = ptkTid[r]
      BY <1>3 DEF K!TypeOK
    <3>2. ptkTid[s] = Null BY <1>3 DEF K!Free
    <3>3. K!Mine(t)' = {s} BY <3>1, <1>2 DEF K!Mine
    <3>4. K!Free' = K!Free \ {s} BY <3>1 DEF K!Free
    <3>5. ASSUME NEW u \in Threads \ {t} PROVE K!Mine(u)' = K!Mine(u)
      BY <3>1, <3>2 DEF K!Mine
    <3> QED BY <3>3, <3>4, <3>5
  <2>2. K!TypeOK' BY <1>1, <1>3 DEF K!TypeOK
  <2>3. K!SlotInv' BY <1>1, <1>2, <1>3, <2>1 DEF K!TypeOK, K!SlotInv
  <2>4. K!ValueInv'
    <3> SUFFICES ASSUME NEW k \in made
                 PROVE /\ \A r \in K!Free' : ptkVal[k][r] = Null
                       /\ \A u \in Threads :
                            /\ \A r \in K!Mine(u)' : r # 1 \/ K!Free' # {} =>
                                ptkVal[k][r] = expect[k][u]
                            /\ K!Mine(u)' = {} /\ K!Free' # {} => expect[k][u] = Null
      BY <1>1 DEF K!ValueInv
    <3>1. ptkVal[k][s] = Null /\ expect[k][t] = Null BY <1>2, <1>3 DEF K!ValueInv
    <3> QED BY <3>1, <2>1, <1>3 DEF K!ValueInv
  <2>5. K!KeysPrivate' BY <1>1, <1>3, <2>1 DEF K!TypeOK, K!KeysPrivate, K!Shares
  <2> QED BY <2>2, <2>3, <2>4, <2>5
<1>4. ASSUME K!Free = {}, UNCHANGED ptkTid, mySlot' = [mySlot EXCEPT ![t] = 1]
      PROVE K!IInv'
  <2>1. K!Free' = K!Free /\ \A u \in Threads : K!Mine(u)' = K!Mine(u) BY <1>4,
      KeysSameSlots
  <2>2. K!TypeOK' BY <1>1, <1>4, KeysFirstOfEach DEF K!TypeOK
  <2>3. K!SlotInv' BY <1>1, <1>2, <1>4, <2>1 DEF K!TypeOK, K!SlotInv
  <2>4. K!ValueInv' BY <1>1, <2>1 DEF K!ValueInv
  <2>5. K!KeysPrivate' BY <1>1, <2>1 DEF K!TypeOK, K!KeysPrivate, K!Shares
  <2> QED BY <2>2, <2>3, <2>4, <2>5
<1> QED BY <1>3, <1>4 DEF K!ClaimSlot, K!IsLowest

(* A thread writes its own slot, or the first one when it is shared. *)
LEMMA KeysSetSpecificStep == ASSUME K!KeyConstants, K!IInv, NEW t \in Threads,
    K!SetSpecific(t) PROVE K!IInv'
<1> USE DEF K!IInv
<1> DEFINE k0 == kcall[t].key  v0 == kcall[t].val  s0 == mySlot[t]
<1>1. /\ kpc[t] = "access" /\ kpc' = [kpc EXCEPT ![t] = "idle"]
      /\ kcall' = [kcall EXCEPT ![t] = K!NoCall] /\ mySlot' = [mySlot EXCEPT ![t] = 1]
      /\ ptkVal' = [ptkVal EXCEPT ![k0][s0] = v0]
      /\ expect' = [expect EXCEPT ![k0][t] = v0]
      /\ UNCHANGED <<ptkTid, ptkUsed, made, wrong>>
  BY DEF K!SetSpecific, K!Return, K!Goto
<1>2. K!Free' = K!Free /\ \A u \in Threads : K!Mine(u)' = K!Mine(u) BY <1>1, KeysSameSlots
<1>3. k0 \in K!Keys /\ v0 \in KeyVals \cup {Null} /\ s0 \in K!Slots /\ k0 \in made
  BY <1>1 DEF K!TypeOK, K!SlotInv
<1>4. s0 \in K!Mine(t) \/ (s0 = 1 /\ K!Mine(t) = {} /\ K!Free = {}) BY <1>1 DEF K!SlotInv
<1> HIDE DEF k0, v0, s0
<1>5. K!TypeOK'
  <2>1. kcall' \in [Threads -> [op : {"none", "set", "get", "create"}, key : K!Keys,
                                val : KeyVals \cup {Null}]]
    BY <1>1, KeysFirstOfEach DEF K!TypeOK, K!NoCall
  <2> QED BY <1>1, <1>3, <2>1, KeysFirstOfEach DEF K!TypeOK
<1>6. K!SlotInv' BY <1>1, <1>2 DEF K!TypeOK, K!SlotInv
<1>7. K!ValueInv'
  <2>1. \A k \in K!Keys, s \in K!Slots :
          ptkVal'[k][s] = IF k = k0 /\ s = s0 THEN v0 ELSE ptkVal[k][s]
    BY <1>1, <1>3 DEF K!TypeOK
  <2>2. \A k \in K!Keys, u \in Threads :
          expect'[k][u] = IF k = k0 /\ u = t THEN v0 ELSE expect[k][u]
    BY <1>1, <1>3 DEF K!TypeOK
  <2>3. made \subseteq K!Keys BY DEF K!TypeOK
  <2>4. s0 \notin K!Free BY <1>4 DEF K!Mine, K!Free
  <2>5. \A u \in Threads : s0 \in K!Mine(u) /\ (s0 # 1 \/ K!Free # {}) => u = t
    BY <1>4 DEF K!Mine
  <2>6. \A r \in K!Mine(t) : s0 # 1 \/ K!Free # {} => r = s0 BY <1>4 DEF K!SlotInv
  <2>7. ASSUME NEW k \in made, NEW s \in K!Free PROVE ptkVal'[k][s] = Null
    BY <2>1, <2>3, <2>4 DEF K!ValueInv, K!Free
  <2>8. ASSUME NEW k \in made, NEW u \in Threads, NEW s \in K!Mine(u), s # 1 \/ K!Free #
      {}
        PROVE ptkVal'[k][s] = expect'[k][u]
    <3>1. s \in K!Slots BY DEF K!Mine
    <3>2. ptkVal[k][s] = expect[k][u] BY <2>8 DEF K!ValueInv
    <3>3. s = s0 <=> u = t
      BY <2>8, <1>4 DEF K!Mine, K!SlotInv
    <3> QED BY <3>1, <3>2, <3>3, <2>1, <2>2, <2>3
  <2>9. ASSUME NEW k \in made, NEW u \in Threads, K!Mine(u) = {}, K!Free # {}
        PROVE expect'[k][u] = Null
    BY <2>9, <1>4, <2>2, <2>3 DEF K!ValueInv
  <2> QED BY <2>7, <2>8, <2>9, <1>1, <1>2 DEF K!ValueInv
<1>8. K!KeysPrivate' BY <1>1, <1>2 DEF K!TypeOK, K!KeysPrivate, K!Shares
<1> QED BY <1>5, <1>6, <1>7, <1>8

(* Only a thread that shares its slot reads what it did not set. *)
LEMMA KeysGetSpecificStep == ASSUME K!KeyConstants, K!IInv, NEW t \in Threads,
    K!GetSpecific(t) PROVE K!IInv'
<1> USE DEF K!IInv
<1>1. /\ kpc[t] = "access" /\ kpc' = [kpc EXCEPT ![t] = "idle"]
      /\ kcall' = [kcall EXCEPT ![t] = K!NoCall] /\ mySlot' = [mySlot EXCEPT ![t] = 1]
      /\ UNCHANGED <<ptkVal, ptkTid, ptkUsed, made, expect>>
  BY DEF K!GetSpecific, K!Return, K!Goto, K!tableVars
<1>2. K!Free' = K!Free /\ \A u \in Threads : K!Mine(u)' = K!Mine(u) BY <1>1, KeysSameSlots
<1>3. \/ wrong' = wrong
      \/ /\ wrong' = wrong \cup {t}
         /\ ptkVal[kcall[t].key][mySlot[t]] # expect[kcall[t].key][t]
  BY DEF K!GetSpecific
<1>4. K!TypeOK'
  <2>1. kcall' \in [Threads -> [op : {"none", "set", "get", "create"}, key : K!Keys,
                                val : KeyVals \cup {Null}]]
    BY <1>1, KeysFirstOfEach DEF K!TypeOK, K!NoCall
  <2> QED BY <1>1, <1>3, <2>1, KeysFirstOfEach DEF K!TypeOK
<1>5. K!SlotInv' BY <1>1, <1>2 DEF K!TypeOK, K!SlotInv
<1>6. K!ValueInv' BY <1>1, <1>2 DEF K!ValueInv
<1>7. ASSUME ptkVal[kcall[t].key][mySlot[t]] # expect[kcall[t].key][t] PROVE K!Shares(t)
  <2>1. kcall[t].key \in made BY <1>1 DEF K!SlotInv
  <2>2. mySlot[t] \in K!Mine(t) => mySlot[t] = 1 /\ K!Free = {} BY <1>7, <2>1 DEF
      K!ValueInv
  <2>3. mySlot[t] \in K!Mine(t) \/ (mySlot[t] = 1 /\ K!Mine(t) = {} /\ K!Free = {})
    BY <1>1 DEF K!SlotInv
  <2>4. \A r \in K!Mine(t) : mySlot[t] \in K!Mine(t) => r = mySlot[t] BY DEF K!SlotInv
  <2> QED BY <2>2, <2>3, <2>4 DEF K!Shares
<1>8. K!KeysPrivate' BY <1>2, <1>3, <1>7 DEF K!TypeOK, K!KeysPrivate, K!Shares
<1> QED BY <1>4, <1>5, <1>6, <1>8

(* A key that is being made is nobody's yet. *)
LEMMA KeysTakeKeyStep == ASSUME K!KeyConstants, K!IInv, NEW t \in Threads, K!TakeKey(t)
    PROVE K!IInv'
<1> USE DEF K!IInv
<1>1. PICK k \in K!Keys :
        /\ ptkUsed' = ptkUsed \cup {k}
        /\ kcall' = [kcall EXCEPT ![t] = [op |-> "create", key |-> k, val |-> Null]]
        /\ kpc' = [kpc EXCEPT ![t] = "clear"]
        /\ UNCHANGED <<ptkVal, ptkTid, mySlot, made, expect, wrong>>
  BY DEF K!TakeKey, K!Goto, K!ghostVars
<1>2. K!Free' = K!Free /\ \A u \in Threads : K!Mine(u)' = K!Mine(u) BY <1>1, KeysSameSlots
<1>3. K!TypeOK' BY <1>1 DEF K!TypeOK
<1>4. K!SlotInv' BY <1>1, <1>2 DEF K!TypeOK, K!SlotInv
<1>5. K!ValueInv' BY <1>1, <1>2 DEF K!ValueInv
<1>6. K!KeysPrivate' BY <1>1, <1>2 DEF K!TypeOK, K!KeysPrivate, K!Shares
<1> QED BY <1>3, <1>4, <1>5, <1>6

(* A key that has been made holds nothing. *)
LEMMA KeysClearKeyStep == ASSUME K!KeyConstants, K!IInv, NEW t \in Threads, K!ClearKey(t)
    PROVE K!IInv'
<1> USE DEF K!IInv
<1> DEFINE k0 == kcall[t].key
<1>1. /\ kpc[t] = "clear" /\ kpc' = [kpc EXCEPT ![t] = "idle"]
      /\ kcall' = [kcall EXCEPT ![t] = K!NoCall] /\ mySlot' = [mySlot EXCEPT ![t] = 1]
      /\ ptkVal' = [ptkVal EXCEPT ![k0] = [s \in K!Slots |-> Null]]
      /\ expect' = [expect EXCEPT ![k0] = [u \in Threads |-> Null]]
      /\ made' = made \cup {k0}
      /\ UNCHANGED <<ptkTid, ptkUsed, wrong>>
  BY DEF K!ClearKey, K!Return, K!Goto
<1>2. K!Free' = K!Free /\ \A u \in Threads : K!Mine(u)' = K!Mine(u) BY <1>1, KeysSameSlots
<1>3. k0 \in K!Keys BY DEF K!TypeOK
<1>4. K!TypeOK'
  <2>1. kcall' \in [Threads -> [op : {"none", "set", "get", "create"}, key : K!Keys,
                                val : KeyVals \cup {Null}]]
    BY <1>1, KeysFirstOfEach DEF K!TypeOK, K!NoCall
  <2>2. ptkVal' \in [K!Keys -> [K!Slots -> KeyVals \cup {Null}]] BY <1>1 DEF K!TypeOK
  <2>3. expect' \in [K!Keys -> [Threads -> KeyVals \cup {Null}]] BY <1>1 DEF K!TypeOK
  <2>4. made' \in SUBSET ptkUsed BY <1>1 DEF K!TypeOK, K!SlotInv
  <2> QED BY <1>1, <2>1, <2>2, <2>3, <2>4, KeysFirstOfEach DEF K!TypeOK
<1>5. K!SlotInv' BY <1>1, <1>2 DEF K!TypeOK, K!SlotInv
<1>6. K!ValueInv'
  <2>1. \A s \in K!Slots, u \in Threads : ptkVal'[k0][s] = Null /\ expect'[k0][u] = Null
    BY <1>1, <1>3 DEF K!TypeOK
  <2>2. \A k \in made \ {k0} : ptkVal'[k] = ptkVal[k] /\ expect'[k] = expect[k]
    BY <1>1 DEF K!TypeOK
  <2>3. K!Free \subseteq K!Slots /\ \A u \in Threads : K!Mine(u) \subseteq K!Slots
    BY DEF K!Free, K!Mine
  <2> QED BY <1>1, <1>2, <2>1, <2>2, <2>3 DEF K!ValueInv
<1>7. K!KeysPrivate' BY <1>1, <1>2 DEF K!TypeOK, K!KeysPrivate, K!Shares
<1> QED BY <1>4, <1>5, <1>6, <1>7

(* A call is made with a key its client was given. *)
LEMMA KeysCallStep ==
  ASSUME K!KeyConstants, K!IInv, NEW t \in Threads, NEW c \in K!Calls, K!Call(t, c)
  PROVE K!IInv'
<1> USE DEF K!IInv
<1>1. /\ c.key \in made /\ kcall' = [kcall EXCEPT ![t] = c]
      /\ kpc[t] = "idle" /\ kpc' = [kpc EXCEPT ![t] = "find"]
      /\ UNCHANGED <<ptkVal, ptkTid, ptkUsed, mySlot, made, expect, wrong>>
  BY DEF K!Call, K!Goto, K!tableVars, K!ghostVars
<1>2. K!Free' = K!Free /\ \A u \in Threads : K!Mine(u)' = K!Mine(u) BY <1>1, KeysSameSlots
<1>3. K!TypeOK'
  <2>1. c \in [op : {"none", "set", "get", "create"}, key : K!Keys, val : KeyVals \cup
      {Null}]
    BY DEF K!Calls
  <2> QED BY <1>1, <2>1 DEF K!TypeOK
<1>4. K!SlotInv' BY <1>1, <1>2 DEF K!TypeOK, K!SlotInv
<1>5. K!ValueInv' BY <1>1, <1>2 DEF K!ValueInv
<1>6. K!KeysPrivate' BY <1>1, <1>2 DEF K!TypeOK, K!KeysPrivate, K!Shares
<1> QED BY <1>3, <1>4, <1>5, <1>6

(* The deletion of a key nobody uses leaves the rest alone. *)
LEMMA KeysDeleteKeyStep == ASSUME K!KeyConstants, K!IInv, NEW k \in K!Keys,
    K!DeleteKey(k) PROVE K!IInv'
<1> USE DEF K!IInv
<1>1. /\ \A t \in Threads : kpc[t] # "idle" => kcall[t].key # k
      /\ ptkUsed' = ptkUsed \ {k} /\ made' = made \ {k}
      /\ UNCHANGED <<ptkVal, ptkTid, kpc, kcall, mySlot, expect, wrong>>
  BY DEF K!DeleteKey
<1>2. K!Free' = K!Free /\ \A u \in Threads : K!Mine(u)' = K!Mine(u) BY <1>1, KeysSameSlots
<1>3. K!TypeOK' BY <1>1 DEF K!TypeOK
<1>4. K!SlotInv' BY <1>1, <1>2 DEF K!SlotInv
<1>5. K!ValueInv' BY <1>1, <1>2 DEF K!ValueInv
<1>6. K!KeysPrivate' BY <1>1, <1>2 DEF K!TypeOK, K!KeysPrivate, K!Shares
<1> QED BY <1>3, <1>4, <1>5, <1>6

(* A stuttering step changes nothing the invariant is about. *)
LEMMA KeysStutterInvariant == K!IInv /\ UNCHANGED K!vars => K!IInv'
<1> SUFFICES ASSUME K!IInv, UNCHANGED K!vars PROVE K!IInv'
  OBVIOUS
<1> USE DEF K!vars, K!tableVars, K!ghostVars
<1>1. K!Free' = K!Free /\ \A u \in Threads : K!Mine(u)' = K!Mine(u)
  BY KeysSameSlots
<1>2. K!TypeOK' BY DEF K!IInv, K!TypeOK
<1>3. K!SlotInv' BY <1>1 DEF K!IInv, K!SlotInv
<1>4. K!ValueInv' BY <1>1 DEF K!IInv, K!ValueInv
<1>5. K!KeysPrivate' BY <1>1 DEF K!IInv, K!TypeOK, K!KeysPrivate, K!Shares
<1> QED BY <1>2, <1>3, <1>4, <1>5 DEF K!IInv

(* The invariant holds in every reachable state. *)
THEOREM KeysInvariantHolds == ASSUME K!KeyConstants PROVE K!Spec => []K!IInv
<1>1. K!Init => K!IInv BY KeysInitInvariant
<1>2. K!IInv /\ [K!Next]_(K!vars) => K!IInv'
  BY KeysFindSlotStep, KeysClaimSlotStep, KeysSetSpecificStep, KeysGetSpecificStep,
      KeysTakeKeyStep,
     KeysClearKeyStep, KeysCallStep, KeysDeleteKeyStep, KeysStutterInvariant DEF K!Next
<1> QED BY <1>1, <1>2, PTL DEF K!Spec

(* A thread with a slot of its own, other than the one that is shared when  *)
(* the table is full, reads what it set itself and nothing else.            *)
THEOREM ValuesArePrivate == ASSUME K!KeyConstants PROVE K!Spec => []K!KeysPrivate
<1>1. K!IInv => K!KeysPrivate BY DEF K!IInv
<1>2. K!Spec => []K!IInv BY KeysInvariantHolds
<1> QED BY <1>1, <1>2, PTL

-----------------------------------------------------------------------------
(* The composition *)

(* A behaviour of GuestSync is one of the futex table ... *)
LEMMA FutexBehaviour == Spec => F!Spec
<1>1. Init => F!Init BY DEF Init
<1>2. [Next]_vars => [F!Next]_(F!vars)
  BY DEF Next, FutexNext, OnceNext, RwLockNext, KeysNext, vars, futexVars, onceVars,
         rwVars, keyVars, F!vars, F!callVars
<1> QED BY <1>1, <1>2, PTL DEF Spec, F!Spec

(* ... one of the once controls ... *)
LEMMA OnceBehaviour == Spec => O!Spec
<1>1. Init => O!Init BY DEF Init
<1>2. [Next]_vars => [O!Next]_(O!vars)
  BY DEF Next, FutexNext, OnceNext, RwLockNext, KeysNext, vars, futexVars, onceVars,
         rwVars, keyVars, O!vars
<1> QED BY <1>1, <1>2, PTL DEF Spec, O!Spec

(* ... one of the read-write lock ... *)
LEMMA RwLockBehaviour == Spec => R!Spec
<1>1. Init => R!Init BY DEF Init
<1>2. [Next]_vars => [R!Next]_(R!vars)
  BY DEF Next, FutexNext, OnceNext, RwLockNext, KeysNext, vars, futexVars, onceVars,
         rwVars, keyVars, R!vars, R!lockVars, R!localVars
<1> QED BY <1>1, <1>2, PTL DEF Spec, R!Spec

(* ... and one of the thread keys. *)
LEMMA KeysBehaviour == Spec => K!Spec
<1>1. Init => K!Init BY DEF Init
<1>2. [Next]_vars => [K!Next]_(K!vars)
  BY DEF Next, FutexNext, OnceNext, RwLockNext, KeysNext, vars, futexVars, onceVars,
         rwVars, keyVars, K!vars, K!tableVars, K!ghostVars
<1> QED BY <1>1, <1>2, PTL DEF Spec, K!Spec


(* However many guest threads share the primitives, no invariant of theirs *)
(* is broken, and no futex wake is lost.                                    *)
THEOREM PrimitivesSound == Spec => []GuestSound
<1>1. F!FutexConstants /\ O!OnceConstants /\ R!RwConstants /\ K!KeyConstants
  BY GuestConstants
<1>2. F!Spec => [](F!IInv /\ F!NoLostWake)
  BY <1>1, FutexInvariantHolds, NoWakeIsLost, PTL
<1>3. (O!Spec => []O!IInv) /\ (R!Spec => []R!IInv) /\ (K!Spec => []K!IInv)
  BY <1>1, OnceInvariantHolds, RwLockInvariantHolds, KeysInvariantHolds
<1> QED BY <1>2, <1>3, FutexBehaviour, OnceBehaviour, RwLockBehaviour, KeysBehaviour, PTL
        DEF GuestSound, FutexNoLostWake

(* Nobody goes on from pthread_once before the routine has ended.          *)
THEOREM OnceFirst == Spec => []OnceBeforeUse
BY GuestConstants, OnceBehaviour, RoutineRunsOnceFirst, PTL DEF OnceBeforeUse

(* The lazily made lock excludes, and racing first users leave one object.  *)
THEOREM LockExcludes == Spec => []RwLockSound
BY GuestConstants, RwLockBehaviour, WritersExclude, PTL DEF RwLockSound

(* No thread reads another one's value of a key.                            *)
THEOREM ValuesPrivate == Spec => []KeysPrivate
BY GuestConstants, KeysBehaviour, ValuesArePrivate, PTL DEF KeysPrivate
=============================================================================
