------------------------- MODULE BionicMutexProofs -------------------------
(***************************************************************************)
(* Proofs about BionicMutex, for any threads, heap addresses and depth.    *)
(* IInv is inductive; the safety properties of the runs follow from it.    *)
(***************************************************************************)
EXTENDS BionicMutex, TLAPS

USE WordsDistinct

(* The initial slot is a static initialiser that no thread has touched. *)
LEMMA InitInvariant == Init => IInv
<1>1. Init => TypeOK BY DEF Init, TypeOK, StaticWord, Sentinels, Words,
    Labels, EnsureLabels, ResolveLabels, Results, Ops, Kinds, NoRep
<1>2. Init => SlotInv BY DEF Init, SlotInv, StaticWord, Special, Kinds
<1>3. Init => ObjectInv BY DEF Init, ObjectInv
<1>4. Init => ClientView BY DEF Init, ClientView, Holds, LockOwner
<1>5. Init => \A t \in Threads : PcInv(t)
  BY DEF Init, PcInv, OperateLabels, WaitLabels
<1>6. Init => ErrnoHonest /\ HolderNeverRefused
  BY DEF Init, ErrnoHonest, HolderNeverRefused
<1> QED BY <1>1, <1>2, <1>3, <1>4, <1>5, <1>6 DEF IInv

(* Ensure_bionic_mutex_representation preserves the invariant. *)
LEMMA EnsureStep == ASSUME IInv, NEW t \in Threads, Ensure(t) PROVE IInv'
<1> USE DEF IInv, Goto, Return, Published, BeingPublished, StaticWord,
      Sentinels, EnsureLabels, OperateLabels, WaitLabels, slotVars, heapVars
<1>1. ASSUME LoadTag(t) PROVE IInv'
  <2>1. TypeOK' BY <1>1 DEF LoadTag, TypeOK, Words, Labels, EnsureLabels,
        ResolveLabels, Results, Ops, Kinds, NoRep
  <2>2. SlotInv' BY <1>1 DEF LoadTag, TypeOK, SlotInv, PcInv, Special
  <2>3. ObjectInv' BY <1>1 DEF LoadTag, TypeOK, SlotInv, ObjectInv, PcInv
  <2>4. ClientView' BY <1>1 DEF LoadTag, TypeOK, SlotInv, ClientView, Holds,
        LockOwner, PcInv
  <2>5. (\A u \in Threads : PcInv(u))' BY <1>1 DEF LoadTag, TypeOK, Kinds,
        Ops, NoRep, SlotInv, PcInv, Special, ObjectInv, ClientView, Holds,
        LockOwner
  <2>6. ErrnoHonest' BY <1>1 DEF LoadTag, TypeOK, ErrnoHonest
  <2>7. HolderNeverRefused' BY <1>1 DEF LoadTag, TypeOK, PcInv,
        HolderNeverRefused
  <2> QED BY <2>1, <2>2, <2>3, <2>4, <2>5, <2>6, <2>7 DEF IInv
<1>2. ASSUME LoadLow(t) PROVE IInv'
  <2>1. TypeOK' BY <1>2 DEF LoadLow, AfterLoads, TypeOK, Words, Labels,
        EnsureLabels, ResolveLabels, Results, Ops, Kinds, NoRep
  <2>2. SlotInv' BY <1>2 DEF LoadLow, AfterLoads, TypeOK, SlotInv, PcInv,
        Special
  <2>3. ObjectInv' BY <1>2 DEF LoadLow, AfterLoads, TypeOK, SlotInv,
        ObjectInv, PcInv
  <2>4. ClientView' BY <1>2 DEF LoadLow, AfterLoads, TypeOK, SlotInv,
        ClientView, Holds, LockOwner, PcInv
  <2>5. (\A u \in Threads : PcInv(u))' BY <1>2 DEF LoadLow, AfterLoads,
        TypeOK, Kinds, Ops, NoRep, SlotInv, PcInv, Special, ObjectInv,
        ClientView, Holds, LockOwner
  <2>6. ErrnoHonest' BY <1>2 DEF LoadLow, AfterLoads, TypeOK, ErrnoHonest
  <2>7. HolderNeverRefused' BY <1>2 DEF LoadLow, AfterLoads, TypeOK, PcInv,
        HolderNeverRefused
  <2> QED BY <2>1, <2>2, <2>3, <2>4, <2>5, <2>6, <2>7 DEF IInv
<1>3. ASSUME Serialize(t) PROVE IInv'
  <2>1. TypeOK' BY <1>3 DEF Serialize, TypeOK, Words, Labels, EnsureLabels,
        ResolveLabels, Results, Ops, Kinds, NoRep
  <2>2. SlotInv' BY <1>3 DEF Serialize, TypeOK, SlotInv, PcInv, Special
  <2>3. ObjectInv' BY <1>3 DEF Serialize, TypeOK, SlotInv, ObjectInv, PcInv
  <2>4. ClientView' BY <1>3 DEF Serialize, TypeOK, SlotInv, ClientView, Holds,
        LockOwner, PcInv
  <2>5. (\A u \in Threads : PcInv(u))' BY <1>3 DEF Serialize, TypeOK, Kinds,
        Ops, NoRep, SlotInv, PcInv, Special, ObjectInv, ClientView, Holds,
        LockOwner
  <2>6. ErrnoHonest' BY <1>3 DEF Serialize, TypeOK, ErrnoHonest
  <2>7. HolderNeverRefused' BY <1>3 DEF Serialize, TypeOK, PcInv,
        HolderNeverRefused
  <2> QED BY <2>1, <2>2, <2>3, <2>4, <2>5, <2>6, <2>7 DEF IInv
<1>4. ASSUME CasTag(t) PROVE IInv'
  <2>1. TypeOK' BY <1>4 DEF CasTag, TypeOK, Words, Labels, EnsureLabels,
        ResolveLabels, Results, Ops, Kinds, NoRep
  <2>2. SlotInv' BY <1>4 DEF CasTag, TypeOK, SlotInv, PcInv, Special
  <2>3. ObjectInv' BY <1>4 DEF CasTag, TypeOK, SlotInv, ObjectInv, PcInv
  <2>4. ClientView' BY <1>4 DEF CasTag, TypeOK, SlotInv, ClientView, Holds,
        LockOwner, PcInv
  <2>5. (\A u \in Threads : PcInv(u))' BY <1>4 DEF CasTag, TypeOK, Kinds, Ops,
        NoRep, SlotInv, PcInv
  <2>6. ErrnoHonest' BY <1>4 DEF CasTag, TypeOK, ErrnoHonest
  <2>7. HolderNeverRefused' BY <1>4 DEF CasTag, TypeOK, PcInv,
        HolderNeverRefused
  <2> QED BY <2>1, <2>2, <2>3, <2>4, <2>5, <2>6, <2>7 DEF IInv
<1>5. ASSUME AcquireInitLock(t) PROVE IInv'
  <2>1. TypeOK' BY <1>5 DEF AcquireInitLock, TypeOK, Words, Labels,
        EnsureLabels, ResolveLabels, Results, Ops, Kinds, NoRep
  <2>2. SlotInv' BY <1>5 DEF AcquireInitLock, TypeOK, SlotInv, PcInv, Special
  <2>3. ObjectInv' BY <1>5 DEF AcquireInitLock, TypeOK, SlotInv, ObjectInv,
        PcInv
  <2>4. ClientView' BY <1>5 DEF AcquireInitLock, TypeOK, SlotInv, ClientView,
        Holds, LockOwner, PcInv
  <2>5. (\A u \in Threads : PcInv(u))' BY <1>5 DEF AcquireInitLock, TypeOK,
        Kinds, Ops, NoRep, SlotInv, PcInv
  <2>6. ErrnoHonest' BY <1>5 DEF AcquireInitLock, TypeOK, ErrnoHonest
  <2>7. HolderNeverRefused' BY <1>5 DEF AcquireInitLock, TypeOK, PcInv,
        HolderNeverRefused
  <2> QED BY <2>1, <2>2, <2>3, <2>4, <2>5, <2>6, <2>7 DEF IInv
<1>6. ASSUME CheckAndCreate(t) PROVE IInv'
  <2>1. TypeOK' BY <1>6 DEF CheckAndCreate, StillStatic, SpecialKind, Create,
        TypeOK, Words, Labels, EnsureLabels, ResolveLabels, Results, Ops,
        Kinds, NoRep
  <2>2. SlotInv' BY <1>6 DEF CheckAndCreate, StillStatic, SpecialKind, Create,
        TypeOK, SlotInv, PcInv, Special
  <2>3. ObjectInv' BY <1>6 DEF CheckAndCreate, StillStatic, SpecialKind,
        Create, TypeOK, SlotInv, ObjectInv, PcInv
  <2>4. ClientView' BY <1>6 DEF CheckAndCreate, StillStatic, SpecialKind,
        Create, TypeOK, SlotInv, ClientView, Holds, LockOwner, PcInv
  <2>5. (\A u \in Threads : PcInv(u))' BY <1>6 DEF CheckAndCreate,
        StillStatic, SpecialKind, Create, TypeOK, Kinds, Ops, NoRep, SlotInv,
        PcInv
  <2>6. ErrnoHonest' BY <1>6 DEF CheckAndCreate, StillStatic, SpecialKind,
        Create, TypeOK, ErrnoHonest
  <2>7. HolderNeverRefused' BY <1>6 DEF CheckAndCreate, StillStatic,
        SpecialKind, Create, TypeOK, PcInv, HolderNeverRefused
  <2> QED BY <2>1, <2>2, <2>3, <2>4, <2>5, <2>6, <2>7 DEF IInv
<1>7. ASSUME CreateFails(t) PROVE IInv'
  <2>1. TypeOK' BY <1>7 DEF CreateFails, StillStatic, TypeOK, Words, Labels,
        EnsureLabels, ResolveLabels, Results, Ops, Kinds, NoRep
  <2>2. SlotInv' BY <1>7 DEF CreateFails, StillStatic, TypeOK, SlotInv, PcInv,
        Special
  <2>3. ObjectInv' BY <1>7 DEF CreateFails, StillStatic, TypeOK, SlotInv,
        ObjectInv, PcInv
  <2>4. ClientView' BY <1>7 DEF CreateFails, StillStatic, TypeOK, SlotInv,
        ClientView, Holds, LockOwner, PcInv
  <2>5. (\A u \in Threads : PcInv(u))' BY <1>7 DEF CreateFails, StillStatic,
        TypeOK, Kinds, Ops, NoRep, SlotInv, PcInv
  <2>6. ErrnoHonest' BY <1>7 DEF CreateFails, StillStatic, TypeOK, ErrnoHonest
  <2>7. HolderNeverRefused' BY <1>7 DEF CreateFails, StillStatic, TypeOK,
        PcInv, HolderNeverRefused
  <2> QED BY <2>1, <2>2, <2>3, <2>4, <2>5, <2>6, <2>7 DEF IInv
<1>8. ASSUME PublishLow(t) PROVE IInv'
  <2>1. TypeOK' BY <1>8 DEF PublishLow, TypeOK, Words, Labels, EnsureLabels,
        ResolveLabels, Results, Ops, Kinds, NoRep
  <2>2. SlotInv' BY <1>8 DEF PublishLow, TypeOK, SlotInv, PcInv, Special
  <2>3. ObjectInv' BY <1>8 DEF PublishLow, TypeOK, SlotInv, ObjectInv, PcInv
  <2>4. ClientView' BY <1>8 DEF PublishLow, TypeOK, SlotInv, ClientView,
        Holds, LockOwner, PcInv
  <2>5. (\A u \in Threads : PcInv(u))' BY <1>8 DEF PublishLow, TypeOK, Kinds,
        Ops, NoRep, SlotInv, PcInv
  <2>6. ErrnoHonest' BY <1>8 DEF PublishLow, TypeOK, ErrnoHonest
  <2>7. HolderNeverRefused' BY <1>8 DEF PublishLow, TypeOK, PcInv,
        HolderNeverRefused
  <2> QED BY <2>1, <2>2, <2>3, <2>4, <2>5, <2>6, <2>7 DEF IInv
<1>9. ASSUME ReleaseInitLock(t) PROVE IInv'
  <2>1. TypeOK' BY <1>9 DEF ReleaseInitLock, TypeOK, Words, Labels,
        EnsureLabels, ResolveLabels, Results, Ops, Kinds, NoRep
  <2>2. SlotInv' BY <1>9 DEF ReleaseInitLock, TypeOK, SlotInv, PcInv, Special
  <2>3. ObjectInv' BY <1>9 DEF ReleaseInitLock, TypeOK, SlotInv, ObjectInv,
        PcInv
  <2>4. ClientView' BY <1>9 DEF ReleaseInitLock, TypeOK, SlotInv, ClientView,
        Holds, LockOwner, PcInv
  <2>5. (\A u \in Threads : PcInv(u))' BY <1>9 DEF ReleaseInitLock, TypeOK,
        Kinds, Ops, NoRep, SlotInv, PcInv
  <2>6. ErrnoHonest' BY <1>9 DEF ReleaseInitLock, TypeOK, ErrnoHonest
  <2>7. HolderNeverRefused' BY <1>9 DEF ReleaseInitLock, TypeOK, PcInv,
        HolderNeverRefused
  <2> QED BY <2>1, <2>2, <2>3, <2>4, <2>5, <2>6, <2>7 DEF IInv
<1> QED BY <1>1, <1>2, <1>3, <1>4, <1>5, <1>6, <1>7, <1>8, <1>9 DEF Ensure

(* Resolve_bionic_mutex preserves the invariant. *)
LEMMA ResolveStep == ASSUME IInv, NEW t \in Threads, Resolve(t) PROVE IInv'
<1> USE DEF IInv, Goto, Return, Published, BeingPublished, StaticWord,
      Sentinels, EnsureLabels, OperateLabels, WaitLabels, slotVars, heapVars
<1>1. ASSUME ResolveTag(t) PROVE IInv'
  <2>1. TypeOK' BY <1>1 DEF ResolveTag, TypeOK, Words, Labels, EnsureLabels,
        ResolveLabels, Results, Ops, Kinds, NoRep
  <2>2. SlotInv' BY <1>1 DEF ResolveTag, TypeOK, SlotInv, PcInv, Special
  <2>3. ObjectInv' BY <1>1 DEF ResolveTag, TypeOK, SlotInv, ObjectInv, PcInv
  <2>4. ClientView' BY <1>1 DEF ResolveTag, TypeOK, SlotInv, ClientView,
        Holds, LockOwner, PcInv
  <2>5. (\A u \in Threads : PcInv(u))' BY <1>1 DEF ResolveTag, TypeOK, Kinds,
        Ops, NoRep, SlotInv, PcInv, Special, ObjectInv, ClientView, Holds,
        LockOwner
  <2>6. ErrnoHonest' BY <1>1 DEF ResolveTag, TypeOK, ErrnoHonest
  <2>7. HolderNeverRefused' BY <1>1 DEF ResolveTag, TypeOK, PcInv,
        HolderNeverRefused
  <2> QED BY <2>1, <2>2, <2>3, <2>4, <2>5, <2>6, <2>7 DEF IInv
<1>2. ASSUME ResolveLow(t) PROVE IInv'
  <2>1. TypeOK' BY <1>2 DEF ResolveLow, TypeOK, Words, Labels, EnsureLabels,
        ResolveLabels, Results, Ops, Kinds, NoRep
  <2>2. SlotInv' BY <1>2 DEF ResolveLow, TypeOK, SlotInv, PcInv, Special
  <2>3. ObjectInv' BY <1>2 DEF ResolveLow, TypeOK, SlotInv, ObjectInv, PcInv
  <2>4. ClientView' BY <1>2 DEF ResolveLow, TypeOK, SlotInv, ClientView,
        Holds, LockOwner, PcInv
  <2>5. (\A u \in Threads : PcInv(u))' BY <1>2 DEF ResolveLow, TypeOK, Kinds,
        Ops, NoRep, SlotInv, PcInv, Special, ObjectInv, ClientView, Holds,
        LockOwner
  <2>6. ErrnoHonest' BY <1>2 DEF ResolveLow, TypeOK, ErrnoHonest
  <2>7. HolderNeverRefused' BY <1>2 DEF ResolveLow, TypeOK, PcInv,
        HolderNeverRefused
  <2> QED BY <2>1, <2>2, <2>3, <2>4, <2>5, <2>6, <2>7 DEF IInv
<1>3. ASSUME ResolveHigh(t) PROVE IInv'
  <2>0. /\ pc[t] = "r_hi" /\ w1 \in Objs
        /\ rep' = [rep EXCEPT ![t] = w1]
        /\ pc' = [pc EXCEPT ![t] = "do"]
        /\ UNCHANGED <<slotVars, heapVars, initLock, tag, lo, op, held, out>>
    BY <1>3 DEF ResolveHigh, NoPointer, TypeOK, SlotInv, PcInv, Special
  <2>1. TypeOK' BY <2>0 DEF TypeOK, Words, Labels,
        EnsureLabels, ResolveLabels, Results, Ops, Kinds, NoRep
  <2>2. SlotInv' BY <2>0 DEF TypeOK, SlotInv, PcInv,
        Special, Kinds, NoRep, ObjectInv, ClientView, Holds, LockOwner
  <2>3. ObjectInv' BY <2>0 DEF TypeOK, SlotInv,
        ObjectInv, PcInv, Kinds, NoRep, Special, ClientView, Holds, LockOwner
  <2>4. ClientView' BY <2>0 DEF TypeOK, SlotInv,
        ClientView, Holds, LockOwner, PcInv, Kinds, NoRep, Special, ObjectInv
  <2>5. (\A u \in Threads : PcInv(u))' BY <2>0 DEF ResolveHigh, NoPointer,
        TypeOK, Kinds, Ops, NoRep, SlotInv, PcInv, Special, ObjectInv,
        ClientView, Holds, LockOwner
  <2>6. ErrnoHonest' BY <2>0 DEF TypeOK, ErrnoHonest
  <2>7. HolderNeverRefused' BY <2>0 DEF TypeOK, PcInv,
        HolderNeverRefused
  <2> QED BY <2>1, <2>2, <2>3, <2>4, <2>5, <2>6, <2>7 DEF IInv
<1> QED BY <1>1, <1>2, <1>3 DEF Resolve

(* Lock, trylock and unlock on the resolved representation preserve the
   invariant. *)
LEMMA OperateStep == ASSUME IInv, NEW t \in Threads, Operate(t) PROVE IInv'
<1> USE DEF IInv, Goto, Return, Published, BeingPublished, StaticWord,
      Sentinels, OperateLabels, WaitLabels, AtDo, Direct, Recursive,
      Errorcheck, LockOf, SetLock, SetCount, SetOwner, CountOf, StillAllocated
<1>1. ASSUME LockDirect(t) PROVE IInv'
  <2>1. TypeOK' BY <1>1 DEF LockDirect, TypeOK, Words, Labels, EnsureLabels,
        ResolveLabels, Results, Ops, Kinds, NoRep
  <2>2. SlotInv' BY <1>1 DEF LockDirect, TypeOK, SlotInv, PcInv, Special
  <2>3. ObjectInv' BY <1>1 DEF LockDirect, TypeOK, SlotInv, ObjectInv, PcInv
  <2>4. ClientView' BY <1>1 DEF LockDirect, TypeOK, SlotInv, ClientView,
        Holds, LockOwner, PcInv
  <2>5. (\A u \in Threads : PcInv(u))' BY <1>1 DEF LockDirect, TypeOK, Kinds,
        Ops, NoRep, SlotInv, PcInv, Special, ObjectInv, ClientView, Holds,
        LockOwner
  <2>6. ErrnoHonest' BY <1>1 DEF LockDirect, TypeOK, ErrnoHonest
  <2>7. HolderNeverRefused' BY <1>1 DEF LockDirect, TypeOK, PcInv,
        HolderNeverRefused
  <2> QED BY <2>1, <2>2, <2>3, <2>4, <2>5, <2>6, <2>7 DEF IInv
<1>2. ASSUME LockRecursive(t) PROVE IInv'
  <2>1. TypeOK' BY <1>2 DEF LockRecursive, TypeOK, Words, Labels,
        EnsureLabels, ResolveLabels, Results, Ops, Kinds, NoRep
  <2>2. SlotInv' BY <1>2 DEF LockRecursive, TypeOK, SlotInv, PcInv, Special
  <2>3. ObjectInv' BY <1>2 DEF LockRecursive, TypeOK, SlotInv, ObjectInv,
        PcInv, Kinds, NoRep, Special, ClientView, Holds, LockOwner
  <2>4. ClientView' BY <1>2 DEF LockRecursive, TypeOK, SlotInv, ClientView,
        Holds, LockOwner, PcInv
  <2>5. (\A u \in Threads : PcInv(u))' BY <1>2 DEF LockRecursive, TypeOK,
        Kinds, Ops, NoRep, SlotInv, PcInv, Special, ObjectInv, ClientView,
        Holds, LockOwner
  <2>6. ErrnoHonest' BY <1>2 DEF LockRecursive, TypeOK, ErrnoHonest
  <2>7. HolderNeverRefused' BY <1>2 DEF LockRecursive, TypeOK, PcInv,
        HolderNeverRefused
  <2> QED BY <2>1, <2>2, <2>3, <2>4, <2>5, <2>6, <2>7 DEF IInv
<1>3. ASSUME ErrorcheckLock(t) PROVE IInv'
  <2>1. TypeOK' BY <1>3 DEF ErrorcheckLock, TypeOK, Words, Labels,
        EnsureLabels, ResolveLabels, Results, Ops, Kinds, NoRep
  <2>2. SlotInv' BY <1>3 DEF ErrorcheckLock, TypeOK, SlotInv, PcInv, Special
  <2>3. ObjectInv' BY <1>3 DEF ErrorcheckLock, TypeOK, SlotInv, ObjectInv,
        PcInv
  <2>4. ClientView' BY <1>3 DEF ErrorcheckLock, TypeOK, SlotInv, ClientView,
        Holds, LockOwner, PcInv
  <2>5. (\A u \in Threads : PcInv(u))' BY <1>3 DEF ErrorcheckLock, TypeOK,
        Kinds, Ops, NoRep, SlotInv, PcInv, Special, ObjectInv, ClientView,
        Holds, LockOwner
  <2>6. ErrnoHonest' BY <1>3 DEF ErrorcheckLock, TypeOK, ErrnoHonest, Kinds,
        NoRep, SlotInv, PcInv, Special, ObjectInv, ClientView, Holds, LockOwner
  <2>7. HolderNeverRefused' BY <1>3 DEF ErrorcheckLock, TypeOK, PcInv,
        HolderNeverRefused
  <2> QED BY <2>1, <2>2, <2>3, <2>4, <2>5, <2>6, <2>7 DEF IInv
<1>4. ASSUME ErrorcheckAcquire(t) PROVE IInv'
  <2>1. TypeOK' BY <1>4 DEF ErrorcheckAcquire, TypeOK, Words, Labels,
        EnsureLabels, ResolveLabels, Results, Ops, Kinds, NoRep
  <2>2. SlotInv' BY <1>4 DEF ErrorcheckAcquire, TypeOK, SlotInv, PcInv, Special
  <2>3. ObjectInv' BY <1>4 DEF ErrorcheckAcquire, TypeOK, SlotInv, ObjectInv,
        PcInv
  <2>4. ClientView' BY <1>4 DEF ErrorcheckAcquire, TypeOK, SlotInv,
        ClientView, Holds, LockOwner, PcInv
  <2>5. (\A u \in Threads : PcInv(u))' BY <1>4 DEF ErrorcheckAcquire, TypeOK,
        Kinds, Ops, NoRep, SlotInv, PcInv, Special, ObjectInv, ClientView,
        Holds, LockOwner
  <2>6. ErrnoHonest' BY <1>4 DEF ErrorcheckAcquire, TypeOK, ErrnoHonest
  <2>7. HolderNeverRefused' BY <1>4 DEF ErrorcheckAcquire, TypeOK, PcInv,
        HolderNeverRefused
  <2> QED BY <2>1, <2>2, <2>3, <2>4, <2>5, <2>6, <2>7 DEF IInv
<1>5. ASSUME ErrorcheckOwn(t) PROVE IInv'
  <2>1. TypeOK' BY <1>5 DEF ErrorcheckOwn, TypeOK, Words, Labels,
        EnsureLabels, ResolveLabels, Results, Ops, Kinds, NoRep, SlotInv,
        PcInv, Special, ObjectInv, ClientView, Holds, LockOwner
  <2>2. SlotInv' BY <1>5 DEF ErrorcheckOwn, TypeOK, SlotInv, PcInv, Special
  <2>3. ObjectInv' BY <1>5 DEF ErrorcheckOwn, TypeOK, SlotInv, ObjectInv,
        PcInv, Kinds, NoRep, Special, ClientView, Holds, LockOwner
  <2>4. ClientView' BY <1>5 DEF ErrorcheckOwn, TypeOK, SlotInv, ClientView,
        Holds, LockOwner, PcInv
  <2>5. (\A u \in Threads : PcInv(u))' BY <1>5 DEF ErrorcheckOwn, TypeOK,
        Kinds, Ops, NoRep, SlotInv, PcInv
  <2>6. ErrnoHonest' BY <1>5 DEF ErrorcheckOwn, TypeOK, ErrnoHonest
  <2>7. HolderNeverRefused' BY <1>5 DEF ErrorcheckOwn, TypeOK, PcInv,
        HolderNeverRefused
  <2> QED BY <2>1, <2>2, <2>3, <2>4, <2>5, <2>6, <2>7 DEF IInv
<1>6. ASSUME TrylockBusy(t) PROVE IInv'
  <2>1. TypeOK' BY <1>6 DEF TrylockBusy, TypeOK, Words, Labels, EnsureLabels,
        ResolveLabels, Results, Ops, Kinds, NoRep
  <2>2. SlotInv' BY <1>6 DEF TrylockBusy, TypeOK, SlotInv, PcInv, Special
  <2>3. ObjectInv' BY <1>6 DEF TrylockBusy, TypeOK, SlotInv, ObjectInv, PcInv
  <2>4. ClientView' BY <1>6 DEF TrylockBusy, TypeOK, SlotInv, ClientView,
        Holds, LockOwner, PcInv
  <2>5. (\A u \in Threads : PcInv(u))' BY <1>6 DEF TrylockBusy, TypeOK, Kinds,
        Ops, NoRep, SlotInv, PcInv
  <2>6. ErrnoHonest' BY <1>6 DEF TrylockBusy, TypeOK, ErrnoHonest
  <2>7. HolderNeverRefused' BY <1>6 DEF TrylockBusy, TypeOK, PcInv,
        HolderNeverRefused
  <2> QED BY <2>1, <2>2, <2>3, <2>4, <2>5, <2>6, <2>7 DEF IInv
<1>7. ASSUME UnlockDirect(t) PROVE IInv'
  <2>1. TypeOK' BY <1>7 DEF UnlockDirect, TypeOK, Words, Labels, EnsureLabels,
        ResolveLabels, Results, Ops, Kinds, NoRep, SlotInv, PcInv, Special,
        ObjectInv, ClientView, Holds, LockOwner
  <2>2. SlotInv' BY <1>7 DEF UnlockDirect, TypeOK, SlotInv, PcInv, Special
  <2>3. ObjectInv' BY <1>7 DEF UnlockDirect, TypeOK, SlotInv, ObjectInv, PcInv
  <2>4. ClientView' BY <1>7 DEF UnlockDirect, TypeOK, SlotInv, ClientView,
        Holds, LockOwner, PcInv, Kinds, NoRep, Special, ObjectInv
  <2>5. (\A u \in Threads : PcInv(u))' BY <1>7 DEF UnlockDirect, TypeOK,
        Kinds, Ops, NoRep, SlotInv, PcInv, Special, ObjectInv, ClientView,
        Holds, LockOwner
  <2>6. ErrnoHonest' BY <1>7 DEF UnlockDirect, TypeOK, ErrnoHonest
  <2>7. HolderNeverRefused' BY <1>7 DEF UnlockDirect, TypeOK, PcInv,
        HolderNeverRefused
  <2> QED BY <2>1, <2>2, <2>3, <2>4, <2>5, <2>6, <2>7 DEF IInv
<1>8. ASSUME UnlockRecursive(t) PROVE IInv'
  <2>0. oLock[rep[t]] = t => oCount[rep[t]] > 0 /\ held[t] > 0
    BY <1>8 DEF UnlockRecursive, TypeOK, Kinds, SlotInv, PcInv, ObjectInv,
       ClientView, Holds, LockOwner
  <2>a. oCount' \in [Objs -> Nat] /\ held' \in [Threads -> Nat]
    BY <1>8, <2>0 DEF UnlockRecursive, TypeOK
  <2>1. TypeOK' BY <1>8, <2>a DEF UnlockRecursive, TypeOK, Words, Labels,
        EnsureLabels, ResolveLabels, Results, Ops, Kinds, NoRep
  <2>2. SlotInv' BY <1>8 DEF UnlockRecursive, TypeOK, SlotInv, PcInv, Special
  <2>3. ObjectInv' BY <1>8 DEF UnlockRecursive, TypeOK, SlotInv, ObjectInv,
        PcInv
  <2>4. ClientView' BY <1>8 DEF UnlockRecursive, TypeOK, SlotInv, ClientView,
        Holds, LockOwner, PcInv, Kinds, NoRep, Special, ObjectInv
  <2>5. (\A u \in Threads : PcInv(u))' BY <1>8 DEF UnlockRecursive, TypeOK,
        Kinds, Ops, NoRep, SlotInv, PcInv, Special, ObjectInv, ClientView,
        Holds, LockOwner
  <2>6. ErrnoHonest' BY <1>8 DEF UnlockRecursive, TypeOK, ErrnoHonest, Kinds,
        NoRep, SlotInv, PcInv, Special, ObjectInv, ClientView, Holds, LockOwner
  <2>7. HolderNeverRefused' BY <1>8 DEF UnlockRecursive, TypeOK, PcInv,
        HolderNeverRefused
  <2> QED BY <2>1, <2>2, <2>3, <2>4, <2>5, <2>6, <2>7 DEF IInv
<1>9. ASSUME ErrorcheckDisown(t) PROVE IInv'
  <2>1. TypeOK' BY <1>9 DEF ErrorcheckDisown, TypeOK, Words, Labels,
        EnsureLabels, ResolveLabels, Results, Ops, Kinds, NoRep
  <2>2. SlotInv' BY <1>9 DEF ErrorcheckDisown, TypeOK, SlotInv, PcInv, Special
  <2>3. ObjectInv' BY <1>9 DEF ErrorcheckDisown, TypeOK, SlotInv, ObjectInv,
        PcInv
  <2>4. ClientView' BY <1>9 DEF ErrorcheckDisown, TypeOK, SlotInv, ClientView,
        Holds, LockOwner, PcInv
  <2>5. (\A u \in Threads : PcInv(u))' BY <1>9 DEF ErrorcheckDisown, TypeOK,
        Kinds, Ops, NoRep, SlotInv, PcInv, Special, ObjectInv, ClientView,
        Holds, LockOwner
  <2>6. ErrnoHonest' BY <1>9 DEF ErrorcheckDisown, TypeOK, ErrnoHonest, Kinds,
        NoRep, SlotInv, PcInv, Special, ObjectInv, ClientView, Holds, LockOwner
  <2>7. HolderNeverRefused' BY <1>9 DEF ErrorcheckDisown, TypeOK, PcInv,
        HolderNeverRefused
  <2> QED BY <2>1, <2>2, <2>3, <2>4, <2>5, <2>6, <2>7 DEF IInv
<1>10. ASSUME ErrorcheckRelease(t) PROVE IInv'
  <2>1. TypeOK' BY <1>10 DEF ErrorcheckRelease, TypeOK, Words, Labels,
        EnsureLabels, ResolveLabels, Results, Ops, Kinds, NoRep, SlotInv,
        PcInv, Special, ObjectInv, ClientView, Holds, LockOwner
  <2>2. SlotInv' BY <1>10 DEF ErrorcheckRelease, TypeOK, SlotInv, PcInv,
        Special
  <2>3. ObjectInv' BY <1>10 DEF ErrorcheckRelease, TypeOK, SlotInv, ObjectInv,
        PcInv
  <2>4. ClientView' BY <1>10 DEF ErrorcheckRelease, TypeOK, SlotInv,
        ClientView, Holds, LockOwner, PcInv
  <2>5. (\A u \in Threads : PcInv(u))' BY <1>10 DEF ErrorcheckRelease, TypeOK,
        Kinds, Ops, NoRep, SlotInv, PcInv
  <2>6. ErrnoHonest' BY <1>10 DEF ErrorcheckRelease, TypeOK, ErrnoHonest
  <2>7. HolderNeverRefused' BY <1>10 DEF ErrorcheckRelease, TypeOK, PcInv,
        HolderNeverRefused
  <2> QED BY <2>1, <2>2, <2>3, <2>4, <2>5, <2>6, <2>7 DEF IInv
<1> QED BY <1>1, <1>2, <1>3, <1>4, <1>5, <1>6, <1>7, <1>8, <1>9, <1>10 DEF
    Operate

(* The condition wait, its wake-ups included, preserves the invariant. *)
LEMMA WaitStep == ASSUME IInv, NEW t \in Threads, Wait(t) PROVE IInv'
<1> USE DEF IInv, Goto, Return, Published, BeingPublished, StaticWord,
      Sentinels, OperateLabels, WaitLabels, AtDo, Direct, Recursive,
      Errorcheck, LockOf, SetLock, SetCount, SetOwner, CountOf, StillAllocated
<1>1. ASSUME WaitDirect(t) PROVE IInv'
  <2>1. TypeOK' BY <1>1 DEF WaitDirect, TypeOK, Words, Labels, EnsureLabels,
        ResolveLabels, Results, Ops, Kinds, NoRep
  <2>2. SlotInv' BY <1>1 DEF WaitDirect, TypeOK, SlotInv, PcInv, Special
  <2>3. ObjectInv' BY <1>1 DEF WaitDirect, TypeOK, SlotInv, ObjectInv, PcInv
  <2>4. ClientView' BY <1>1 DEF WaitDirect, TypeOK, SlotInv, ClientView,
        Holds, LockOwner, PcInv
  <2>5. (\A u \in Threads : PcInv(u))' BY <1>1 DEF WaitDirect, TypeOK, Kinds,
        Ops, NoRep, SlotInv, PcInv
  <2>6. ErrnoHonest' BY <1>1 DEF WaitDirect, TypeOK, ErrnoHonest
  <2>7. HolderNeverRefused' BY <1>1 DEF WaitDirect, TypeOK, PcInv,
        HolderNeverRefused
  <2> QED BY <2>1, <2>2, <2>3, <2>4, <2>5, <2>6, <2>7 DEF IInv
<1>2. ASSUME WaitRecursive(t) PROVE IInv'
  <2>1. TypeOK' BY <1>2 DEF WaitRecursive, TypeOK, Words, Labels,
        EnsureLabels, ResolveLabels, Results, Ops, Kinds, NoRep
  <2>2. SlotInv' BY <1>2 DEF WaitRecursive, TypeOK, SlotInv, PcInv, Special
  <2>3. ObjectInv' BY <1>2 DEF WaitRecursive, TypeOK, SlotInv, ObjectInv,
        PcInv, Kinds, NoRep, Special, ClientView, Holds, LockOwner
  <2>4. ClientView' BY <1>2 DEF WaitRecursive, TypeOK, SlotInv, ClientView,
        Holds, LockOwner, PcInv
  <2>5. (\A u \in Threads : PcInv(u))' BY <1>2 DEF WaitRecursive, TypeOK,
        Kinds, Ops, NoRep, SlotInv, PcInv, Special, ObjectInv, ClientView,
        Holds, LockOwner
  <2>6. ErrnoHonest' BY <1>2 DEF WaitRecursive, TypeOK, ErrnoHonest, Kinds,
        NoRep, SlotInv, PcInv, Special, ObjectInv, ClientView, Holds, LockOwner
  <2>7. HolderNeverRefused' BY <1>2 DEF WaitRecursive, TypeOK, PcInv,
        HolderNeverRefused
  <2> QED BY <2>1, <2>2, <2>3, <2>4, <2>5, <2>6, <2>7 DEF IInv
<1>3. ASSUME WaitErrorcheck(t) PROVE IInv'
  <2>1. TypeOK' BY <1>3 DEF WaitErrorcheck, TypeOK, Words, Labels,
        EnsureLabels, ResolveLabels, Results, Ops, Kinds, NoRep
  <2>2. SlotInv' BY <1>3 DEF WaitErrorcheck, TypeOK, SlotInv, PcInv, Special
  <2>3. ObjectInv' BY <1>3 DEF WaitErrorcheck, TypeOK, SlotInv, ObjectInv,
        PcInv
  <2>4. ClientView' BY <1>3 DEF WaitErrorcheck, TypeOK, SlotInv, ClientView,
        Holds, LockOwner, PcInv
  <2>5. (\A u \in Threads : PcInv(u))' BY <1>3 DEF WaitErrorcheck, TypeOK,
        Kinds, Ops, NoRep, SlotInv, PcInv, Special, ObjectInv, ClientView,
        Holds, LockOwner
  <2>6. ErrnoHonest' BY <1>3 DEF WaitErrorcheck, TypeOK, ErrnoHonest, Kinds,
        NoRep, SlotInv, PcInv, Special, ObjectInv, ClientView, Holds, LockOwner
  <2>7. HolderNeverRefused' BY <1>3 DEF WaitErrorcheck, TypeOK, PcInv,
        HolderNeverRefused
  <2> QED BY <2>1, <2>2, <2>3, <2>4, <2>5, <2>6, <2>7 DEF IInv
<1>4. ASSUME DropAndSleep(t) PROVE IInv'
  <2>1. TypeOK' BY <1>4 DEF DropAndSleep, TypeOK, Words, Labels, EnsureLabels,
        ResolveLabels, Results, Ops, Kinds, NoRep
  <2>2. SlotInv' BY <1>4 DEF DropAndSleep, TypeOK, SlotInv, PcInv, Special
  <2>3. ObjectInv' BY <1>4 DEF DropAndSleep, TypeOK, SlotInv, ObjectInv,
        PcInv, Kinds, NoRep, Special, ClientView, Holds, LockOwner
  <2>4. ClientView' BY <1>4 DEF DropAndSleep, TypeOK, SlotInv, ClientView,
        Holds, LockOwner, PcInv
  <2>5. (\A u \in Threads : PcInv(u))' BY <1>4 DEF DropAndSleep, TypeOK,
        Kinds, Ops, NoRep, SlotInv, PcInv
  <2>6. ErrnoHonest' BY <1>4 DEF DropAndSleep, TypeOK, ErrnoHonest
  <2>7. HolderNeverRefused' BY <1>4 DEF DropAndSleep, TypeOK, PcInv,
        HolderNeverRefused
  <2> QED BY <2>1, <2>2, <2>3, <2>4, <2>5, <2>6, <2>7 DEF IInv
<1>5. ASSUME Timeout(t) PROVE IInv'
  <2>1. TypeOK' BY <1>5 DEF Timeout, Asleep, Wake, slotVars, heapVars, TypeOK,
        Words, Labels, EnsureLabels, ResolveLabels, Results, Ops, Kinds, NoRep
  <2>2. SlotInv' BY <1>5 DEF Timeout, Asleep, Wake, slotVars, heapVars,
        TypeOK, SlotInv, PcInv, Special
  <2>3. ObjectInv' BY <1>5 DEF Timeout, Asleep, Wake, slotVars, heapVars,
        TypeOK, SlotInv, ObjectInv, PcInv
  <2>4. ClientView' BY <1>5 DEF Timeout, Asleep, Wake, slotVars, heapVars,
        TypeOK, SlotInv, ClientView, Holds, LockOwner, PcInv
  <2>5. (\A u \in Threads : PcInv(u))' BY <1>5 DEF Timeout, Asleep, Wake,
        slotVars, heapVars, TypeOK, Kinds, Ops, NoRep, SlotInv, PcInv,
        Special, ObjectInv, ClientView, Holds, LockOwner
  <2>6. ErrnoHonest' BY <1>5 DEF Timeout, Asleep, Wake, slotVars, heapVars,
        TypeOK, ErrnoHonest
  <2>7. HolderNeverRefused' BY <1>5 DEF Timeout, Asleep, Wake, slotVars,
        heapVars, TypeOK, PcInv, HolderNeverRefused
  <2> QED BY <2>1, <2>2, <2>3, <2>4, <2>5, <2>6, <2>7 DEF IInv
<1>6. ASSUME Relock(t) PROVE IInv'
  <2>1. TypeOK' BY <1>6 DEF Relock, TypeOK, Words, Labels, EnsureLabels,
        ResolveLabels, Results, Ops, Kinds, NoRep
  <2>2. SlotInv' BY <1>6 DEF Relock, TypeOK, SlotInv, PcInv, Special
  <2>3. ObjectInv' BY <1>6 DEF Relock, TypeOK, SlotInv, ObjectInv, PcInv
  <2>4. ClientView' BY <1>6 DEF Relock, TypeOK, SlotInv, ClientView, Holds,
        LockOwner, PcInv
  <2>5. (\A u \in Threads : PcInv(u))' BY <1>6 DEF Relock, TypeOK, Kinds, Ops,
        NoRep, SlotInv, PcInv, Special, ObjectInv, ClientView, Holds, LockOwner
  <2>6. ErrnoHonest' BY <1>6 DEF Relock, TypeOK, ErrnoHonest
  <2>7. HolderNeverRefused' BY <1>6 DEF Relock, TypeOK, PcInv,
        HolderNeverRefused
  <2> QED BY <2>1, <2>2, <2>3, <2>4, <2>5, <2>6, <2>7 DEF IInv
<1>7. ASSUME RestoreAfterWait(t) PROVE IInv'
  <2>1. TypeOK' BY <1>7 DEF RestoreAfterWait, TypeOK, Words, Labels,
        EnsureLabels, ResolveLabels, Results, Ops, Kinds, NoRep
  <2>2. SlotInv' BY <1>7 DEF RestoreAfterWait, TypeOK, SlotInv, PcInv, Special
  <2>3. ObjectInv' BY <1>7 DEF RestoreAfterWait, TypeOK, SlotInv, ObjectInv,
        PcInv, Kinds, NoRep, Special, ClientView, Holds, LockOwner
  <2>4. ClientView' BY <1>7 DEF RestoreAfterWait, TypeOK, SlotInv, ClientView,
        Holds, LockOwner, PcInv
  <2>5. (\A u \in Threads : PcInv(u))' BY <1>7 DEF RestoreAfterWait, TypeOK,
        Kinds, Ops, NoRep, SlotInv, PcInv
  <2>6. ErrnoHonest' BY <1>7 DEF RestoreAfterWait, TypeOK, ErrnoHonest
  <2>7. HolderNeverRefused' BY <1>7 DEF RestoreAfterWait, TypeOK, PcInv,
        HolderNeverRefused
  <2> QED BY <2>1, <2>2, <2>3, <2>4, <2>5, <2>6, <2>7 DEF IInv
<1> QED BY <1>1, <1>2, <1>3, <1>4, <1>5, <1>6, <1>7 DEF Wait

(* A client's call preserves the invariant. *)
LEMMA CallStep == ASSUME IInv, NEW t \in Threads, NEW o \in Ops, Call(t, o)
    PROVE IInv'
<1> USE DEF IInv, Published, BeingPublished, StaticWord, Sentinels,
    EnsureLabels,
      OperateLabels, WaitLabels, slotVars, heapVars
<1>1. TypeOK' BY DEF Call, MayCall, TypeOK, Words, Labels, EnsureLabels,
      ResolveLabels, Results, Ops, Kinds, NoRep
<1>2. SlotInv' BY DEF Call, MayCall, TypeOK, SlotInv, PcInv, Special
<1>3. ObjectInv' BY DEF Call, MayCall, TypeOK, SlotInv, ObjectInv, PcInv
<1>4. ClientView' BY DEF Call, MayCall, TypeOK, SlotInv, ClientView, Holds,
      LockOwner, PcInv
<1>5. (\A u \in Threads : PcInv(u))' BY DEF Call, MayCall, TypeOK, Kinds, Ops,
      NoRep, SlotInv, PcInv, Special, ObjectInv, ClientView, Holds, LockOwner
<1>6. ErrnoHonest' BY DEF Call, MayCall, TypeOK, ErrnoHonest
<1>7. HolderNeverRefused' BY DEF Call, MayCall, TypeOK, PcInv,
      HolderNeverRefused
<1> QED BY <1>1, <1>2, <1>3, <1>4, <1>5, <1>6, <1>7 DEF IInv

(* Waking one sleeper preserves the invariant. *)
LEMMA SignalStep == ASSUME IInv, Signal PROVE IInv'
<1> USE DEF IInv, Published, BeingPublished, StaticWord, Sentinels,
    EnsureLabels,
      OperateLabels, WaitLabels, slotVars, heapVars
<1>1. TypeOK' BY DEF Signal, Asleep, Wake, TypeOK, Words, Labels,
      EnsureLabels, ResolveLabels, Results, Ops, Kinds, NoRep
<1>2. SlotInv' BY DEF Signal, Asleep, Wake, TypeOK, SlotInv, PcInv, Special
<1>3. ObjectInv' BY DEF Signal, Asleep, Wake, TypeOK, SlotInv, ObjectInv, PcInv
<1>4. ClientView' BY DEF Signal, Asleep, Wake, TypeOK, SlotInv, ClientView,
      Holds, LockOwner, PcInv
<1>5. (\A u \in Threads : PcInv(u))' BY DEF Signal, Asleep, Wake, TypeOK,
      Kinds, Ops, NoRep, SlotInv, PcInv, Special, ObjectInv, ClientView,
      Holds, LockOwner
<1>6. ErrnoHonest' BY DEF Signal, Asleep, Wake, TypeOK, ErrnoHonest
<1>7. HolderNeverRefused' BY DEF Signal, Asleep, Wake, TypeOK, PcInv,
      HolderNeverRefused
<1> QED BY <1>1, <1>2, <1>3, <1>4, <1>5, <1>6, <1>7 DEF IInv

(* Waking all sleepers preserves the invariant. *)
LEMMA BroadcastStep == ASSUME IInv, Broadcast PROVE IInv'
<1> USE DEF IInv, Published, BeingPublished, StaticWord, Sentinels,
    EnsureLabels,
      OperateLabels, WaitLabels, slotVars, heapVars
<1>1. TypeOK' BY DEF Broadcast, Asleep, Wake, TypeOK, Words, Labels,
      EnsureLabels, ResolveLabels, Results, Ops, Kinds, NoRep
<1>2. SlotInv' BY DEF Broadcast, Asleep, Wake, TypeOK, SlotInv, PcInv, Special
<1>3. ObjectInv' BY DEF Broadcast, Asleep, Wake, TypeOK, SlotInv, ObjectInv,
      PcInv
<1>4. ClientView' BY DEF Broadcast, Asleep, Wake, TypeOK, SlotInv, ClientView,
      Holds, LockOwner, PcInv
<1>5. (\A u \in Threads : PcInv(u))' BY DEF Broadcast, Asleep, Wake, TypeOK,
      Kinds, Ops, NoRep, SlotInv, PcInv, Special, ObjectInv, ClientView,
      Holds, LockOwner
<1>6. ErrnoHonest' BY DEF Broadcast, Asleep, Wake, TypeOK, ErrnoHonest
<1>7. HolderNeverRefused' BY DEF Broadcast, Asleep, Wake, TypeOK, PcInv,
      HolderNeverRefused
<1> QED BY <1>1, <1>2, <1>3, <1>4, <1>5, <1>6, <1>7 DEF IInv

(* Run-time initialisation preserves the invariant. *)
LEMMA InitMutexStep == ASSUME IInv, NEW type \in 0..4, InitMutex(type) PROVE
    IInv'
<1> USE DEF IInv, Published, BeingPublished, StaticWord, Sentinels,
    EnsureLabels,
      OperateLabels, WaitLabels, slotVars, heapVars
<1>1. TypeOK' BY DEF InitMutex, InitDirect, InitSpecial, InitRefused, Create,
      Quiescent, callVars, TypeOK, Words, Labels, EnsureLabels, ResolveLabels,
      Results, Ops, Kinds, NoRep
<1>2. SlotInv' BY DEF InitMutex, InitDirect, InitSpecial, InitRefused, Create,
      Quiescent, callVars, TypeOK, SlotInv, PcInv, Special
<1>3. ObjectInv' BY DEF InitMutex, InitDirect, InitSpecial, InitRefused,
      Create, Quiescent, callVars, TypeOK, SlotInv, ObjectInv, PcInv
<1>4. ClientView' BY DEF InitMutex, InitDirect, InitSpecial, InitRefused,
      Create, Quiescent, callVars, TypeOK, SlotInv, ClientView, Holds,
      LockOwner, PcInv
<1>5. (\A u \in Threads : PcInv(u))' BY DEF InitMutex, InitDirect,
      InitSpecial, InitRefused, Create, Quiescent, callVars, TypeOK, Kinds,
      Ops, NoRep, SlotInv, PcInv
<1>6. ErrnoHonest' BY DEF InitMutex, InitDirect, InitSpecial, InitRefused,
      Create, Quiescent, callVars, TypeOK, ErrnoHonest
<1>7. HolderNeverRefused' BY DEF InitMutex, InitDirect, InitSpecial,
      InitRefused, Create, Quiescent, callVars, TypeOK, PcInv,
      HolderNeverRefused
<1> QED BY <1>1, <1>2, <1>3, <1>4, <1>5, <1>6, <1>7 DEF IInv

(* Destruction preserves the invariant. *)
LEMMA DestroyStep == ASSUME IInv, DestroyMutex PROVE IInv'
<1> USE DEF IInv, Published, BeingPublished, StaticWord, Sentinels,
    EnsureLabels,
      OperateLabels, WaitLabels, slotVars, heapVars
<1>1. TypeOK' BY DEF DestroyMutex, NoPointer, Quiescent, callVars, TypeOK,
      Words, Labels, EnsureLabels, ResolveLabels, Results, Ops, Kinds, NoRep
<1>2. SlotInv' BY DEF DestroyMutex, NoPointer, Quiescent, callVars, TypeOK,
      SlotInv, PcInv, Special, Kinds, NoRep, ObjectInv, ClientView, Holds,
      LockOwner
<1>3. ObjectInv' BY DEF DestroyMutex, NoPointer, Quiescent, callVars, TypeOK,
      SlotInv, ObjectInv, PcInv
<1>4. ClientView' BY DEF DestroyMutex, NoPointer, Quiescent, callVars, TypeOK,
      SlotInv, ClientView, Holds, LockOwner, PcInv
<1>5. (\A u \in Threads : PcInv(u))' BY DEF DestroyMutex, NoPointer,
      Quiescent, callVars, TypeOK, Kinds, Ops, NoRep, SlotInv, PcInv
<1>6. ErrnoHonest' BY DEF DestroyMutex, NoPointer, Quiescent, callVars,
      TypeOK, ErrnoHonest
<1>7. HolderNeverRefused' BY DEF DestroyMutex, NoPointer, Quiescent, callVars,
      TypeOK, PcInv, HolderNeverRefused
<1> QED BY <1>1, <1>2, <1>3, <1>4, <1>5, <1>6, <1>7 DEF IInv

(* A step that changes no variable preserves the invariant. *)
LEMMA StutterStep == ASSUME IInv, UNCHANGED vars PROVE IInv'
<1> USE DEF IInv, Published, BeingPublished, StaticWord, Sentinels,
    EnsureLabels,
      OperateLabels, WaitLabels, slotVars, heapVars
<1>1. TypeOK' BY DEF vars, callVars, TypeOK, Words, Labels, EnsureLabels,
      ResolveLabels, Results, Ops, Kinds, NoRep
<1>2. SlotInv' BY DEF vars, callVars, TypeOK, SlotInv, PcInv, Special
<1>3. ObjectInv' BY DEF vars, callVars, TypeOK, SlotInv, ObjectInv, PcInv
<1>4. ClientView' BY DEF vars, callVars, TypeOK, SlotInv, ClientView, Holds,
      LockOwner, PcInv
<1>5. (\A u \in Threads : PcInv(u))' BY DEF vars, callVars, TypeOK, Kinds,
      Ops, NoRep, SlotInv, PcInv, Special, ObjectInv, ClientView, Holds,
      LockOwner
<1>6. ErrnoHonest' BY DEF vars, callVars, TypeOK, ErrnoHonest
<1>7. HolderNeverRefused' BY DEF vars, callVars, TypeOK, PcInv,
      HolderNeverRefused
<1> QED BY <1>1, <1>2, <1>3, <1>4, <1>5, <1>6, <1>7 DEF IInv

(* Every step of the component preserves the invariant. *)
LEMMA NextInvariant == IInv /\ [Next]_vars => IInv'
BY EnsureStep, ResolveStep, OperateStep, WaitStep, CallStep, SignalStep,
   BroadcastStep, InitMutexStep, DestroyStep, StutterStep DEF Next

(* The invariant holds in every reachable state. *)
THEOREM Invariance == Spec => []IInv
BY InitInvariant, NextInvariant, PTL DEF Spec

(* No variable of the bridge ever leaves its domain. *)
THEOREM TypeCorrect == Spec => []TypeOK
<1>1. IInv => TypeOK BY DEF IInv
<1> QED BY <1>1, Invariance, PTL

(* A thread that was told it holds the mutex is the owner of its one lock,  *)
(* whichever representation the racing first users gave the slot.           *)
THEOREM HoldersOwn == Spec => []ClientView
<1>1. IInv => ClientView BY DEF IInv
<1> QED BY <1>1, Invariance, PTL

(* No two threads are ever told that they hold the same mutex. *)
MutualExclusion == \A t, u \in Threads : Holds(t) /\ Holds(u) => t = u

THEOREM Exclusion == Spec => []MutualExclusion
<1>1. IInv => MutualExclusion BY DEF IInv, ClientView, MutualExclusion
<1> QED BY <1>1, Invariance, PTL

(* All resolvers of the slot operate on the same lock. *)
THEOREM Agreement == Spec => []OneRepresentation
<1>1. IInv => OneRepresentation BY DEF IInv, PcInv, OneRepresentation
<1> QED BY <1>1, Invariance, PTL

(* No resolver follows a torn or a freed pointer. *)
THEOREM NoWildPointer == Spec => []NoFault
<1>1. IInv => NoFault BY DEF IInv, PcInv, NoFault
<1> QED BY <1>1, Invariance, PTL

(* Lazy conversion allocates at most one object, which the slot names. *)
THEOREM AllocatesOnce == Spec => []NoLeak
<1>1. IInv => NoLeak BY DEF IInv, SlotInv, NoLeak
<1> QED BY <1>1, Invariance, PTL

(* EPERM, EDEADLK and EBADF are told to the threads they are true of. *)
THEOREM HonestErrors == Spec => []ErrnoHonest
<1>1. IInv => ErrnoHonest BY DEF IInv
<1> QED BY <1>1, Invariance, PTL

(* No unlock by a holder is refused by the representation check. *)
THEOREM HoldersServed == Spec => []HolderNeverRefused
<1>1. IInv => HolderNeverRefused BY DEF IInv
<1> QED BY <1>1, Invariance, PTL

(* Racing first users agree on one object, which is never torn, missing or  *)
(* left behind.                                                             *)
THEOREM ObjectsAgree == Spec => []ObjectSound
<1>1. Spec => [](IInv /\ OneRepresentation)
  BY Invariance, Agreement, PTL
<1>2. Spec => [](NoFault /\ NoLeak)
  BY NoWildPointer, AllocatesOnce, PTL
<1> QED BY <1>1, <1>2, PTL DEF ObjectSound

(* Every errno is earned, and no holder is turned away.                     *)
THEOREM ErrorsTruthful == Spec => []ErrorsHonest
BY HonestErrors, HoldersServed, PTL DEF ErrorsHonest

(* A recursive mutex counts exactly the locks its owner still holds. *)
THEOREM DepthCounted == Spec => []DepthAgrees
<1>1. IInv => DepthAgrees
  BY DEF IInv, TypeOK, SlotInv, ObjectInv, LockOwner, DepthAgrees
<1> QED BY <1>1, Invariance, PTL

(* The steps that convert or read the slot are invisible to the clients.    *)
LEMMA ResolutionInvisible ==
  ASSUME IInv, IInv', NEW t \in Threads, Ensure(t) \/ Resolve(t)
  PROVE  UNCHANGED <<kind, AbstractHolder, AbstractDepth, AbstractWaiting>>
<1> USE DEF IInv, TypeOK, SlotInv, PcInv, BeingPublished, Published,
    StaticWord, Kinds, NoRep,
        Sentinels, OperateLabels, WaitLabels, Goto, Return, slotVars,
            heapVars, ClientView, Holds,
        LockOwner, AbstractHolder, AbstractDepth, AbstractWaiting
<1>1. CASE LoadTag(t) BY <1>1 DEF LoadTag
<1>2. CASE LoadLow(t) BY <1>2 DEF LoadLow, AfterLoads
<1>3. CASE Serialize(t) BY <1>3 DEF Serialize
<1>4. CASE CasTag(t) BY <1>4 DEF CasTag
<1>5. CASE AcquireInitLock(t) BY <1>5 DEF AcquireInitLock
<1>6. CASE CheckAndCreate(t) BY <1>6 DEF CheckAndCreate, StillStatic,
    SpecialKind, Create
<1>7. CASE CreateFails(t) BY <1>7 DEF CreateFails, StillStatic
<1>8. CASE PublishLow(t) BY <1>8 DEF PublishLow
<1>9. CASE ReleaseInitLock(t) BY <1>9 DEF ReleaseInitLock
<1>10. CASE ResolveTag(t) BY <1>10 DEF ResolveTag
<1>11. CASE ResolveLow(t) BY <1>11 DEF ResolveLow
<1>12. CASE ResolveHigh(t) BY <1>12 DEF ResolveHigh, NoPointer
<1> QED BY <1>1, <1>2, <1>3, <1>4, <1>5, <1>6, <1>7, <1>8, <1>9, <1>10, <1>11,
    <1>12 DEF Ensure, Resolve

(* Each operation takes effect as one step of the abstract mutex. *)
LEMMA OperationTakesEffect ==
  ASSUME IInv, IInv', NEW t \in Threads, Operate(t) \/ Wait(t)
  PROVE  \/ Abstract!Take(t) \/ Abstract!Nest(t) \/ Abstract!Leave(t)
         \/ Abstract!Sleep(t) \/ Abstract!Resume(t)
         \/ UNCHANGED <<kind, AbstractHolder, AbstractDepth, AbstractWaiting>>
<1> DEFINE Quiet == UNCHANGED <<kind, AbstractHolder, AbstractDepth,
    AbstractWaiting>>
<1> USE DEF IInv, TypeOK, SlotInv, PcInv, BeingPublished, Published,
    StaticWord, Kinds, NoRep, ObjectInv,
        Sentinels, OperateLabels, WaitLabels, Goto, Return, slotVars,
            heapVars, ClientView, Holds, AtDo, Direct, Recursive,
      Errorcheck, LockOf, SetLock, SetCount, SetOwner, CountOf,
          StillAllocated, Asleep, Wake,
        LockOwner, AbstractHolder, AbstractDepth, AbstractWaiting,
            Abstract!Take, Abstract!Nest, Abstract!Leave, Abstract!Sleep,
            Abstract!Resume
<1>1. LockDirect(t) => Abstract!Take(t) BY DEF LockDirect
<1>2. LockRecursive(t) => (Abstract!Take(t) \/ Abstract!Nest(t)) BY DEF
    LockRecursive
<1>3. ErrorcheckLock(t) => Quiet BY DEF ErrorcheckLock
<1>4. ErrorcheckAcquire(t) => Abstract!Take(t) BY DEF ErrorcheckAcquire
<1>5. ErrorcheckOwn(t) => Quiet BY DEF ErrorcheckOwn
<1>6. TrylockBusy(t) => Quiet BY DEF TrylockBusy
<1>7. UnlockDirect(t) => Abstract!Leave(t) BY DEF UnlockDirect
<1>8. UnlockRecursive(t) => (Abstract!Leave(t) \/ Quiet) BY DEF UnlockRecursive
<1>9. ErrorcheckDisown(t) => Quiet BY DEF ErrorcheckDisown
<1>10. ErrorcheckRelease(t) => Abstract!Leave(t) BY DEF ErrorcheckRelease
<1>11. WaitDirect(t) => Abstract!Sleep(t) BY DEF WaitDirect
<1>12. WaitRecursive(t) => Quiet BY DEF WaitRecursive
<1>13. WaitErrorcheck(t) => Quiet BY DEF WaitErrorcheck
<1>14. DropAndSleep(t) => Abstract!Sleep(t) BY DEF DropAndSleep
<1>15. Timeout(t) => Quiet BY DEF Timeout
<1>16. Relock(t) => Abstract!Resume(t) BY DEF Relock
<1>17. RestoreAfterWait(t) => Quiet BY DEF RestoreAfterWait
<1> QED BY <1>1, <1>2, <1>3, <1>4, <1>5, <1>6, <1>7, <1>8, <1>9, <1>10, <1>11,
    <1>12, <1>13, <1>14, <1>15, <1>16, <1>17 DEF Operate, Wait

(* The initial states are initial states of the abstract mutex. *)
LEMMA RefinesInit == Init => Abstract!Init
BY DEF Init, Kinds, Abstract!Init, AbstractHolder, AbstractDepth,
    AbstractWaiting,
       LockOwner

(* Every step is a step of the abstract mutex or a stutter. *)
LEMMA RefinesNext ==
  ASSUME IInv, IInv', [Next]_vars
  PROVE  [Abstract!Next]_<<kind, AbstractHolder, AbstractDepth,
      AbstractWaiting>>
<1> DEFINE Quiet == UNCHANGED <<kind, AbstractHolder, AbstractDepth,
    AbstractWaiting>>
<1> USE DEF IInv, AbstractHolder, AbstractDepth, AbstractWaiting, LockOwner,
    slotVars, heapVars, callVars
<1>1. ASSUME NEW t \in Threads, NEW o \in Ops, Call(t, o) PROVE Quiet
  BY <1>1 DEF Call, TypeOK, SlotInv, PcInv, ClientView, Holds, Kinds,
      Published, BeingPublished
<1>2. ASSUME Signal \/ Broadcast PROVE Quiet
  BY <1>2 DEF Signal, Broadcast, Asleep, Wake, TypeOK
<1>3. ASSUME DestroyMutex \/ \E type \in 0..4 : InitMutex(type) PROVE
    Abstract!Renew
  <2>1. LockOwner = Zero /\ LockOwner' = Zero
    BY <1>3 DEF DestroyMutex, InitMutex, Quiescent, ClientView, Holds,
        InitDirect, InitSpecial, InitRefused, Create, TypeOK, SlotInv, Kinds
  <2>2. AbstractWaiting = {} /\ AbstractWaiting' = {} BY <1>3 DEF
      DestroyMutex, InitMutex, Quiescent
  <2>3. kind' \in {"normal", "recursive", "errorcheck", "none"} BY DEF TypeOK,
      Kinds
  <2> QED BY <2>1, <2>2, <2>3 DEF Abstract!Renew
<1>4. ASSUME UNCHANGED vars PROVE Quiet
  BY <1>4 DEF vars
<1>5. ASSUME NEW t \in Threads, Ensure(t) \/ Resolve(t) PROVE Quiet
  BY <1>5, ResolutionInvisible
<1>6. ASSUME NEW t \in Threads, Operate(t) \/ Wait(t) PROVE Quiet \/
    Abstract!Next
  BY <1>6, OperationTakesEffect DEF Abstract!Next
<1> QED BY <1>1, <1>2, <1>3, <1>4, <1>5, <1>6 DEF Next, Abstract!Next

(* The bridge implements one plain mutex with a condition variable. *)
THEOREM Refinement == Spec => Refines
<1>1. Spec => []IInv BY Invariance
<1> QED BY <1>1, RefinesInit, RefinesNext, PTL DEF Spec, Refines,
    Abstract!Spec, Abstract!vars
=============================================================================
