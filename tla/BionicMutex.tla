---------------------------- MODULE BionicMutex ----------------------------
(***************************************************************************)
(* The pthread mutex and condition-variable bridge of source/imports.c:    *)
(* one bionic pthread_mutex_t slot and one pthread_cond_t, used by any     *)
(* number of threads.                                                      *)
(*                                                                         *)
(* The slot is two 32-bit words.  A mutex that was never initialised at    *)
(* run time carries one of bionic's static initialisers in word 0, and its *)
(* first users convert it in place: a NORMAL mutex becomes a libnx Mutex   *)
(* in word 0, tagged DIRECT in word 1; a RECURSIVE or ERRORCHECK one       *)
(* becomes a pointer to a heap object, published high word first under     *)
(* g_special_init_lock.  Every load and store of a slot word is a step of  *)
(* its own; libnx calls (Mutex, RMutex, CondVar) are atomic steps.         *)
(***************************************************************************)
EXTENDS Naturals, FiniteSets

CONSTANTS
  Threads,       \* thread handles; a handle may equal a sentinel word
  Objs,          \* heap addresses of BionicSpecialMutex objects
  Zero,          \* the word 0: unlocked Mutex, INVALID_HANDLE, no tag
  RecSentinel,   \* BIONIC_MUTEX_RECURSIVE_SENTINEL, 0x4000
  ErrSentinel,   \* BIONIC_MUTEX_ERRORCHECK_SENTINEL, 0x8000
  DirectTag,     \* BIONIC_MUTEX_DIRECT_TAG
  MaxDepth       \* bound: how deep the clients recurse

(* Handles are non-zero.  create_special_mutex rejects an address whose     *)
(* words could be taken for zero, a sentinel or the tag.                    *)
ASSUME WordsDistinct ==
  /\ Zero \notin Threads
  /\ Zero # RecSentinel /\ Zero # ErrSentinel /\ Zero # DirectTag
  /\ RecSentinel # ErrSentinel
  /\ Objs \cap {Zero, RecSentinel, ErrSentinel, DirectTag} = {}
  /\ MaxDepth \in Nat \ {0}

VARIABLES
  kind,      \* what the mutex was declared as; "none" once destroyed
  w0, w1,    \* the two words of the slot
  live,      \* allocated objects
  oKind, oLock, oCount, oOwner,   \* fields of the objects
  initLock,  \* holder of g_special_init_lock, or Zero
  pc, op,    \* where each thread is, and in which call
  tag, lo,   \* its local copies of the words
  rep,       \* the representation it resolved: DirectTag or an object
  held,      \* locks it was told it got (result 0) and has not given back
  out        \* result of its last call

slotVars == <<kind, w0, w1>>
heapVars == <<live, oKind, oLock, oCount, oOwner>>
callVars == <<pc, op, tag, lo, rep, held, out>>
vars == <<slotVars, heapVars, initLock, callVars>>

Kinds == {"normal", "recursive", "errorcheck"}
Ops == {"lock", "trylock", "unlock", "wait", "timedwait"}
Sentinels == {RecSentinel, ErrSentinel}
NoRep == Zero

(* Bionic's static initialiser of each kind. *)
StaticWord(k) == CASE k = "normal" -> Zero
                   [] k = "recursive" -> RecSentinel
                   [] k = "errorcheck" -> ErrSentinel

Init ==
  /\ kind \in Kinds
  /\ w0 = StaticWord(kind) /\ w1 = Zero
  /\ live = {}
  /\ oKind = [o \in Objs |-> "none"]
  /\ oLock = [o \in Objs |-> Zero]
  /\ oCount = [o \in Objs |-> 0]
  /\ oOwner = [o \in Objs |-> Zero]
  /\ initLock = Zero
  /\ pc = [t \in Threads |-> "idle"]
  /\ op = [t \in Threads |-> "none"]
  /\ tag = [t \in Threads |-> Zero]
  /\ lo = [t \in Threads |-> Zero]
  /\ rep = [t \in Threads |-> NoRep]
  /\ held = [t \in Threads |-> 0]
  /\ out = [t \in Threads |-> "none"]

-----------------------------------------------------------------------------
(* Moving a thread. *)

Goto(t, l) ==
  /\ pc' = [pc EXCEPT ![t] = l]
  /\ UNCHANGED <<op, held, out>>

(* The call returns r, the caller's hold count becomes h; locals are dead.  *)
Return(t, r, h) ==
  /\ pc' = [pc EXCEPT ![t] = "idle"]
  /\ out' = [out EXCEPT ![t] = r]
  /\ held' = [held EXCEPT ![t] = h]
  /\ op' = [op EXCEPT ![t] = "none"]
  /\ tag' = [tag EXCEPT ![t] = Zero]
  /\ lo' = [lo EXCEPT ![t] = Zero]
  /\ rep' = [rep EXCEPT ![t] = NoRep]

(* What a correct client may call: a NORMAL mutex is not relocked by its    *)
(* holder nor released by another thread; pthread_cond_wait is given a      *)
(* mutex the caller holds, except that ERRORCHECK reports the mistake.      *)
MayCall(t, o) ==
  /\ kind # "none"
  /\ \/ o = "lock" /\ held[t] < MaxDepth /\ (kind = "normal" => held[t] = 0)
     \/ o = "trylock" /\ held[t] < MaxDepth
     \/ o = "unlock" /\ (kind = "normal" => held[t] > 0)
     \/ o \in {"wait", "timedwait"} /\ (kind # "errorcheck" => held[t] > 0)

Call(t, o) ==
  /\ pc[t] = "idle"
  /\ MayCall(t, o)
  /\ pc' = [pc EXCEPT ![t] = "e_tag"]
  /\ op' = [op EXCEPT ![t] = o]
  /\ out' = [out EXCEPT ![t] = "busy"]
  /\ UNCHANGED <<slotVars, heapVars, initLock, tag, lo, rep, held>>

-----------------------------------------------------------------------------
(* ensure_bionic_mutex_representation *)

LoadTag(t) ==
  /\ pc[t] = "e_tag"
  /\ tag' = [tag EXCEPT ![t] = w1]
  /\ Goto(t, "e_lo")
  /\ UNCHANGED <<slotVars, heapVars, initLock, lo, rep>>

(* Mutant: the low word alone decides, as if word 1 carried no tag. *)
AfterLoads_LowOnly(g, l) ==
  CASE l = Zero -> "e_cas"
    [] l \in Sentinels -> "e_ilock"
    [] OTHER -> "einval"

(* Where the two loaded words send the thread. *)
AfterLoads(g, l) ==
  CASE g = DirectTag -> "r_tag"
    [] g # DirectTag /\ g # Zero -> IF l \in Sentinels THEN "e_serial" ELSE "r_tag"
    [] g = Zero -> CASE l = Zero -> "e_cas"
                     [] l \in Sentinels -> "e_ilock"
                     [] OTHER -> "einval"

LoadLow(t) ==
  /\ pc[t] = "e_lo"
  /\ LET next == AfterLoads(tag[t], w0) IN
     IF next = "einval"
     THEN Return(t, "EINVAL", held[t])
     ELSE /\ lo' = [lo EXCEPT ![t] = w0]
          /\ Goto(t, next)
          /\ UNCHANGED <<tag, rep>>
  /\ UNCHANGED <<slotVars, heapVars, initLock>>

(* Caught inside a publication: wait for the publisher to leave the lock.   *)
Serialize(t) ==
  /\ pc[t] = "e_serial"
  /\ initLock = Zero
  /\ Goto(t, "r_tag")
  /\ UNCHANGED <<slotVars, heapVars, initLock, tag, lo, rep>>

CasTag(t) ==
  /\ pc[t] = "e_cas"
  /\ w1' = IF w1 = Zero THEN DirectTag ELSE w1
  /\ Goto(t, "r_tag")
  /\ UNCHANGED <<kind, w0, heapVars, initLock, tag, lo, rep>>

AcquireInitLock(t) ==
  /\ pc[t] = "e_ilock"
  /\ initLock = Zero
  /\ initLock' = t
  /\ Goto(t, "e_check")
  /\ UNCHANGED <<slotVars, heapVars, tag, lo, rep>>

SpecialKind(l) == IF l = RecSentinel THEN "recursive" ELSE "errorcheck"

(* create_special_mutex: a fresh object, unlocked. *)
Create(o, k) ==
  /\ o \notin live
  /\ live' = live \cup {o}
  /\ oKind' = [oKind EXCEPT ![o] = k]
  /\ oLock' = [oLock EXCEPT ![o] = Zero]
  /\ oCount' = [oCount EXCEPT ![o] = 0]
  /\ oOwner' = [oOwner EXCEPT ![o] = Zero]

(* Mutant: no second look under the lock. *)
StillStatic_NoRecheck(t) == lo[t] \in Sentinels

(* Nobody converted the slot since this thread looked at it. *)
StillStatic(t) == w1 = Zero /\ w0 = lo[t]

(* Under the lock: re-check, allocate, store the pointer's high word.  The  *)
(* two words are re-read together: when word 1 is zero here, word 0 is a    *)
(* static sentinel and only holders of the lock write it.                   *)
CheckAndCreate(t) ==
  /\ pc[t] = "e_check"
  /\ \/ /\ StillStatic(t)
        /\ \E o \in Objs :
             /\ Create(o, SpecialKind(lo[t]))
             /\ w1' = o
             /\ rep' = [rep EXCEPT ![t] = o]
        /\ Goto(t, "e_publo")
     \/ /\ ~StillStatic(t)
        /\ Goto(t, "e_iunlock")
        /\ UNCHANGED <<heapVars, w1, rep>>
  /\ UNCHANGED <<kind, w0, initLock, tag, lo>>

(* Mutant: the early return keeps g_special_init_lock. *)
CreateFails_KeepsLock(t) ==
  /\ pc[t] = "e_check"
  /\ StillStatic(t)
  /\ Return(t, "ENOMEM", held[t])
  /\ UNCHANGED <<slotVars, heapVars, initLock>>

(* calloc failed, or the address was not representable. *)
CreateFails(t) ==
  /\ pc[t] = "e_check"
  /\ StillStatic(t)
  /\ initLock' = Zero
  /\ Return(t, "ENOMEM", held[t])
  /\ UNCHANGED <<slotVars, heapVars>>

PublishLow(t) ==
  /\ pc[t] = "e_publo"
  /\ w0' = rep[t]
  /\ rep' = [rep EXCEPT ![t] = NoRep]
  /\ Goto(t, "e_iunlock")
  /\ UNCHANGED <<kind, w1, heapVars, initLock, tag, lo>>

ReleaseInitLock(t) ==
  /\ pc[t] = "e_iunlock"
  /\ initLock' = Zero
  /\ Goto(t, "r_tag")
  /\ UNCHANGED <<slotVars, heapVars, tag, lo, rep>>

-----------------------------------------------------------------------------
(* resolve_bionic_mutex *)

ResolveTag(t) ==
  /\ pc[t] = "r_tag"
  /\ IF w1 = DirectTag
     THEN rep' = [rep EXCEPT ![t] = DirectTag] /\ Goto(t, "do")
     ELSE UNCHANGED rep /\ Goto(t, "r_lo")
  /\ UNCHANGED <<slotVars, heapVars, initLock, tag, lo>>

ResolveLow(t) ==
  /\ pc[t] = "r_lo"
  /\ lo' = [lo EXCEPT ![t] = w0]
  /\ Goto(t, "r_hi")
  /\ UNCHANGED <<slotVars, heapVars, initLock, tag, rep>>

(* bionic_special_ptr_from_words gives no pointer for these words. *)
NoPointer(l, h) == h \in {Zero, DirectTag} \/ l \in Sentinels

(* The two halves make an address; dereferencing one that is not a live     *)
(* object is a fault.                                                       *)
ResolveHigh(t) ==
  /\ pc[t] = "r_hi"
  /\ IF NoPointer(lo[t], w1)
     THEN Return(t, "EINVAL", held[t])
     ELSE /\ rep' = [rep EXCEPT ![t] = w1]
          /\ Goto(t, IF lo[t] = w1 /\ w1 \in live THEN "do" ELSE "fault")
          /\ UNCHANGED <<tag, lo>>
  /\ UNCHANGED <<slotVars, heapVars, initLock>>

-----------------------------------------------------------------------------
(* The operation itself, on the resolved representation. *)

Direct(t) == rep[t] = DirectTag
Recursive(t) == rep[t] \in Objs /\ oKind[rep[t]] = "recursive"
Errorcheck(t) == rep[t] \in Objs /\ oKind[rep[t]] = "errorcheck"

(* What the libnx lock inside t's representation holds. *)
LockOf(t) == IF Direct(t) THEN w0 ELSE oLock[rep[t]]

(* libnx mutexLock, mutexTryLock, mutexUnlock and the kernel's arbitration  *)
(* on that lock: its word becomes h.                                        *)
SetLock(t, h) ==
  IF Direct(t) THEN w0' = h /\ UNCHANGED oLock
               ELSE oLock' = [oLock EXCEPT ![rep[t]] = h] /\ UNCHANGED w0

SetCount(t, n) == oCount' = [oCount EXCEPT ![rep[t]] = n]
SetOwner(t, h) == oOwner' = [oOwner EXCEPT ![rep[t]] = h]
CountOf(t) == oCount[rep[t]]

StillAllocated == UNCHANGED <<kind, w1, live, oKind, initLock>>

AtDo(t, ops) == pc[t] = "do" /\ op[t] \in ops

(* mutexLock; the caller blocks until the word is clear. *)
LockDirect(t) ==
  /\ AtDo(t, {"lock", "trylock"}) /\ Direct(t)
  /\ LockOf(t) = Zero
  /\ SetLock(t, t)
  /\ Return(t, "0", held[t] + 1)
  /\ UNCHANGED <<oCount, oOwner>> /\ StillAllocated

(* rmutexLock, rmutexTryLock. *)
LockRecursive(t) ==
  /\ AtDo(t, {"lock", "trylock"}) /\ Recursive(t)
  /\ LockOf(t) \in {Zero, t}
  /\ SetLock(t, t)
  /\ SetCount(t, CountOf(t) + 1)
  /\ Return(t, "0", held[t] + 1)
  /\ UNCHANGED oOwner /\ StillAllocated

(* errorcheck_lock: refuse a relock, else go and block on the Mutex.        *)
ErrorcheckLock(t) ==
  /\ AtDo(t, {"lock"}) /\ Errorcheck(t)
  /\ IF oOwner[rep[t]] = t
     THEN Return(t, "EDEADLK", held[t])
     ELSE Goto(t, "ec_lock") /\ UNCHANGED <<tag, lo, rep>>
  /\ UNCHANGED <<w0, oLock, oCount, oOwner>> /\ StillAllocated

ErrorcheckAcquire(t) ==
  /\ pc[t] = "ec_lock" \/ (AtDo(t, {"trylock"}) /\ Errorcheck(t))
  /\ LockOf(t) = Zero
  /\ SetLock(t, t)
  /\ Goto(t, "ec_own")
  /\ UNCHANGED <<oCount, oOwner, tag, lo, rep>> /\ StillAllocated

ErrorcheckOwn(t) ==
  /\ pc[t] = "ec_own"
  /\ SetOwner(t, t)
  /\ Return(t, "0", held[t] + 1)
  /\ UNCHANGED <<w0, oLock, oCount>> /\ StillAllocated

(* The three try-locks give up; an rmutex lets its owner in. *)
TrylockBusy(t) ==
  /\ AtDo(t, {"trylock"})
  /\ LockOf(t) # Zero
  /\ ~(Recursive(t) /\ LockOf(t) = t)
  /\ Return(t, "EBUSY", held[t])
  /\ UNCHANGED <<w0, oLock, oCount, oOwner>> /\ StillAllocated

UnlockDirect(t) ==
  /\ AtDo(t, {"unlock"}) /\ Direct(t)
  /\ SetLock(t, Zero)
  /\ Return(t, "0", held[t] - 1)
  /\ UNCHANGED <<oCount, oOwner>> /\ StillAllocated

(* Mutant: the count is checked, the owner is not. *)
UnlockRecursive_AnyThread(t) ==
  /\ AtDo(t, {"unlock"}) /\ Recursive(t)
  /\ IF CountOf(t) = 0
     THEN Return(t, "EPERM", held[t]) /\ UNCHANGED <<w0, oLock, oCount>>
     ELSE /\ SetCount(t, CountOf(t) - 1)
          /\ SetLock(t, IF CountOf(t) = 1 THEN Zero ELSE LockOf(t))
          /\ Return(t, "0", IF held[t] = 0 THEN 0 ELSE held[t] - 1)
  /\ UNCHANGED oOwner /\ StillAllocated

UnlockRecursive(t) ==
  /\ AtDo(t, {"unlock"}) /\ Recursive(t)
  /\ IF CountOf(t) = 0 \/ LockOf(t) # t
     THEN Return(t, "EPERM", held[t]) /\ UNCHANGED <<w0, oLock, oCount>>
     ELSE /\ SetCount(t, CountOf(t) - 1)
          /\ SetLock(t, IF CountOf(t) = 1 THEN Zero ELSE t)
          /\ Return(t, "0", held[t] - 1)
  /\ UNCHANGED oOwner /\ StillAllocated

(* errorcheck_unlock: the owner is cleared before the Mutex is released.    *)
ErrorcheckDisown(t) ==
  /\ AtDo(t, {"unlock"}) /\ Errorcheck(t)
  /\ IF oOwner[rep[t]] # t
     THEN Return(t, "EPERM", held[t]) /\ UNCHANGED oOwner
     ELSE SetOwner(t, Zero) /\ Goto(t, "ec_rel") /\ UNCHANGED <<tag, lo, rep>>
  /\ UNCHANGED <<w0, oLock, oCount>> /\ StillAllocated

ErrorcheckRelease(t) ==
  /\ pc[t] = "ec_rel"
  /\ SetLock(t, Zero)
  /\ Return(t, "0", held[t] - 1)
  /\ UNCHANGED <<oCount, oOwner>> /\ StillAllocated

-----------------------------------------------------------------------------
(* bionic_cond_wait_native.  svcWaitProcessWideKeyAtomic releases the lock  *)
(* and sleeps in one step; whoever wakes takes the lock again.              *)

WaitDirect(t) ==
  /\ AtDo(t, {"wait", "timedwait"}) /\ Direct(t)
  /\ SetLock(t, Zero)
  /\ Goto(t, "w_sleep")
  /\ UNCHANGED <<oCount, oOwner, tag, lo, rep>> /\ StillAllocated

(* Mutant: a nested holder may wait. *)
WaitRecursive_AnyDepth(t) ==
  /\ AtDo(t, {"wait", "timedwait"}) /\ Recursive(t)
  /\ SetCount(t, 0) /\ Goto(t, "w_drop")
  /\ UNCHANGED <<w0, oLock, oOwner, tag, lo, rep>> /\ StillAllocated

WaitRecursive(t) ==
  /\ AtDo(t, {"wait", "timedwait"}) /\ Recursive(t)
  /\ IF CountOf(t) # 1
     THEN Return(t, "EBADF", held[t]) /\ UNCHANGED oCount
     ELSE SetCount(t, 0) /\ Goto(t, "w_drop") /\ UNCHANGED <<tag, lo, rep>>
  /\ UNCHANGED <<w0, oLock, oOwner>> /\ StillAllocated

WaitErrorcheck(t) ==
  /\ AtDo(t, {"wait", "timedwait"}) /\ Errorcheck(t)
  /\ IF oOwner[rep[t]] # t
     THEN Return(t, "EPERM", held[t]) /\ UNCHANGED oOwner
     ELSE SetOwner(t, Zero) /\ Goto(t, "w_drop") /\ UNCHANGED <<tag, lo, rep>>
  /\ UNCHANGED <<w0, oLock, oCount>> /\ StillAllocated

DropAndSleep(t) ==
  /\ pc[t] = "w_drop"
  /\ SetLock(t, Zero)
  /\ Goto(t, "w_sleep")
  /\ UNCHANGED <<oCount, oOwner, tag, lo, rep>> /\ StillAllocated

Asleep == {t \in Threads : pc[t] = "w_sleep"}

(* The sleepers in S leave the condition variable; the wait reports r. *)
Wake(S, r) ==
  /\ pc' = [t \in Threads |-> IF t \in S THEN "w_relock" ELSE pc[t]]
  /\ out' = [t \in Threads |-> IF t \in S THEN r ELSE out[t]]
  /\ UNCHANGED <<slotVars, heapVars, initLock, op, tag, lo, rep, held>>

Signal == \E t \in Asleep : Wake({t}, "0")
Broadcast == Asleep # {} /\ Wake(Asleep, "0")
(* An untimed wait passes UINT64_MAX to the kernel and never times out.     *)
Timeout(t) == t \in Asleep /\ op[t] = "timedwait" /\ Wake({t}, "ETIMEDOUT")

Relock(t) ==
  /\ pc[t] = "w_relock"
  /\ LockOf(t) = Zero
  /\ SetLock(t, t)
  /\ IF Direct(t)
     THEN Return(t, out[t], held[t])
     ELSE Goto(t, "w_restore") /\ UNCHANGED <<tag, lo, rep>>
  /\ UNCHANGED <<oCount, oOwner>> /\ StillAllocated

(* Mutant: the rmutex counter stays as the wait left it. *)
RestoreAfterWait_CountLost(t) ==
  /\ pc[t] = "w_restore"
  /\ IF Recursive(t) THEN UNCHANGED oOwner ELSE SetOwner(t, t)
  /\ Return(t, out[t], held[t])
  /\ UNCHANGED <<w0, oLock, oCount>> /\ StillAllocated

RestoreAfterWait(t) ==
  /\ pc[t] = "w_restore"
  /\ IF Recursive(t) THEN SetCount(t, 1) /\ UNCHANGED oOwner
                     ELSE SetOwner(t, t) /\ UNCHANGED oCount
  /\ Return(t, out[t], held[t])
  /\ UNCHANGED <<w0, oLock>> /\ StillAllocated

-----------------------------------------------------------------------------
(* pthread_mutex_init and _destroy, which POSIX allows only while no thread *)
(* uses the mutex.                                                          *)

Quiescent == /\ \A t \in Threads : pc[t] = "idle" /\ held[t] = 0
             /\ UNCHANGED <<initLock, callVars>>

(* The type is the attribute's low four bits: 0 NORMAL, 1 RECURSIVE,        *)
(* 2 ERRORCHECK, 3 ADAPTIVE; anything else is EINVAL.                       *)
InitDirect(type) ==
  /\ type \in {0, 3}
  /\ kind' = "normal" /\ w0' = Zero /\ w1' = DirectTag
  /\ UNCHANGED heapVars

InitSpecial(type) ==
  /\ type \in {1, 2}
  /\ LET k == IF type = 1 THEN "recursive" ELSE "errorcheck" IN
     \E o \in Objs : /\ Create(o, k)
                     /\ kind' = k /\ w0' = o /\ w1' = o

InitRefused(type) ==
  /\ type \notin {0, 3}
  /\ kind' = "none" /\ w0' = Zero /\ w1' = Zero
  /\ UNCHANGED heapVars

InitMutex(type) ==
  /\ Quiescent
  /\ kind = "none"
  /\ InitDirect(type) \/ InitSpecial(type) \/ InitRefused(type)

DestroyMutex ==
  /\ Quiescent
  /\ kind # "none"
  /\ live' = live \ (IF NoPointer(w0, w1) THEN {} ELSE {w1})
  /\ kind' = "none" /\ w0' = Zero /\ w1' = Zero
  /\ UNCHANGED <<oKind, oLock, oCount, oOwner>>

-----------------------------------------------------------------------------
Ensure(t) ==
  \/ LoadTag(t) \/ LoadLow(t) \/ Serialize(t) \/ CasTag(t)
  \/ AcquireInitLock(t) \/ CheckAndCreate(t) \/ CreateFails(t)
  \/ PublishLow(t) \/ ReleaseInitLock(t)

Resolve(t) == ResolveTag(t) \/ ResolveLow(t) \/ ResolveHigh(t)

Operate(t) ==
  \/ LockDirect(t) \/ LockRecursive(t) \/ ErrorcheckLock(t)
  \/ ErrorcheckAcquire(t) \/ ErrorcheckOwn(t) \/ TrylockBusy(t)
  \/ UnlockDirect(t) \/ UnlockRecursive(t)
  \/ ErrorcheckDisown(t) \/ ErrorcheckRelease(t)

Wait(t) ==
  \/ WaitDirect(t) \/ WaitRecursive(t) \/ WaitErrorcheck(t)
  \/ DropAndSleep(t) \/ Timeout(t) \/ Relock(t) \/ RestoreAfterWait(t)

Next ==
  \/ \E t \in Threads : \/ \E o \in Ops : Call(t, o)
                        \/ Ensure(t) \/ Resolve(t) \/ Operate(t) \/ Wait(t)
  \/ Signal \/ Broadcast
  \/ \E type \in 0..4 : InitMutex(type)
  \/ DestroyMutex

Spec == Init /\ [][Next]_vars

(* A running thread keeps running; the kernel hands g_special_init_lock to  *)
(* each thread that keeps asking for it.                                    *)
Fairness ==
  \A t \in Threads : /\ WF_vars(Ensure(t)) /\ WF_vars(Resolve(t))
                     /\ SF_vars(AcquireInitLock(t)) /\ SF_vars(Serialize(t))

FairSpec == Spec /\ Fairness

-----------------------------------------------------------------------------
(* Properties *)

Special == Objs \cap {w1}
Words == Threads \cup Objs \cup Sentinels \cup {Zero, DirectTag}
EnsureLabels == {"e_tag", "e_lo", "e_serial", "e_cas", "e_ilock", "e_check",
                 "e_publo", "e_iunlock"}
ResolveLabels == {"r_tag", "r_lo", "r_hi"}
WaitLabels == {"w_drop", "w_sleep", "w_relock", "w_restore"}
OperateLabels == {"do", "ec_lock", "ec_own", "ec_rel"} \cup WaitLabels
Labels == {"idle", "fault"} \cup EnsureLabels \cup ResolveLabels \cup OperateLabels
Results == {"none", "busy", "0", "EINVAL", "ENOMEM", "EBUSY", "EPERM",
            "EDEADLK", "EBADF", "ETIMEDOUT"}

(* Every variable stays in its domain. *)
TypeOK ==
  /\ kind \in Kinds \cup {"none"}
  /\ w0 \in Words /\ w1 \in Objs \cup {Zero, DirectTag}
  /\ live \in SUBSET Objs
  /\ oKind \in [Objs -> {"none", "recursive", "errorcheck"}]
  /\ oLock \in [Objs -> Threads \cup {Zero}]
  /\ oCount \in [Objs -> Nat]
  /\ oOwner \in [Objs -> Threads \cup {Zero}]
  /\ initLock \in Threads \cup {Zero}
  /\ pc \in [Threads -> Labels]
  /\ op \in [Threads -> Ops \cup {"none"}]
  /\ tag \in [Threads -> Objs \cup {Zero, DirectTag}]
  /\ lo \in [Threads -> Words]
  /\ rep \in [Threads -> Objs \cup {NoRep, DirectTag}]
  /\ held \in [Threads -> Nat]
  /\ out \in [Threads -> Results]

(* The thread the slot's lock belongs to, whatever its representation. *)
LockOwner == IF w1 = DirectTag THEN w0
             ELSE IF w1 \in Objs THEN oLock[w1] ELSE Zero

(* t was told that it has the mutex (or is about to be), and is not inside  *)
(* the part of a condition wait that gives it away.                         *)
Holds(t) == \/ held[t] > 0 /\ pc[t] \notin {"w_sleep", "w_relock"}
            \/ pc[t] = "ec_own"

(* Mutual exclusion as the clients see it: a thread that was told it holds  *)
(* the mutex is the owner recorded in the slot's one lock, and nobody else  *)
(* is, through lazy conversion of the slot, nesting and condition waits.    *)
ClientView == \A t \in Threads : Holds(t) <=> LockOwner = t

(* The threads that race on the first use of a static mutex all operate on  *)
(* the same representation: two locks never stand for one slot.             *)
OneRepresentation ==
  \A t, u \in Threads :
    pc[t] \in OperateLabels /\ pc[u] \in OperateLabels => rep[t] = rep[u]

(* No thread dereferences a pointer made of two halves that do not belong   *)
(* together, or of an object that is not allocated.                         *)
NoFault == \A t \in Threads : pc[t] # "fault"

(* Lazy conversion allocates once: the only object alive is the one that    *)
(* the slot's pointer names, so a lost race never leaks one.                *)
NoLeak == live = Special

(* The error results tell the caller the truth about its own hold. *)
ErrnoHonest ==
  \A t \in Threads :
    /\ out[t] = "EPERM" => held[t] = 0
    /\ out[t] = "EDEADLK" => held[t] = 1
    /\ out[t] = "EBADF" => held[t] > 1

(* A thread that holds the mutex is never refused by the representation     *)
(* check: its unlock cannot fail and strand the lock.                       *)
HolderNeverRefused ==
  \A t \in Threads : held[t] > 0 => out[t] \notin {"EINVAL", "ENOMEM"}

(* The recursion count is the number of locks its owner still holds, and is *)
(* zero only while that owner enters or leaves a condition wait.            *)
DepthAgrees ==
  \A t \in Threads :
    kind = "recursive" /\ w1 \in Objs /\ LockOwner = t =>
      oCount[w1] = IF pc[t] \in {"w_drop", "w_restore"} THEN 0 ELSE held[t]

(* What the comment on the CAS in ensure_bionic_mutex_representation says:  *)
(* threads racing on the first lock all agree on the representation, so no  *)
(* call on a properly initialised mutex is refused as invalid.              *)
NoSpuriousEinval == \A t \in Threads : out[t] # "EINVAL"

(* No thread is caught for ever between the loads, the spin through         *)
(* g_special_init_lock and the publication: each call resolves or returns.  *)
ResolutionEnds ==
  \A t \in Threads :
    pc[t] \in EnsureLabels \cup ResolveLabels ~>
      pc[t] \notin EnsureLabels \cup ResolveLabels

-----------------------------------------------------------------------------
(* The inductive invariant behind these properties *)

(* The word pair a resolver may act on. *)
Published == w1 = DirectTag \/ (w1 \in Objs /\ w0 = w1)

(* A pointer whose low half is still to come: its object is untouched and   *)
(* its publisher is inside g_special_init_lock.                             *)
BeingPublished ==
  /\ w1 \in Objs /\ w0 = StaticWord(kind)
  /\ initLock \in Threads /\ pc[initLock] = "e_publo"
  /\ oLock[w1] = Zero /\ oCount[w1] = 0 /\ oOwner[w1] = Zero

(* The states of the slot under each declaration of the mutex. *)
SlotInv ==
  /\ kind = "none" => /\ w0 = Zero /\ w1 = Zero
                      /\ \A t \in Threads : pc[t] = "idle" /\ held[t] = 0
  /\ kind = "normal" => \/ w0 = Zero /\ w1 = Zero
                        \/ w1 = DirectTag /\ w0 \in Threads \cup {Zero}
  /\ kind \in {"recursive", "errorcheck"} =>
       \/ w0 = StaticWord(kind) /\ w1 = Zero
       \/ w1 \in Objs /\ oKind[w1] = kind /\ (w0 = w1 \/ BeingPublished)
  /\ live = Special

(* What a thread has established at each label.  A NORMAL mutex brings a    *)
(* thread to g_special_init_lock only if a handle looks like a sentinel.    *)
PcInv(t) ==
  /\ pc[t] = "idle" => op[t] = "none"
  /\ pc[t] = "e_lo" => tag[t] \in {Zero, w1}
  /\ pc[t] = "e_serial" => w1 \in Objs
  /\ pc[t] = "e_cas" => kind = "normal"
  /\ pc[t] \in {"e_ilock", "e_check"} =>
       \/ kind = "normal" /\ w1 = DirectTag
       \/ kind \in {"recursive", "errorcheck"} /\ lo[t] = StaticWord(kind)
  /\ pc[t] \in {"e_check", "e_publo", "e_iunlock"} <=> initLock = t
  /\ pc[t] = "e_publo" => BeingPublished /\ rep[t] = w1
  /\ pc[t] \in {"e_iunlock", "r_tag"} \cup OperateLabels => Published
  /\ pc[t] \in {"r_lo", "r_hi"} => w1 \in Objs /\ w0 = w1
  /\ pc[t] = "r_hi" => lo[t] = w1
  /\ pc[t] \in OperateLabels => rep[t] = w1
  /\ pc[t] \in {"ec_lock", "ec_own", "ec_rel"} => kind = "errorcheck"
  /\ pc[t] \in {"ec_lock", "ec_own"} => held[t] = 0
  /\ pc[t] \in {"ec_rel"} \cup WaitLabels => held[t] = 1
  /\ pc[t] \in {"w_drop", "w_restore"} => kind \in {"recursive", "errorcheck"}
  /\ pc[t] # "fault"
  /\ kind # "recursive" => held[t] \in {0, 1}
  /\ held[t] > 0 => Published
  /\ held[t] > 0 /\ pc[t] = "e_lo" => tag[t] = w1
  /\ kind = "normal" /\ op[t] = "unlock" => held[t] = 1
  /\ kind # "errorcheck" /\ op[t] \in {"wait", "timedwait"} => held[t] > 0

(* The bookkeeping of a published object follows its clients. *)
ObjectInv ==
  w1 \in Objs =>
    /\ kind = "recursive" =>
         /\ oLock[w1] = Zero => oCount[w1] = 0
         /\ \A t \in Threads : oLock[w1] = t =>
              oCount[w1] = IF pc[t] \in {"w_drop", "w_restore"} THEN 0 ELSE held[t]
    /\ kind = "errorcheck" =>
         \A t \in Threads :
           oOwner[w1] = t <=> held[t] > 0 /\ pc[t] \notin {"ec_rel"} \cup WaitLabels

IInv == /\ TypeOK /\ SlotInv /\ ObjectInv /\ ClientView
        /\ \A t \in Threads : PcInv(t)
        /\ ErrnoHonest /\ HolderNeverRefused

(* However many threads race to convert a lazily initialised mutex, they    *)
(* agree on one representation, no thread uses a pointer to an object that  *)
(* does not exist, and no losing object stays on the heap.                  *)
ObjectSound == IInv /\ OneRepresentation /\ NoFault /\ NoLeak

(* An error tells the truth about the caller's hold, and a holder is never  *)
(* refused for what the slot happens to contain.                            *)
ErrorsHonest == ErrnoHonest /\ HolderNeverRefused

-----------------------------------------------------------------------------
(* The abstract mutex this component implements. *)
AbstractHolder == LockOwner
AbstractDepth ==
  IF LockOwner = Zero THEN 0
  ELSE IF w1 = DirectTag \/ oKind[w1] # "recursive"
          \/ pc[LockOwner] \in {"w_drop", "w_restore"}
       THEN 1 ELSE oCount[w1]
AbstractWaiting == {t \in Threads : pc[t] \in {"w_sleep", "w_relock"}}

Abstract == INSTANCE AbstractMutex WITH
  NoOne <- Zero, holder <- AbstractHolder, depth <- AbstractDepth,
  waiting <- AbstractWaiting

(* Every step of the bridge is a step of one plain mutex with a condition   *)
(* variable, or invisible to its clients.                                   *)
Refines == Abstract!Spec
=============================================================================
