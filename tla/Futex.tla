------------------------------- MODULE Futex -------------------------------
(***************************************************************************)
(* futex_impl of source/libc_shim.c: FUTEX_WAIT and FUTEX_WAKE over libnx  *)
(* mutexes and condition variables.  Addresses are hashed into buckets; a  *)
(* wake wakes the whole bucket.                                            *)
(*                                                                         *)
(* The clients follow the futex protocol: whoever changes a word then      *)
(* wakes its waiters.  Nothing orders the change with the bucket's lock.   *)
(***************************************************************************)
EXTENDS Naturals

CONSTANTS
  Threads,
  Addrs,         \* the guest's futex words
  Hash,          \* the bucket of each address
  Vals,          \* what a word can hold
  NoOne

Buckets == {Hash[a] : a \in Addrs}

(* What the proofs assume of the constants; GuestSync has TLC evaluate it. *)
FutexConstants ==
  /\ Hash \in [Addrs -> Nat] /\ NoOne \notin Threads
  /\ Addrs # {} /\ Vals # {}

VARIABLES
  word,          \* the guest's words
  bucketLock,    \* futex_lock: who holds each bucket's mutex
  fpc,           \* where each thread is
  uaddr, val,    \* the arguments of its call
  timed          \* it sleeps with a timeout

callVars == <<uaddr, val, timed>>
vars == <<word, bucketLock, fpc, callVars>>

NoCall == [uaddr |-> CHOOSE a \in Addrs : TRUE, val |-> CHOOSE v \in Vals : TRUE]

Bucket(t) == Hash[uaddr[t]]

Init ==
  /\ word \in [Addrs -> Vals]
  /\ bucketLock = [b \in Buckets |-> NoOne]
  /\ fpc = [t \in Threads |-> "idle"]
  /\ uaddr = [t \in Threads |-> NoCall.uaddr] /\ val = [t \in Threads |-> NoCall.val]
  /\ timed = [t \in Threads |-> FALSE]

Goto(t, l) == fpc' = [fpc EXCEPT ![t] = l]

Lock(t, from, to) ==
  /\ fpc[t] = from /\ bucketLock[Bucket(t)] = NoOne
  /\ bucketLock' = [bucketLock EXCEPT ![Bucket(t)] = t]
  /\ Goto(t, to)

Unlock(t) == bucketLock' = [bucketLock EXCEPT ![Bucket(t)] = NoOne]

-----------------------------------------------------------------------------
(* FUTEX_WAIT, FUTEX_WAIT_BITSET *)

(* The client waits for a change of the value it has read. *)
CallWait(t, a) ==
  /\ fpc[t] = "idle"
  /\ uaddr' = [uaddr EXCEPT ![t] = a] /\ val' = [val EXCEPT ![t] = word[a]]
  /\ Goto(t, "lock")
  /\ UNCHANGED <<word, bucketLock, timed>>

LockToWait(t) ==
  /\ Lock(t, "lock", "check")
  /\ UNCHANGED <<word, callVars>>

(* Mutant: the lock is given back before the sleep. *)
Compare_Unlocks(t) ==
  /\ fpc[t] = "check"
  /\ IF word[uaddr[t]] # val[t]
     THEN Goto(t, "unlock") /\ UNCHANGED bucketLock
     ELSE Unlock(t) /\ Goto(t, "sleep")
  /\ UNCHANGED <<word, callVars>>

(* The word is compared under the bucket's lock (EAGAIN); then the timeout   *)
(* is looked at: it may be malformed (EINVAL), its deadline may have passed. *)
Compare(t) ==
  /\ fpc[t] = "check"
  /\ \/ Goto(t, "unlock") /\ UNCHANGED timed
     \/ /\ word[uaddr[t]] = val[t]
        /\ \E b \in BOOLEAN : timed' = [timed EXCEPT ![t] = b]
        /\ Goto(t, "sleep")
  /\ UNCHANGED <<word, bucketLock, uaddr, val>>

(* condvarWaitTimeout: the kernel releases the mutex and sleeps in one step *)
Sleep(t) ==
  /\ fpc[t] = "sleep"
  /\ Unlock(t) /\ Goto(t, "asleep")
  /\ UNCHANGED <<word, callVars>>

TimeOut(t) ==
  /\ fpc[t] = "asleep" /\ timed[t]
  /\ Goto(t, "relock")
  /\ UNCHANGED <<word, bucketLock, callVars>>

(* ... and takes it again before it returns. *)
Relock(t) ==
  /\ Lock(t, "relock", "unlock")
  /\ UNCHANGED <<word, callVars>>

Leave(t) ==
  /\ fpc[t] \in {"unlock", "k_unlock"}
  /\ Unlock(t) /\ Goto(t, "idle")
  /\ uaddr' = [uaddr EXCEPT ![t] = NoCall.uaddr] /\ val' = [val EXCEPT ![t] = NoCall.val]
  /\ timed' = [timed EXCEPT ![t] = FALSE]
  /\ UNCHANGED word

-----------------------------------------------------------------------------
(* FUTEX_WAKE, FUTEX_WAKE_BITSET *)

(* The client changes the word, then calls. *)
Store(t, a, v) ==
  /\ fpc[t] = "idle"
  /\ word[a] # v /\ word' = [word EXCEPT ![a] = v]
  /\ uaddr' = [uaddr EXCEPT ![t] = a]
  /\ Goto(t, "k_lock")
  /\ UNCHANGED <<bucketLock, val, timed>>

LockToWake(t) ==
  /\ Lock(t, "k_lock", "k_wake")
  /\ UNCHANGED <<word, callVars>>

Asleep(b) == {u \in Threads : fpc[u] = "asleep" /\ Bucket(u) = b}
Woken(t, S) == [u \in Threads |-> IF u = t THEN "k_unlock" ELSE IF u \in S THEN "relock" ELSE fpc[u]]

(* Mutant: one waiter of the bucket is woken. *)
WakeAll_One(t) ==
  /\ fpc[t] = "k_wake"
  /\ \/ Asleep(Bucket(t)) = {} /\ fpc' = Woken(t, {})
     \/ \E u \in Asleep(Bucket(t)) : fpc' = Woken(t, {u})
  /\ UNCHANGED <<word, bucketLock, callVars>>

(* condvarWakeAll *)
WakeAll(t) ==
  /\ fpc[t] = "k_wake"
  /\ fpc' = Woken(t, Asleep(Bucket(t)))
  /\ UNCHANGED <<word, bucketLock, callVars>>

-----------------------------------------------------------------------------
(* What a thread does once it has called, but for its deadline coming. *)
Step(t) == \/ LockToWait(t) \/ Compare(t) \/ Sleep(t) \/ Relock(t) \/ Leave(t)
           \/ LockToWake(t) \/ WakeAll(t)

Next ==
  \E t \in Threads :
    \/ \E a \in Addrs : CallWait(t, a) \/ \E v \in Vals : Store(t, a, v)
    \/ Step(t) \/ TimeOut(t)

Spec == Init /\ [][Next]_vars

(* A thread goes on, and a libnx mutex is handed to those who wait for it:  *)
(* only the steps that take it can be disabled by others.                   *)
Fairness == \A t \in Threads : SF_vars(Step(t))

FairSpec == Spec /\ Fairness

-----------------------------------------------------------------------------
(* Properties *)

Labels == {"idle", "lock", "check", "sleep", "asleep", "relock", "unlock",
           "k_lock", "k_wake", "k_unlock"}
LockedLabels == {"check", "sleep", "unlock", "k_wake", "k_unlock"}

(* Every variable stays in its domain. *)
TypeOK ==
  /\ word \in [Addrs -> Vals]
  /\ bucketLock \in [Buckets -> Threads \cup {NoOne}]
  /\ fpc \in [Threads -> Labels]
  /\ uaddr \in [Threads -> Addrs] /\ val \in [Threads -> Vals]
  /\ timed \in [Threads -> BOOLEAN]

(* Somebody is on the way to wake the bucket. *)
Waking(b) == \E u \in Threads : fpc[u] \in {"k_lock", "k_wake"} /\ Bucket(u) = b

(* "The bucket mutex serializes compare-and-sleep against wakers so no wake *)
(* is lost": a thread sleeps on a word that has changed only while the one  *)
(* who changed it is still on the way to wake the bucket.                   *)
NoLostWake ==
  \A t \in Threads :
    fpc[t] = "asleep" /\ word[uaddr[t]] # val[t] => Waking(Bucket(t))

(* So a sleeper whose word has changed wakes up. *)
SleeperWakes ==
  \A t \in Threads :
    fpc[t] = "asleep" /\ word[uaddr[t]] # val[t] ~> fpc[t] # "asleep"

(* The inductive invariant behind NoLostWake: the label says who has the    *)
(* lock, and a thread about to sleep has seen the word or will be woken.    *)
LockInv ==
  \A b \in Buckets, t \in Threads :
    bucketLock[b] = t <=> fpc[t] \in LockedLabels /\ Bucket(t) = b
WakeComing(t) ==
  fpc[t] \in {"sleep", "asleep"} /\ word[uaddr[t]] # val[t] => Waking(Bucket(t))
IInv == TypeOK /\ LockInv /\ \A t \in Threads : WakeComing(t)
=============================================================================
