----------------------------- MODULE PthreadKeys -----------------------------
(***************************************************************************)
(* The pthread keys of source/libc_shim.c: a table of values by key and by *)
(* thread slot.  A thread finds its slot by its TLS address, without the   *)
(* lock, or claims a free one under it; when none is free it uses the      *)
(* first.  A thread that starts at the TLS address of one that ended       *)
(* counts here as the same thread: the table cannot tell them apart.       *)
(***************************************************************************)
EXTENDS Naturals

CONSTANTS
  Threads,
  NumKeys,       \* PTK_KEYS
  NumSlots,      \* PTK_THREADS
  Vals, Null,
  NoOne

Keys == 1..NumKeys
Slots == 1..NumSlots

(* What the proofs assume of the constants; GuestSync has TLC evaluate it. *)
KeyConstants ==
  NumKeys \in Nat \ {0} /\ NumSlots \in Nat \ {0} /\ NoOne \notin Threads /\ Null \notin Vals

VARIABLES
  ptkVal,        \* g_ptk_val
  ptkTid,        \* g_ptk_tid
  ptkUsed,       \* g_ptk_used
  kpc,           \* where each thread is
  kcall,         \* its call: [op, key, val]
  mySlot,        \* the slot it found
  made,          \* ghost: the keys whose creation has returned
  expect,        \* ghost: what each thread last set under each key
  wrong          \* ghost: threads that read something else

tableVars == <<ptkVal, ptkTid, ptkUsed>>
ghostVars == <<made, expect, wrong>>
vars == <<tableVars, kpc, kcall, mySlot, ghostVars>>

NoCall == [op |-> "none", key |-> 1, val |-> Null]

Init ==
  /\ ptkVal = [k \in Keys |-> [s \in Slots |-> Null]]
  /\ ptkTid = [s \in Slots |-> NoOne]
  /\ ptkUsed = {}
  /\ kpc = [t \in Threads |-> "idle"]
  /\ kcall = [t \in Threads |-> NoCall]
  /\ mySlot = [t \in Threads |-> 1]
  /\ made = {} /\ expect = [k \in Keys |-> [t \in Threads |-> Null]] /\ wrong = {}

Goto(t, l) == kpc' = [kpc EXCEPT ![t] = l]
Return(t) == /\ Goto(t, "idle") /\ kcall' = [kcall EXCEPT ![t] = NoCall]
             /\ mySlot' = [mySlot EXCEPT ![t] = 1]

(* A client uses the keys it was given and deletes none that is in use.     *)
Call(t, c) ==
  /\ kpc[t] = "idle" /\ c.key \in made
  /\ kcall' = [kcall EXCEPT ![t] = c]
  /\ Goto(t, "find")
  /\ UNCHANGED <<tableVars, mySlot, ghostVars>>

-----------------------------------------------------------------------------
(* ptk_slot *)

Mine(t) == {s \in Slots : ptkTid[s] = t}
Free == {s \in Slots : ptkTid[s] = NoOne}
IsLowest(n, S) == n \in S /\ \A m \in S : n <= m

(* Without the lock: only its own thread ever writes an address. *)
FindSlot(t) ==
  /\ kpc[t] = "find"
  /\ \/ \E s \in Mine(t) : mySlot' = [mySlot EXCEPT ![t] = s] /\ Goto(t, "access")
     \/ Mine(t) = {} /\ Goto(t, "claim") /\ UNCHANGED mySlot
  /\ UNCHANGED <<tableVars, kcall, ghostVars>>

(* Mutant: the free slot is looked for before the lock is taken. *)
ClaimSlot_AnySlot(t) ==
  /\ kpc[t] = "claim"
  /\ \E s \in Slots :
       /\ ptkTid' = [ptkTid EXCEPT ![s] = t]
       /\ mySlot' = [mySlot EXCEPT ![t] = s]
  /\ Goto(t, "access")
  /\ UNCHANGED <<ptkVal, ptkUsed, kcall, ghostVars>>

(* Under it: a free slot, or the first one when all are taken. *)
ClaimSlot(t) ==
  /\ kpc[t] = "claim"
  /\ \/ \E s \in Slots : /\ IsLowest(s, Free)
                         /\ ptkTid' = [ptkTid EXCEPT ![s] = t]
                         /\ mySlot' = [mySlot EXCEPT ![t] = s]
     \/ Free = {} /\ mySlot' = [mySlot EXCEPT ![t] = 1] /\ UNCHANGED ptkTid
  /\ Goto(t, "access")
  /\ UNCHANGED <<ptkVal, ptkUsed, kcall, ghostVars>>

-----------------------------------------------------------------------------
SetSpecific(t) ==
  /\ kpc[t] = "access" /\ kcall[t].op = "set"
  /\ ptkVal' = [ptkVal EXCEPT ![kcall[t].key][mySlot[t]] = kcall[t].val]
  /\ expect' = [expect EXCEPT ![kcall[t].key][t] = kcall[t].val]
  /\ Return(t)
  /\ UNCHANGED <<ptkTid, ptkUsed, made, wrong>>

GetSpecific(t) ==
  /\ kpc[t] = "access" /\ kcall[t].op = "get"
  /\ wrong' = IF ptkVal[kcall[t].key][mySlot[t]] = expect[kcall[t].key][t]
              THEN wrong ELSE wrong \cup {t}
  /\ Return(t)
  /\ UNCHANGED <<tableVars, made, expect>>

(* pthread_key_create_fake: the key is taken under the lock, its values are *)
(* cleared after.  When all are taken the call fails and changes nothing.   *)
TakeKey(t) ==
  /\ kpc[t] = "idle"
  /\ \E k \in Keys :
       /\ IsLowest(k, Keys \ ptkUsed)
       /\ ptkUsed' = ptkUsed \cup {k}
       /\ kcall' = [kcall EXCEPT ![t] = [op |-> "create", key |-> k, val |-> Null]]
  /\ Goto(t, "clear")
  /\ UNCHANGED <<ptkVal, ptkTid, mySlot, ghostVars>>

ClearKey(t) ==
  /\ kpc[t] = "clear"
  /\ ptkVal' = [ptkVal EXCEPT ![kcall[t].key] = [s \in Slots |-> Null]]
  /\ expect' = [expect EXCEPT ![kcall[t].key] = [u \in Threads |-> Null]]
  /\ made' = made \cup {kcall[t].key}
  /\ Return(t)
  /\ UNCHANGED <<ptkTid, ptkUsed, wrong>>

(* pthread_key_delete_fake *)
DeleteKey(k) ==
  /\ k \in made /\ \A t \in Threads : kpc[t] # "idle" => kcall[t].key # k
  /\ ptkUsed' = ptkUsed \ {k} /\ made' = made \ {k}
  /\ UNCHANGED <<ptkVal, ptkTid, kpc, kcall, mySlot, expect, wrong>>

Calls == [op : {"set"}, key : Keys, val : Vals] \cup [op : {"get"}, key : Keys, val : {Null}]

Next ==
  \/ \E t \in Threads : \/ FindSlot(t) \/ ClaimSlot(t) \/ SetSpecific(t) \/ GetSpecific(t)
                        \/ TakeKey(t) \/ ClearKey(t) \/ \E c \in Calls : Call(t, c)
  \/ \E k \in Keys : DeleteKey(k)

Spec == Init /\ [][Next]_vars

-----------------------------------------------------------------------------
(* Properties *)

(* Every variable stays in its domain. *)
TypeOK ==
  /\ ptkVal \in [Keys -> [Slots -> Vals \cup {Null}]]
  /\ ptkTid \in [Slots -> Threads \cup {NoOne}] /\ ptkUsed \in SUBSET Keys
  /\ kpc \in [Threads -> {"idle", "find", "claim", "access", "clear"}]
  /\ kcall \in [Threads -> [op : {"none", "set", "get", "create"}, key : Keys,
                            val : Vals \cup {Null}]]
  /\ mySlot \in [Threads -> Slots]
  /\ made \in SUBSET ptkUsed /\ wrong \in SUBSET Threads
  /\ expect \in [Keys -> [Threads -> Vals \cup {Null}]]

(* A thread reads back what it set, and nothing where it set nothing, also  *)
(* under a key number that is used again; only the thread in the first slot *)
(* and those that found no slot can be given each other's values.           *)
Shares(t) == Mine(t) \subseteq {1} /\ Free = {}
KeysPrivate == \A t \in wrong : Shares(t)

(* The inductive invariant: a thread has one slot, the one it uses unless   *)
(* it found none; a slot nobody shares holds what its thread set; a free    *)
(* slot holds nothing.                                                      *)
SlotInv ==
  \A t \in Threads :
    /\ \A r, s \in Mine(t) : r = s
    /\ kpc[t] \in {"find", "claim", "access"} => kcall[t].key \in made
    /\ kpc[t] = "clear" => kcall[t].key \in ptkUsed
    /\ kpc[t] = "claim" => Mine(t) = {}
    /\ kpc[t] = "access" =>
         \/ mySlot[t] \in Mine(t)
         \/ mySlot[t] = 1 /\ Mine(t) = {} /\ Free = {}
ValueInv ==
  \A k \in made :
    /\ \A s \in Free : ptkVal[k][s] = Null
    /\ \A t \in Threads :
         /\ \A s \in Mine(t) : s # 1 \/ Free # {} => ptkVal[k][s] = expect[k][t]
         /\ Mine(t) = {} /\ Free # {} => expect[k][t] = Null
IInv == TypeOK /\ SlotInv /\ ValueInv /\ KeysPrivate
=============================================================================
