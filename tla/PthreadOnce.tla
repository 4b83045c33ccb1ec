----------------------------- MODULE PthreadOnce -----------------------------
(***************************************************************************)
(* pthread_once_fake of source/imports.c: one caller runs the routine, the *)
(* others poll the control word until it is done.                          *)
(***************************************************************************)
EXTENDS Naturals

CONSTANTS Threads, Controls

(* What the proofs assume of the constants; GuestSync has TLC evaluate it. *)
OnceConstants == Controls # {}

VARIABLES
  control,       \* the control words: 0 not started, 1 in progress, 2 done
  opc,           \* where each thread is
  once,          \* the control its call is about
  began, ran,    \* ghosts: how often each routine was begun, was finished
  passed         \* ghost: the controls a thread's calls have returned for

vars == <<control, opc, once, began, ran, passed>>

Init ==
  /\ control = [c \in Controls |-> 0]
  /\ opc = [t \in Threads |-> "idle"]
  /\ once = [t \in Threads |-> CHOOSE c \in Controls : TRUE]
  /\ began = [c \in Controls |-> 0] /\ ran = [c \in Controls |-> 0]
  /\ passed = [t \in Threads |-> {}]

Goto(t, l) == opc' = [opc EXCEPT ![t] = l]
Return(t) == Goto(t, "idle") /\ passed' = [passed EXCEPT ![t] = @ \cup {once[t]}]

Call(t, c) ==
  /\ opc[t] = "idle"
  /\ once' = [once EXCEPT ![t] = c]
  /\ Goto(t, "cas")
  /\ UNCHANGED <<control, began, ran, passed>>

(* Mutant: whoever finds the routine begun takes it for done. *)
CompareAndSwap_AnyStarted(t) ==
  /\ opc[t] = "cas"
  /\ IF control[once[t]] = 0
     THEN /\ control' = [control EXCEPT ![once[t]] = 1]
          /\ began' = [began EXCEPT ![once[t]] = @ + 1]
          /\ Goto(t, "run") /\ UNCHANGED passed
     ELSE Return(t) /\ UNCHANGED <<control, began>>
  /\ UNCHANGED <<once, ran>>

CompareAndSwap(t) ==
  /\ opc[t] = "cas"
  /\ \/ /\ control[once[t]] = 0
        /\ control' = [control EXCEPT ![once[t]] = 1]
        /\ began' = [began EXCEPT ![once[t]] = @ + 1]
        /\ Goto(t, "run") /\ UNCHANGED passed
     \/ /\ control[once[t]] = 2
        /\ Return(t) /\ UNCHANGED <<control, began>>
     \/ /\ control[once[t]] = 1
        /\ Goto(t, "nap") /\ UNCHANGED <<control, began, passed>>
  /\ UNCHANGED <<once, ran>>

(* svcSleepThread *)
Nap(t) ==
  /\ opc[t] = "nap" /\ Goto(t, "cas")
  /\ UNCHANGED <<control, once, began, ran, passed>>

RoutineReturns(t) ==
  /\ opc[t] = "run" /\ Goto(t, "publish")
  /\ ran' = [ran EXCEPT ![once[t]] = @ + 1]
  /\ UNCHANGED <<control, once, began, passed>>

Publish(t) ==
  /\ opc[t] = "publish"
  /\ control' = [control EXCEPT ![once[t]] = 2]
  /\ Return(t)
  /\ UNCHANGED <<once, began, ran>>

Step(t) == CompareAndSwap(t) \/ Nap(t) \/ RoutineReturns(t) \/ Publish(t)

Next == \E t \in Threads : Step(t) \/ \E c \in Controls : Call(t, c)

Spec == Init /\ [][Next]_vars

(* Threads go on, and the routines return. *)
Fairness == \A t \in Threads : WF_vars(Step(t))

FairSpec == Spec /\ Fairness

-----------------------------------------------------------------------------
(* Properties *)

(* Every variable stays in its domain. *)
TypeOK ==
  /\ control \in [Controls -> 0..2]
  /\ opc \in [Threads -> {"idle", "cas", "nap", "run", "publish"}]
  /\ once \in [Threads -> Controls]
  /\ began \in [Controls -> 0..1] /\ ran \in [Controls -> 0..1]
  /\ passed \in [Threads -> SUBSET Controls]

(* Nobody returns from pthread_once before the routine has been run to its  *)
(* end, and it is never begun a second time.                                *)
OnceBeforeUse ==
  \A c \in Controls : /\ began[c] <= 1 /\ ran[c] <= began[c]
                      /\ (\E t \in Threads : c \in passed[t]) => ran[c] = 1

(* The inductive invariant: the control word tells how far the routine is,  *)
(* and one thread has it while it is in progress.                           *)
Running(t) == opc[t] \in {"run", "publish"}
ControlInv ==
  \A c \in Controls :
    /\ began[c] = IF control[c] = 0 THEN 0 ELSE 1
    /\ control[c] = 0 => ran[c] = 0
    /\ control[c] = 2 => ran[c] = 1
    /\ \A t \in Threads : c \in passed[t] => control[c] = 2
RunnerInv ==
  \A t \in Threads : Running(t) =>
    /\ control[once[t]] = 1
    /\ ran[once[t]] = IF opc[t] = "publish" THEN 1 ELSE 0
    /\ \A u \in Threads : Running(u) /\ once[u] = once[t] => u = t
IInv == TypeOK /\ ControlInv /\ RunnerInv

(* The polling callers get through. *)
OnceReturns ==
  \A t \in Threads : opc[t] = "cas" ~> opc[t] = "idle"
=============================================================================
