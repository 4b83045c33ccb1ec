-------------------------- MODULE NimbleLifecycle --------------------------
(***************************************************************************)
(* The Nimble component life cycle: Java component ids queued by the       *)
(* registrar and set up by Base.setupNimble (pvz2.c), the registry of C++  *)
(* components with its strong references (main.c), and the edges launch,   *)
(* Nexus restore and resume that the frame loop delivers once set up.      *)
(*                                                                         *)
(* A native setup may itself register components: the calls nest, which    *)
(* stack records.                                                          *)
(***************************************************************************)
EXTENDS Naturals, Sequences, FiniteSets, SequencesExt

CONSTANTS
  Components,     \* component ids
  Objects,        \* C++ components behind shared_ptr
  MaxComponents,  \* NIMBLE_JAVA_COMPONENT_CAPACITY, registry capacity; 64 in the code
  Restored,       \* components restored by setupNimble, in order
  MaxLookups      \* bound: references the game holds at a time

VARIABLES
  ids,            \* nimble_java_component_ids
  stage,          \* where setupNimble is: "before", "loop", "broadcast", "restore", "done"
  at,             \* next position of the loop
  stack,          \* native setups in progress
  setups,         \* times a component was set up
  registry,       \* nimble_component_registry: <<name, object>>
  owners,         \* strong count of an object
  held,           \* references the game's code holds: name -> how many of which object
  restored,       \* components restored so far
  life,           \* edges delivered, in order
  launchPending, resumePending

lifeVars == <<ids, stage, at, stack, setups, registry, owners, held, restored, life,
              launchPending, resumePending>>

LifeConstants == MaxComponents \in Nat /\ MaxLookups \in Nat /\ IsInjective(Restored)

Init ==
  /\ ids = <<>> /\ stage = "before" /\ at = 1 /\ stack = <<>>
  /\ setups = [c \in Components |-> 0]
  /\ registry = <<>>
  /\ owners = [o \in Objects |-> 1]
  /\ held = [o \in Objects |-> 1]
  /\ restored = <<>> /\ life = <<>>
  /\ launchPending = FALSE /\ resumePending = FALSE

java == <<ids, stage, at, stack, setups, restored>>
native == <<registry, owners, held>>
edges == <<life, launchPending, resumePending>>

Started == stage # "before"

-----------------------------------------------------------------------------
(* Java components *)

SetupNow_Never == FALSE
SetupNow == Started

(* The registrar: duplicates and a full table are ignored; once setupNimble *)
(* has begun the component is set up on the spot.  In the loop it is the    *)
(* native setups that call it.                                              *)
QueueComponent(c) ==
  /\ stage = "loop" => stack # <<>>
  /\ ~ Contains(ids, c) /\ Len(ids) < MaxComponents
  /\ ids' = Append(ids, c)
  /\ IF SetupNow
       THEN /\ stack' = Append(stack, c)
            /\ setups' = [setups EXCEPT ![c] = @ + 1]
       ELSE UNCHANGED <<stack, setups>>
  /\ UNCHANGED <<stage, at, restored, native, edges>>

SetupReturns ==
  /\ stack # <<>>
  /\ stack' = Front(stack)
  /\ UNCHANGED <<ids, stage, at, setups, restored, native, edges>>

SetupNimble ==
  /\ stage = "before" /\ stage' = "loop"
  /\ UNCHANGED <<ids, at, stack, setups, restored, native, edges>>

(* The loop reads the count afresh: it reaches what its own setups added.  *)
SetupNext ==
  /\ stage = "loop" /\ stack = <<>> /\ at <= Len(ids)
  /\ at' = at + 1
  /\ stack' = <<ids[at]>>
  /\ setups' = [setups EXCEPT ![ids[at]] = @ + 1]
  /\ UNCHANGED <<ids, stage, restored, native, edges>>

LoopEnds ==
  /\ stage = "loop" /\ stack = <<>> /\ at > Len(ids)
  /\ stage' = "broadcast"
  /\ UNCHANGED <<ids, at, stack, setups, restored, native, edges>>

(* componentIndependentSetupFinished; its receiver may register components. *)
IndependentSetupFinished ==
  /\ stage = "broadcast" /\ stack = <<>>
  /\ stage' = "restore"
  /\ UNCHANGED <<ids, at, stack, setups, restored, native, edges>>

(* A component the native manager does not know is left out. *)
Restore ==
  /\ stage = "restore" /\ stack = <<>>
  /\ \E known \in SUBSET Range(Restored) :
        restored' = SelectSeq(Restored, LAMBDA c : c \in known)
  /\ stage' = "done"
  /\ UNCHANGED <<ids, at, stack, setups, native, edges>>

-----------------------------------------------------------------------------
(* The C++ registry.  The caller keeps its own reference. *)

Retain(o) == owners[o] + 1

Register(c, o) ==
  /\ held[o] > 0
  /\ ~ Contains(registry, <<c, o>>) /\ Len(registry) < MaxComponents
  /\ owners' = [owners EXCEPT ![o] = Retain(o)]
  /\ registry' = Append(registry, <<c, o>>)
  /\ UNCHANGED <<held, java, edges>>

(* The latest registration of the name is returned with one more reference. *)
Lookup(c) ==
  /\ \E o \in Objects : \E i \in DOMAIN registry :
       /\ registry[i] = <<c, o>>
       /\ \A j \in DOMAIN registry : j > i => registry[j][1] # c
       /\ held[o] < MaxLookups
       /\ owners' = [owners EXCEPT ![o] = Retain(o)]
       /\ held' = [held EXCEPT ![o] = @ + 1]
  /\ UNCHANGED <<registry, java, edges>>

Drop(o) ==
  /\ held[o] > 0
  /\ owners' = [owners EXCEPT ![o] = @ - 1]
  /\ held' = [held EXCEPT ![o] = @ - 1]
  /\ UNCHANGED <<registry, java, edges>>

-----------------------------------------------------------------------------
(* Edges of the application *)

DidFinish ==
  /\ ~ launchPending /\ life = <<>> /\ stage = "before"
  /\ launchPending' = TRUE
  /\ UNCHANGED <<life, resumePending, java, native>>

DidBecomeActive ==
  /\ ~ resumePending /\ stage # "loop" /\ stack = <<>>
  /\ launchPending \/ Contains(life, "launch")
  /\ ~ Contains(life, "resume")
  /\ resumePending' = TRUE
  /\ UNCHANGED <<life, launchPending, java, native>>

NotYet(e) == ~ Contains(life, e)

(* Once per frame, after setupNimble has returned.  The restore stage is   *)
(* complete whether or not the component could be restored.                 *)
PumpLifecycle ==
  /\ stage = "done" /\ stack = <<>>
  /\ LET launch == IF launchPending /\ NotYet("launch") THEN <<"launch">> ELSE <<>>
         upTo == life \o launch
         nexus == IF Contains(upTo, "launch") /\ NotYet("nexus") THEN <<"nexus">> ELSE <<>>
         all == upTo \o nexus
         resume == IF resumePending /\ Contains(all, "nexus") /\ NotYet("resume")
                   THEN <<"resume">> ELSE <<>>
     IN /\ all \o resume # life
        /\ life' = all \o resume
        /\ launchPending' = (launchPending /\ launch = <<>>)
        /\ resumePending' = (resumePending /\ resume = <<>>)
  /\ UNCHANGED <<java, native>>

Next ==
  \/ \E c \in Components : QueueComponent(c) \/ Lookup(c)
  \/ \E c \in Components, o \in Objects : Register(c, o)
  \/ \E o \in Objects : Drop(o)
  \/ SetupReturns \/ SetupNimble \/ SetupNext \/ LoopEnds \/ IndependentSetupFinished
  \/ Restore \/ DidFinish \/ DidBecomeActive \/ PumpLifecycle

(* The frame loop runs, setupNimble is sequential code and native setups   *)
(* return.                                                                  *)
Fairness ==
  /\ WF_lifeVars(SetupReturns) /\ WF_lifeVars(SetupNext) /\ WF_lifeVars(LoopEnds)
  /\ WF_lifeVars(IndependentSetupFinished) /\ WF_lifeVars(Restore)
  /\ WF_lifeVars(PumpLifecycle)

Spec == Init /\ [][Next]_lifeVars /\ Fairness

-----------------------------------------------------------------------------
(* When setupNimble has returned every registered component has been set   *)
(* up, those registered during it or after it too.                          *)
AllSetUp == stage \in {"restore", "done"} => \A i \in DOMAIN ids : setups[ids[i]] > 0

(* The comment of nimble_audit_registered_native_components: setup invokes *)
(* each registered component once.                                          *)
SetupOnce == \A c \in Components : setups[c] <= 1

(* The strong count of an object is the registry's references and the      *)
(* game's: a registered component is never destroyed under the registry.    *)
CountsMatch ==
  \A o \in Objects :
    owners[o] = held[o] + Cardinality({i \in DOMAIN registry : registry[i][2] = o})

(* The edges reach the game once each and in order. *)
EdgesInOrder == IsPrefix(life, <<"launch", "nexus", "resume">>)

(* A game that has been set up and made active is resumed. *)
Resumed == (stage = "done" /\ resumePending) ~> Contains(life, "resume")
=============================================================================
