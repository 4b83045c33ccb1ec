---------------------------- MODULE JniRegistry ----------------------------
(***************************************************************************)
(* Class handles and method ids of the fake JavaVM (jni_fake.c).  Native   *)
(* code asks for them from several threads and keeps them for good, so the *)
(* same name has to give the same handle every time: FindClass and         *)
(* GetMethodID intern into two tables under one lock.  A class handle is   *)
(* known by its place in the table.                                        *)
(***************************************************************************)
EXTENDS Naturals, Sequences, FiniteSets

CONSTANTS
  Callers,      \* threads of the game
  Classes,      \* class names
  Members,      \* methods and fields: a name and a signature
  MaxClasses,   \* MAX_CLASSES
  MaxMethods,   \* MAX_METHODS
  MaxAsks,      \* bound: questions
  Nobody        \* no thread

VARIABLES
  classes,      \* g_classes: the interned names
  methods,      \* g_methods: [class handle, member]
  lock,         \* g_jni_reg_mutex
  jpc,          \* "idle", "wait" or "found" per thread
  want,         \* what a thread asks for
  seen,         \* what it found: a place, or 0
  told,         \* answers so far: [what, place]
  asks

jniVars == <<classes, methods, lock, jpc, want, seen, told, asks>>

JniConstants == {MaxClasses, MaxMethods, MaxAsks} \subseteq Nat \ {0} /\ Nobody \notin Callers

AClass(c) == [kind |-> "class", class |-> c, member |-> "none", handle |-> 0]
AMethod(h, m) == [kind |-> "method", class |-> "none", member |-> m, handle |-> h]
Nothing == AClass("none")

Init ==
  /\ classes = <<>>
  /\ methods = <<>>
  /\ lock = Nobody
  /\ jpc = [c \in Callers |-> "idle"]
  /\ want = [c \in Callers |-> Nothing]
  /\ seen = [c \in Callers |-> 0]
  /\ told = {}
  /\ asks = 0

-----------------------------------------------------------------------------

(* FindClass asks for a name, GetMethodID for a member of a handle that     *)
(* FindClass has returned.                                                  *)
Handles == {a.place : a \in {b \in told : b.what.kind = "class"}}
Questions == {AClass(c) : c \in Classes}
             \cup {AMethod(h, m) : h \in Handles, m \in Members}

Ask(t, q) ==
  /\ jpc[t] = "idle" /\ asks < MaxAsks
  /\ q \in Questions
  /\ jpc' = [jpc EXCEPT ![t] = "wait"]
  /\ want' = [want EXCEPT ![t] = q]
  /\ asks' = asks + 1
  /\ UNCHANGED <<classes, methods, lock, seen, told>>

(* Interning without the lock. *)
Takes_Always(t) == TRUE

Takes(t) == lock = Nobody

First(s, e) ==
  LET places == {i \in 1 .. Len(s) : s[i] = e}
  IN IF places = {} THEN 0 ELSE CHOOSE i \in places : \A j \in places : i <= j

Place(q) == IF q.kind = "class"
            THEN First(classes, q.class)
            ELSE First(methods, [handle |-> q.handle, member |-> q.member])

Search(t) ==
  /\ jpc[t] = "wait" /\ Takes(t)
  /\ lock' = t
  /\ seen' = [seen EXCEPT ![t] = Place(want[t])]
  /\ jpc' = [jpc EXCEPT ![t] = "found"]
  /\ UNCHANGED <<classes, methods, want, told, asks>>

(* An entry that is not there yet is appended; a full table answers with    *)
(* its first entry.                                                         *)
Full(q) == IF q.kind = "class" THEN Len(classes) >= MaxClasses
                               ELSE Len(methods) >= MaxMethods
Answer(t) ==
  LET q == want[t]
  IN IF seen[t] # 0 THEN seen[t]
     ELSE IF Full(q) THEN 1
     ELSE IF q.kind = "class" THEN Len(classes) + 1 ELSE Len(methods) + 1

Intern(t) ==
  /\ jpc[t] = "found"
  /\ LET q == want[t]
         new == seen[t] = 0 /\ ~ Full(q)
     IN /\ classes' = IF new /\ q.kind = "class" THEN Append(classes, q.class) ELSE classes
        /\ methods' = IF new /\ q.kind = "method"
                      THEN Append(methods, [handle |-> q.handle, member |-> q.member])
                      ELSE methods
        /\ told' = told \cup {[what |-> q, place |-> Answer(t)]}
  /\ lock' = Nobody
  /\ jpc' = [jpc EXCEPT ![t] = "idle"]
  /\ UNCHANGED <<want, seen, asks>>

Next ==
  \/ \E t \in Callers : Search(t) \/ Intern(t)
  \/ \E t \in Callers, q \in Questions : Ask(t, q)

Spec == Init /\ [][Next]_jniVars

-----------------------------------------------------------------------------
(* What a kept handle or id stands for: the same question has the same      *)
(* answer for good, whichever threads ask at once, and the answer means     *)
(* what was asked for, unless the table was full and has no such entry.     *)
Meant(a) == IF a.what.kind = "class" THEN classes[a.place] = a.what.class
            ELSE methods[a.place] = [handle |-> a.what.handle, member |-> a.what.member]
IdsStable ==
  \A a \in told :
    /\ \A b \in told : a.what = b.what => a.place = b.place
    /\ Meant(a) \/ (Full(a.what) /\ Place(a.what) = 0)

(* The comment above the method registry: a stable token for every class,   *)
(* name and signature.  A full table hands out its first entry for all of   *)
(* the others.                                                              *)
TokensDistinct == \A a \in told : Meant(a)

-----------------------------------------------------------------------------
(* The inductive invariant *)

MethodRecords == [handle : Nat, member : Members]
AllQuestions ==
  [kind : {"class"}, class : Classes, member : {"none"}, handle : {0}]
  \cup [kind : {"method"}, class : {"none"}, member : Members, handle : Nat]

TypeOK ==
  /\ classes \in Seq(Classes) /\ methods \in Seq(MethodRecords)
  /\ jpc \in [Callers -> {"idle", "wait", "found"}]
  /\ want \in [Callers -> AllQuestions \cup {Nothing}]
  /\ seen \in [Callers -> Nat]
  /\ told \subseteq [what : AllQuestions, place : Nat]

(* The tables have no entry twice. *)
NoDuplicates ==
  /\ \A i, j \in 1 .. Len(classes) : classes[i] = classes[j] => i = j
  /\ \A i, j \in 1 .. Len(methods) : methods[i] = methods[j] => i = j

(* What a thread found stays so until it has answered: it has the lock. *)
Looking(t) ==
  /\ jpc[t] # "idle" => want[t] \in AllQuestions
  /\ jpc[t] = "found" => lock = t /\ seen[t] = Place(want[t])

(* An answer is the place of the entry, or the first of a full table. *)
Answered(a) ==
  \/ Place(a.what) # 0 /\ a.place = Place(a.what)
  \/ Place(a.what) = 0 /\ Full(a.what) /\ a.place = 1

IInv ==
  /\ TypeOK /\ NoDuplicates
  /\ \A t \in Callers : Looking(t)
  /\ \A a \in told : Answered(a)
=============================================================================
