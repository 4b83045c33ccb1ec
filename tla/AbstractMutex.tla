--------------------------- MODULE AbstractMutex ---------------------------
(***************************************************************************)
(* What the clients of source/imports.c's pthread_mutex_* and              *)
(* pthread_cond_* functions are promised: one lock with at most one holder,*)
(* which nests only when the mutex is recursive, and a condition variable  *)
(* that takes the lock away from a sleeper and gives it back.              *)
(***************************************************************************)
EXTENDS Naturals

CONSTANTS Threads, NoOne

VARIABLES
  kind,      \* "normal", "recursive", "errorcheck", or "none"
  holder,    \* the thread in possession, or NoOne
  depth,     \* how many times it holds the mutex
  waiting    \* threads inside a condition wait, without the mutex

vars == <<kind, holder, depth, waiting>>

Init == /\ kind \in {"normal", "recursive", "errorcheck", "none"}
        /\ holder = NoOne /\ depth = 0 /\ waiting = {}

(* lock or trylock succeeds on a free mutex. *)
Take(t) ==
  /\ holder = NoOne /\ t \notin waiting /\ kind # "none"
  /\ holder' = t /\ depth' = 1
  /\ UNCHANGED <<kind, waiting>>

(* The holder of a recursive mutex locks it again. *)
Nest(t) ==
  /\ kind = "recursive" /\ holder = t
  /\ depth' = depth + 1
  /\ UNCHANGED <<kind, holder, waiting>>

(* Only the holder gives the mutex back. *)
Leave(t) ==
  /\ holder = t
  /\ depth' = depth - 1
  /\ holder' = IF depth = 1 THEN NoOne ELSE t
  /\ UNCHANGED <<kind, waiting>>

(* A wait gives the mutex away whole. *)
Sleep(t) ==
  /\ holder = t /\ depth = 1
  /\ holder' = NoOne /\ depth' = 0
  /\ waiting' = waiting \cup {t}
  /\ UNCHANGED kind

(* A wait ends with the mutex in hand. *)
Resume(t) ==
  /\ t \in waiting /\ holder = NoOne
  /\ holder' = t /\ depth' = 1
  /\ waiting' = waiting \ {t}
  /\ UNCHANGED kind

(* init or destroy, while nobody uses the mutex. *)
Renew ==
  /\ holder = NoOne /\ waiting = {}
  /\ kind' \in {"normal", "recursive", "errorcheck", "none"}
  /\ UNCHANGED <<holder, depth, waiting>>

Next ==
  \/ \E t \in Threads : Take(t) \/ Nest(t) \/ Leave(t) \/ Sleep(t) \/ Resume(t)
  \/ Renew

Spec == Init /\ [][Next]_vars
=============================================================================
