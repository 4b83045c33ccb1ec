-------------------------- MODULE JavaCollections --------------------------
(***************************************************************************)
(* The java.util.HashMap of the fake JavaVM (jni_fake.c): an array of      *)
(* key/value pairs that only grows, read by native code through key and    *)
(* entry views and iterators that hold no more than an index.              *)
(*                                                                         *)
(* hash is the map the same calls build on Android, by the text of a key;  *)
(* a put that found no memory is left out of it.                           *)
(***************************************************************************)
EXTENDS Naturals, Sequences, FiniteSets

CONSTANTS
  Texts,       \* texts of keys
  Copies,      \* String objects with the same text
  Values,
  Iterators,   \* iterators the game may hold
  Absent,      \* no value: NULL
  MaxPuts      \* bound: calls of put

Keys == Texts \X Copies

VARIABLES
  pairs,       \* map->objs: <<key object, value>>, by index
  kind,        \* what an iterator walks: "none", "keys" or "entries"
  index,       \* its len field: how many next() calls it has answered
  visited,     \* the texts next() has returned, in order
  entry,       \* the last entry next() returned: its index, or 0
  fresh,       \* texts in the map when the iterator was made
  answer,      \* last answer of get or put
  hash,        \* the map on Android
  puts

mapVars == <<pairs, kind, index, visited, entry, fresh, answer, hash, puts>>

MapConstants == MaxPuts \in Nat

Init ==
  /\ pairs = <<>>
  /\ kind = [i \in Iterators |-> "none"]
  /\ index = [i \in Iterators |-> 0]
  /\ visited = [i \in Iterators |-> <<>>]
  /\ entry = [i \in Iterators |-> 0]
  /\ fresh = [i \in Iterators |-> {}]
  /\ answer = [got |-> Absent, java |-> Absent]
  /\ hash = [t \in Texts |-> Absent]
  /\ puts = 0

-----------------------------------------------------------------------------

iterVars == <<kind, index, visited, entry, fresh>>

(* Keys compared as objects. *)
Same_Object(a, b) == a = b

(* Two keys are the same as objects or as Strings of one text. *)
Same(a, b) == a = b \/ a[1] = b[1]

MapIndex(key) ==
  LET hits == {n \in 1 .. Len(pairs) : Same(pairs[n][1], key)}
  IN IF hits = {} THEN 0 ELSE CHOOSE n \in hits : \A m \in hits : n <= m

(* map_put of either call form: a key that is there keeps its place and its *)
(* object; a new one that does not fit in memory is dropped, and the answer *)
(* is NULL as it is for a new key.                                          *)
Put(key, value, memory) ==
  LET n == MapIndex(key)
  IN /\ puts < MaxPuts
     /\ puts' = puts + 1
     /\ pairs' = IF n # 0 THEN [pairs EXCEPT ![n] = <<@[1], value>>]
                 ELSE IF memory THEN Append(pairs, <<key, value>>) ELSE pairs
     /\ hash' = IF n # 0 \/ memory THEN [hash EXCEPT ![key[1]] = value] ELSE hash
     /\ answer' = [got |-> IF n # 0 THEN pairs[n][2] ELSE Absent, java |-> hash[key[1]]]
     /\ UNCHANGED iterVars

Get(key) ==
  LET n == MapIndex(key)
  IN /\ answer' = [got |-> IF n # 0 THEN pairs[n][2] ELSE Absent, java |-> hash[key[1]]]
     /\ UNCHANGED <<pairs, hash, puts, iterVars>>

(* keySet or entrySet, then iterator: an index into the live map. *)
Iterate(i, what) ==
  /\ kind[i] = "none"
  /\ kind' = [kind EXCEPT ![i] = what]
  /\ index' = [index EXCEPT ![i] = 0]
  /\ visited' = [visited EXCEPT ![i] = <<>>]
  /\ entry' = [entry EXCEPT ![i] = 0]
  /\ fresh' = [fresh EXCEPT ![i] = {pairs[n][1][1] : n \in 1 .. Len(pairs)}]
  /\ UNCHANGED <<pairs, answer, hash, puts>>

HasNext(i) == kind[i] # "none" /\ index[i] < Len(pairs)

Step(i) ==
  /\ HasNext(i)
  /\ index' = [index EXCEPT ![i] = @ + 1]
  /\ visited' = [visited EXCEPT ![i] = Append(@, pairs[index[i] + 1][1][1])]
  /\ entry' = [entry EXCEPT ![i] = IF kind[i] = "entries" THEN index[i] + 1 ELSE 0]
  /\ UNCHANGED <<pairs, kind, fresh, answer, hash, puts>>

(* getKey and getValue of the entry, whenever the game calls them. *)
ReadEntry(i) ==
  /\ entry[i] # 0 /\ entry[i] <= Len(pairs)
  /\ answer' = [got |-> pairs[entry[i]][2], java |-> hash[pairs[entry[i]][1][1]]]
  /\ UNCHANGED <<pairs, hash, puts, iterVars>>

(* The game is done with an iterator. *)
Drop(i) ==
  /\ kind[i] # "none"
  /\ kind' = [kind EXCEPT ![i] = "none"]
  /\ index' = [index EXCEPT ![i] = 0]
  /\ visited' = [visited EXCEPT ![i] = <<>>]
  /\ entry' = [entry EXCEPT ![i] = 0]
  /\ fresh' = [fresh EXCEPT ![i] = {}]
  /\ UNCHANGED <<pairs, answer, hash, puts>>

Next ==
  \/ \E key \in Keys, value \in Values, memory \in BOOLEAN : Put(key, value, memory)
  \/ \E key \in Keys : Get(key)
  \/ \E i \in Iterators, what \in {"keys", "entries"} : Iterate(i, what)
  \/ \E i \in Iterators : Step(i) \/ ReadEntry(i) \/ Drop(i)

Spec == Init /\ [][Next]_mapVars

-----------------------------------------------------------------------------
(* The array answers as the HashMap would, through get, put and the entry   *)
(* views, however the text of a key was made into a String.                 *)
AnswersAsJava == answer.got = answer.java

(* An iterator gives no key twice, and when it ends it has given every key  *)
(* that was there when it was made, though puts went on meanwhile.          *)
TextsOf(i) == {visited[i][n] : n \in 1 .. Len(visited[i])}
WalksOnce ==
  \A i \in Iterators :
    /\ Cardinality(TextsOf(i)) = Len(visited[i])
    /\ kind[i] # "none" /\ ~ HasNext(i) => fresh[i] \subseteq TextsOf(i)

(* Growth only: what an entry view shows is its own key for good. *)
KeysStay ==
  [][ \A n \in 1 .. Len(pairs) : n <= Len(pairs') /\ pairs'[n][1] = pairs[n][1] ]_mapVars

MapSound == [](AnswersAsJava /\ WalksOnce) /\ KeysStay

-----------------------------------------------------------------------------
(* The inductive invariant *)

TypeOK ==
  /\ pairs \in Seq(Keys \X Values)
  /\ kind \in [Iterators -> {"none", "keys", "entries"}]
  /\ index \in [Iterators -> Nat] /\ entry \in [Iterators -> Nat]
  /\ visited \in [Iterators -> Seq(Texts)]
  /\ fresh \in [Iterators -> SUBSET Texts]
  /\ hash \in [Texts -> Values \cup {Absent}]

Text(n) == pairs[n][1][1]

(* The array has a text once, with the value of the map on Android, and     *)
(* that map has no other text.                                              *)
SameMap ==
  /\ \A n, m \in 1 .. Len(pairs) : Text(n) = Text(m) => n = m
  /\ \A n \in 1 .. Len(pairs) : hash[Text(n)] = pairs[n][2]
  /\ \A t \in Texts : (\A n \in 1 .. Len(pairs) : Text(n) # t) => hash[t] = Absent

(* An iterator has given the first of the texts that are there now. *)
Walked(i) ==
  /\ index[i] <= Len(pairs) /\ Len(visited[i]) = index[i]
  /\ \A n \in 1 .. index[i] : visited[i][n] = Text(n)
  /\ \A t \in fresh[i] : \E n \in 1 .. Len(pairs) : Text(n) = t

IInv == TypeOK /\ SameMap /\ AnswersAsJava /\ \A i \in Iterators : Walked(i)
=============================================================================
