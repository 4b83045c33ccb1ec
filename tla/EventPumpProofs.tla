--------------------------- MODULE EventPumpProofs ---------------------------
(***************************************************************************)
(* Proofs about EventPump, for any requests, timers, prompts and limits:   *)
(* the inductive invariant, and from it where an event is and when it      *)
(* fires, in which order a transaction is heard, and who owns a payload.   *)
(***************************************************************************)
EXTENDS EventPump, Positions, Functions, FiniteSetTheorems, SequenceTheorems, TLAPS

-----------------------------------------------------------------------------
(* Sequences *)

LEMMA AppendFacts ==
  ASSUME NEW Item, NEW s \in Seq(Item), NEW e \in Item
  PROVE  /\ Append(s, e) \in Seq(Item) /\ Len(s) \in Nat /\ Len(Append(s, e)) = Len(s) + 1
         /\ \A k \in 1 .. Len(s) : Append(s, e)[k] = s[k]
         /\ Append(s, e)[Len(s) + 1] = e
OBVIOUS

LEMMA TailFacts ==
  ASSUME NEW Item, NEW s \in Seq(Item), s # <<>>
  PROVE  /\ Tail(s) \in Seq(Item) /\ Len(s) \in Nat /\ Len(Tail(s)) = Len(s) - 1 /\ Len(s) >= 1
         /\ \A k \in 1 .. Len(s) - 1 : Tail(s)[k] = s[k + 1]
         /\ Head(s) = s[1] /\ Head(s) \in Item
OBVIOUS

(* The positions of the sequences. *)
LEMMA Domains ==
  ASSUME TypeOK, got \in [Ids -> Seq(CallbackNames)]
  PROVE  /\ DOMAIN queue = 1 .. Len(queue) /\ Len(queue) \in Nat
         /\ DOMAIN batch = 1 .. Len(batch) /\ Len(batch) \in Nat
         /\ DOMAIN script = 1 .. Len(script) /\ Len(script) \in Nat
         /\ DOMAIN dueList = 1 .. Len(dueList) /\ Len(dueList) \in Nat
         /\ \A i \in Ids : DOMAIN got[i] = 1 .. Len(got[i]) /\ Len(got[i]) \in Nat
BY DEF TypeOK

-----------------------------------------------------------------------------
(* Selected positions of a sequence *)

(* Ranks count the positions up to the number of all of them, and a greater *)
(* position has a greater rank.                                             *)
LEMMA RankFacts ==
  ASSUME NEW n \in Nat, NEW P \in SUBSET (1 .. n)
  PROVE  /\ IsFiniteSet(P) /\ Cardinality(P) \in Nat /\ Cardinality(P) <= n
         /\ \A i \in P : Rank(P, i) \in 1 .. Cardinality(P)
         /\ \A i, j \in P : i < j => Rank(P, i) < Rank(P, j)
<1>1. IsFiniteSet(1 .. n) /\ Cardinality(1 .. n) = n BY FS_Interval
<1>2. /\ IsFiniteSet(P) /\ Cardinality(P) \in Nat /\ Cardinality(P) <= n
  BY <1>1, FS_Subset, FS_CardinalityType
<1> DEFINE Upto(i) == {j \in P : j <= i}
<1>3. ASSUME NEW i \in P PROVE /\ IsFiniteSet(Upto(i)) /\ Rank(P, i) = Cardinality(Upto(i))
                               /\ Rank(P, i) \in 1 .. Cardinality(P)
  <2>1. IsFiniteSet(Upto(i)) /\ Cardinality(Upto(i)) <= Cardinality(P)
    <3>1. Upto(i) \in SUBSET P OBVIOUS
    <3> QED BY <1>2, <3>1, FS_Subset
  <2>2. Cardinality(Upto(i)) \in Nat BY <2>1, FS_CardinalityType
  <2>3. Upto(i) # {} BY i <= i
  <2>4. Cardinality(Upto(i)) # 0 BY <2>1, <2>3, FS_EmptySet
  <2>5. Rank(P, i) = Cardinality(Upto(i)) BY DEF Rank
  <2> QED BY <1>2, <2>1, <2>2, <2>4, <2>5
<1>4. ASSUME NEW i \in P, NEW j \in P, i < j PROVE Rank(P, i) < Rank(P, j)
  <2>1. Upto(i) \in SUBSET Upto(j)
    <3>1. \A k \in P : k \in Nat OBVIOUS
    <3>2. \A k \in Upto(i) : k \in Upto(j) BY <1>4, <3>1
    <3> QED BY <3>2
  <2>2. j \in Upto(j) /\ j \notin Upto(i) BY <1>4
  <2>3. Upto(i) # Upto(j) BY <2>2
  <2>4. /\ Cardinality(Upto(i)) <= Cardinality(Upto(j))
        /\ Cardinality(Upto(i)) # Cardinality(Upto(j))
    BY <1>3, <2>1, <2>3, FS_Subset
  <2> QED BY <1>2, <1>3, <2>4
<1> QED BY <1>2, <1>3, <1>4

(* Every rank up to their number is taken by one position, and the          *)
(* positions come in the order of their ranks.                              *)
LEMMA KthFacts ==
  ASSUME NEW n \in Nat, NEW P \in SUBSET (1 .. n)
  PROVE  /\ Cardinality(P) \in Nat /\ Cardinality(P) <= n
         /\ \A k \in 1 .. Cardinality(P) : Kth(P, k) \in P /\ Rank(P, Kth(P, k)) = k
         /\ \A i \in P : Rank(P, i) \in 1 .. Cardinality(P) /\ Kth(P, Rank(P, i)) = i
         /\ \A j, k \in 1 .. Cardinality(P) : j < k <=> Kth(P, j) < Kth(P, k)
<1> DEFINE N == Cardinality(P)
           rank == [i \in P |-> Rank(P, i)]
<1>1. /\ IsFiniteSet(P) /\ N \in Nat /\ N <= n
      /\ \A i \in P : Rank(P, i) \in 1 .. N
      /\ \A i, j \in P : i < j => Rank(P, i) < Rank(P, j)
  BY RankFacts
<1> HIDE DEF N
<1>2. \A i, j \in P : Rank(P, i) = Rank(P, j) => i = j
  <2> SUFFICES ASSUME NEW i \in P, NEW j \in P, i # j PROVE Rank(P, i) # Rank(P, j) OBVIOUS
  <2>1. i \in Nat /\ j \in Nat OBVIOUS
  <2>2. CASE i < j BY <1>1, <2>2
  <2>3. CASE j < i BY <1>1, <2>3
  <2> QED BY <2>1, <2>2, <2>3
<1>3. rank \in [P -> 1 .. N] BY <1>1
<1>4. rank \in Injection(P, 1 .. N) BY <1>2, <1>3 DEF Injection, IsInjective
<1>5. IsFiniteSet(1 .. N) /\ Cardinality(1 .. N) = N BY <1>1, FS_Interval
<1>6. rank \in Surjection(P, 1 .. N) BY <1>4, <1>5, FS_Injection DEF N
<1>7. \A k \in 1 .. N : \E i \in P : Rank(P, i) = k BY <1>6 DEF Surjection
<1>8. ASSUME NEW k \in 1 .. N PROVE Kth(P, k) \in P /\ Rank(P, Kth(P, k)) = k
  BY <1>7, <1>8 DEF Kth
<1>9. ASSUME NEW i \in P PROVE Kth(P, Rank(P, i)) = i BY <1>1, <1>2, <1>8
<1>10. ASSUME NEW j \in 1 .. N, NEW k \in 1 .. N PROVE j < k <=> Kth(P, j) < Kth(P, k)
  <2> DEFINE a == Kth(P, j)
             b == Kth(P, k)
  <2>1. a \in P /\ Rank(P, a) = j /\ b \in P /\ Rank(P, b) = k BY <1>8
  <2> HIDE DEF a, b
  <2>2. a \in Nat /\ b \in Nat BY <2>1
  <2>3. a < b => j < k BY <1>1, <2>1
  <2>4. b < a => k < j BY <1>1, <2>1
  <2>5. a = b => j = k BY <2>1
  <2>6. j < k <=> a < b BY <1>1, <2>2, <2>3, <2>4, <2>5
  <2> QED BY <2>6 DEF a, b
<1> QED BY <1>1, <1>8, <1>9, <1>10 DEF N

(* What is kept of a sequence is a sequence of its entries. *)
LEMMA SelectedFacts ==
  ASSUME NEW Item, NEW s \in Seq(Item), NEW P \in SUBSET (1 .. Len(s))
  PROVE  /\ Selected(s, P) \in Seq(Item) /\ Len(Selected(s, P)) = Cardinality(P)
         /\ Cardinality(P) \in Nat /\ Cardinality(P) <= Len(s)
         /\ \A k \in 1 .. Cardinality(P) : Selected(s, P)[k] = s[Kth(P, k)] /\ Kth(P, k) \in P
         /\ \A i \in P : /\ Rank(P, i) \in 1 .. Cardinality(P) /\ Kth(P, Rank(P, i)) = i
                         /\ Selected(s, P)[Rank(P, i)] = s[i]
<1> DEFINE N == Cardinality(P)
<1>1. Len(s) \in Nat OBVIOUS
<1>2. /\ N \in Nat /\ N <= Len(s)
      /\ \A k \in 1 .. N : Kth(P, k) \in P
      /\ \A i \in P : Rank(P, i) \in 1 .. N /\ Kth(P, Rank(P, i)) = i
  BY <1>1, KthFacts
<1>3. Selected(s, P) = [k \in 1 .. N |-> s[Kth(P, k)]] BY DEF Selected
<1> HIDE DEF N
<1>4. \A k \in 1 .. N : Selected(s, P)[k] = s[Kth(P, k)] BY <1>3
<1>5. \A i \in P : s[i] \in Item BY <1>1
<1>6. Selected(s, P) \in [1 .. N -> Item] BY <1>2, <1>3, <1>5
<1>7. Selected(s, P) \in Seq(Item) BY <1>2, <1>6, SeqDef
<1>8. Len(Selected(s, P)) = N BY <1>2, <1>6, <1>7, LenProperties
<1> QED BY <1>2, <1>4, <1>7, <1>8 DEF N

(* Some positions have a first. *)
LEMMA FirstPosition ==
  ASSUME NEW n \in Nat, NEW P \in SUBSET (1 .. n), P # {}
  PROVE  \E f \in P : \A i \in P : f <= i
<1>1. /\ Cardinality(P) \in Nat /\ IsFiniteSet(P) BY RankFacts
<1>2. Cardinality(P) # 0 BY <1>1, FS_EmptySet
<1>3. 1 \in 1 .. Cardinality(P) BY <1>1, <1>2
<1>4. Kth(P, 1) \in P BY <1>3, KthFacts
<1>5. ASSUME NEW i \in P PROVE Kth(P, 1) <= i
  <2>1. Rank(P, i) \in 1 .. Cardinality(P) /\ Kth(P, Rank(P, i)) = i BY KthFacts
  <2>2. 1 < Rank(P, i) => Kth(P, 1) < Kth(P, Rank(P, i)) BY <1>3, <2>1, KthFacts
  <2>3. Rank(P, i) = 1 \/ 1 < Rank(P, i) BY <1>1, <2>1
  <2>4. i \in Nat /\ Kth(P, 1) \in Nat
    <3>1. \A x \in P : x \in Nat OBVIOUS
    <3> QED BY <1>4, <3>1
  <2>5. CASE Rank(P, i) = 1
    <3>1. Kth(P, 1) = i BY <2>1, <2>5
    <3> QED BY <2>4, <3>1
  <2>6. CASE 1 < Rank(P, i)
    <3>1. Kth(P, 1) < i BY <2>1, <2>2, <2>6
    <3> QED BY <2>4, <3>1
  <2> QED BY <2>3, <2>5, <2>6
<1> QED BY <1>4, <1>5

-----------------------------------------------------------------------------
(* What a call puts into the queue *)

Joined(c) ==
  /\ Len(queue') = Len(queue) + 1
  /\ \A k \in 1 .. Len(queue) : queue'[k] = queue[k]
  /\ queue'[Len(queue) + 1] = c
  /\ live' = IF c.data THEN live \cup {c.id} ELSE live
  /\ lost' = lost /\ nomem' = nomem
Dropped(c) ==
  /\ queue' = queue /\ live' = live
  /\ \/ lost' = lost \cup {c.id} /\ nomem' = nomem
     \/ c.data /\ lost' = lost /\ nomem' = nomem \cup {c.id}

LEMMA EnqueueFacts ==
  ASSUME TypeOK, NEW c \in Callbacks, Enqueue(c)
  PROVE  /\ queue' \in Seq(Callbacks) /\ Len(queue') <= MaxQueue
         /\ live' \in SUBSET Ids /\ lost' \in SUBSET Ids /\ nomem' \in SUBSET Ids
         /\ Joined(c) \/ Dropped(c)
         /\ nomem' = nomem
<1>1. c.id \in Ids /\ c.data \in BOOLEAN BY DEF Callbacks
<1>2. CASE Len(queue) < MaxQueue
  <2>1. /\ queue' = Append(queue, c) /\ lost' = lost /\ nomem' = nomem
        /\ live' = IF c.data THEN live \cup {c.id} ELSE live
    BY <1>2 DEF Enqueue
  <2>2. /\ queue' \in Seq(Callbacks) /\ Len(queue') = Len(queue) + 1 /\ Len(queue) \in Nat
        /\ \A k \in 1 .. Len(queue) : queue'[k] = queue[k]
        /\ queue'[Len(queue) + 1] = c
    BY <2>1, AppendFacts DEF TypeOK
  <2>3. Len(queue') <= MaxQueue BY <1>2, <2>2, LimitsPositive
  <2>4. live' \in SUBSET Ids BY <1>1, <2>1 DEF TypeOK
  <2> QED BY <2>1, <2>2, <2>3, <2>4 DEF TypeOK, Joined
<1>3. CASE ~ (Len(queue) < MaxQueue)
  <2>1. lost' = lost \cup {c.id} /\ queue' = queue /\ live' = live /\ nomem' = nomem
    BY <1>3 DEF Enqueue
  <2> QED BY <1>1, <2>1 DEF TypeOK, Dropped
<1> QED BY <1>2, <1>3

LEMMA QueueCallbackFacts ==
  ASSUME TypeOK, NEW c \in Callbacks, QueueCallback(c)
  PROVE  /\ queue' \in Seq(Callbacks) /\ Len(queue') <= MaxQueue
         /\ live' \in SUBSET Ids /\ lost' \in SUBSET Ids /\ nomem' \in SUBSET Ids
         /\ Joined(c) \/ Dropped(c)
<1>1. CASE Enqueue(c) BY <1>1, EnqueueFacts
<1>2. CASE /\ c.data /\ nomem' = nomem \cup {c.id} /\ UNCHANGED <<queue, live, lost>>
  BY <1>2 DEF TypeOK, Dropped, Callbacks
<1> QED BY <1>1, <1>2 DEF QueueCallback

-----------------------------------------------------------------------------
(* Scripts *)

(* A callback of the shapes the code queues. *)
LEMMA CallbackType ==
  ASSUME NEW n \in CallbackNames, NEW i \in Ids, NEW d \in BOOLEAN
  PROVE  /\ Callback(n, i, d) \in Callbacks
         /\ Callback(n, i, d).name = n /\ Callback(n, i, d).id = i /\ Callback(n, i, d).data = d
BY DEF Callback, Callbacks

(* A script is about its request alone, copies one payload at most, and for *)
(* an Android transaction its stages rise.                                  *)
LEMMA ScriptFacts ==
  ASSUME NEW r \in Requests, NEW how \in Hows \ {"none"}
  PROVE  /\ Script(r, how) \in Seq(Callbacks) /\ Len(Script(r, how)) \in 1 .. 3
         /\ DOMAIN Script(r, how) = 1 .. Len(Script(r, how))
         /\ \A k \in DOMAIN Script(r, how) :
              /\ Script(r, how)[k].id = r
              /\ Script(r, how)[k].name # "HttpTransactionCleanup"
              /\ Stage(Script(r, how)[k].name) \in 1 .. 3
         /\ Alone(Script(r, how))
         /\ \A j, k \in DOMAIN Script(r, how) :
              j < k => Stage(Script(r, how)[j].name) < Stage(Script(r, how)[k].name)
<1> DEFINE s == Script(r, how)
<1>0. r \in Ids BY DEF Ids
<1>1. /\ "HttpReceivedResponse" \in CallbackNames /\ "HttpReceivedData" \in CallbackNames
      /\ "HttpTransactionComplete" \in CallbackNames /\ "HttpTransactionError" \in CallbackNames
      /\ "onHTTPResponse" \in CallbackNames /\ "onDownloadResponse" \in CallbackNames
  BY DEF CallbackNames, Terminals
<1>2. CASE how = "data"
  <2> DEFINE x == Callback("HttpReceivedResponse", r, FALSE)
             y == Callback("HttpReceivedData", r, TRUE)
             z == Callback("HttpTransactionComplete", r, FALSE)
  <2>1. s = <<x, y, z>> BY <1>2 DEF Script
  <2>a. x \in Callbacks /\ x.name = "HttpReceivedResponse" /\ x.id = r /\ x.data = FALSE
    BY <1>0, <1>1, CallbackType
  <2>b. y \in Callbacks /\ y.name = "HttpReceivedData" /\ y.id = r /\ y.data = TRUE
    BY <1>0, <1>1, CallbackType
  <2>c. z \in Callbacks /\ z.name = "HttpTransactionComplete" /\ z.id = r /\ z.data = FALSE
    BY <1>0, <1>1, CallbackType
  <2> HIDE DEF x, y, z
  <2>2. /\ s \in Seq(Callbacks) /\ Len(s) = 3 /\ DOMAIN s = 1 .. 3
        /\ s[1].name = "HttpReceivedResponse" /\ s[1].id = r /\ s[1].data = FALSE
        /\ s[2].name = "HttpReceivedData" /\ s[2].id = r /\ s[2].data = TRUE
        /\ s[3].name = "HttpTransactionComplete" /\ s[3].id = r /\ s[3].data = FALSE
    BY <2>1, <2>a, <2>b, <2>c
  <2> HIDE DEF s
  <2>3. \A k \in DOMAIN s : k = 1 \/ k = 2 \/ k = 3 BY <2>2
  <2>4. Stage(s[1].name) = 1 /\ Stage(s[2].name) = 2 /\ Stage(s[3].name) = 3
    BY <2>2 DEF Stage, Terminals
  <2>5. Alone(s) BY <2>2, <2>3 DEF Alone
  <2>6. \A j, k \in DOMAIN s : j < k => Stage(s[j].name) < Stage(s[k].name)
    BY <2>2, <2>3, <2>4
  <2>7. \A k \in DOMAIN s : s[k].id = r /\ s[k].name # "HttpTransactionCleanup" BY <2>2, <2>3
  <2>8. \A k \in DOMAIN s : Stage(s[k].name) \in 1 .. 3 BY <2>3, <2>4
  <2> QED BY <2>2, <2>5, <2>6, <2>7, <2>8 DEF s
<1>3. CASE how = "empty"
  <2> DEFINE x == Callback("HttpReceivedResponse", r, FALSE)
             z == Callback("HttpTransactionComplete", r, FALSE)
  <2>1. s = <<x, z>> BY <1>3 DEF Script
  <2>a. x \in Callbacks /\ x.name = "HttpReceivedResponse" /\ x.id = r /\ x.data = FALSE
    BY <1>0, <1>1, CallbackType
  <2>b. z \in Callbacks /\ z.name = "HttpTransactionComplete" /\ z.id = r /\ z.data = FALSE
    BY <1>0, <1>1, CallbackType
  <2> HIDE DEF x, z
  <2>2. /\ s \in Seq(Callbacks) /\ Len(s) = 2 /\ DOMAIN s = 1 .. 2
        /\ s[1].name = "HttpReceivedResponse" /\ s[1].id = r /\ s[1].data = FALSE
        /\ s[2].name = "HttpTransactionComplete" /\ s[2].id = r /\ s[2].data = FALSE
    BY <2>1, <2>a, <2>b
  <2> HIDE DEF s
  <2>3. \A k \in DOMAIN s : k = 1 \/ k = 2 BY <2>2
  <2>4. Stage(s[1].name) = 1 /\ Stage(s[2].name) = 3 BY <2>2 DEF Stage, Terminals
  <2>5. Alone(s) BY <2>2, <2>3 DEF Alone
  <2>6. \A j, k \in DOMAIN s : j < k => Stage(s[j].name) < Stage(s[k].name)
    BY <2>2, <2>3, <2>4
  <2>7. \A k \in DOMAIN s : s[k].id = r /\ s[k].name # "HttpTransactionCleanup" BY <2>2, <2>3
  <2>8. \A k \in DOMAIN s : Stage(s[k].name) \in 1 .. 3 BY <2>3, <2>4
  <2> QED BY <2>2, <2>5, <2>6, <2>7, <2>8 DEF s
<1>4. ASSUME NEW n \in Terminals, NEW d \in BOOLEAN,
             s = <<Callback(n, r, d)>>
      PROVE  /\ s \in Seq(Callbacks) /\ Len(s) \in 1 .. 3 /\ DOMAIN s = 1 .. Len(s)
             /\ \A k \in DOMAIN s : /\ s[k].id = r /\ s[k].name # "HttpTransactionCleanup"
                                       /\ Stage(s[k].name) \in 1 .. 3
             /\ Alone(s)
             /\ \A j, k \in DOMAIN s : j < k => Stage(s[j].name) < Stage(s[k].name)
  <2>1. n \in CallbackNames /\ n # "HttpTransactionCleanup" /\ Stage(n) = 3
    BY DEF CallbackNames, Terminals, Stage
  <2>2. /\ s \in Seq(Callbacks) /\ Len(s) = 1 /\ DOMAIN s = 1 .. 1
        /\ s[1].name = n /\ s[1].id = r
    BY <1>0, <1>4, <2>1, CallbackType
  <2> HIDE DEF s
  <2>3. \A k \in DOMAIN s : k = 1 BY <2>2
  <2>5. Alone(s) BY <2>3 DEF Alone
  <2>6. \A j, k \in DOMAIN s : ~ (j < k) BY <2>3
  <2> QED BY <2>1, <2>2, <2>3, <2>5, <2>6
<1>5. CASE how = "error"
  <2>1. s = <<Callback("HttpTransactionError", r, FALSE)>> BY <1>5 DEF Script
  <2> QED BY <1>4, <2>1 DEF Terminals
<1>6. CASE how = "body"
  <2>1. s = <<Callback("onHTTPResponse", r, TRUE)>> BY <1>6 DEF Script
  <2> QED BY <1>4, <2>1 DEF Terminals
<1>7. CASE how = "nobody"
  <2>1. s = <<Callback("onHTTPResponse", r, FALSE)>> BY <1>7 DEF Script
  <2> QED BY <1>4, <2>1 DEF Terminals
<1>8. CASE how = "file"
  <2>1. s = <<Callback("onDownloadResponse", r, TRUE)>> BY <1>8 DEF Script
  <2> QED BY <1>4, <2>1 DEF Terminals
<1> QED BY <1>2, <1>3, <1>5, <1>6, <1>7, <1>8 DEF Hows

-----------------------------------------------------------------------------
(* Parts of the invariant a step leaves alone *)

SameCall == pc = "native" <=> pc' = "native"

LEMMA SameFitting ==
  Fitting /\ UNCHANGED <<queue, batch, script, completing, got, reply, cleaned, table>>
    => Fitting'
BY DEF Fitting, Fits, Story

LEMMA SameOrder ==
  InOrder /\ SameCall /\ UNCHANGED <<queue, batch, script, got>> => InOrder'
BY DEF InOrder, Rising, Precede, Follows, Uncalled, SameCall

LEMMA SameWhole ==
  Whole /\ SameCall /\ UNCHANGED <<queue, batch, script, got, reply, lost, nomem>> => Whole'
BY DEF Whole, AllSaid, Said, Story, Uncalled, SameCall

LEMMA SameOwned ==
  Owned /\ UNCHANGED <<queue, batch, script, live>> => Owned'
BY DEF Owned, Alone

LEMMA SameReleased ==
  OneReleased /\ UNCHANGED <<released, attempted>> => OneReleased'
BY DEF OneReleased

LEMMA SamePlaces ==
  ASSUME NEW t \in Timers, SameCall, UNCHANGED <<queue, batch, slots, dueList, got>>
  PROVE  /\ InSlot(t)' <=> InSlot(t)
         /\ InDue(t)' <=> InDue(t)
         /\ InQueue(t)' <=> InQueue(t)
         /\ InBatch(t)' <=> InBatch(t)
         /\ Reached(t)' <=> Reached(t)
BY DEF InSlot, InDue, InQueue, InBatch, Reached, Uncalled, SameCall

LEMMA SamePlace ==
  ASSUME NEW t \in Timers, OnePlace(t), SameCall,
         UNCHANGED <<queue, batch, slots, dueList, got, asked, lost>>
  PROVE  OnePlace(t)'
BY SamePlaces DEF OnePlace

LEMMA SameTime ==
  ASSUME NEW t \in Timers, InTime(t), SameCall,
         UNCHANGED <<queue, batch, slots, fires, dueList, got, asked, released, now>>
  PROVE  InTime(t)'
BY SamePlaces DEF InTime

(* What fitted still does when no told ending changes. *)
LEMMA StillFits ==
  ASSUME \A r \in Requests : reply[r] # "none" => reply'[r] = reply[r],
         cleaned \subseteq cleaned', NEW c \in Callbacks, Fits(c)
  PROVE  Fits(c)'
<1>1. CASE c.id \in Requests
  <2>1. reply'[c.id] = reply[c.id] BY <1>1 DEF Fits
  <2> QED BY <2>1 DEF Fits, Story
<1>2. CASE c.id \notin Requests
  BY <1>2 DEF Fits, Requests
<1> QED BY <1>1, <1>2

-----------------------------------------------------------------------------
(* What a callback that joins the queue must bring *)

Grows(c) ==
  /\ Joined(c) \/ Dropped(c)
  /\ queue' \in Seq(Callbacks)

LEMMA QueueFits ==
  ASSUME IInv, NEW c \in Callbacks, Grows(c), Fits(c)',
         \A d \in Callbacks : Fits(d) => Fits(d)'
  PROVE  \A k \in DOMAIN queue' : Fits(queue[k])'
<1>1. /\ DOMAIN queue = 1 .. Len(queue) /\ Len(queue) \in Nat
      /\ DOMAIN queue' = 1 .. Len(queue') /\ Len(queue') \in Nat
  BY Domains DEF IInv, Grows
<1>2. \A k \in DOMAIN queue : Fits(queue[k]) /\ queue[k] \in Callbacks
  BY DEF IInv, Fitting, TypeOK
<1>3. CASE Joined(c)
  <2> SUFFICES ASSUME NEW k \in DOMAIN queue' PROVE Fits(queue[k])' OBVIOUS
  <2>1. CASE k = Len(queue) + 1
    <3>1. queue'[k] = c BY <1>3, <2>1 DEF Joined
    <3> QED BY <3>1 DEF Fits, Story
  <2>2. CASE k # Len(queue) + 1
    <3>1. k \in DOMAIN queue /\ queue'[k] = queue[k] BY <1>1, <1>3, <2>2 DEF Joined
    <3>2. PICK d \in Callbacks : d = queue[k] BY <1>2, <3>1
    <3>3. Fits(d)' BY <1>2, <3>1, <3>2
    <3> QED BY <3>1, <3>2, <3>3 DEF Fits, Story
  <2> QED BY <2>1, <2>2
<1>4. CASE Dropped(c)
  <2> SUFFICES ASSUME NEW k \in DOMAIN queue' PROVE Fits(queue[k])' OBVIOUS
  <2>1. k \in DOMAIN queue /\ queue'[k] = queue[k] BY <1>4 DEF Dropped
  <2>2. PICK d \in Callbacks : d = queue[k] BY <1>2, <2>1
  <2>3. Fits(d)' BY <1>2, <2>1, <2>2
  <2> QED BY <2>1, <2>2, <2>3 DEF Fits, Story
<1> QED BY <1>3, <1>4 DEF Grows

(* It comes after all that its transaction has heard or will hear sooner.   *)
LEMMA QueueOrder ==
  ASSUME IInv, NEW c \in Callbacks, Grows(c), UNCHANGED <<pc, batch, got>>,
         Rising(script)', Precede(batch, script)', \A k \in DOMAIN script' : Follows(script[k])',
         \A j \in DOMAIN queue, k \in DOMAIN script' :
           queue[j].id = script'[k].id /\ queue[j].id \in Android =>
             Stage(queue[j].name) < Stage(script'[k].name),
         c.id \in Android =>
           /\ Follows(c)
           /\ \A j \in DOMAIN batch :
                batch[j].id = c.id => Stage(batch[j].name) < Stage(c.name)
           /\ \A j \in DOMAIN queue :
                queue[j].id = c.id => Stage(queue[j].name) < Stage(c.name)
           /\ \A k \in DOMAIN script' :
                script'[k].id = c.id => Stage(c.name) < Stage(script'[k].name)
  PROVE  InOrder'
<1>1. /\ DOMAIN queue = 1 .. Len(queue) /\ Len(queue) \in Nat
      /\ DOMAIN queue' = 1 .. Len(queue') /\ Len(queue') \in Nat
  BY Domains DEF IInv, Grows
<1>2. InOrder BY DEF IInv
<1>3. CASE Joined(c)
  <2>1. /\ \A k \in DOMAIN queue : k \in DOMAIN queue' /\ queue'[k] = queue[k]
        /\ \A k \in DOMAIN queue' : k \in DOMAIN queue \/ k = Len(queue) + 1
        /\ queue'[Len(queue) + 1] = c
    BY <1>1, <1>3 DEF Joined
  <2>2. Rising(queue)'
    <3> SUFFICES ASSUME NEW j \in DOMAIN queue', NEW k \in DOMAIN queue', j < k,
                        queue'[j].id = queue'[k].id, queue'[j].id \in Android
                 PROVE  Stage(queue'[j].name) < Stage(queue'[k].name)
      BY DEF Rising
    <3>1. j \in DOMAIN queue BY <1>1, <1>3 DEF Joined
    <3>2. CASE k = Len(queue) + 1 BY <2>1, <3>1, <3>2
    <3>3. CASE k # Len(queue) + 1 BY <1>2, <2>1, <3>1, <3>3 DEF InOrder, Rising
    <3> QED BY <3>2, <3>3
  <2>3. Precede(batch, queue)'
    <3> SUFFICES ASSUME NEW j \in DOMAIN batch, NEW k \in DOMAIN queue',
                        batch[j].id = queue'[k].id, batch[j].id \in Android
                 PROVE  Stage(batch[j].name) < Stage(queue'[k].name)
      BY DEF Precede
    <3>2. CASE k = Len(queue) + 1 BY <2>1, <3>2
    <3>3. CASE k # Len(queue) + 1 BY <1>2, <2>1, <3>3 DEF InOrder, Precede
    <3> QED BY <3>2, <3>3
  <2>4. Precede(queue, script)'
    <3> SUFFICES ASSUME NEW j \in DOMAIN queue', NEW k \in DOMAIN script',
                        queue'[j].id = script'[k].id, queue'[j].id \in Android
                 PROVE  Stage(queue'[j].name) < Stage(script'[k].name)
      BY DEF Precede
    <3>2. CASE j = Len(queue) + 1 BY <2>1, <3>2
    <3>3. CASE j # Len(queue) + 1 BY <2>1, <3>3
    <3> QED BY <3>2, <3>3
  <2>5. ASSUME NEW k \in DOMAIN queue' PROVE Follows(queue[k])'
    <3>2. CASE k = Len(queue) + 1 BY <2>1, <3>2 DEF Follows
    <3>3. CASE k # Len(queue) + 1 BY <1>2, <2>1, <3>3 DEF InOrder, Follows
    <3> QED BY <3>2, <3>3
  <2>6. /\ \A r \in Android : \A j, k \in DOMAIN got[r] : j < k => Stage(got[r][j]) < Stage(got[r][k])
        /\ Rising(batch) /\ \A k \in DOMAIN batch : Uncalled(k) => Follows(batch[k])
    BY <1>2 DEF InOrder
  <2>7. /\ (\A r \in Android : \A j, k \in DOMAIN got[r] : j < k => Stage(got[r][j]) < Stage(got[r][k]))'
        /\ Rising(batch)' /\ (\A k \in DOMAIN batch : Uncalled(k) => Follows(batch[k]))'
    BY <2>6 DEF Rising, Uncalled, Follows
  <2> QED BY <2>2, <2>3, <2>4, <2>5, <2>7 DEF InOrder
<1>4. CASE Dropped(c)
  <2>1. queue' = queue BY <1>4 DEF Dropped
  <2>2. Rising(queue)' /\ Precede(batch, queue)' /\ \A k \in DOMAIN queue' : Follows(queue[k])'
    BY <1>2, <2>1 DEF InOrder, Rising, Precede, Follows
  <2>3. Precede(queue, script)' BY <2>1 DEF Precede
  <2>6. /\ \A r \in Android : \A j, k \in DOMAIN got[r] : j < k => Stage(got[r][j]) < Stage(got[r][k])
        /\ Rising(batch) /\ \A k \in DOMAIN batch : Uncalled(k) => Follows(batch[k])
    BY <1>2 DEF InOrder
  <2>7. /\ (\A r \in Android : \A j, k \in DOMAIN got[r] : j < k => Stage(got[r][j]) < Stage(got[r][k]))'
        /\ Rising(batch)' /\ (\A k \in DOMAIN batch : Uncalled(k) => Follows(batch[k]))'
    BY <2>6 DEF Rising, Uncalled, Follows
  <2> QED BY <2>2, <2>3, <2>7 DEF InOrder
<1> QED BY <1>3, <1>4 DEF Grows

(* A payload is new to its owner.                                           *)
LEMMA QueueOwned ==
  ASSUME IInv, NEW c \in Callbacks, Grows(c), UNCHANGED batch, c.data => c.id \notin live,
         Alone(script)', \A k \in DOMAIN script' : script'[k].data => script'[k].id \notin live'
  PROVE  Owned'
<1>1. /\ DOMAIN queue = 1 .. Len(queue) /\ Len(queue) \in Nat
      /\ DOMAIN queue' = 1 .. Len(queue') /\ Len(queue') \in Nat
  BY Domains DEF IInv, Grows
<1>2. Owned BY DEF IInv
<1>3. CASE Joined(c)
  <2>1. /\ \A k \in DOMAIN queue : k \in DOMAIN queue' /\ queue'[k] = queue[k]
        /\ \A k \in DOMAIN queue' : k \in DOMAIN queue \/ k = Len(queue) + 1
        /\ queue'[Len(queue) + 1] = c /\ Len(queue) + 1 \in DOMAIN queue'
        /\ live' = IF c.data THEN live \cup {c.id} ELSE live
    BY <1>1, <1>3 DEF Joined
  <2>2. \A k \in DOMAIN queue : queue[k].data => queue[k].id \in live BY <1>2 DEF Owned
  <2>3. \A k \in DOMAIN batch : batch[k].data => batch[k].id \in live BY <1>2 DEF Owned
  <2>4. \A j, k \in DOMAIN queue' :
          queue'[j].id = queue'[k].id /\ queue'[j].data /\ queue'[k].data => j = k
    <3> SUFFICES ASSUME NEW j \in DOMAIN queue', NEW k \in DOMAIN queue',
                        queue'[j].id = queue'[k].id, queue'[j].data, queue'[k].data
                 PROVE  j = k
      OBVIOUS
    <3>1. CASE j = Len(queue) + 1 BY <2>1, <2>2, <3>1
    <3>2. CASE k = Len(queue) + 1 BY <2>1, <2>2, <3>2
    <3>3. CASE j \in DOMAIN queue /\ k \in DOMAIN queue BY <1>2, <2>1, <3>3 DEF Owned, Alone
    <3> QED BY <2>1, <3>1, <3>2, <3>3
  <2>5. \A j \in DOMAIN queue', k \in DOMAIN batch :
          queue'[j].data /\ batch[k].data => queue'[j].id # batch[k].id
    <3> SUFFICES ASSUME NEW j \in DOMAIN queue', NEW k \in DOMAIN batch,
                        queue'[j].data, batch[k].data
                 PROVE  queue'[j].id # batch[k].id
      OBVIOUS
    <3>1. CASE j = Len(queue) + 1 BY <2>1, <2>3, <3>1
    <3>2. CASE j \in DOMAIN queue BY <1>2, <2>1, <3>2 DEF Owned
    <3> QED BY <2>1, <3>1, <3>2
  <2>6. \A k \in DOMAIN queue' : queue'[k].data => queue'[k].id \in live' BY <2>1, <2>2
  <2>7. \A k \in DOMAIN batch : batch[k].data => batch[k].id \in live' BY <2>1, <2>3
  <2>8. \A i \in live' : \/ \E k \in DOMAIN queue' : queue'[k].id = i /\ queue'[k].data
                         \/ \E k \in DOMAIN batch : batch[k].id = i /\ batch[k].data
    <3> SUFFICES ASSUME NEW i \in live'
                 PROVE  \/ \E k \in DOMAIN queue' : queue'[k].id = i /\ queue'[k].data
                        \/ \E k \in DOMAIN batch : batch[k].id = i /\ batch[k].data
      OBVIOUS
    <3>1. CASE i \in live BY <1>2, <2>1, <3>1 DEF Owned
    <3>2. CASE i \notin live BY <2>1, <3>2
    <3> QED BY <3>1, <3>2
  <2> QED BY <1>2, <2>4, <2>5, <2>6, <2>7, <2>8 DEF Owned, Alone
<1>4. CASE Dropped(c)
  BY <1>2, <1>4 DEF Dropped, Owned, Alone
<1> QED BY <1>3, <1>4 DEF Grows

(* What was said stays said: a callback the script gives up is the one that *)
(* joins.                                                                   *)
LEMMA QueueWhole ==
  ASSUME IInv, NEW c \in Callbacks, Grows(c), UNCHANGED <<pc, batch, got>>,
         \A k \in DOMAIN script :
           script[k] = c \/ \E j \in DOMAIN script' : script'[j] = script[k],
         \A r \in Android \ {c.id} : reply'[r] = reply[r],
         c.id \in Android => \/ reply'[c.id] = reply[c.id]
                             \/ \A n \in Story(c.id)' : n = c.name
  PROVE  Whole'
<1>1. /\ DOMAIN queue = 1 .. Len(queue) /\ Len(queue) \in Nat
      /\ DOMAIN queue' = 1 .. Len(queue') /\ Len(queue') \in Nat
  BY Domains DEF IInv, Grows
<1> SUFFICES ASSUME NEW r \in Android \ (lost' \cup nomem'), reply'[r] # "none",
                    NEW n \in Story(r)'
             PROVE  Said(r, n)'
  BY DEF Whole, AllSaid
<1>2. r \notin lost \cup nomem BY DEF Grows, Joined, Dropped
<1>3. ASSUME reply'[r] = reply[r] PROVE Said(r, n)
  <2>1. Story(r)' = Story(r) BY <1>3 DEF Story
  <2>2. n \in Story(r) /\ reply[r] # "none" BY <1>3, <2>1
  <2> QED BY <1>2, <2>2 DEF IInv, Whole, AllSaid
<1>4. CASE Joined(c)
  <2>1. /\ \A k \in DOMAIN queue : k \in DOMAIN queue' /\ queue'[k] = queue[k]
        /\ queue'[Len(queue) + 1] = c /\ Len(queue) + 1 \in DOMAIN queue'
    BY <1>1, <1>4 DEF Joined
  <2>2. CASE reply'[r] = reply[r] BY <1>3, <2>1, <2>2 DEF Said, Uncalled
  <2>3. CASE reply'[r] # reply[r] BY <2>1, <2>3 DEF Said
  <2> QED BY <2>2, <2>3
<1>5. CASE Dropped(c)
  <2>1. r # c.id /\ queue' = queue BY <1>5 DEF Dropped
  <2>2. Said(r, n) BY <1>3, <2>1
  <2> QED BY <2>1, <2>2 DEF Said, Uncalled
<1> QED BY <1>4, <1>5 DEF Grows

(* The events it does not speak of stay where they are.                     *)
LEMMA QueueOthers ==
  ASSUME IInv, NEW c \in Callbacks, Grows(c), UNCHANGED <<pc, batch, got, slots>>,
         NEW t \in Timers, t # c.id
  PROVE  /\ InSlot(t)' <=> InSlot(t)
         /\ InQueue(t)' <=> InQueue(t)
         /\ InBatch(t)' <=> InBatch(t)
         /\ Reached(t)' <=> Reached(t)
         /\ t \in lost' <=> t \in lost
         /\ (\A j, k \in DOMAIN queue : queue[j].id = t /\ queue[k].id = t => j = k)'
<1>1. /\ DOMAIN queue = 1 .. Len(queue) /\ Len(queue) \in Nat
      /\ DOMAIN queue' = 1 .. Len(queue') /\ Len(queue') \in Nat
  BY Domains DEF IInv, Grows
<1>2. /\ InSlot(t)' <=> InSlot(t)
      /\ InBatch(t)' <=> InBatch(t)
      /\ Reached(t)' <=> Reached(t)
  BY DEF InSlot, InBatch, Reached, Uncalled
<1>3. \A j, k \in DOMAIN queue : queue[j].id = t /\ queue[k].id = t => j = k
  BY DEF IInv, OnePlace
<1>4. t \in lost' <=> t \in lost BY DEF Grows, Joined, Dropped
<1>5. CASE Joined(c)
  <2>1. /\ \A k \in DOMAIN queue : k \in DOMAIN queue' /\ queue'[k] = queue[k]
        /\ \A k \in DOMAIN queue' : queue'[k].id = t => k \in DOMAIN queue /\ queue'[k] = queue[k]
    BY <1>1, <1>5 DEF Joined
  <2>2. InQueue(t)' <=> InQueue(t) BY <2>1 DEF InQueue
  <2> QED BY <1>2, <1>3, <1>4, <2>1, <2>2
<1>6. CASE Dropped(c)
  <2>1. queue' = queue BY <1>6 DEF Dropped
  <2> QED BY <1>2, <1>3, <1>4, <2>1 DEF InQueue
<1> QED BY <1>5, <1>6 DEF Grows

(* ... and if it speaks of no event and no timer moves, all do.             *)
LEMMA QueuePlaces ==
  ASSUME IInv, NEW c \in Callbacks, Grows(c), c.id \notin Timers,
         UNCHANGED <<pc, batch, got, slots, fires, dueList, asked, released, now>>
  PROVE  \A t \in Timers : OnePlace(t)' /\ InTime(t)'
<1> SUFFICES ASSUME NEW t \in Timers PROVE OnePlace(t)' /\ InTime(t)' OBVIOUS
<1>1. /\ InSlot(t)' <=> InSlot(t)
      /\ InQueue(t)' <=> InQueue(t)
      /\ InBatch(t)' <=> InBatch(t)
      /\ Reached(t)' <=> Reached(t)
      /\ t \in lost' <=> t \in lost
      /\ (\A j, k \in DOMAIN queue : queue[j].id = t /\ queue[k].id = t => j = k)'
  BY QueueOthers
<1>2. InDue(t)' <=> InDue(t) BY DEF InDue
<1>3. OnePlace(t) /\ InTime(t) BY DEF IInv
<1>4. OnePlace(t)' BY <1>1, <1>2, <1>3 DEF OnePlace
<1>5. InTime(t)' BY <1>1, <1>2, <1>3 DEF InTime
<1> QED BY <1>4, <1>5

-----------------------------------------------------------------------------
(* The initial state, and the steps of http_pump *)

LEMMA InitHolds == Init => IInv
<1> SUFFICES ASSUME Init PROVE IInv OBVIOUS
<1> USE DEF Init
<1>1. TypeOK /\ IsFiniteSet(table)
  <2>1. Cardinality(table) = 0 /\ IsFiniteSet(table) BY FS_EmptySet
  <2>2. /\ NoOne \notin Ids /\ MaxTime \in Nat /\ Never \in 0 .. Never /\ 0 \in 0 .. MaxTime
        /\ MaxRequests \in Nat /\ MaxQueue \in Nat
    BY IdsDistinct, LimitsPositive DEF Never
  <2>3. queue \in Seq(Callbacks) /\ Len(queue) <= MaxQueue
        /\ batch \in Seq(Callbacks) /\ Len(batch) <= MaxQueue
        /\ dueList \in Seq(Timers) /\ script \in Seq(Callbacks)
    BY <2>2
  <2>4. /\ slots \in [1..MaxTimers -> Timers \cup {NoOne}]
        /\ fires \in [Timers -> 0..Never] /\ asked \in [Timers -> 0..Never]
        /\ reply \in [Requests -> Hows]
    BY <2>2 DEF Empty, Hows
  <2>5. /\ pc \in {"http", "draw", "due", "run", "native"} /\ attempted \in BOOLEAN
        /\ now \in 0 .. MaxTime /\ table \in SUBSET Requests /\ completing \in table \cup {NoOne}
        /\ cleaned \in SUBSET Android /\ live \in SUBSET Ids /\ released \in SUBSET Timers
        /\ lost \in SUBSET Ids /\ nomem \in SUBSET Ids
    BY <2>2
  <2>6. Cardinality(table) <= MaxRequests BY <2>1, <2>2
  <2> HIDE DEF Init
  <2> QED BY <2>1, <2>3, <2>4, <2>5, <2>6 DEF TypeOK
<1>2. got \in [Ids -> Seq(CallbackNames)] /\ \A i \in Ids : got[i] = <<>> OBVIOUS
<1>3. Requests \subseteq Ids /\ Timers \subseteq Ids /\ Android \subseteq Requests
  BY DEF Ids, Requests
<1>4. Control BY DEF Control
<1>5. Fitting BY <1>2, <1>3 DEF Fitting
<1>6. InOrder BY <1>2, <1>3 DEF InOrder, Rising, Precede
<1>7. Whole BY <1>3 DEF Whole, AllSaid
<1>8. Owned BY DEF Owned, Alone
<1>9. OneReleased BY DEF OneReleased
<1>10. ASSUME NEW t \in Timers PROVE OnePlace(t) /\ InTime(t)
  <2>1. ~ (InSlot(t) \/ InDue(t) \/ InQueue(t) \/ InBatch(t) \/ Reached(t) \/ t \in lost)
    <3>1. \A s \in 1 .. MaxTimers : slots[s] # t
      BY <1>3, IdsDistinct DEF Empty
    <3> QED BY <1>2, <1>3, <3>1 DEF InSlot, InDue, InQueue, InBatch, Reached
  <2>2. Len(got[t]) <= 1 BY <1>2, <1>3
  <2>3. \A s \in 1 .. MaxTimers : slots[s] # t BY <2>1 DEF InSlot
  <2>4. asked[t] = Never OBVIOUS
  <2>5. OnePlace(t) BY <2>1, <2>2, <2>3, <2>4 DEF OnePlace
  <2> QED BY <2>1, <2>5 DEF InTime
<1> QED BY <1>1, <1>2, <1>4, <1>5, <1>6, <1>7, <1>8, <1>9, <1>10 DEF IInv

(* Nothing is said, and no payload held, of a request that has not ended.   *)
LEMMA Unsaid ==
  ASSUME IInv, NEW r \in Requests, reply[r] = "none"
  PROVE  /\ \A k \in DOMAIN queue : queue[k].id # r
         /\ \A k \in DOMAIN batch : batch[k].id # r
         /\ \A k \in DOMAIN script : script[k].id # r
         /\ r \in Android => DOMAIN got[r] = {}
         /\ r \notin live
<1>1. /\ \A k \in DOMAIN queue : queue[k].id # r
      /\ \A k \in DOMAIN batch : batch[k].id # r
      /\ \A k \in DOMAIN script : script[k].id # r
  BY DEF IInv, Fitting, Fits
<1>2. r \in Android => DOMAIN got[r] = {} BY DEF IInv, Fitting
<1>3. r \notin live BY <1>1 DEF IInv, Owned
<1> QED BY <1>1, <1>2, <1>3

LEMMA KindFacts ==
  /\ Android \subseteq Requests /\ Requests \subseteq Ids /\ Timers \subseteq Ids
  /\ Prompts \subseteq Ids /\ NoOne \notin Ids
  /\ \A r \in Requests : r \notin Timers /\ r \notin Prompts
  /\ \A t \in Timers : t \notin Prompts
  /\ \A r \in Requests : Endings(r) \subseteq Hows \ {"none"} /\ Refusal(r) \in Hows \ {"none"}
BY IdsDistinct DEF Requests, Ids, Endings, Refusal, Hows

LEMMA CompleteStep ==
  ASSUME IInv, NEW r \in Requests, Complete(r)
  PROVE  IInv'
<1>1. /\ pc = "http" /\ completing = NoOne /\ r \in table /\ completing' = r
      /\ UNCHANGED <<pc, batch, queue, live, lost, nomem, slots, fires, dueList, attempted,
                     asked, released, table, cleaned, now, got>>
  BY DEF Complete, mainVars, queueVars, timerVars
<1>2. PICK how \in Endings(r) : reply' = [reply EXCEPT ![r] = how] /\ script' = Script(r, how)
  BY DEF Complete
<1>3. how \in Hows \ {"none"} /\ r # NoOne BY <1>2, KindFacts
<1>4. /\ reply \in [Requests -> Hows] /\ TypeOK BY DEF IInv, TypeOK
<1>5. reply'[r] = how /\ \A o \in Requests \ {r} : reply'[o] = reply[o] BY <1>2, <1>4
<1>6. script = <<>> BY <1>1 DEF IInv, Control
<1>7. reply[r] = "none" BY <1>1, <1>3 DEF IInv, Fitting
<1>8. /\ script' \in Seq(Callbacks) /\ Len(script') \in 1 .. 3
      /\ DOMAIN script' = 1 .. Len(script')
      /\ \A k \in DOMAIN script' : script'[k].id = r
      /\ Alone(script')
      /\ \A j, k \in DOMAIN script' : j < k => Stage(script'[j].name) < Stage(script'[k].name)
  BY <1>2, <1>3, ScriptFacts
<1>9. TypeOK' /\ (got \in [Ids -> Seq(CallbackNames)] /\ IsFiniteSet(table))'
  <2>1. reply' \in [Requests -> Hows] BY <1>2, <1>3, <1>4
  <2> QED BY <1>1, <1>4, <1>8, <2>1 DEF IInv, TypeOK
<1>10. Control' BY <1>1, <1>3 DEF IInv, Control
<1>11. \A d \in Callbacks : Fits(d) => Fits(d)'
  <2>1. \A o \in Requests : reply[o] # "none" => reply'[o] = reply[o] BY <1>5, <1>7
  <2> QED BY <1>1, <2>1, StillFits
<1>12. Story(r)' = {script'[k].name : k \in DOMAIN script'} BY <1>2, <1>5 DEF Story
<1>13. Fitting'
  <2>1. \A k \in DOMAIN queue : queue[k] \in Callbacks /\ Fits(queue[k])
    BY DEF IInv, Fitting, TypeOK
  <2>2. \A k \in DOMAIN batch : batch[k] \in Callbacks /\ Fits(batch[k])
    BY DEF IInv, Fitting, TypeOK
  <2>3. ASSUME NEW k \in DOMAIN queue' PROVE Fits(queue[k])'
    <3>1. PICK d \in Callbacks : d = queue[k] /\ Fits(d) BY <1>1, <2>1
    <3>2. Fits(d)' BY <1>11, <3>1
    <3> QED BY <1>1, <3>1, <3>2 DEF Fits, Story
  <2>4. ASSUME NEW k \in DOMAIN batch' PROVE Fits(batch[k])'
    <3>1. PICK d \in Callbacks : d = batch[k] /\ Fits(d) BY <1>1, <2>2
    <3>2. Fits(d)' BY <1>11, <3>1
    <3> QED BY <1>1, <3>1, <3>2 DEF Fits, Story
  <2>5. ASSUME NEW k \in DOMAIN script' PROVE Fits(script[k])' /\ script'[k].id = completing'
    <3>1. script'[k].id = r BY <1>8
    <3>2. script'[k].name \in Story(r)' BY <1>12
    <3>3. script'[k].name # "HttpTransactionCleanup" BY <1>2, <1>3, ScriptFacts
    <3> QED BY <1>1, <1>3, <1>5, <3>1, <3>2, <3>3, KindFacts DEF Fits
  <2>6. ASSUME NEW o \in Android, NEW k \in DOMAIN got'[o]
        PROVE  /\ reply'[o] # "none" /\ got'[o][k] \in Story(o)' \cup {"HttpTransactionCleanup"}
               /\ got'[o][k] = "HttpTransactionCleanup" => o \in cleaned'
    <3>1. o # r BY <1>1, <1>7, Unsaid
    <3>2. reply'[o] = reply[o] BY <1>5, <3>1, KindFacts
    <3>3. Story(o)' = Story(o) BY <3>2 DEF Story
    <3> QED BY <1>1, <3>2, <3>3 DEF IInv, Fitting
  <2>7. \A o \in Requests : reply'[o] \in Endings(o) \cup {"none", Refusal(o)}
    BY <1>2, <1>5 DEF IInv, Fitting
  <2>8. \A o \in table' : reply'[o] = "none" <=> o # completing'
    <3>1. \A o \in table : o \in Requests BY <1>4 DEF TypeOK
    <3>2. \A o \in table : reply[o] = "none"
      BY <1>1, <3>1, KindFacts DEF IInv, Fitting
    <3> QED BY <1>1, <1>3, <1>5, <3>1, <3>2
  <2> QED BY <2>3, <2>4, <2>5, <2>6, <2>7, <2>8 DEF Fitting
<1>14. InOrder'
  <2>1. Rising(script)' BY <1>8 DEF Rising
  <2>2. Precede(batch, script)' /\ Precede(queue, script)'
    BY <1>1, <1>7, <1>8, Unsaid DEF Precede
  <2>3. \A k \in DOMAIN script' : Follows(script[k])'
    BY <1>1, <1>7, <1>8, Unsaid DEF Follows
  <2>4. /\ \A o \in Android : \A j, k \in DOMAIN got[o] : j < k => Stage(got[o][j]) < Stage(got[o][k])
        /\ Rising(batch) /\ Rising(queue) /\ Precede(batch, queue)
        /\ \A k \in DOMAIN batch : Uncalled(k) => Follows(batch[k])
        /\ \A k \in DOMAIN queue : Follows(queue[k])
    BY DEF IInv, InOrder
  <2>5. /\ (\A o \in Android : \A j, k \in DOMAIN got[o] : j < k => Stage(got[o][j]) < Stage(got[o][k]))'
        /\ Rising(batch)' /\ Rising(queue)' /\ Precede(batch, queue)'
        /\ (\A k \in DOMAIN batch : Uncalled(k) => Follows(batch[k]))'
        /\ (\A k \in DOMAIN queue : Follows(queue[k]))'
    BY <1>1, <2>4 DEF Rising, Precede, Follows, Uncalled
  <2> QED BY <2>1, <2>2, <2>3, <2>5 DEF InOrder
<1>15. Whole'
  <2> SUFFICES ASSUME NEW o \in Android \ (lost' \cup nomem'), reply'[o] # "none",
                      NEW n \in Story(o)'
               PROVE  Said(o, n)'
    BY DEF Whole, AllSaid
  <2>1. CASE o = r
    <3>1. PICK k \in DOMAIN script' : n = script'[k].name BY <1>12, <2>1
    <3> QED BY <1>8, <2>1, <3>1 DEF Said
  <2>2. CASE o # r
    <3>1. reply'[o] = reply[o] BY <1>5, <2>2, KindFacts
    <3>2. Story(o)' = Story(o) BY <3>1 DEF Story
    <3>3. n \in Story(o) /\ reply[o] # "none" /\ o \notin lost \cup nomem BY <1>1, <3>1, <3>2
    <3>4. Said(o, n) BY <3>3 DEF IInv, Whole, AllSaid
    <3> QED BY <1>1, <1>6, <3>4 DEF Said, Uncalled
  <2> QED BY <2>1, <2>2
<1>16. Owned'
  <2>1. \A k \in DOMAIN script' : script'[k].data => script'[k].id \notin live'
    BY <1>1, <1>7, <1>8, Unsaid
  <2> QED BY <1>1, <1>8, <2>1 DEF IInv, Owned, Alone
<1>17. OneReleased' BY <1>1 DEF IInv, OneReleased
<1>18. \A t \in Timers : OnePlace(t)' /\ InTime(t)'
  BY <1>1, SamePlace, SameTime DEF IInv, SameCall
<1> QED BY <1>9, <1>10, <1>13, <1>14, <1>15, <1>16, <1>17, <1>18 DEF IInv

LEMMA QueueNextStep ==
  ASSUME IInv, QueueNext
  PROVE  IInv'
<1>1. /\ pc = "http" /\ script # <<>> /\ script' = Tail(script)
      /\ UNCHANGED <<pc, batch, slots, fires, dueList, attempted, asked, released, table,
                     completing, reply, cleaned, now, got>>
  BY DEF QueueNext, mainVars, timerVars
<1>2. TypeOK /\ script \in Seq(Callbacks) BY DEF IInv, TypeOK
<1>3. /\ script' \in Seq(Callbacks) /\ Len(script) \in Nat /\ Len(script') = Len(script) - 1
      /\ Len(script) >= 1
      /\ \A k \in 1 .. Len(script) - 1 : script'[k] = script[k + 1]
      /\ Head(script) = script[1] /\ script[1] \in Callbacks
  BY <1>1, <1>2, TailFacts
<1>4. /\ DOMAIN script = 1 .. Len(script) /\ DOMAIN script' = 1 .. Len(script')
  BY <1>2, <1>3
<1>5. PICK c \in Callbacks : c = script[1] BY <1>3
<1>6. QueueCallback(c) BY <1>3, <1>5 DEF QueueNext
<1>7. /\ queue' \in Seq(Callbacks) /\ Len(queue') <= MaxQueue
      /\ live' \in SUBSET Ids /\ lost' \in SUBSET Ids /\ nomem' \in SUBSET Ids
      /\ Grows(c)
  BY <1>2, <1>6, QueueCallbackFacts DEF Grows
<1>8. /\ 1 \in DOMAIN script
      /\ \A k \in DOMAIN script' : k + 1 \in DOMAIN script /\ script'[k] = script[k + 1]
      /\ \A k \in DOMAIN script : k = 1 \/ (k - 1 \in DOMAIN script' /\ script'[k - 1] = script[k])
  BY <1>3, <1>4
<1>9. /\ \A k \in DOMAIN script : Fits(script[k]) /\ script[k].id = completing
      /\ completing \in Requests
  <2>1. completing # NoOne BY <1>1 DEF IInv, Control
  <2> QED BY <2>1 DEF IInv, Fitting, TypeOK
<1>10. \A d \in Callbacks : Fits(d) => Fits(d)' BY <1>1, StillFits
<1>11. TypeOK' /\ (got \in [Ids -> Seq(CallbackNames)] /\ IsFiniteSet(table))'
  BY <1>1, <1>3, <1>7 DEF IInv, TypeOK
<1>12. Control' BY <1>1, <1>4 DEF IInv, Control
<1>13. Fitting'
  <2>1. Fits(c)' BY <1>5, <1>8, <1>9, <1>10
  <2>2. \A k \in DOMAIN queue' : Fits(queue[k])' BY <1>7, <1>10, <2>1, QueueFits
  <2>3. \A k \in DOMAIN batch' : Fits(batch[k])' BY <1>1 DEF IInv, Fitting, Fits, Story
  <2>4. ASSUME NEW k \in DOMAIN script' PROVE Fits(script[k])' /\ script'[k].id = completing'
    <3>1. PICK d \in Callbacks : d = script[k + 1] BY <1>2, <1>8
    <3>2. Fits(d) /\ d.id = completing BY <1>8, <1>9, <3>1
    <3>3. Fits(d)' BY <1>10, <3>2
    <3>4. script'[k] = d BY <1>8, <3>1
    <3>5. Fits(script[k])' BY <3>3, <3>4 DEF Fits, Story
    <3> QED BY <1>1, <3>2, <3>4, <3>5
  <2> QED BY <1>1, <2>2, <2>3, <2>4 DEF IInv, Fitting, Story
<1>14. InOrder'
  <2>1. /\ Rising(script) /\ Precede(batch, script) /\ Precede(queue, script)
        /\ \A k \in DOMAIN script : Follows(script[k])
    BY DEF IInv, InOrder
  <2>2. Rising(script)' BY <1>4, <1>8, <2>1 DEF Rising
  <2>3. Precede(batch, script)' BY <1>1, <1>8, <2>1 DEF Precede
  <2>4. \A k \in DOMAIN script' : Follows(script[k])' BY <1>1, <1>8, <2>1 DEF Follows
  <2>5. \A j \in DOMAIN queue, k \in DOMAIN script' :
          queue[j].id = script'[k].id /\ queue[j].id \in Android =>
            Stage(queue[j].name) < Stage(script'[k].name)
    BY <1>8, <2>1 DEF Precede
  <2>6. ASSUME c.id \in Android
        PROVE  /\ Follows(c)
               /\ \A j \in DOMAIN batch :
                    batch[j].id = c.id => Stage(batch[j].name) < Stage(c.name)
               /\ \A j \in DOMAIN queue :
                    queue[j].id = c.id => Stage(queue[j].name) < Stage(c.name)
               /\ \A k \in DOMAIN script' :
                    script'[k].id = c.id => Stage(c.name) < Stage(script'[k].name)
    <3>1. Follows(c) BY <1>5, <1>8, <2>1
    <3>2. \A j \in DOMAIN batch : batch[j].id = c.id => Stage(batch[j].name) < Stage(c.name)
      BY <1>5, <1>8, <2>1, <2>6 DEF Precede
    <3>3. \A j \in DOMAIN queue : queue[j].id = c.id => Stage(queue[j].name) < Stage(c.name)
      BY <1>5, <1>8, <2>1, <2>6 DEF Precede
    <3>4. \A k \in DOMAIN script' : 1 < k + 1 BY <1>3, <1>4
    <3>5. \A k \in DOMAIN script' :
            script'[k].id = c.id => Stage(c.name) < Stage(script'[k].name)
      BY <1>5, <1>8, <2>1, <2>6, <3>4 DEF Rising
    <3> QED BY <3>1, <3>2, <3>3, <3>5
  <2> QED BY <1>1, <1>7, <2>2, <2>3, <2>4, <2>5, <2>6, QueueOrder
<1>15. Whole'
  <2>1. \A k \in DOMAIN script :
          script[k] = c \/ \E j \in DOMAIN script' : script'[j] = script[k]
    BY <1>5, <1>8
  <2> QED BY <1>1, <1>7, <2>1, QueueWhole
<1>16. Owned'
  <2>1. Alone(script) /\ \A k \in DOMAIN script : script[k].data => script[k].id \notin live
    BY DEF IInv, Owned
  <2>2. Alone(script)'
    <3> SUFFICES ASSUME NEW j \in DOMAIN script', NEW k \in DOMAIN script',
                        script'[j].id = script'[k].id, script'[j].data, script'[k].data
                 PROVE  j = k
      BY DEF Alone
    <3>1. j + 1 = k + 1 BY <1>8, <2>1 DEF Alone
    <3> QED BY <1>3, <1>4, <3>1
  <2>3. ASSUME NEW k \in DOMAIN script', script'[k].data PROVE script'[k].id \notin live'
    <3>1. k + 1 # 1 /\ k + 1 \in DOMAIN script /\ script'[k] = script[k + 1] BY <1>3, <1>4, <1>8
    <3>2. script[k + 1].id \notin live BY <2>1, <2>3, <3>1
    <3>3. ~ (c.data /\ c.id = script[k + 1].id) BY <1>5, <1>8, <2>1, <2>3, <3>1 DEF Alone
    <3> QED BY <1>7, <3>1, <3>2, <3>3 DEF Grows, Joined, Dropped
  <2> QED BY <1>1, <1>5, <1>7, <1>8, <2>1, <2>2, <2>3, QueueOwned
<1>17. OneReleased' BY <1>1 DEF IInv, OneReleased
<1>18. \A t \in Timers : OnePlace(t)' /\ InTime(t)'
  <2>1. c.id \notin Timers BY <1>5, <1>8, <1>9, KindFacts
  <2> QED BY <1>1, <1>7, <2>1, QueuePlaces
<1> QED BY <1>11, <1>12, <1>13, <1>14, <1>15, <1>16, <1>17, <1>18 DEF IInv

LEMMA RetireStep ==
  ASSUME IInv, Retire
  PROVE  IInv'
<1>1. /\ pc = "http" /\ completing # NoOne /\ script = <<>>
      /\ table' = table \ {completing} /\ completing' = NoOne
      /\ UNCHANGED <<pc, batch, queue, live, lost, nomem, slots, fires, dueList, attempted,
                     asked, released, script, reply, cleaned, now, got>>
  BY DEF Retire, mainVars, queueVars, timerVars
<1>2. IsFiniteSet(table') /\ Cardinality(table') <= MaxRequests /\ table' \in SUBSET Requests
  <2>1. IsFiniteSet(table) /\ Cardinality(table) <= MaxRequests /\ table \in SUBSET Requests
    BY DEF IInv, TypeOK
  <2>2. IsFiniteSet(table') /\ Cardinality(table') <= Cardinality(table)
    BY <1>1, <2>1, FS_Subset
  <2>3. Cardinality(table') \in Nat /\ Cardinality(table) \in Nat /\ MaxRequests \in Nat
    BY <2>1, <2>2, FS_CardinalityType, LimitsPositive
  <2> QED BY <1>1, <2>1, <2>2, <2>3
<1>3. TypeOK' /\ (got \in [Ids -> Seq(CallbackNames)] /\ IsFiniteSet(table))'
  BY <1>1, <1>2 DEF IInv, TypeOK
<1>4. Control' BY <1>1 DEF IInv, Control
<1>5. Fitting'
  <2>1. \A r \in table' : reply'[r] = "none" <=> r # completing'
    BY <1>1, <1>2, KindFacts DEF IInv, Fitting, TypeOK
  <2>2. /\ \A k \in DOMAIN queue' : Fits(queue[k])'
        /\ \A k \in DOMAIN batch' : Fits(batch[k])'
    BY <1>1 DEF IInv, Fitting, Fits, Story
  <2> QED BY <1>1, <2>1, <2>2 DEF IInv, Fitting, Story
<1>6. InOrder' /\ Whole' /\ Owned' /\ OneReleased'
  BY <1>1, SameOrder, SameWhole, SameOwned, SameReleased DEF IInv, SameCall
<1>7. \A t \in Timers : OnePlace(t)' /\ InTime(t)'
  BY <1>1, SamePlace, SameTime DEF IInv, SameCall
<1> QED BY <1>3, <1>4, <1>5, <1>6, <1>7 DEF IInv

(* The turns of the frame that change nothing else. *)
LEMMA TurnStep ==
  ASSUME IInv, HttpDone \/ EndFrame \/ DispatchDone
  PROVE  IInv'
<1>1. /\ pc' \in {"http", "draw", "due", "run", "native"} /\ SameCall /\ Control'
      /\ UNCHANGED <<batch, queue, live, lost, nomem, slots, fires, dueList, attempted,
                     asked, released, table, completing, script, reply, cleaned, now, got>>
  BY DEF IInv, Control, HttpDone, EndFrame, DispatchDone, SameCall, queueVars, timerVars, httpVars
<1>2. TypeOK' /\ (got \in [Ids -> Seq(CallbackNames)] /\ IsFiniteSet(table))'
  BY <1>1 DEF IInv, TypeOK
<1>3. Fitting' /\ InOrder' /\ Whole' /\ Owned' /\ OneReleased'
  BY <1>1, SameFitting, SameOrder, SameWhole, SameOwned, SameReleased DEF IInv
<1>4. \A t \in Timers : OnePlace(t)' /\ InTime(t)'
  BY <1>1, SamePlace, SameTime DEF IInv
<1> QED BY <1>1, <1>2, <1>3, <1>4 DEF IInv

LEMMA TickStep ==
  ASSUME IInv, Tick
  PROVE  IInv'
<1>1. /\ now < MaxTime /\ now' = now + 1
      /\ UNCHANGED <<pc, batch, queue, live, lost, nomem, slots, fires, dueList, attempted,
                     asked, released, table, completing, script, reply, cleaned, got>>
  BY DEF Tick, mainVars, queueVars, timerVars, httpVars
<1>2. TypeOK' /\ (got \in [Ids -> Seq(CallbackNames)] /\ IsFiniteSet(table))'
  <2>1. now' \in 0 .. MaxTime BY <1>1, LimitsPositive DEF IInv, TypeOK
  <2> QED BY <1>1, <2>1 DEF IInv, TypeOK
<1>3. Control' /\ Fitting' /\ InOrder' /\ Whole' /\ Owned' /\ OneReleased'
  <2>1. Control' BY <1>1 DEF IInv, Control
  <2> QED BY <1>1, <2>1, SameFitting, SameOrder, SameWhole, SameOwned, SameReleased
    DEF IInv, SameCall
<1>4. ASSUME NEW t \in Timers PROVE OnePlace(t)' /\ InTime(t)'
  <2>1. OnePlace(t)' BY <1>1, SamePlace DEF IInv, SameCall
  <2>2. /\ InSlot(t)' <=> InSlot(t)
        /\ InDue(t)' <=> InDue(t)
        /\ InQueue(t)' <=> InQueue(t)
        /\ InBatch(t)' <=> InBatch(t)
        /\ Reached(t)' <=> Reached(t)
    BY <1>1, SamePlaces DEF SameCall
  <2>3. now \in Nat /\ asked[t] \in Nat BY LimitsPositive DEF IInv, TypeOK, Never
  <2>4. now >= asked[t] => now' >= asked'[t] BY <1>1, <2>3
  <2>5. InTime(t) BY DEF IInv
  <2>6. InTime(t)' BY <1>1, <2>2, <2>4, <2>5 DEF InTime
  <2> QED BY <2>1, <2>6
<1> QED BY <1>2, <1>3, <1>4 DEF IInv

-----------------------------------------------------------------------------
(* The upcalls *)

LEMMA PromptStep ==
  ASSUME IInv, NEW p \in Prompts, Prompt(p)
  PROVE  IInv'
<1> DEFINE n == "onShowConsentComplete"
           c == Callback(n, p, TRUE)
<1>1. /\ p \notin live /\ QueueCallback(c)
      /\ UNCHANGED <<pc, batch, slots, fires, dueList, attempted, asked, released, table,
                     completing, script, reply, cleaned, now, got>>
  BY DEF Prompt, mainVars, timerVars, httpVars
<1>2. c \in Callbacks /\ c.id = p
  <2>1. n \in CallbackNames BY DEF CallbackNames
  <2>2. p \in Ids BY KindFacts
  <2> QED BY <2>1, <2>2 DEF Callback, Callbacks
<1> HIDE DEF c
<1>3. p \notin Timers /\ p \notin Requests /\ p \notin Android BY KindFacts
<1>4. TypeOK BY DEF IInv
<1>5. /\ queue' \in Seq(Callbacks) /\ Len(queue') <= MaxQueue
      /\ live' \in SUBSET Ids /\ lost' \in SUBSET Ids /\ nomem' \in SUBSET Ids
      /\ Grows(c)
  BY <1>1, <1>2, <1>4, QueueCallbackFacts DEF Grows
<1>6. TypeOK' /\ (got \in [Ids -> Seq(CallbackNames)] /\ IsFiniteSet(table))'
  BY <1>1, <1>5 DEF IInv, TypeOK
<1>7. Control' BY <1>1 DEF IInv, Control
<1>8. Fitting'
  <2>1. Fits(c)' BY <1>2, <1>3 DEF Fits
  <2>2. \A d \in Callbacks : Fits(d) => Fits(d)' BY <1>1, StillFits
  <2>3. \A k \in DOMAIN queue' : Fits(queue[k])' BY <1>2, <1>5, <2>1, <2>2, QueueFits
  <2>4. /\ \A k \in DOMAIN batch' : Fits(batch[k])'
        /\ \A k \in DOMAIN script' : Fits(script[k])' /\ script'[k].id = completing'
    BY <1>1 DEF IInv, Fitting, Fits, Story
  <2> QED BY <1>1, <2>3, <2>4 DEF IInv, Fitting, Story
<1>9. InOrder'
  <2>1. /\ Rising(script)' /\ Precede(batch, script)'
        /\ \A k \in DOMAIN script' : Follows(script[k])'
    BY <1>1 DEF IInv, InOrder, Rising, Precede, Follows
  <2>2. \A j \in DOMAIN queue, k \in DOMAIN script' :
          queue[j].id = script'[k].id /\ queue[j].id \in Android =>
            Stage(queue[j].name) < Stage(script'[k].name)
    BY <1>1 DEF IInv, InOrder, Precede
  <2> QED BY <1>1, <1>2, <1>3, <1>5, <2>1, <2>2, QueueOrder
<1>10. Whole' BY <1>1, <1>2, <1>3, <1>5, KindFacts, QueueWhole
<1>11. Owned'
  <2>1. Alone(script)' BY <1>1 DEF IInv, Owned, Alone
  <2>2. \A k \in DOMAIN script : script[k].id # p
    BY <1>3 DEF IInv, Fitting, TypeOK, Control
  <2>3. \A k \in DOMAIN script' : script'[k].data => script'[k].id \notin live'
    BY <1>1, <1>2, <1>5, <2>2 DEF IInv, Owned, Grows, Joined, Dropped
  <2> QED BY <1>1, <1>2, <1>5, <2>1, <2>3, QueueOwned
<1>12. OneReleased' BY <1>1, SameReleased DEF IInv
<1>13. \A t \in Timers : OnePlace(t)' /\ InTime(t)'
  BY <1>1, <1>2, <1>3, <1>5, QueuePlaces
<1> QED BY <1>6, <1>7, <1>8, <1>9, <1>10, <1>11, <1>12, <1>13 DEF IInv

(* Outside http_pump no request is being completed. *)
LEMMA NoScript ==
  ASSUME IInv, pc # "http"
  PROVE  completing = NoOne /\ script = <<>> /\ DOMAIN script = {}
BY DEF IInv, Control

LEMMA StartStep ==
  ASSUME IInv, NEW r \in Requests, Start(r)
  PROVE  IInv'
<1>1. /\ InNative /\ reply[r] = "none" /\ r \notin table
      /\ UNCHANGED <<pc, batch, slots, fires, dueList, attempted, asked, released,
                     completing, script, cleaned, now, got>>
  BY DEF Start, mainVars, timerVars
<1>2. /\ completing = NoOne /\ script = <<>> /\ DOMAIN script = {}
  BY <1>1, NoScript DEF InNative
<1>3. /\ TypeOK /\ reply \in [Requests -> Hows] /\ IsFiniteSet(table) /\ table \in SUBSET Requests
      /\ got \in [Ids -> Seq(CallbackNames)]
  BY DEF IInv, TypeOK
<1>4. Control' /\ OneReleased' BY <1>1, SameReleased DEF IInv, Control
<1>5. CASE /\ Cardinality(table) < MaxRequests
           /\ table' = table \cup {r}
           /\ UNCHANGED <<queueVars, reply>>
  <2>1. UNCHANGED <<queue, live, lost, nomem, reply>> BY <1>5 DEF queueVars
  <2>2. IsFiniteSet(table') /\ Cardinality(table') <= MaxRequests
    <3>1. IsFiniteSet(table') /\ Cardinality(table') = Cardinality(table) + 1
      BY <1>1, <1>3, <1>5, FS_AddElement
    <3>2. Cardinality(table) \in Nat /\ MaxRequests \in Nat
      BY <1>3, FS_CardinalityType, LimitsPositive
    <3> QED BY <1>5, <3>1, <3>2
  <2>3. TypeOK' /\ (got \in [Ids -> Seq(CallbackNames)] /\ IsFiniteSet(table))'
    BY <1>1, <1>2, <1>3, <1>5, <2>1, <2>2 DEF TypeOK
  <2>4. Fitting'
    <3>1. \A o \in table' : reply'[o] = "none" <=> o # completing'
      BY <1>1, <1>2, <1>5, <2>1, KindFacts DEF IInv, Fitting
    <3>2. /\ \A k \in DOMAIN queue' : Fits(queue[k])'
          /\ \A k \in DOMAIN batch' : Fits(batch[k])'
      BY <1>1, <2>1 DEF IInv, Fitting, Fits, Story
    <3> QED BY <1>1, <1>2, <2>1, <3>1, <3>2 DEF IInv, Fitting, Story
  <2>5. InOrder' /\ Whole' /\ Owned'
    BY <1>1, <2>1, SameOrder, SameWhole, SameOwned DEF IInv, SameCall
  <2>6. \A t \in Timers : OnePlace(t)' /\ InTime(t)'
    BY <1>1, <2>1, SamePlace, SameTime DEF IInv, SameCall
  <2> QED BY <1>4, <2>3, <2>4, <2>5, <2>6 DEF IInv
<1>6. CASE /\ QueueCallback(Head(Script(r, Refusal(r))))
           /\ reply' = [reply EXCEPT ![r] = Refusal(r)]
           /\ UNCHANGED table
  <2> DEFINE s == Script(r, Refusal(r))
  <2>1. Refusal(r) \in Hows \ {"none"} BY KindFacts
  <2>2. /\ s \in Seq(Callbacks) /\ Len(s) \in 1 .. 3 /\ DOMAIN s = 1 .. Len(s)
        /\ \A k \in DOMAIN s : s[k].id = r /\ s[k].name # "HttpTransactionCleanup"
    BY <2>1, ScriptFacts
  <2>3. r \in Android => Len(s) = 1 BY DEF Script, Refusal
  <2> HIDE DEF s
  <2>4. PICK c \in Callbacks : c = Head(s) /\ c = s[1] /\ c.id = r BY <2>2
  <2>5. QueueCallback(c) BY <1>6, <2>4 DEF s
  <2>6. /\ queue' \in Seq(Callbacks) /\ Len(queue') <= MaxQueue
        /\ live' \in SUBSET Ids /\ lost' \in SUBSET Ids /\ nomem' \in SUBSET Ids
        /\ Grows(c)
    BY <1>3, <2>5, QueueCallbackFacts DEF Grows
  <2>7. reply'[r] = Refusal(r) /\ \A o \in Requests \ {r} : reply'[o] = reply[o]
    BY <1>3, <1>6
  <2>8. Story(r)' = {s[k].name : k \in DOMAIN s} BY <2>7 DEF Story, s
  <2>9. 1 \in DOMAIN s /\ c.name \in Story(r)' /\ c.name # "HttpTransactionCleanup"
        /\ (r \in Android => \A n \in Story(r)' : n = c.name)
    BY <2>2, <2>3, <2>4, <2>8
  <2>10. TypeOK' /\ (got \in [Ids -> Seq(CallbackNames)] /\ IsFiniteSet(table))'
    <3>1. reply' \in [Requests -> Hows] BY <1>3, <1>6, <2>1
    <3> QED BY <1>1, <1>3, <1>6, <2>6, <3>1 DEF TypeOK
  <2>11. \A d \in Callbacks : Fits(d) => Fits(d)'
    <3>1. \A o \in Requests : reply[o] # "none" => reply'[o] = reply[o] BY <1>1, <2>7
    <3> QED BY <1>1, <3>1, StillFits
  <2>12. Fitting'
    <3>1. Fits(c)' BY <2>1, <2>4, <2>7, <2>9, KindFacts DEF Fits
    <3>2. \A k \in DOMAIN queue' : Fits(queue[k])' BY <2>6, <2>11, <3>1, QueueFits
    <3>3. \A k \in DOMAIN batch : batch[k] \in Callbacks /\ Fits(batch[k])
      BY DEF IInv, Fitting, TypeOK
    <3>4. ASSUME NEW k \in DOMAIN batch' PROVE Fits(batch[k])'
      <4>1. PICK d \in Callbacks : d = batch[k] /\ Fits(d) BY <1>1, <3>3
      <4>2. Fits(d)' BY <2>11, <4>1
      <4> QED BY <1>1, <4>1, <4>2 DEF Fits, Story
    <3>5. ASSUME NEW o \in Android, NEW k \in DOMAIN got'[o]
          PROVE  /\ reply'[o] # "none" /\ got'[o][k] \in Story(o)' \cup {"HttpTransactionCleanup"}
                 /\ got'[o][k] = "HttpTransactionCleanup" => o \in cleaned'
      <4>1. o # r BY <1>1, Unsaid
      <4>2. reply'[o] = reply[o] BY <2>7, <4>1, KindFacts
      <4>3. Story(o)' = Story(o) BY <4>2 DEF Story
      <4> QED BY <1>1, <4>2, <4>3 DEF IInv, Fitting
    <3>6. \A o \in Requests : reply'[o] \in Endings(o) \cup {"none", Refusal(o)}
      BY <2>7 DEF IInv, Fitting
    <3>7. \A o \in table' : reply'[o] = "none" <=> o # completing'
      BY <1>1, <1>2, <1>3, <1>6, <2>7 DEF IInv, Fitting
    <3> QED BY <1>1, <1>2, <3>2, <3>4, <3>5, <3>6, <3>7 DEF Fitting
  <2>13. InOrder'
    <3>1. /\ Rising(script)' /\ Precede(batch, script)'
          /\ \A k \in DOMAIN script' : Follows(script[k])'
      BY <1>1, <1>2 DEF Rising, Precede
    <3>2. /\ \A j \in DOMAIN batch : batch[j].id # r
          /\ \A j \in DOMAIN queue : queue[j].id # r
          /\ r \in Android => DOMAIN got[r] = {}
      BY <1>1, Unsaid
    <3>3. c.id \in Android => Follows(c) BY <2>4, <3>2 DEF Follows
    <3> QED BY <1>1, <1>2, <2>4, <2>6, <3>1, <3>2, <3>3, QueueOrder
  <2>14. Whole'
    <3>1. /\ \A o \in Android \ {c.id} : reply'[o] = reply[o]
          /\ c.id \in Android => \A n \in Story(c.id)' : n = c.name
      BY <2>4, <2>7, <2>9, KindFacts
    <3> QED BY <1>1, <1>2, <2>6, <3>1, QueueWhole
  <2>15. Owned'
    <3>1. r \notin live BY <1>1, Unsaid
    <3>2. Alone(script)' BY <1>1, <1>2 DEF Alone
    <3> QED BY <1>1, <1>2, <2>4, <2>6, <3>1, <3>2, QueueOwned
  <2>16. \A t \in Timers : OnePlace(t)' /\ InTime(t)'
    BY <1>1, <2>4, <2>6, KindFacts, QueuePlaces
  <2> QED BY <1>4, <2>10, <2>12, <2>13, <2>14, <2>15, <2>16 DEF IInv
<1> QED BY <1>5, <1>6 DEF Start

(* Outside http_pump no step speaks before what an Android transaction is   *)
(* still to hear: its cleanup is the last of its stages.                    *)
LEMMA ReleaseTransactionStep ==
  ASSUME IInv, NEW r \in Android, ReleaseTransaction(r)
  PROVE  IInv'
<1> DEFINE n == "HttpTransactionCleanup"
           c == Callback(n, r, FALSE)
<1>1. /\ InNative /\ Terminated(r) /\ r \notin cleaned /\ cleaned' = cleaned \cup {r}
      /\ Enqueue(c)
      /\ UNCHANGED <<pc, batch, slots, fires, dueList, attempted, asked, released, table,
                     completing, script, reply, now, got>>
  BY DEF ReleaseTransaction, mainVars, timerVars
<1>2. c \in Callbacks /\ c.id = r /\ c.name = n /\ c.data = FALSE
  <2>1. n \in CallbackNames BY DEF CallbackNames
  <2>2. r \in Ids BY KindFacts
  <2> QED BY <2>1, <2>2 DEF Callback, Callbacks
<1> HIDE DEF c
<1>3. r \in Requests /\ r \notin Timers BY KindFacts
<1>4. TypeOK BY DEF IInv
<1>5. /\ queue' \in Seq(Callbacks) /\ Len(queue') <= MaxQueue
      /\ live' \in SUBSET Ids /\ lost' \in SUBSET Ids /\ nomem' \in SUBSET Ids
      /\ Grows(c)
  BY <1>1, <1>2, <1>4, EnqueueFacts DEF Grows
<1>6. completing = NoOne /\ script = <<>> /\ DOMAIN script = {}
  BY <1>1, NoScript DEF InNative
<1>7. reply[r] # "none"
  <2>1. DOMAIN got[r] # {} BY <1>1 DEF Terminated
  <2> QED BY <2>1, <1>3, Unsaid
<1>8. \A m \in Story(r) : Stage(m) \in 1 .. 3
  <2>1. reply[r] \in Hows \ {"none"} BY <1>3, <1>4, <1>7 DEF TypeOK
  <2> QED BY <1>3, <2>1, ScriptFacts DEF Story
<1>9. Stage(n) = 4 BY DEF Stage, Terminals
<1>10. TypeOK' /\ (got \in [Ids -> Seq(CallbackNames)] /\ IsFiniteSet(table))'
  BY <1>1, <1>5 DEF IInv, TypeOK
<1>11. Control' BY <1>1 DEF IInv, Control
<1>12. Fitting'
  <2>1. \A d \in Callbacks : Fits(d) => Fits(d)' BY <1>1, StillFits
  <2>2. Fits(c)' BY <1>1, <1>2, <1>3, <1>7 DEF Fits
  <2>3. \A k \in DOMAIN queue' : Fits(queue[k])' BY <1>2, <1>5, <2>1, <2>2, QueueFits
  <2>4. \A k \in DOMAIN batch : batch[k] \in Callbacks /\ Fits(batch[k])
    BY DEF IInv, Fitting, TypeOK
  <2>5. ASSUME NEW k \in DOMAIN batch' PROVE Fits(batch[k])'
    <3>1. PICK d \in Callbacks : d = batch[k] /\ Fits(d) BY <1>1, <2>4
    <3>2. Fits(d)' BY <2>1, <3>1
    <3> QED BY <1>1, <3>1, <3>2 DEF Fits, Story
  <2>6. ASSUME NEW o \in Android, NEW k \in DOMAIN got'[o]
        PROVE  /\ reply'[o] # "none" /\ got'[o][k] \in Story(o)' \cup {"HttpTransactionCleanup"}
               /\ got'[o][k] = "HttpTransactionCleanup" => o \in cleaned'
    <3>1. Story(o)' = Story(o) BY <1>1 DEF Story
    <3> QED BY <1>1, <3>1 DEF IInv, Fitting
  <2> QED BY <1>1, <1>6, <2>3, <2>5, <2>6 DEF IInv, Fitting
<1>13. InOrder'
  <2>1. /\ Rising(script)' /\ Precede(batch, script)'
        /\ \A k \in DOMAIN script' : Follows(script[k])'
    BY <1>1, <1>6 DEF Rising, Precede
  <2>2. ASSUME NEW m, m \in Story(r) \cup {n}, m = n => r \in cleaned
        PROVE  Stage(m) < Stage(n)
    BY <1>1, <1>8, <1>9, <2>2
  <2>3. Follows(c) BY <1>2, <2>2 DEF Follows, IInv, Fitting
  <2>4. /\ \A j \in DOMAIN batch : batch[j].id = r => Stage(batch[j].name) < Stage(n)
        /\ \A j \in DOMAIN queue : queue[j].id = r => Stage(queue[j].name) < Stage(n)
    BY <2>2 DEF IInv, Fitting, Fits
  <2> QED BY <1>1, <1>2, <1>5, <1>6, <2>1, <2>3, <2>4, QueueOrder
<1>14. Whole'
  <2>1. \A o \in Android : reply'[o] = reply[o] BY <1>1
  <2>2. c.id \in Android => reply'[c.id] = reply[c.id] BY <1>1
  <2> QED BY <1>1, <1>2, <1>5, <1>6, <2>1, <2>2, QueueWhole
<1>15. Owned'
  <2>1. Alone(script)' BY <1>1, <1>6 DEF Alone
  <2> QED BY <1>1, <1>2, <1>5, <1>6, <2>1, QueueOwned
<1>16. OneReleased' BY <1>1, SameReleased DEF IInv
<1>17. \A t \in Timers : OnePlace(t)' /\ InTime(t)'
  BY <1>1, <1>2, <1>3, <1>5, QueuePlaces
<1> QED BY <1>10, <1>11, <1>12, <1>13, <1>14, <1>15, <1>16, <1>17 DEF IInv

-----------------------------------------------------------------------------
(* The timers *)

(* Losing an event is no business of the transactions. *)
LEMMA WholeGrows ==
  ASSUME Whole, SameCall, UNCHANGED <<queue, batch, script, got, reply, nomem>>,
         lost \subseteq lost'
  PROVE  Whole'
BY DEF Whole, AllSaid, Said, Story, Uncalled, SameCall

LEMMA ScheduleStep ==
  ASSUME IInv, NEW t \in Timers, Schedule(t)
  PROVE  IInv'
<1> DEFINE free == {s \in 1 .. MaxTimers : slots[s] = NoOne}
           at == now + Delay[t]
<1>1. /\ asked[t] = Never /\ at <= MaxTime
      /\ asked' = [asked EXCEPT ![t] = at]
      /\ UNCHANGED <<pc, batch, queue, live, nomem, dueList, attempted, released, table,
                     completing, script, reply, cleaned, now, got>>
  BY DEF Schedule, mainVars, httpVars
<1>2. /\ TypeOK /\ slots \in [1 .. MaxTimers -> Timers \cup {NoOne}]
      /\ fires \in [Timers -> 0 .. Never] /\ asked \in [Timers -> 0 .. Never]
      /\ t # NoOne /\ t \in Ids /\ lost \in SUBSET Ids
  BY KindFacts DEF IInv, TypeOK
<1>3. at \in 0 .. Never /\ at # Never
  <2>1. MaxTime \in Nat /\ now \in Nat /\ Delay[t] \in Nat
    BY <1>2, LimitsPositive DEF TypeOK
  <2> QED BY <1>1, <2>1 DEF Never
<1>4. asked'[t] = at /\ \A u \in Timers \ {t} : asked'[u] = asked[u] BY <1>1, <1>2
<1>5. PICK x \in 1 .. MaxTimers :
        \/ /\ slots[x] = NoOne /\ slots' = [slots EXCEPT ![x] = t]
           /\ fires' = [fires EXCEPT ![t] = at] /\ lost' = lost
        \/ lost' = lost \cup {t} /\ slots' = slots /\ fires' = fires
  <2>1. CASE free # {}
    <3>1. PICK f \in free : \A u \in free : f <= u
      <4>1. MaxTimers \in Nat /\ free \in SUBSET (1 .. MaxTimers) BY LimitsPositive
      <4> HIDE DEF free
      <4> QED BY <2>1, <4>1, FirstPosition
    <3>2. \E s \in free : \A u \in free : s <= u BY <3>1
    <3>3. (CHOOSE s \in free : \A u \in free : s <= u) \in free BY <3>2
    <3>4. PICK x \in free : x = CHOOSE s \in free : \A u \in free : s <= u BY <3>3
    <3>5. slots' = [slots EXCEPT ![x] = t] /\ fires' = [fires EXCEPT ![t] = at] /\ lost' = lost
      BY <2>1, <3>4 DEF Schedule
    <3> QED BY <3>5
  <2>2. CASE free = {}
    <3>1. lost' = lost \cup {t} /\ slots' = slots /\ fires' = fires BY <2>2 DEF Schedule
    <3>2. 1 \in 1 .. MaxTimers BY LimitsPositive
    <3> QED BY <3>1, <3>2
  <2> QED BY <2>1, <2>2
<1> HIDE DEF free, at
<1>6. TypeOK' /\ (got \in [Ids -> Seq(CallbackNames)] /\ IsFiniteSet(table))'
  <2>1. asked' \in [Timers -> 0 .. Never] BY <1>1, <1>2, <1>3
  <2>2. slots' \in [1 .. MaxTimers -> Timers \cup {NoOne}] BY <1>2, <1>5
  <2>3. fires' \in [Timers -> 0 .. Never] BY <1>2, <1>3, <1>5
  <2>4. lost' \in SUBSET Ids BY <1>2, <1>5
  <2> QED BY <1>1, <1>2, <2>1, <2>2, <2>3, <2>4 DEF IInv, TypeOK
<1>7. Control' /\ Fitting' /\ InOrder' /\ Whole' /\ Owned' /\ OneReleased'
  <2>1. Control' BY <1>1 DEF IInv, Control
  <2>2. lost \subseteq lost' BY <1>5
  <2> QED BY <1>1, <2>1, <2>2, SameFitting, SameOrder, WholeGrows, SameOwned, SameReleased
    DEF IInv, SameCall
<1>8. ASSUME NEW u \in Timers
      PROVE  /\ InDue(u)' <=> InDue(u)
             /\ InQueue(u)' <=> InQueue(u)
             /\ InBatch(u)' <=> InBatch(u)
             /\ Reached(u)' <=> Reached(u)
             /\ OnePlace(u) /\ InTime(u)
  BY <1>1 DEF IInv, InDue, InQueue, InBatch, Reached, Uncalled
<1>9. ASSUME NEW u \in Timers, u # t PROVE OnePlace(u)' /\ InTime(u)'
  <2>1. \A s \in 1 .. MaxTimers : slots'[s] = u <=> slots[s] = u
    BY <1>2, <1>5, <1>9, KindFacts
  <2>2. InSlot(u)' <=> InSlot(u) BY <2>1 DEF InSlot
  <2>3. fires'[u] = fires[u] /\ asked'[u] = asked[u] /\ (u \in lost' <=> u \in lost)
    BY <1>2, <1>4, <1>5, <1>9
  <2>4. /\ InDue(u)' <=> InDue(u)
        /\ InQueue(u)' <=> InQueue(u)
        /\ InBatch(u)' <=> InBatch(u)
        /\ Reached(u)' <=> Reached(u)
        /\ OnePlace(u) /\ InTime(u)
    BY <1>8
  <2>5. UNCHANGED <<queue, batch, dueList, got, released, now>> BY <1>1
  <2>6. OnePlace(u)' BY <2>1, <2>2, <2>3, <2>4, <2>5 DEF OnePlace
  <2>7. InTime(u)' BY <2>2, <2>3, <2>4, <2>5 DEF InTime
  <2> QED BY <2>6, <2>7
<1>10. OnePlace(t)' /\ InTime(t)'
  <2>1. ~ (InSlot(t) \/ InDue(t) \/ InQueue(t) \/ InBatch(t) \/ Reached(t) \/ t \in lost)
    BY <1>1, <1>8 DEF OnePlace
  <2>2. \A s \in 1 .. MaxTimers : slots[s] # t BY <2>1 DEF InSlot
  <2>3. ~ (InDue(t) \/ InQueue(t) \/ InBatch(t) \/ Reached(t))' BY <1>8, <2>1
  <2>4. \A s, v \in 1 .. MaxTimers : slots'[s] = t /\ slots'[v] = t => s = v
    BY <1>2, <1>5, <2>2
  <2>5. InSlot(t)' => t \notin lost'
    BY <1>2, <1>5, <2>1, <2>2 DEF InSlot
  <2>6. InSlot(t)' \/ t \in lost'
    BY <1>2, <1>5 DEF InSlot
  <2>7. InSlot(t)' => fires'[t] = asked'[t]
    BY <1>2, <1>4, <1>5, <2>2 DEF InSlot
  <2>8. OnePlace(t)'
    BY <1>1, <1>3, <1>4, <1>8, <2>3, <2>4, <2>5, <2>6 DEF OnePlace
  <2>9. InTime(t)' BY <2>3, <2>7 DEF InTime
  <2> QED BY <2>8, <2>9
<1> QED BY <1>6, <1>7, <1>9, <1>10 DEF IInv

(* pvz2_release_startup_wait_timer *)
LEMMA ReleaseStartupWaitStep ==
  ASSUME IInv, ReleaseStartupWait
  PROVE  IInv'
<1>1. /\ ~ attempted /\ attempted' = TRUE
      /\ UNCHANGED <<pc, batch, queue, live, lost, nomem, slots, dueList, asked, table,
                     completing, script, reply, cleaned, now, got>>
  BY DEF ReleaseStartupWait, mainVars, queueVars, httpVars
<1>2. /\ TypeOK /\ fires \in [Timers -> 0 .. Never] /\ released = {}
      /\ slots \in [1 .. MaxTimers -> Timers \cup {NoOne}] /\ now \in 0 .. MaxTime
  BY <1>1 DEF IInv, TypeOK, OneReleased
<1>3. \/ fires' = fires /\ released' = {}
      \/ \E x \in StartupWaits : fires' = [fires EXCEPT ![x] = now] /\ released' = {x}
  BY <1>2 DEF ReleaseStartupWait
<1>4. PICK gone \in SUBSET StartupWaits :
        /\ released' = gone
        /\ \A t, u \in gone : t = u
        /\ \A t \in Timers \ gone : fires'[t] = fires[t]
        /\ fires' \in [Timers -> 0 .. Never]
  <2>1. CASE fires' = fires /\ released' = {} BY <1>2, <2>1
  <2>2. CASE \E x \in StartupWaits : fires' = [fires EXCEPT ![x] = now] /\ released' = {x}
    <3>1. PICK x \in StartupWaits : fires' = [fires EXCEPT ![x] = now] /\ released' = {x}
      BY <2>2
    <3>2. now \in 0 .. Never BY <1>2, LimitsPositive DEF Never
    <3>3. fires' \in [Timers -> 0 .. Never] BY <1>2, <3>1, <3>2
    <3>4. \A t \in Timers \ {x} : fires'[t] = fires[t] BY <1>2, <3>1
    <3> QED BY <3>1, <3>3, <3>4
  <2> QED BY <1>3, <2>1, <2>2
<1>5. TypeOK' /\ (got \in [Ids -> Seq(CallbackNames)] /\ IsFiniteSet(table))'
  <2>1. released' \in SUBSET Timers BY <1>4, LimitsPositive
  <2> QED BY <1>1, <1>2, <1>4, <2>1 DEF IInv, TypeOK
<1>6. Control' /\ Fitting' /\ InOrder' /\ Whole' /\ Owned'
  <2>1. Control' BY <1>1 DEF IInv, Control
  <2> QED BY <1>1, <2>1, SameFitting, SameOrder, SameWhole, SameOwned DEF IInv, SameCall
<1>7. OneReleased' BY <1>1, <1>4 DEF OneReleased
<1>8. ASSUME NEW t \in Timers PROVE OnePlace(t)' /\ InTime(t)'
  <2>1. OnePlace(t)' BY <1>1, SamePlace DEF IInv, SameCall
  <2>2. /\ InSlot(t)' <=> InSlot(t)
        /\ InDue(t)' <=> InDue(t)
        /\ InQueue(t)' <=> InQueue(t)
        /\ InBatch(t)' <=> InBatch(t)
        /\ Reached(t)' <=> Reached(t)
    BY <1>1, SamePlaces DEF SameCall
  <2>3. InTime(t) /\ t \notin released BY <1>2 DEF IInv
  <2>4. asked' = asked /\ now' = now BY <1>1
  <2>5. t \notin released' => fires'[t] = fires[t] BY <1>4
  <2>6. InTime(t)' BY <2>2, <2>3, <2>4, <2>5 DEF InTime
  <2> QED BY <2>1, <2>6
<1> QED BY <1>5, <1>6, <1>7, <1>8 DEF IInv

(* The slots pump_java_timers frees are those of the copies it takes. *)
LEMMA CollectDueStep ==
  ASSUME IInv, CollectDue
  PROVE  IInv'
<1> DEFINE P == {s \in 1 .. MaxTimers : Due(s)}
<1>1. /\ pc = "draw" /\ pc' = "due" /\ dueList' = Selected(slots, P)
      /\ slots' = [s \in 1 .. MaxTimers |-> IF Due(s) THEN NoOne ELSE slots[s]]
      /\ UNCHANGED <<batch, queue, live, lost, nomem, fires, attempted, asked, released, table,
                     completing, script, reply, cleaned, now, got>>
  BY DEF CollectDue, queueVars, httpVars
<1>2. /\ TypeOK /\ slots \in [1 .. MaxTimers -> Timers \cup {NoOne}] /\ MaxTimers \in Nat
      /\ fires \in [Timers -> 0 .. Never] /\ asked \in [Timers -> 0 .. Never]
      /\ dueList = <<>> /\ batch = <<>>
  BY <1>1, LimitsPositive DEF IInv, TypeOK, Control
<1>3. \A s \in P : s \in 1 .. MaxTimers /\ slots[s] \in Timers /\ fires[slots[s]] <= now
  BY <1>2 DEF Due
<1>4. \A s \in 1 .. MaxTimers : s \notin P => slots'[s] = slots[s] BY <1>1
<1>5. \A s \in 1 .. MaxTimers : s \in P => slots'[s] = NoOne BY <1>1
<1>6. P \in SUBSET (1 .. MaxTimers) OBVIOUS
<1>7. slots' \in [1 .. MaxTimers -> Timers \cup {NoOne}] BY <1>1, <1>2
<1> HIDE DEF P
<1> DEFINE N == Cardinality(P)
<1>8. /\ dueList' \in Seq(Timers) /\ Len(dueList') = N /\ N \in Nat
      /\ \A k \in 1 .. N : dueList'[k] = slots[Kth(P, k)] /\ Kth(P, k) \in P
      /\ \A s \in P : Rank(P, s) \in 1 .. N /\ dueList'[Rank(P, s)] = slots[s]
      /\ \A j, k \in 1 .. N : Kth(P, j) = Kth(P, k) => j = k
  <2>1. slots \in Seq(Timers \cup {NoOne}) /\ Len(slots) = MaxTimers BY <1>2
  <2>2. /\ dueList' \in Seq(Timers \cup {NoOne}) /\ Len(dueList') = N /\ N \in Nat
        /\ \A k \in 1 .. N : dueList'[k] = slots[Kth(P, k)] /\ Kth(P, k) \in P
        /\ \A s \in P : Rank(P, s) \in 1 .. N /\ dueList'[Rank(P, s)] = slots[s]
    BY <1>1, <1>6, <2>1, SelectedFacts
  <2>3. \A k \in 1 .. N : dueList'[k] \in Timers BY <1>3, <2>2
  <2>4. dueList' \in Seq(Timers) BY <2>2, <2>3
  <2>5. \A k \in 1 .. N : Rank(P, Kth(P, k)) = k BY <1>2, <1>6, KthFacts
  <2>6. \A j, k \in 1 .. N : Kth(P, j) = Kth(P, k) => j = k
    <3> SUFFICES ASSUME NEW j \in 1 .. N, NEW k \in 1 .. N, Kth(P, j) = Kth(P, k) PROVE j = k
      OBVIOUS
    <3>1. Rank(P, Kth(P, j)) = j /\ Rank(P, Kth(P, k)) = k BY <2>5
    <3> QED BY <3>1
  <2> QED BY <2>2, <2>4, <2>6
<1> HIDE DEF N
<1>9. TypeOK' /\ (got \in [Ids -> Seq(CallbackNames)] /\ IsFiniteSet(table))'
  BY <1>1, <1>2, <1>7, <1>8 DEF IInv, TypeOK
<1>10. Control' BY <1>1, <1>2 DEF IInv, Control
<1>11. Fitting' /\ InOrder' /\ Whole' /\ Owned' /\ OneReleased'
  BY <1>1, SameFitting, SameOrder, SameWhole, SameOwned, SameReleased DEF IInv, SameCall
<1>12. ASSUME NEW t \in Timers PROVE OnePlace(t)' /\ InTime(t)'
  <2>1. OnePlace(t) /\ InTime(t) BY DEF IInv
  <2>2. /\ InQueue(t)' <=> InQueue(t)
        /\ InBatch(t)' <=> InBatch(t)
        /\ Reached(t)' <=> Reached(t)
    BY <1>1 DEF InQueue, InBatch, Reached, Uncalled
  <2>3. ~ InDue(t) BY <1>2 DEF InDue
  <2>4. t # NoOne BY KindFacts
  <2>5. InSlot(t)' <=> \E s \in 1 .. MaxTimers : s \notin P /\ slots[s] = t
    BY <1>4, <1>5, <2>4 DEF InSlot
  <2>6. DOMAIN dueList' = 1 .. N BY <1>8
  <2>7. InDue(t)' <=> \E s \in P : slots[s] = t BY <1>8, <2>6 DEF InDue
  <2>8. \A s, u \in 1 .. MaxTimers : slots[s] = t /\ slots[u] = t => s = u
    BY <2>1 DEF OnePlace
  <2>9. InSlot(t)' \/ InDue(t)' <=> InSlot(t) BY <1>3, <2>5, <2>7 DEF InSlot
  <2>10. ~ (InSlot(t)' /\ InDue(t)') BY <1>3, <2>5, <2>7, <2>8
  <2>11. \A s, u \in 1 .. MaxTimers : slots'[s] = t /\ slots'[u] = t => s = u
    BY <1>4, <1>5, <2>4, <2>8
  <2>12. \A j, k \in DOMAIN dueList' : dueList'[j] = t /\ dueList'[k] = t => j = k
    <3> SUFFICES ASSUME NEW j \in 1 .. N, NEW k \in 1 .. N, dueList'[j] = t, dueList'[k] = t
                 PROVE  j = k
      BY <2>6
    <3>1. /\ slots[Kth(P, j)] = t /\ Kth(P, j) \in 1 .. MaxTimers
          /\ slots[Kth(P, k)] = t /\ Kth(P, k) \in 1 .. MaxTimers
      BY <1>3, <1>8
    <3>2. Kth(P, j) = Kth(P, k) BY <2>8, <3>1
    <3> QED BY <1>8, <3>2
  <2>13. UNCHANGED <<queue, batch, got, lost, asked, fires, released, now>> BY <1>1
  <2>14. OnePlace(t)'
    BY <2>1, <2>2, <2>3, <2>9, <2>10, <2>11, <2>12, <2>13 DEF OnePlace
  <2>15. InDue(t)' => fires[t] <= now BY <1>3, <2>7
  <2>16. InTime(t)'
    <3>1. fires[t] \in Nat /\ asked[t] \in Nat /\ now \in Nat
      BY <1>2, LimitsPositive DEF TypeOK, Never
    <3>2. t \notin released => (InSlot(t) => fires[t] = asked[t]) BY <2>1 DEF InTime
    <3>3. t \notin released /\ InDue(t)' => now >= asked[t] BY <2>9, <2>15, <3>1, <3>2
    <3>4. t \notin released /\ InSlot(t)' => fires[t] = asked[t] BY <2>9, <3>2
    <3> QED BY <2>1, <2>2, <2>13, <3>3, <3>4 DEF InTime
  <2> QED BY <2>14, <2>16
<1> QED BY <1>9, <1>10, <1>11, <1>12 DEF IInv

LEMMA QueueDueStep ==
  ASSUME IInv, QueueDue
  PROVE  IInv'
<1> DEFINE n == "onTimerEvent"
<1>0. dueList # <<>> /\ Head(dueList) \in Timers
  BY TailFacts DEF QueueDue, IInv, TypeOK
<1>a. PICK e \in Timers : e = Head(dueList) BY <1>0
<1> DEFINE c == Callback(n, e, FALSE)
<1>1. /\ pc = "due" /\ dueList # <<>> /\ dueList' = Tail(dueList) /\ Enqueue(c)
      /\ UNCHANGED <<pc, batch, slots, fires, attempted, asked, released, table,
                     completing, script, reply, cleaned, now, got>>
  BY <1>a DEF QueueDue, mainVars, httpVars
<1>2. TypeOK /\ dueList \in Seq(Timers) BY DEF IInv, TypeOK
<1>3. /\ dueList' \in Seq(Timers) /\ Len(dueList) \in Nat /\ Len(dueList') = Len(dueList) - 1
      /\ Len(dueList) >= 1
      /\ \A k \in 1 .. Len(dueList) - 1 : dueList'[k] = dueList[k + 1]
      /\ e = dueList[1] /\ e \in Timers
  BY <1>1, <1>2, <1>a, TailFacts
<1>4. c \in Callbacks /\ c.id = e /\ c.data = FALSE
  <2>1. n \in CallbackNames /\ e \in Ids BY <1>3, KindFacts DEF CallbackNames, Terminals
  <2> QED BY <2>1 DEF Callback, Callbacks
<1> HIDE DEF c
<1>5. /\ queue' \in Seq(Callbacks) /\ Len(queue') <= MaxQueue
      /\ live' \in SUBSET Ids /\ lost' \in SUBSET Ids /\ nomem' \in SUBSET Ids
      /\ Joined(c) \/ Dropped(c)
      /\ Grows(c)
  BY <1>1, <1>2, <1>4, EnqueueFacts DEF Grows
<1>6. completing = NoOne /\ script = <<>> /\ DOMAIN script = {} BY <1>1, NoScript
<1>7. e \notin Requests /\ e \notin Android BY <1>3, KindFacts
<1>8. TypeOK' /\ (got \in [Ids -> Seq(CallbackNames)] /\ IsFiniteSet(table))'
  BY <1>1, <1>3, <1>5 DEF IInv, TypeOK
<1>9. Control' BY <1>1 DEF IInv, Control
<1>10. Fitting'
  <2>1. Fits(c)' BY <1>4, <1>7 DEF Fits
  <2>2. \A d \in Callbacks : Fits(d) => Fits(d)' BY <1>1, StillFits
  <2>3. \A k \in DOMAIN queue' : Fits(queue[k])' BY <1>4, <1>5, <2>1, <2>2, QueueFits
  <2>4. \A k \in DOMAIN batch' : Fits(batch[k])' BY <1>1 DEF IInv, Fitting, Fits, Story
  <2> QED BY <1>1, <1>6, <2>3, <2>4 DEF IInv, Fitting, Story
<1>11. InOrder'
  <2>1. /\ Rising(script)' /\ Precede(batch, script)'
        /\ \A k \in DOMAIN script' : Follows(script[k])'
    BY <1>1, <1>6 DEF Rising, Precede
  <2> QED BY <1>1, <1>4, <1>5, <1>6, <1>7, <2>1, QueueOrder
<1>12. Whole'
  <2>1. c.id \notin Android BY <1>4, <1>7
  <2> QED BY <1>1, <1>4, <1>5, <1>6, <2>1, QueueWhole
<1>13. Owned'
  <2>1. Alone(script)' BY <1>1, <1>6 DEF Alone
  <2> QED BY <1>1, <1>4, <1>5, <1>6, <2>1, QueueOwned
<1>14. OneReleased' BY <1>1, SameReleased DEF IInv
<1>15. /\ DOMAIN dueList = 1 .. Len(dueList) /\ DOMAIN dueList' = 1 .. Len(dueList')
       /\ 1 \in DOMAIN dueList
       /\ \A k \in DOMAIN dueList' : k + 1 \in DOMAIN dueList /\ dueList'[k] = dueList[k + 1]
       /\ \A k \in DOMAIN dueList : k = 1 \/ (k - 1 \in DOMAIN dueList' /\ dueList'[k - 1] = dueList[k])
  BY <1>2, <1>3
<1>16. ASSUME NEW t \in Timers PROVE /\ OnePlace(t) /\ InTime(t)
                                     /\ \A j, k \in DOMAIN dueList' :
                                          dueList'[j] = t /\ dueList'[k] = t => j = k
  <2>1. OnePlace(t) /\ InTime(t) BY DEF IInv
  <2> SUFFICES ASSUME NEW j \in DOMAIN dueList', NEW k \in DOMAIN dueList',
                      dueList'[j] = t, dueList'[k] = t
               PROVE  j = k
    BY <2>1
  <2>2. j + 1 = k + 1 BY <1>15, <2>1 DEF OnePlace
  <2> QED BY <1>3, <1>15, <2>2
<1>17. ASSUME NEW t \in Timers, t # e PROVE OnePlace(t)' /\ InTime(t)'
  <2>1. /\ InSlot(t)' <=> InSlot(t)
        /\ InQueue(t)' <=> InQueue(t)
        /\ InBatch(t)' <=> InBatch(t)
        /\ Reached(t)' <=> Reached(t)
        /\ t \in lost' <=> t \in lost
        /\ (\A j, k \in DOMAIN queue : queue[j].id = t /\ queue[k].id = t => j = k)'
    BY <1>1, <1>4, <1>5, <1>17, QueueOthers
  <2>2. InDue(t)' <=> InDue(t) BY <1>3, <1>15, <1>17 DEF InDue
  <2>3. OnePlace(t)' BY <1>1, <1>16, <2>1, <2>2 DEF OnePlace
  <2>4. InTime(t)' BY <1>1, <1>16, <2>1, <2>2 DEF InTime
  <2> QED BY <2>3, <2>4
<1>18. OnePlace(e)' /\ InTime(e)'
  <2>1. OnePlace(e) /\ InTime(e) BY <1>3, <1>16
  <2>2. InDue(e) BY <1>3, <1>15 DEF InDue
  <2>3. ~ (InSlot(e) \/ InQueue(e) \/ InBatch(e) \/ Reached(e) \/ e \in lost) BY <2>1, <2>2 DEF OnePlace
  <2>4. ~ InDue(e)'
    <3> SUFFICES ASSUME NEW k \in DOMAIN dueList', dueList'[k] = e PROVE FALSE BY DEF InDue
    <3>1. k + 1 = 1 BY <1>3, <1>15, <2>1 DEF OnePlace
    <3> QED BY <1>3, <1>15, <3>1
  <2>5. /\ InSlot(e)' <=> InSlot(e)
        /\ InBatch(e)' <=> InBatch(e)
        /\ Reached(e)' <=> Reached(e)
    BY <1>1 DEF InSlot, InBatch, Reached, Uncalled
  <2>6. \A k \in DOMAIN queue : queue[k].id # e BY <2>3 DEF InQueue
  <2>7. DOMAIN queue = 1 .. Len(queue) /\ Len(queue) \in Nat /\ DOMAIN queue' = 1 .. Len(queue')
    BY <1>2, <1>5, Domains DEF IInv
  <2>8. /\ \A j, k \in DOMAIN queue' : queue'[j].id = e /\ queue'[k].id = e => j = k
        /\ InQueue(e)' \/ e \in lost'
        /\ InQueue(e)' => e \notin lost'
    <3>1. CASE Joined(c)
      <4>1. /\ \A k \in DOMAIN queue' : queue'[k].id = e => k = Len(queue) + 1
            /\ Len(queue) + 1 \in DOMAIN queue' /\ queue'[Len(queue) + 1].id = e
        BY <1>4, <2>6, <2>7, <3>1 DEF Joined
      <4> QED BY <2>3, <3>1, <4>1 DEF Joined, InQueue
    <3>2. CASE Dropped(c)
      BY <1>4, <2>6, <3>2 DEF Dropped, InQueue
    <3> QED BY <1>5, <3>1, <3>2
  <2>9. UNCHANGED <<slots, batch, got, asked, released, now>> BY <1>1
  <2>10. OnePlace(e)'
    BY <1>3, <1>16, <2>1, <2>2, <2>3, <2>4, <2>5, <2>8, <2>9 DEF OnePlace
  <2>11. InTime(e)' BY <2>1, <2>2, <2>3, <2>4, <2>5, <2>9 DEF InTime
  <2> QED BY <2>10, <2>11
<1> QED BY <1>8, <1>9, <1>10, <1>11, <1>12, <1>13, <1>14, <1>17, <1>18 DEF IInv

-----------------------------------------------------------------------------
(* The batch *)

LEMMA TakeBatchStep ==
  ASSUME IInv, TakeBatch
  PROVE  IInv'
<1>1. /\ pc = "due" /\ pc' = "run" /\ dueList = <<>> /\ batch' = queue /\ queue' = <<>>
      /\ UNCHANGED <<live, lost, nomem, slots, fires, dueList, attempted, asked, released, table,
                     completing, script, reply, cleaned, now, got>>
  BY DEF TakeBatch, timerVars, httpVars
<1>2. /\ TypeOK /\ batch = <<>> /\ DOMAIN batch = {} BY <1>1 DEF IInv, Control
<1>3. completing = NoOne /\ script = <<>> /\ DOMAIN script = {} BY <1>1, NoScript
<1>4. /\ queue' \in Seq(Callbacks) /\ Len(queue') = 0 /\ DOMAIN queue' = {} /\ MaxQueue \in Nat
  BY <1>1, LimitsPositive
<1>5. \A k : Uncalled(k)' BY <1>1 DEF Uncalled
<1>6. TypeOK' /\ (got \in [Ids -> Seq(CallbackNames)] /\ IsFiniteSet(table))'
  BY <1>1, <1>2, <1>4 DEF IInv, TypeOK
<1>7. Control' BY <1>1, <1>3 DEF IInv, Control
<1>8. Fitting'
  <2>1. \A k \in DOMAIN batch' : Fits(batch[k])' BY <1>1 DEF IInv, Fitting, Fits, Story
  <2> QED BY <1>1, <1>3, <1>4, <2>1 DEF IInv, Fitting, Story
<1>9. InOrder'
  <2>1. Rising(batch)' BY <1>1 DEF IInv, InOrder, Rising
  <2>2. Rising(queue)' /\ Rising(script)' /\ Precede(batch, queue)' /\ Precede(batch, script)'
        /\ Precede(queue, script)'
    BY <1>1, <1>3, <1>4 DEF Rising, Precede
  <2>3. \A k \in DOMAIN batch' : Follows(batch[k])' BY <1>1 DEF IInv, InOrder, Follows
  <2>4. (\A r \in Android : \A j, k \in DOMAIN got[r] : j < k => Stage(got[r][j]) < Stage(got[r][k]))'
    BY <1>1 DEF IInv, InOrder
  <2> QED BY <1>1, <1>3, <1>4, <2>1, <2>2, <2>3, <2>4 DEF InOrder
<1>10. Whole'
  <2> SUFFICES ASSUME NEW r \in Android \ (lost' \cup nomem'), reply'[r] # "none",
                      NEW m \in Story(r)'
               PROVE  Said(r, m)'
    BY DEF Whole, AllSaid
  <2>1. Story(r)' = Story(r) BY <1>1 DEF Story
  <2>2. Said(r, m) BY <1>1, <2>1 DEF IInv, Whole, AllSaid
  <2> QED BY <1>1, <1>2, <1>3, <1>5, <2>2 DEF Said
<1>11. Owned'
  <2>1. /\ Alone(queue) /\ \A k \in DOMAIN queue : queue[k].data => queue[k].id \in live
        /\ \A i \in live : \E k \in DOMAIN queue : queue[k].id = i /\ queue[k].data
    BY <1>2 DEF IInv, Owned
  <2> QED BY <1>1, <1>3, <1>4, <2>1 DEF Owned, Alone
<1>12. OneReleased' BY <1>1, SameReleased DEF IInv
<1>13. ASSUME NEW t \in Timers PROVE OnePlace(t)' /\ InTime(t)'
  <2>1. OnePlace(t) /\ InTime(t) BY DEF IInv
  <2>2. /\ InSlot(t)' <=> InSlot(t)
        /\ InDue(t)' <=> InDue(t)
        /\ Reached(t)' <=> Reached(t)
    BY <1>1 DEF InSlot, InDue, Reached
  <2>3. ~ InQueue(t)' BY <1>4 DEF InQueue
  <2>4. InBatch(t)' <=> InQueue(t) BY <1>1, <1>5 DEF InBatch, InQueue
  <2>5. ~ InBatch(t) BY <1>2 DEF InBatch
  <2>6. UNCHANGED <<slots, fires, dueList, got, asked, lost, released, now>> BY <1>1
  <2>7. \A j, k \in DOMAIN batch' : batch'[j].id = t /\ batch'[k].id = t => j = k
    BY <1>1, <2>1 DEF OnePlace
  <2>8. \A j, k \in DOMAIN queue' : queue'[j].id = t /\ queue'[k].id = t => j = k BY <1>4
  <2>9. OnePlace(t)'
    BY <2>1, <2>2, <2>3, <2>4, <2>5, <2>6, <2>7, <2>8 DEF OnePlace
  <2>10. InTime(t)' BY <2>1, <2>2, <2>3, <2>4, <2>6 DEF InTime
  <2> QED BY <2>9, <2>10
<1> QED BY <1>6, <1>7, <1>8, <1>9, <1>10, <1>11, <1>12, <1>13 DEF IInv

LEMMA CallNativeStep ==
  ASSUME IInv, CallNative
  PROVE  IInv'
<1>1. /\ pc = "run" /\ batch # <<>> /\ pc' = "native"
      /\ UNCHANGED <<batch, queue, live, lost, nomem, slots, fires, dueList, attempted, asked,
                     released, table, completing, script, reply, cleaned, now>>
  BY DEF CallNative, queueVars, timerVars, httpVars
<1>2. TypeOK /\ batch \in Seq(Callbacks) /\ got \in [Ids -> Seq(CallbackNames)]
  BY DEF IInv, TypeOK
<1>3. /\ Len(batch) \in Nat /\ Len(batch) >= 1 /\ DOMAIN batch = 1 .. Len(batch)
      /\ Head(batch) = batch[1] /\ batch[1] \in Callbacks /\ 1 \in DOMAIN batch
  BY <1>1, <1>2, TailFacts
<1>4. PICK c \in Callbacks : c = batch[1] BY <1>3
<1>5. c.id \in Ids /\ c.name \in CallbackNames BY DEF Callbacks
<1>6. got' = [got EXCEPT ![c.id] = Append(@, c.name)] BY <1>3, <1>4 DEF CallNative
<1> DEFINE g == got[c.id]
<1>7. /\ got'[c.id] = Append(g, c.name) /\ g \in Seq(CallbackNames)
      /\ \A i \in Ids \ {c.id} : got'[i] = got[i]
      /\ got' \in [Ids -> Seq(CallbackNames)]
  BY <1>2, <1>5, <1>6
<1>8. /\ Len(g) \in Nat /\ DOMAIN g = 1 .. Len(g) /\ DOMAIN got'[c.id] = 1 .. Len(g) + 1
      /\ \A k \in DOMAIN g : got'[c.id][k] = g[k]
      /\ got'[c.id][Len(g) + 1] = c.name /\ Len(got'[c.id]) = Len(g) + 1
  BY <1>5, <1>7, AppendFacts
<1> HIDE DEF g
<1>9. completing = NoOne /\ script = <<>> /\ DOMAIN script = {} BY <1>1, NoScript
<1>10. (\A k : Uncalled(k)) /\ \A k : Uncalled(k)' <=> k # 1 BY <1>1 DEF Uncalled
<1>11. TypeOK' /\ (got \in [Ids -> Seq(CallbackNames)] /\ IsFiniteSet(table))'
  BY <1>1, <1>2, <1>7 DEF IInv, TypeOK
<1>12. Control' BY <1>1, <1>9 DEF IInv, Control
<1>13. Fitting'
  <2>1. /\ \A k \in DOMAIN batch' : Fits(batch[k])'
        /\ \A k \in DOMAIN queue' : Fits(queue[k])'
    BY <1>1 DEF IInv, Fitting, Fits, Story
  <2>2. Fits(c) BY <1>3, <1>4 DEF IInv, Fitting
  <2>3. ASSUME NEW r \in Android, NEW k \in DOMAIN got'[r]
        PROVE  /\ reply'[r] # "none" /\ got'[r][k] \in Story(r)' \cup {"HttpTransactionCleanup"}
               /\ got'[r][k] = "HttpTransactionCleanup" => r \in cleaned'
    <3>1. Story(r)' = Story(r) BY <1>1 DEF Story
    <3>2. r \in Requests /\ r \in Ids BY KindFacts
    <3>3. CASE r = c.id /\ k = Len(g) + 1
      BY <1>1, <1>8, <2>2, <3>1, <3>2, <3>3 DEF Fits
    <3>4. CASE r # c.id
      <4>1. got'[r] = got[r] BY <1>7, <3>2, <3>4
      <4> QED BY <1>1, <3>1, <4>1 DEF IInv, Fitting
    <3>5. CASE r = c.id /\ k # Len(g) + 1
      <4>1. k \in DOMAIN g /\ got'[r][k] = got[r][k] BY <1>8, <3>5 DEF g
      <4> QED BY <1>1, <3>1, <3>5, <4>1 DEF IInv, Fitting, g
    <3> QED BY <3>3, <3>4, <3>5
  <2> QED BY <1>1, <1>9, <2>1, <2>3 DEF IInv, Fitting
<1>14. InOrder'
  <2>1. /\ Rising(batch) /\ Rising(queue) /\ Precede(batch, queue)
        /\ \A k \in DOMAIN batch : Follows(batch[k])
        /\ \A k \in DOMAIN queue : Follows(queue[k])
        /\ \A r \in Android : \A j, k \in DOMAIN got[r] : j < k => Stage(got[r][j]) < Stage(got[r][k])
    BY <1>10 DEF IInv, InOrder
  <2>2. Rising(batch)' /\ Rising(queue)' /\ Precede(batch, queue)'
    BY <1>1, <2>1 DEF Rising, Precede
  <2>3. Rising(script)' /\ Precede(batch, script)' /\ Precede(queue, script)'
        /\ \A k \in DOMAIN script' : Follows(script[k])'
    BY <1>1, <1>9 DEF Rising, Precede
  <2>4. c.id \in Android => \A k \in DOMAIN g : Stage(g[k]) < Stage(c.name)
    BY <1>3, <1>4, <2>1 DEF Follows, g
  <2>5. ASSUME NEW r \in Android, NEW j \in DOMAIN got'[r], NEW k \in DOMAIN got'[r], j < k
        PROVE  Stage(got'[r][j]) < Stage(got'[r][k])
    <3>1. CASE r # c.id
      <4>1. got'[r] = got[r] BY <1>7, <3>1, KindFacts
      <4> QED BY <2>1, <2>5, <4>1
    <3>2. CASE r = c.id
      <4>1. j \in DOMAIN g /\ got'[r][j] = g[j] BY <1>8, <2>5, <3>2
      <4>2. CASE k = Len(g) + 1 BY <1>8, <2>4, <3>2, <4>1, <4>2
      <4>3. CASE k # Len(g) + 1
        <5>1. k \in DOMAIN g /\ got'[r][k] = g[k] BY <1>8, <3>2, <4>3
        <5> QED BY <2>1, <2>5, <3>2, <4>1, <5>1 DEF g
      <4> QED BY <4>2, <4>3
    <3> QED BY <3>1, <3>2
  (* Whatever comes after the callback that is called follows it too. *)
  <2>6. ASSUME NEW d \in Callbacks, Follows(d),
               d.id = c.id /\ d.id \in Android => Stage(c.name) < Stage(d.name)
        PROVE  Follows(d)'
    <3> SUFFICES ASSUME d.id \in Android, NEW k \in DOMAIN got'[d.id]
                 PROVE  Stage(got'[d.id][k]) < Stage(d.name)
      BY DEF Follows
    <3>1. CASE d.id # c.id
      <4>1. got'[d.id] = got[d.id] BY <1>7, <3>1, KindFacts
      <4> QED BY <2>6, <4>1 DEF Follows
    <3>2. CASE d.id = c.id /\ k = Len(g) + 1 BY <1>8, <2>6, <3>2
    <3>3. CASE d.id = c.id /\ k # Len(g) + 1
      <4>1. k \in DOMAIN g /\ got'[d.id][k] = g[k] BY <1>8, <3>3
      <4> QED BY <2>6, <3>3, <4>1 DEF Follows, g
    <3> QED BY <3>1, <3>2, <3>3
  <2>7. ASSUME NEW k \in DOMAIN batch', k # 1 PROVE Follows(batch[k])'
    <3>1. PICK d \in Callbacks : d = batch[k] BY <1>1, <1>2
    <3>2. 1 < k BY <1>1, <1>3, <2>7
    <3>3. d.id = c.id /\ d.id \in Android => Stage(c.name) < Stage(d.name)
      BY <1>1, <1>3, <1>4, <2>1, <3>1, <3>2 DEF Rising
    <3>4. Follows(d) BY <1>1, <2>1, <3>1
    <3>5. Follows(d)' BY <2>6, <3>3, <3>4
    <3> QED BY <1>1, <3>1, <3>5 DEF Follows
  <2>8. ASSUME NEW k \in DOMAIN queue' PROVE Follows(queue[k])'
    <3>1. PICK d \in Callbacks : d = queue[k] BY <1>1 DEF IInv, TypeOK
    <3>2. d.id = c.id /\ d.id \in Android => Stage(c.name) < Stage(d.name)
      BY <1>1, <1>3, <1>4, <2>1, <3>1 DEF Precede
    <3>3. Follows(d) BY <1>1, <2>1, <3>1
    <3>4. Follows(d)' BY <2>6, <3>2, <3>3
    <3> QED BY <1>1, <3>1, <3>4 DEF Follows
  <2> QED BY <1>10, <2>2, <2>3, <2>5, <2>7, <2>8 DEF InOrder
<1>15. Whole'
  <2> SUFFICES ASSUME NEW r \in Android \ (lost' \cup nomem'), reply'[r] # "none",
                      NEW m \in Story(r)'
               PROVE  Said(r, m)'
    BY DEF Whole, AllSaid
  <2>0. r \in Ids BY KindFacts
  <2>1. Story(r)' = Story(r) BY <1>1 DEF Story
  <2>2. Said(r, m) BY <1>1, <2>1 DEF IInv, Whole, AllSaid
  <2>3. CASE \E k \in DOMAIN got[r] : got[r][k] = m
    <3>1. CASE r = c.id
      <4>1. PICK k \in DOMAIN g : g[k] = m BY <2>3, <3>1 DEF g
      <4>2. k \in DOMAIN got'[c.id] /\ got'[c.id][k] = m BY <1>8, <4>1
      <4> QED BY <3>1, <4>2 DEF Said
    <3>2. CASE r # c.id
      <4>1. got'[r] = got[r] BY <1>7, <2>0, <3>2
      <4> QED BY <2>3, <4>1 DEF Said
    <3> QED BY <3>1, <3>2
  <2>4. CASE \E k \in DOMAIN batch : batch[k].id = r /\ batch[k].name = m
    <3>1. PICK k \in DOMAIN batch : batch[k].id = r /\ batch[k].name = m BY <2>4
    <3>2. CASE k = 1
      <4>1. r = c.id /\ m = c.name BY <1>4, <3>1, <3>2
      <4>2. Len(g) + 1 \in DOMAIN got'[c.id] /\ got'[c.id][Len(g) + 1] = m BY <1>8, <4>1
      <4> QED BY <4>1, <4>2 DEF Said
    <3>3. CASE k # 1 BY <1>1, <1>10, <3>1, <3>3 DEF Said
    <3> QED BY <3>2, <3>3
  <2>5. CASE \E k \in DOMAIN queue : queue[k].id = r /\ queue[k].name = m
    BY <1>1, <2>5 DEF Said
  <2> QED BY <1>9, <2>2, <2>3, <2>4, <2>5 DEF Said
<1>16. Owned' /\ OneReleased' BY <1>1, SameOwned, SameReleased DEF IInv
<1>17. ASSUME NEW t \in Timers
       PROVE  /\ OnePlace(t) /\ InTime(t)
              /\ InSlot(t)' <=> InSlot(t)
              /\ InDue(t)' <=> InDue(t)
              /\ InQueue(t)' <=> InQueue(t)
  BY <1>1 DEF IInv, InSlot, InDue, InQueue
<1>18. UNCHANGED <<queue, batch, slots, fires, dueList, asked, lost, released, now>> BY <1>1
<1>19. ASSUME NEW t \in Timers, t # c.id PROVE OnePlace(t)' /\ InTime(t)'
  <2>1. got'[t] = got[t] BY <1>7, <1>19, KindFacts
  <2>2. Reached(t)' <=> Reached(t) BY <2>1 DEF Reached
  <2>3. InBatch(t)' <=> InBatch(t) BY <1>1, <1>4, <1>10, <1>19 DEF InBatch
  <2>4. /\ OnePlace(t) /\ InTime(t)
        /\ InSlot(t)' <=> InSlot(t)
        /\ InDue(t)' <=> InDue(t)
        /\ InQueue(t)' <=> InQueue(t)
    BY <1>17
  <2>5. OnePlace(t)' BY <1>18, <2>1, <2>2, <2>3, <2>4 DEF OnePlace
  <2>6. InTime(t)' BY <1>18, <2>2, <2>3, <2>4 DEF InTime
  <2> QED BY <2>5, <2>6
<1>20. ASSUME c.id \in Timers PROVE OnePlace(c.id)' /\ InTime(c.id)'
  <2>1. PICK t \in Timers : t = c.id BY <1>20
  <2>2. /\ OnePlace(t) /\ InTime(t)
        /\ InSlot(t)' <=> InSlot(t)
        /\ InDue(t)' <=> InDue(t)
        /\ InQueue(t)' <=> InQueue(t)
    BY <1>17
  <2>3. InBatch(t) BY <1>3, <1>4, <1>10, <2>1 DEF InBatch
  <2>4. ~ (InSlot(t) \/ InDue(t) \/ InQueue(t) \/ Reached(t) \/ t \in lost)
    BY <2>2, <2>3 DEF OnePlace
  <2>5. \A j, k \in DOMAIN batch : batch[j].id = t /\ batch[k].id = t => j = k
    BY <2>2 DEF OnePlace
  <2>6. ~ InBatch(t)' BY <1>1, <1>3, <1>4, <1>10, <2>1, <2>5 DEF InBatch
  <2>7. Reached(t)' BY <1>8, <2>1 DEF Reached
  <2>8. Len(got'[t]) <= 1
    <3>1. g = <<>> BY <2>1, <2>4 DEF Reached, g
    <3>2. Len(g) = 0 BY <3>1
    <3>3. Len(got'[c.id]) = Len(g) + 1 BY <1>8
    <3>4. Len(got'[t]) = 0 + 1 BY <2>1, <3>2, <3>3
    <3> QED BY <3>4
  <2>9. OnePlace(t)' BY <1>18, <2>2, <2>3, <2>4, <2>6, <2>7, <2>8 DEF OnePlace
  <2>10. InTime(t)' BY <1>18, <2>2, <2>3, <2>4, <2>6 DEF InTime
  <2> QED BY <2>1, <2>9, <2>10
<1>21. ASSUME NEW t \in Timers PROVE OnePlace(t)' /\ InTime(t)'
  <2>1. CASE t # c.id BY <1>19, <2>1
  <2>2. CASE t = c.id BY <1>20, <2>2
  <2> QED BY <2>1, <2>2
<1> QED BY <1>11, <1>12, <1>13, <1>14, <1>15, <1>16, <1>21 DEF IInv

(* The head of the batch goes, and its payload with it; the game has heard  *)
(* it, or never will.                                                       *)
Shrinks(c) ==
  /\ batch # <<>> /\ c = Head(batch) /\ c \in Callbacks
  /\ batch' = Tail(batch) /\ live' = IF c.data THEN live \ {c.id} ELSE live
  /\ pc \in {"run", "native"} /\ pc' = "run"
  /\ UNCHANGED <<queue, nomem, slots, fires, dueList, attempted, asked, released, table,
                 completing, script, reply, cleaned, now, got>>

LEMMA ShrinkFacts ==
  ASSUME IInv, NEW c \in Callbacks, Shrinks(c)
  PROVE  /\ Len(batch) \in Nat /\ Len(batch) >= 1 /\ DOMAIN batch = 1 .. Len(batch)
         /\ batch' \in Seq(Callbacks) /\ Len(batch') = Len(batch) - 1
         /\ DOMAIN batch' = 1 .. Len(batch') /\ batch[1] = c /\ 1 \in DOMAIN batch
         /\ \A k \in DOMAIN batch' :
              k \in Nat /\ k + 1 # 1 /\ k + 1 \in DOMAIN batch /\ batch'[k] = batch[k + 1]
         /\ \A k \in DOMAIN batch :
              k = 1 \/ (k - 1 \in DOMAIN batch' /\ batch'[k - 1] = batch[k])
         /\ \A j, k \in DOMAIN batch' : j < k => j + 1 < k + 1
         /\ \A j, k \in DOMAIN batch' : j + 1 = k + 1 => j = k
<1>1. batch \in Seq(Callbacks) /\ batch # <<>> /\ batch' = Tail(batch) /\ c = Head(batch)
  BY DEF IInv, TypeOK, Shrinks
<1>2. /\ Tail(batch) \in Seq(Callbacks) /\ Len(batch) \in Nat /\ Len(Tail(batch)) = Len(batch) - 1
      /\ Len(batch) >= 1
      /\ \A k \in 1 .. Len(batch) - 1 : Tail(batch)[k] = batch[k + 1]
      /\ Head(batch) = batch[1]
  BY <1>1, TailFacts
<1>3. DOMAIN batch = 1 .. Len(batch) /\ DOMAIN batch' = 1 .. Len(batch) - 1 BY <1>1, <1>2
<1>4. \A k \in DOMAIN batch' :
        k \in Nat /\ k + 1 # 1 /\ k + 1 \in DOMAIN batch /\ batch'[k] = batch[k + 1]
  BY <1>1, <1>2, <1>3
<1>5. \A k \in DOMAIN batch : k = 1 \/ (k - 1 \in DOMAIN batch' /\ batch'[k - 1] = batch[k])
  BY <1>1, <1>2, <1>3
<1>6. /\ \A j, k \in DOMAIN batch' : j < k => j + 1 < k + 1
      /\ \A j, k \in DOMAIN batch' : j + 1 = k + 1 => j = k
  BY <1>3, <1>2
<1> QED BY <1>1, <1>2, <1>3, <1>4, <1>5, <1>6

LEMMA ShrinkStep ==
  ASSUME IInv, NEW c \in Callbacks, Shrinks(c),
         pc = "native" => lost' = lost,
         pc = "run" => lost' = lost \cup {c.id}
  PROVE  IInv'
<1>1. /\ pc \in {"run", "native"} /\ pc' = "run"
      /\ live' = IF c.data THEN live \ {c.id} ELSE live
      /\ UNCHANGED <<queue, nomem, slots, fires, dueList, attempted, asked, released, table,
                     completing, script, reply, cleaned, now, got>>
  BY DEF Shrinks
<1>2. /\ Len(batch) \in Nat /\ Len(batch) >= 1 /\ DOMAIN batch = 1 .. Len(batch)
      /\ batch' \in Seq(Callbacks) /\ Len(batch') = Len(batch) - 1
      /\ DOMAIN batch' = 1 .. Len(batch') /\ batch[1] = c /\ 1 \in DOMAIN batch
  BY ShrinkFacts
<1>3. /\ \A k \in DOMAIN batch' :
           k \in Nat /\ k + 1 # 1 /\ k + 1 \in DOMAIN batch /\ batch'[k] = batch[k + 1]
      /\ \A k \in DOMAIN batch :
           k = 1 \/ (k - 1 \in DOMAIN batch' /\ batch'[k - 1] = batch[k])
      /\ \A j, k \in DOMAIN batch' : j < k => j + 1 < k + 1
      /\ \A j, k \in DOMAIN batch' : j + 1 = k + 1 => j = k
  BY ShrinkFacts
<1>4. c.id \in Ids BY DEF Callbacks
<1>5. completing = NoOne /\ script = <<>> /\ DOMAIN script = {} BY <1>1, NoScript
<1>6. /\ \A k : Uncalled(k)'
      /\ \A k : k # 1 => Uncalled(k)
      /\ Uncalled(1) <=> pc = "run"
  BY <1>1 DEF Uncalled
<1>7. TypeOK' /\ (got \in [Ids -> Seq(CallbackNames)] /\ IsFiniteSet(table))'
  <2>1. TypeOK BY DEF IInv
  <2>2. Len(batch') <= MaxQueue BY <1>2, <2>1, LimitsPositive DEF TypeOK
  <2>3. live' \in SUBSET Ids /\ lost' \in SUBSET Ids BY <1>1, <1>4, <2>1 DEF TypeOK
  <2> QED BY <1>1, <1>2, <2>1, <2>2, <2>3 DEF IInv, TypeOK
<1>8. Control' BY <1>1, <1>5 DEF IInv, Control
<1>9. Fitting'
  <2>1. \A d \in Callbacks : Fits(d) => Fits(d)' BY <1>1, StillFits
  <2>2. ASSUME NEW k \in DOMAIN batch' PROVE Fits(batch[k])'
    <3>1. k + 1 \in DOMAIN batch /\ batch'[k] = batch[k + 1] BY <1>3
    <3>2. batch[k + 1] \in Callbacks /\ Fits(batch[k + 1]) BY <3>1 DEF IInv, Fitting, TypeOK
    <3>3. PICK d \in Callbacks : d = batch[k + 1] /\ Fits(d) BY <3>2
    <3>4. Fits(d)' /\ batch'[k] = d BY <2>1, <3>1, <3>3
    <3> QED BY <3>4 DEF Fits, Story
  <2>3. \A k \in DOMAIN queue' : Fits(queue[k])' BY <1>1 DEF IInv, Fitting, Fits, Story
  <2> QED BY <1>1, <1>5, <2>2, <2>3 DEF IInv, Fitting, Story
<1>10. InOrder'
  <2>1. /\ Rising(batch) /\ Rising(queue) /\ Precede(batch, queue)
        /\ \A k \in DOMAIN batch : Uncalled(k) => Follows(batch[k])
        /\ \A k \in DOMAIN queue : Follows(queue[k])
        /\ \A r \in Android : \A j, k \in DOMAIN got[r] : j < k => Stage(got[r][j]) < Stage(got[r][k])
    BY DEF IInv, InOrder
  <2>2. Rising(batch)' BY <1>3, <2>1 DEF Rising
  <2>3. Rising(queue)' /\ Precede(batch, queue)' BY <1>1, <1>3, <2>1 DEF Rising, Precede
  <2>4. Rising(script)' /\ Precede(batch, script)' /\ Precede(queue, script)'
        /\ \A k \in DOMAIN script' : Follows(script[k])'
    BY <1>1, <1>5 DEF Rising, Precede
  <2>5. \A k \in DOMAIN batch' : Follows(batch[k])'
    <3> SUFFICES ASSUME NEW k \in DOMAIN batch' PROVE Follows(batch[k])' OBVIOUS
    <3>1. k + 1 \in DOMAIN batch /\ batch'[k] = batch[k + 1] /\ k + 1 # 1 BY <1>3
    <3>2. Follows(batch[k + 1]) BY <1>6, <2>1, <3>1
    <3> QED BY <1>1, <3>1, <3>2 DEF Follows
  <2>6. \A k \in DOMAIN queue' : Follows(queue[k])' BY <1>1, <2>1 DEF Follows
  <2> QED BY <1>1, <2>1, <2>2, <2>3, <2>4, <2>5, <2>6 DEF InOrder
<1>11. Whole'
  <2> SUFFICES ASSUME NEW r \in Android \ (lost' \cup nomem'), reply'[r] # "none",
                      NEW m \in Story(r)'
               PROVE  Said(r, m)'
    BY DEF Whole, AllSaid
  <2>1. Story(r)' = Story(r) BY <1>1 DEF Story
  <2>2. r \notin lost /\ r \notin nomem BY <1>1
  <2>3. Said(r, m) BY <1>1, <2>1, <2>2 DEF IInv, Whole, AllSaid
  <2>4. CASE \E k \in DOMAIN batch : Uncalled(k) /\ batch[k].id = r /\ batch[k].name = m
    <3>1. PICK k \in DOMAIN batch : Uncalled(k) /\ batch[k].id = r /\ batch[k].name = m BY <2>4
    <3>2. k # 1
      <4>1. SUFFICES ASSUME k = 1 PROVE FALSE OBVIOUS
      <4>2. r = c.id /\ pc = "run" BY <1>2, <1>6, <3>1, <4>1
      <4> QED BY <4>2
    <3>3. k - 1 \in DOMAIN batch' /\ batch'[k - 1] = batch[k] BY <1>3, <3>2
    <3> QED BY <1>6, <3>1, <3>3 DEF Said
  <2>5. CASE (\E k \in DOMAIN got[r] : got[r][k] = m)
             \/ (\E k \in DOMAIN queue : queue[k].id = r /\ queue[k].name = m)
    BY <1>1, <2>5 DEF Said
  <2> QED BY <1>5, <2>3, <2>4, <2>5 DEF Said
<1>12. Owned'
  <2>1. /\ Alone(queue) /\ Alone(batch)
        /\ \A j \in DOMAIN queue, k \in DOMAIN batch :
             queue[j].data /\ batch[k].data => queue[j].id # batch[k].id
        /\ \A k \in DOMAIN queue : queue[k].data => queue[k].id \in live
        /\ \A k \in DOMAIN batch : batch[k].data => batch[k].id \in live
        /\ \A i \in live : \/ \E k \in DOMAIN queue : queue[k].id = i /\ queue[k].data
                           \/ \E k \in DOMAIN batch : batch[k].id = i /\ batch[k].data
    BY DEF IInv, Owned
  <2>2. Alone(batch)' BY <1>3, <2>1 DEF Alone
  <2>3. Alone(queue)' /\ Alone(script)' BY <1>1, <1>5, <2>1 DEF Alone
  <2>4. \A j \in DOMAIN queue', k \in DOMAIN batch' :
          queue'[j].data /\ batch'[k].data => queue'[j].id # batch'[k].id
    BY <1>1, <1>3, <2>1
  <2>5. \A k \in DOMAIN queue' : queue'[k].data => queue'[k].id \in live'
    BY <1>1, <1>2, <2>1
  <2>6. \A k \in DOMAIN batch' : batch'[k].data => batch'[k].id \in live'
    <3> SUFFICES ASSUME NEW k \in DOMAIN batch', batch'[k].data PROVE batch'[k].id \in live'
      OBVIOUS
    <3>1. k + 1 \in DOMAIN batch /\ batch'[k] = batch[k + 1] /\ k + 1 # 1 BY <1>3
    <3>2. batch[k + 1].id \in live BY <2>1, <3>1
    <3>3. ~ (c.data /\ c.id = batch[k + 1].id) BY <1>2, <2>1, <3>1 DEF Alone
    <3> QED BY <1>1, <3>1, <3>2, <3>3
  <2>7. ASSUME NEW i \in live'
        PROVE  \/ \E k \in DOMAIN queue' : queue'[k].id = i /\ queue'[k].data
               \/ \E k \in DOMAIN batch' : batch'[k].id = i /\ batch'[k].data
    <3>1. i \in live /\ (c.data => i # c.id) BY <1>1
    <3>2. CASE \E k \in DOMAIN queue : queue[k].id = i /\ queue[k].data BY <1>1, <3>2
    <3>3. CASE \E k \in DOMAIN batch : batch[k].id = i /\ batch[k].data
      <4>1. PICK k \in DOMAIN batch : batch[k].id = i /\ batch[k].data BY <3>3
      <4>2. k # 1 BY <1>2, <3>1, <4>1
      <4>3. k - 1 \in DOMAIN batch' /\ batch'[k - 1] = batch[k] BY <1>3, <4>2
      <4> QED BY <4>1, <4>3
    <3> QED BY <2>1, <3>1, <3>2, <3>3
  <2> QED BY <1>1, <1>5, <2>2, <2>3, <2>4, <2>5, <2>6, <2>7 DEF Owned
<1>13. OneReleased' BY <1>1, SameReleased DEF IInv
<1>14. ASSUME NEW t \in Timers PROVE OnePlace(t)' /\ InTime(t)'
  <2>1. OnePlace(t) /\ InTime(t) BY DEF IInv
  <2>2. /\ InSlot(t)' <=> InSlot(t)
        /\ InDue(t)' <=> InDue(t)
        /\ InQueue(t)' <=> InQueue(t)
        /\ Reached(t)' <=> Reached(t)
    BY <1>1 DEF InSlot, InDue, InQueue, Reached
  <2>3. UNCHANGED <<queue, slots, fires, dueList, asked, released, now, got>> BY <1>1
  <2>4. \A j, k \in DOMAIN batch : batch[j].id = t /\ batch[k].id = t => j = k
    BY <2>1 DEF OnePlace
  <2>5. \A j, k \in DOMAIN batch' : batch'[j].id = t /\ batch'[k].id = t => j = k
    BY <1>3, <2>4
  <2>6. InBatch(t)' <=> \E k \in DOMAIN batch : k # 1 /\ batch[k].id = t
    BY <1>3, <1>6 DEF InBatch
  <2>7. InBatch(t) <=> \/ \E k \in DOMAIN batch : k # 1 /\ batch[k].id = t
                       \/ pc = "run" /\ c.id = t
    BY <1>2, <1>6 DEF InBatch
  <2>8. CASE pc = "native" \/ c.id # t
    <3>1. InBatch(t)' <=> InBatch(t) BY <1>1, <2>6, <2>7, <2>8
    <3>2. t \in lost' <=> t \in lost BY <1>1, <2>8
    <3>3. OnePlace(t)' BY <2>1, <2>2, <2>3, <2>5, <3>1, <3>2 DEF OnePlace
    <3>4. InTime(t)' BY <2>1, <2>2, <2>3, <3>1 DEF InTime
    <3> QED BY <3>3, <3>4
  <2>9. CASE pc = "run" /\ c.id = t
    <3>1. InBatch(t) /\ ~ InBatch(t)' BY <1>2, <2>4, <2>6, <2>7, <2>9
    <3>2. t \in lost' BY <2>9
    <3>3. OnePlace(t)' BY <2>1, <2>2, <2>3, <2>5, <3>1, <3>2 DEF OnePlace
    <3>4. InTime(t)' BY <2>1, <2>2, <2>3, <3>1 DEF InTime
    <3> QED BY <3>3, <3>4
  <2> QED BY <1>1, <2>8, <2>9
<1> QED BY <1>7, <1>8, <1>9, <1>10, <1>11, <1>12, <1>13, <1>14 DEF IInv

LEMMA DispatchStep ==
  ASSUME IInv, NativeReturns \/ SkipCallback
  PROVE  IInv'
<1>1. batch # <<>> BY DEF IInv, Control, NativeReturns, SkipCallback
<1>2. Head(batch) \in Callbacks BY <1>1, TailFacts DEF IInv, TypeOK
<1>3. PICK c \in Callbacks : c = Head(batch) BY <1>2
<1>4. CASE NativeReturns
  <2>1. Shrinks(c) /\ lost' = lost /\ pc = "native"
    BY <1>1, <1>3, <1>4
    DEF NativeReturns, FreePayload, Shrinks, timerVars, httpVars
  <2> QED BY <2>1, ShrinkStep
<1>5. CASE SkipCallback
  <2>1. Shrinks(c) /\ lost' = lost \cup {c.id} /\ pc = "run"
    BY <1>1, <1>3, <1>5
    DEF SkipCallback, FreePayload, Shrinks, timerVars, httpVars
  <2> QED BY <2>1, ShrinkStep
<1> QED BY <1>4, <1>5

-----------------------------------------------------------------------------
(* The inductive invariant of the queue of callbacks, the timers and the    *)
(* requests holds throughout: for any number of each and any limits.        *)
THEOREM PumpInvariantHolds == Spec => []IInv
<1>1. IInv /\ [Next]_vars => IInv'
  <2> SUFFICES ASSUME IInv, [Next]_vars PROVE IInv' OBVIOUS
  <2>1. ASSUME NEW r \in Requests, Complete(r) PROVE IInv' BY <2>1, CompleteStep
  <2>2. CASE QueueNext BY <2>2, QueueNextStep
  <2>3. CASE Retire BY <2>3, RetireStep
  <2>4. CASE HttpDone \/ EndFrame \/ DispatchDone BY <2>4, TurnStep
  <2>5. CASE ReleaseStartupWait BY <2>5, ReleaseStartupWaitStep
  <2>6. CASE CollectDue BY <2>6, CollectDueStep
  <2>7. CASE QueueDue BY <2>7, QueueDueStep
  <2>8. CASE TakeBatch BY <2>8, TakeBatchStep
  <2>9. CASE CallNative BY <2>9, CallNativeStep
  <2>10. CASE NativeReturns \/ SkipCallback BY <2>10, DispatchStep
  <2>11. ASSUME NEW r \in Requests, Start(r) PROVE IInv' BY <2>11, StartStep
  <2>12. ASSUME NEW r \in Android, ReleaseTransaction(r) PROVE IInv'
    BY <2>12, ReleaseTransactionStep
  <2>13. ASSUME NEW t \in Timers, Schedule(t) PROVE IInv' BY <2>13, ScheduleStep
  <2>14. ASSUME NEW p \in Prompts, Prompt(p) PROVE IInv' BY <2>14, PromptStep
  <2>15. CASE Tick BY <2>15, TickStep
  <2>16. CASE UNCHANGED vars
    <3>1. UNCHANGED <<pc, queue, batch, slots, fires, dueList, attempted, now, table, completing,
                      script, cleaned, live, reply, asked, got, released, lost, nomem>>
      BY <2>16 DEF vars, mainVars, queueVars, timerVars, httpVars
    <3>2. TypeOK' /\ (got \in [Ids -> Seq(CallbackNames)] /\ IsFiniteSet(table))' /\ Control'
      BY <3>1 DEF IInv, TypeOK, Control
    <3>3. Fitting' /\ InOrder' /\ Whole' /\ Owned' /\ OneReleased'
      BY <3>1, SameFitting, SameOrder, SameWhole, SameOwned, SameReleased DEF IInv, SameCall
    <3>4. \A t \in Timers : OnePlace(t)' /\ InTime(t)'
      BY <3>1, SamePlace, SameTime DEF IInv, SameCall
    <3> QED BY <3>2, <3>3, <3>4 DEF IInv
  <2> QED
    BY <2>1, <2>2, <2>3, <2>4, <2>5, <2>6, <2>7, <2>8, <2>9, <2>10, <2>11, <2>12, <2>13, <2>14,
       <2>15, <2>16 DEF Next, Frame, Upcall
<1> QED BY <1>1, InitHolds, PTL DEF Spec

-----------------------------------------------------------------------------
(* What follows from it *)

(* A set without two elements has one or none. *)
LEMMA AtMostOne ==
  ASSUME NEW X, \A j, k \in X : j = k
  PROVE  Cardinality(X) = IF X = {} THEN 0 ELSE 1
<1>1. CASE X = {} BY <1>1, FS_EmptySet
<1>2. CASE X # {}
  <2>1. PICK x : X = {x} BY <1>2
  <2> QED BY <2>1, FS_Singleton
<1> QED BY <1>1, <1>2

LEMMA EachTimerInOnePlace ==
  ASSUME IInv, NEW t \in Timers
  PROVE  Places(t) = IF asked[t] = Never THEN 0 ELSE 1
<1> DEFINE A == {s \in 1..MaxTimers : slots[s] = t}
           B == {k \in DOMAIN dueList : dueList[k] = t}
           C == {k \in DOMAIN queue : queue[k].id = t}
           D == {k \in DOMAIN batch : batch[k].id = t /\ ~(k = 1 /\ pc = "native")}
           E == Len(got[t])
           F == IF t \in lost THEN 1 ELSE 0
<1>1. OnePlace(t) BY DEF IInv
<1>2. /\ A # {} <=> InSlot(t)
      /\ B # {} <=> InDue(t)
      /\ C # {} <=> InQueue(t)
      /\ D # {} <=> InBatch(t)
  BY DEF InSlot, InDue, InQueue, InBatch, Uncalled
<1>3. /\ \A j, k \in A : j = k
      /\ \A j, k \in B : j = k
      /\ \A j, k \in C : j = k
      /\ \A j, k \in D : j = k
  BY <1>1 DEF OnePlace
<1>4. E = IF Reached(t) THEN 1 ELSE 0
  <2>1. got[t] \in Seq(CallbackNames) /\ Len(got[t]) <= 1
    BY <1>1, KindFacts DEF IInv, OnePlace
  <2>2. Len(got[t]) \in Nat /\ (Len(got[t]) = 0 <=> got[t] = <<>>) BY <2>1
  <2>3. \A n \in Nat : n <= 1 => n = 0 \/ n = 1 OBVIOUS
  <2>4. Len(got[t]) = 0 \/ Len(got[t]) = 1 BY <2>1, <2>2, <2>3
  <2> QED BY <2>2, <2>4 DEF Reached
<1>5. Places(t) = Cardinality(A) + Cardinality(B) + Cardinality(C) + Cardinality(D) + E + F
  BY DEF Places
<1> HIDE DEF A, B, C, D, E
<1>6. /\ Cardinality(A) = IF InSlot(t) THEN 1 ELSE 0
      /\ Cardinality(B) = IF InDue(t) THEN 1 ELSE 0
      /\ Cardinality(C) = IF InQueue(t) THEN 1 ELSE 0
      /\ Cardinality(D) = IF InBatch(t) THEN 1 ELSE 0
  BY <1>2, <1>3, AtMostOne
<1>7. /\ InSlot(t) => ~ (InDue(t) \/ InQueue(t) \/ InBatch(t) \/ Reached(t) \/ t \in lost)
      /\ InDue(t) => ~ (InQueue(t) \/ InBatch(t) \/ Reached(t) \/ t \in lost)
      /\ InQueue(t) => ~ (InBatch(t) \/ Reached(t) \/ t \in lost)
      /\ InBatch(t) => ~ (Reached(t) \/ t \in lost)
      /\ Reached(t) => t \notin lost
      /\ asked[t] = Never <=>
           ~ (InSlot(t) \/ InDue(t) \/ InQueue(t) \/ InBatch(t) \/ Reached(t) \/ t \in lost)
  BY <1>1 DEF OnePlace
<1> QED BY <1>4, <1>5, <1>6, <1>7

(* Every variable keeps its type and every table its limit; an event that   *)
(* was asked for is in one place, however it is moved, queued, copied or    *)
(* dropped, and none but one startup wait reaches the game before its time. *)
THEOREM TimersHold == Spec => []TimersSound
<1>1. IInv => TimersSound
  <2> SUFFICES ASSUME IInv PROVE TimersSound OBVIOUS
  <2>1. TypeOK BY DEF IInv
  <2>2. TimersAccounted BY EachTimerInOnePlace DEF TimersAccounted
  <2>3. TimerNotEarly
    <3>1. PICK t \in StartupWaits \cup {NoOne} : released \subseteq {t}
      <4>1. CASE released = {} BY <4>1
      <4>2. CASE released # {}
        <5>1. PICK t \in released : TRUE BY <4>2
        <5> QED BY <5>1 DEF IInv, OneReleased
      <4> QED BY <4>1, <4>2
    <3>2. ASSUME NEW u \in Timers \ {t}, got[u] # <<>> PROVE now >= asked[u]
      BY <3>1, <3>2 DEF IInv, InTime, Reached
    <3> QED BY <3>1, <3>2 DEF TimerNotEarly
  <2> QED BY <2>1, <2>2, <2>3 DEF TimersSound
<1> QED BY <1>1, PumpInvariantHolds, PTL

(* A sequence that climbs through the stages of F, leaving none out below   *)
(* what it has, is a beginning of F.                                        *)
LEMMA ClimbsAsPrefix ==
  ASSUME NEW Item, NEW g \in Seq(Item), NEW F \in Seq(Item), Len(F) \in 1 .. 4,
         \A p \in DOMAIN F : Stage(F[p]) \in Nat,
         \A p, n \in DOMAIN F : p < n => Stage(F[p]) < Stage(F[n]),
         \A k \in DOMAIN g : \E p \in DOMAIN F : g[k] = F[p],
         \A j, k \in DOMAIN g : j < k => Stage(g[j]) < Stage(g[k]),
         \A k \in DOMAIN g, p \in DOMAIN F :
           Stage(F[p]) < Stage(g[k]) => \E j \in DOMAIN g : g[j] = F[p]
  PROVE  IsPrefix(g, F)
<1> DEFINE f == [k \in DOMAIN g |-> CHOOSE p \in DOMAIN F : g[k] = F[p]]
<1>1. /\ DOMAIN g = 1 .. Len(g) /\ Len(g) \in Nat
      /\ DOMAIN F = 1 .. Len(F) /\ Len(F) \in Nat
  OBVIOUS
<1>2. \A k \in DOMAIN g : f[k] \in DOMAIN F /\ g[k] = F[f[k]] OBVIOUS
<1> HIDE DEF f
<1>3. ASSUME NEW j \in DOMAIN g, NEW k \in DOMAIN g, j < k PROVE f[j] < f[k]
  <2>1. f[j] \in DOMAIN F /\ f[k] \in DOMAIN F /\ Stage(F[f[j]]) < Stage(F[f[k]])
    BY <1>2, <1>3
  <2>2. f[j] \in Nat /\ f[k] \in Nat BY <1>1, <2>1
  <2>3. f[j] # f[k] BY <2>1
  <2>4. ~ (f[k] < f[j]) BY <2>1
  <2> QED BY <2>2, <2>3, <2>4
<1>4. ASSUME NEW k \in DOMAIN g, NEW p \in DOMAIN F, p < f[k] PROVE \E j \in DOMAIN g : f[j] = p
  <2>1. Stage(F[p]) < Stage(g[k]) BY <1>2, <1>4
  <2>2. PICK j \in DOMAIN g : g[j] = F[p] BY <2>1
  <2>3. F[f[j]] = F[p] /\ f[j] \in DOMAIN F BY <1>2, <2>2
  <2>4. ~ (f[j] < p) /\ ~ (p < f[j]) BY <2>3
  <2>5. f[j] \in Nat /\ p \in Nat BY <1>1, <2>3
  <2>6. f[j] = p BY <2>4, <2>5
  <2> QED BY <2>6
<1>5. ASSUME NEW n \in 1 .. 5, n \in DOMAIN g, \A j \in DOMAIN g : j < n => f[j] = j
      PROVE  f[n] = n
  <2>1. f[n] \in Nat /\ f[n] >= 1 /\ f[n] \in DOMAIN F BY <1>1, <1>2, <1>5
  <2>2. f[n] >= n
    <3>1. CASE n = 1 BY <2>1, <3>1
    <3>2. CASE n # 1
      <4>1. n - 1 \in DOMAIN g /\ n - 1 < n BY <1>1, <1>5, <3>2
      <4>2. f[n - 1] = n - 1 /\ f[n - 1] < f[n] BY <1>3, <1>5, <4>1
      <4> QED BY <2>1, <4>2
    <3> QED BY <3>1, <3>2
  <2>3. ~ (n < f[n])
    <3> SUFFICES ASSUME n < f[n] PROVE FALSE OBVIOUS
    <3>1. n \in DOMAIN F BY <1>1, <2>1
    <3>2. PICK j \in DOMAIN g : f[j] = n BY <1>4, <1>5, <3>1
    <3>3. j \in Nat /\ n \in Nat BY <1>1
    <3>4. ~ (j < n) BY <1>5, <3>2
    <3>5. j # n BY <3>2
    <3>6. n < j BY <3>3, <3>4, <3>5
    <3>7. f[n] < f[j] BY <1>3, <1>5, <3>6
    <3> QED BY <2>1, <3>2, <3>7
  <2> QED BY <2>1, <2>2, <2>3
<1>6. \A k \in DOMAIN g : k <= 4 => f[k] = k
  <2>1. \A k \in DOMAIN g : k \in Nat /\ k >= 1 BY <1>1
  <2>2. 1 \in DOMAIN g => f[1] = 1 BY <1>5, <2>1
  <2>3. 2 \in DOMAIN g => f[2] = 2
    <3>1. \A j \in DOMAIN g : j < 2 => f[j] = j BY <2>1, <2>2
    <3> QED BY <1>5, <3>1
  <2>4. 3 \in DOMAIN g => f[3] = 3
    <3>1. \A j \in DOMAIN g : j < 3 => f[j] = j BY <2>1, <2>2, <2>3
    <3> QED BY <1>5, <3>1
  <2>5. 4 \in DOMAIN g => f[4] = 4
    <3>1. \A j \in DOMAIN g : j < 4 => f[j] = j BY <2>1, <2>2, <2>3, <2>4
    <3> QED BY <1>5, <3>1
  <2>6. \A n \in Nat : n >= 1 /\ n <= 4 => n = 1 \/ n = 2 \/ n = 3 \/ n = 4 OBVIOUS
  <2> SUFFICES ASSUME NEW k \in DOMAIN g, k <= 4 PROVE f[k] = k OBVIOUS
  <2>7. k = 1 \/ k = 2 \/ k = 3 \/ k = 4 BY <2>1, <2>6
  <2> QED BY <2>2, <2>3, <2>4, <2>5, <2>7
<1>7. 5 \notin DOMAIN g
  <2> SUFFICES ASSUME 5 \in DOMAIN g PROVE FALSE OBVIOUS
  <2>1. \A j \in DOMAIN g : j < 5 => f[j] = j BY <1>1, <1>6
  <2>2. f[5] = 5 BY <1>5, <2>1
  <2> QED BY <1>1, <1>2, <2>2
<1>8. Len(g) <= 4 BY <1>1, <1>7
<1>9. \A k \in DOMAIN g : k \in DOMAIN F /\ g[k] = F[k]
  <2> SUFFICES ASSUME NEW k \in DOMAIN g PROVE k \in DOMAIN F /\ g[k] = F[k] OBVIOUS
  <2>1. f[k] = k BY <1>1, <1>6, <1>8
  <2> QED BY <1>2, <2>1
<1>10. Len(g) <= Len(F)
  <2>1. CASE Len(g) = 0 BY <1>1, <2>1
  <2>2. CASE Len(g) # 0
    <3>1. Len(g) \in DOMAIN g BY <1>1, <2>2
    <3> QED BY <1>1, <1>9, <3>1
  <2> QED BY <2>1, <2>2
<1>11. SubSeq(g, 1, Len(g)) = SubSeq(F, 1, Len(g))
  <2> DEFINE h == SubSeq(F, 1, Len(g))
  <2>1. h \in Seq(Item) /\ Len(h) = Len(g) /\ \A i \in 1 .. Len(g) : h[i] = F[i]
    <3>1. \A i \in 1 .. Len(g) : F[i] \in Item BY <1>1, <1>9
    <3>2. 1 \in Int /\ Len(g) \in Int BY <1>1
    <3> HIDE DEF h
    <3>3. /\ h \in Seq(Item)
          /\ Len(h) = IF 1 <= Len(g) THEN Len(g) - 1 + 1 ELSE 0
          /\ \A i \in 1 .. Len(g) - 1 + 1 : h[i] = F[1 + i - 1]
      BY <3>1, <3>2, SubSeqProperties DEF h
    <3> QED BY <1>1, <3>3
  <2> HIDE DEF h
  <2>2. h = g BY <1>1, <1>9, <2>1
  <2>3. SubSeq(g, 1, Len(g)) = g BY SubSeqFull
  <2> QED BY <2>2, <2>3 DEF h
<1> QED BY <1>10, <1>11 DEF IsPrefix

(* A transaction hears what its end calls for in that order, each once, and *)
(* nothing out of turn; and all of it up to some point when nothing about   *)
(* it was dropped.                                                          *)
THEOREM ScriptsInOrder == Spec => []ScriptOrder
<1>1. ASSUME IInv, NEW r \in Android, got[r] # <<>>, r \notin lost \cup nomem
      PROVE  IsPrefix(got[r], Names(Script(r, reply[r])) \o <<"HttpTransactionCleanup">>)
  <2> DEFINE s == Script(r, reply[r])
             g == got[r]
             F == Names(s) \o <<"HttpTransactionCleanup">>
  <2>1. r \in Requests /\ r \in Ids BY KindFacts
  <2>2. /\ g \in Seq(CallbackNames) /\ DOMAIN g = 1 .. Len(g) /\ Len(g) \in Nat /\ g # <<>>
        /\ 1 \in DOMAIN g
    BY <1>1, <2>1 DEF IInv
  <2>3. reply[r] \in Hows \ {"none"} BY <1>1, <2>1, <2>2 DEF IInv, Fitting, TypeOK
  <2>4. /\ s \in Seq(Callbacks) /\ Len(s) \in 1 .. 3 /\ DOMAIN s = 1 .. Len(s)
        /\ \A k \in DOMAIN s : Stage(s[k].name) \in 1 .. 3
        /\ \A j, k \in DOMAIN s : j < k => Stage(s[j].name) < Stage(s[k].name)
    BY <2>1, <2>3, ScriptFacts
  <2>5. Story(r) = {s[k].name : k \in DOMAIN s} BY DEF Story
  <2> HIDE DEF s
  <2>6. Stage("HttpTransactionCleanup") = 4 /\ "HttpTransactionCleanup" \in CallbackNames
    BY DEF Stage, Terminals, CallbackNames
  <2>7. /\ F \in Seq(CallbackNames) /\ Len(F) = Len(s) + 1 /\ DOMAIN F = 1 .. Len(s) + 1
        /\ \A p \in DOMAIN s : F[p] = s[p].name
        /\ F[Len(s) + 1] = "HttpTransactionCleanup"
    <3> DEFINE ns == Names(s)
    <3>1. ns = [k \in 1 .. Len(s) |-> s[k].name] BY <2>4 DEF Names
    <3>a. \A k \in 1 .. Len(s) : s[k] \in Callbacks BY <2>4
    <3>b. \A c \in Callbacks : c.name \in CallbackNames BY DEF Callbacks
    <3>2. \A k \in 1 .. Len(s) : s[k].name \in CallbackNames BY <3>a, <3>b
    <3>3. ns \in Seq(CallbackNames) /\ Len(ns) = Len(s) /\ \A k \in 1 .. Len(s) : ns[k] = s[k].name
      BY <2>4, <3>1, <3>2
    <3> HIDE DEF ns
    <3>4. <<"HttpTransactionCleanup">> \in Seq(CallbackNames) BY <2>6
    <3>5. F = ns \o <<"HttpTransactionCleanup">> BY DEF ns
    <3> HIDE DEF F
    <3> QED BY <2>4, <3>3, <3>4, <3>5
  <2> HIDE DEF F
  <2>8. \A p \in DOMAIN F : p \in DOMAIN s \/ p = Len(s) + 1 BY <2>4, <2>7
  <2>9. \A p \in DOMAIN F : Stage(F[p]) \in 1 .. 4 BY <2>4, <2>6, <2>7, <2>8
  <2>10. ASSUME NEW p \in DOMAIN F, NEW n \in DOMAIN F, p < n PROVE Stage(F[p]) < Stage(F[n])
    <3>1. p \in DOMAIN s BY <2>4, <2>7, <2>10
    <3>2. CASE n \in DOMAIN s BY <2>4, <2>7, <2>10, <3>1, <3>2
    <3>3. CASE n = Len(s) + 1
      <4>1. Stage(F[p]) \in 1 .. 3 /\ Stage(F[n]) = 4 BY <2>4, <2>6, <2>7, <3>1, <3>3
      <4> QED BY <4>1
    <3> QED BY <2>8, <3>2, <3>3
  <2>11. \A k \in DOMAIN g : \E p \in DOMAIN F : g[k] = F[p]
    <3>1. \A k \in DOMAIN g : g[k] \in Story(r) \cup {"HttpTransactionCleanup"}
      BY <1>1 DEF IInv, Fitting
    <3>2. \A n \in Story(r) : \E p \in DOMAIN F : n = F[p] BY <2>4, <2>5, <2>7
    <3>3. Len(s) + 1 \in DOMAIN F BY <2>4, <2>7
    <3> QED BY <2>7, <3>1, <3>2, <3>3
  <2>12. \A j, k \in DOMAIN g : j < k => Stage(g[j]) < Stage(g[k])
    BY <1>1 DEF IInv, InOrder
  <2>13. \A k \in DOMAIN g : Stage(g[k]) \in 1 .. 4 BY <2>9, <2>11
  <2>14. ASSUME NEW k \in DOMAIN g, NEW p \in DOMAIN F, Stage(F[p]) < Stage(g[k])
         PROVE  \E j \in DOMAIN g : g[j] = F[p]
    <3>1. p # Len(s) + 1 BY <2>6, <2>7, <2>13, <2>14
    <3>2. PICK n \in Story(r) : n = F[p] BY <2>5, <2>7, <2>8, <3>1
    <3>3. Said(r, n) BY <1>1, <2>1, <2>3 DEF IInv, Whole, AllSaid
    <3>4. Stage(n) \in Nat /\ Stage(g[k]) \in Nat /\ Stage(n) < Stage(g[k])
      BY <2>9, <2>13, <2>14, <3>2
    <3>5. ASSUME NEW c, Follows(c), c.id = r, c.name = n PROVE FALSE
      BY <3>4, <3>5 DEF Follows
    <3>6. \E j \in DOMAIN g : g[j] = n BY <1>1, <3>3, <3>5 DEF Said, IInv, InOrder
    <3> QED BY <3>2, <3>6
  <2>15. Len(F) \in 1 .. 4 BY <2>4, <2>7
  <2> HIDE DEF g
  <2>16. IsPrefix(g, F)
    <3>1. g \in Seq(CallbackNames) /\ F \in Seq(CallbackNames) BY <2>2, <2>7
    <3>2. \A p \in DOMAIN F : Stage(F[p]) \in Nat BY <2>9
    <3>3. \A p, n \in DOMAIN F : p < n => Stage(F[p]) < Stage(F[n]) BY <2>10
    <3>4. \A k \in DOMAIN g, p \in DOMAIN F :
            Stage(F[p]) < Stage(g[k]) => \E j \in DOMAIN g : g[j] = F[p]
      BY <2>14
    <3> QED BY <2>11, <2>12, <2>15, <3>1, <3>2, <3>3, <3>4, ClimbsAsPrefix, Zenon
  <2> QED BY <2>16 DEF g, F, s
<1>2. IInv => ScriptOrder BY <1>1 DEF ScriptOrder, IInv, InOrder
<1> QED BY <1>2, PumpInvariantHolds, PTL

(* The payload copies on the heap are those of the callbacks that wait, one *)
(* each: none leaks when a callback is dropped or skipped, none is freed    *)
(* twice.                                                                   *)
THEOREM PayloadsStayOwned == Spec => []PayloadsOwned
<1>1. ASSUME IInv, NEW i \in Ids PROVE Cardinality(Waiting(i)) = IF i \in live THEN 1 ELSE 0
  <2> DEFINE w == queue \o batch
  <2>1. /\ queue \in Seq(Callbacks) /\ batch \in Seq(Callbacks)
        /\ DOMAIN queue = 1 .. Len(queue) /\ Len(queue) \in Nat
        /\ DOMAIN batch = 1 .. Len(batch) /\ Len(batch) \in Nat
    BY <1>1 DEF IInv, TypeOK
  <2>2. /\ DOMAIN w = 1 .. Len(queue) + Len(batch)
        /\ \A k \in 1 .. Len(queue) : w[k] = queue[k]
        /\ \A k \in 1 .. Len(batch) : w[Len(queue) + k] = batch[k]
        /\ \A k \in DOMAIN w : k > Len(queue) => w[k] = batch[k - Len(queue)]
    BY <2>1
  <2>3. Waiting(i) = {k \in DOMAIN w : w[k].id = i /\ w[k].data} BY DEF Waiting
  <2> HIDE DEF w
  <2>4. /\ Alone(queue) /\ Alone(batch)
        /\ \A j \in DOMAIN queue, k \in DOMAIN batch :
             queue[j].data /\ batch[k].data => queue[j].id # batch[k].id
        /\ \A k \in DOMAIN queue : queue[k].data => queue[k].id \in live
        /\ \A k \in DOMAIN batch : batch[k].data => batch[k].id \in live
        /\ i \in live => \/ \E k \in DOMAIN queue : queue[k].id = i /\ queue[k].data
                         \/ \E k \in DOMAIN batch : batch[k].id = i /\ batch[k].data
    BY <1>1 DEF IInv, Owned
  <2>5. ASSUME NEW k \in DOMAIN w
        PROVE  \/ k \in DOMAIN queue /\ w[k] = queue[k]
               \/ k - Len(queue) \in DOMAIN batch /\ w[k] = batch[k - Len(queue)]
                  /\ k \in Nat
    BY <2>1, <2>2
  <2>6. ASSUME NEW j \in Waiting(i), NEW k \in Waiting(i) PROVE j = k
    <3>1. /\ j \in DOMAIN w /\ w[j].id = i /\ w[j].data
          /\ k \in DOMAIN w /\ w[k].id = i /\ w[k].data
      BY <2>3
    <3>2. CASE j \in DOMAIN queue /\ w[j] = queue[j]
      <4>1. CASE k \in DOMAIN queue /\ w[k] = queue[k] BY <2>4, <3>1, <3>2, <4>1 DEF Alone
      <4>2. CASE k - Len(queue) \in DOMAIN batch /\ w[k] = batch[k - Len(queue)]
        BY <2>4, <3>1, <3>2, <4>2
      <4> QED BY <2>5, <3>1, <4>1, <4>2
    <3>3. CASE j - Len(queue) \in DOMAIN batch /\ w[j] = batch[j - Len(queue)] /\ j \in Nat
      <4>1. CASE k \in DOMAIN queue /\ w[k] = queue[k] BY <2>4, <3>1, <3>3, <4>1
      <4>2. CASE k - Len(queue) \in DOMAIN batch /\ w[k] = batch[k - Len(queue)] /\ k \in Nat
        <5>1. j - Len(queue) = k - Len(queue) BY <2>4, <3>1, <3>3, <4>2 DEF Alone
        <5> QED BY <2>1, <3>3, <4>2, <5>1
      <4> QED BY <2>5, <3>1, <4>1, <4>2
    <3> QED BY <2>5, <3>1, <3>2, <3>3
  <2>7. i \in live => Waiting(i) # {}
    <3> SUFFICES ASSUME i \in live PROVE \E k \in DOMAIN w : w[k].id = i /\ w[k].data BY <2>3
    <3>1. CASE \E k \in DOMAIN queue : queue[k].id = i /\ queue[k].data
      <4>1. PICK k \in DOMAIN queue : queue[k].id = i /\ queue[k].data BY <3>1
      <4>2. k \in DOMAIN w /\ w[k] = queue[k] BY <2>1, <2>2
      <4> QED BY <4>1, <4>2
    <3>2. CASE \E k \in DOMAIN batch : batch[k].id = i /\ batch[k].data
      <4>1. PICK k \in DOMAIN batch : batch[k].id = i /\ batch[k].data BY <3>2
      <4>2. Len(queue) + k \in DOMAIN w /\ w[Len(queue) + k] = batch[k] BY <2>1, <2>2
      <4> QED BY <4>1, <4>2
    <3> QED BY <2>4, <3>1, <3>2
  <2>8. Waiting(i) # {} => i \in live
    <3> SUFFICES ASSUME NEW k \in Waiting(i) PROVE i \in live OBVIOUS
    <3>1. k \in DOMAIN w /\ w[k].id = i /\ w[k].data BY <2>3
    <3> QED BY <2>4, <2>5, <3>1
  <2> QED BY <2>6, <2>7, <2>8, AtMostOne
<1>2. IInv => PayloadsOwned BY <1>1 DEF PayloadsOwned
<1> QED BY <1>2, PumpInvariantHolds, PTL

=============================================================================
