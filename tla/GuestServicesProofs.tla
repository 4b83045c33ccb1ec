------------------------- MODULE GuestServicesProofs -------------------------
(***************************************************************************)
(* Proofs about the parts of GuestServices, for all values of their        *)
(* constants.  Each part comes on its own, with the inductive invariant    *)
(* its module states; GuestServices chooses one part at the start, so a    *)
(* behaviour of it is, seen through the variables of one part, a behaviour *)
(* of that part or at rest.                                                *)
(***************************************************************************)
EXTENDS GuestServices, Integers, Sequences, FiniteSetTheorems, SequenceTheorems,
        Positions, Functions, TLAPS

-----------------------------------------------------------------------------
(* The composition *)

(* A step is a step of one part, and the others rest. *)
LEMMA OnePart ==
  [Next]_vars =>
    /\ L!Next \/ UNCHANGED loaderVars
    /\ H!Next \/ UNCHANGED heapVars
    /\ M!Next \/ UNCHANGED mmapVars
    /\ J!Next \/ UNCHANGED jniVars
    /\ D!Next \/ UNCHANGED deliveryVars
    /\ U!Next \/ UNCHANGED audioVars
    /\ C!Next \/ UNCHANGED mapsVars
    /\ S!Next \/ UNCHANGED sslVars
    /\ O!Next \/ UNCHANGED obbVars
    /\ I!Next \/ UNCHANGED installVars
    /\ T!Next \/ UNCHANGED tarVars
    /\ G!Next \/ UNCHANGED tagsVars
    /\ X!Next \/ UNCHANGED indexVars
    /\ A!Next \/ UNCHANGED assetsVars
    /\ P!Next \/ UNCHANGED inputVars
    /\ N!Next \/ UNCHANGED navVars
<1>0. CASE UNCHANGED vars BY <1>0 DEF vars
<1>1. CASE LoaderNext BY <1>1 DEF LoaderNext
<1>2. CASE HeapNext BY <1>2 DEF HeapNext
<1>3. CASE MmapNext BY <1>3 DEF MmapNext
<1>4. CASE JniNext BY <1>4 DEF JniNext
<1>5. CASE DeliveryNext BY <1>5 DEF DeliveryNext
<1>6. CASE AudioNext BY <1>6 DEF AudioNext
<1>7. CASE MapsNext BY <1>7 DEF MapsNext
<1>8. CASE SslNext BY <1>8 DEF SslNext
<1>9. CASE ObbNext BY <1>9 DEF ObbNext
<1>10. CASE InstallNext BY <1>10 DEF InstallNext
<1>11. CASE TarNext BY <1>11 DEF TarNext
<1>12. CASE TagsNext BY <1>12 DEF TagsNext
<1>13. CASE IndexNext BY <1>13 DEF IndexNext
<1>14. CASE AssetsNext BY <1>14 DEF AssetsNext
<1>15. CASE InputNext BY <1>15 DEF InputNext
<1>16. CASE NavNext BY <1>16 DEF NavNext
<1> QED BY <1>0, <1>1, <1>2, <1>3, <1>4, <1>5, <1>6, <1>7, <1>8, <1>9, <1>10, <1>11, <1>12, <1>13,
           <1>14, <1>15, <1>16 DEF Next

-----------------------------------------------------------------------------
(* What a selection of positions returns, and how volumes add up *)

(* Ranks count the positions up to the number of all of them, and a greater *)
(* position has a greater rank.                                             *)
LEMMA RankFacts ==
  ASSUME NEW n \in Nat, NEW ps \in SUBSET (1 .. n)
  PROVE  /\ IsFiniteSet(ps) /\ Cardinality(ps) \in Nat /\ Cardinality(ps) <= n
         /\ \A i \in ps : Rank(ps, i) \in 1 .. Cardinality(ps)
         /\ \A i, j \in ps : i < j => Rank(ps, i) < Rank(ps, j)
<1>1. IsFiniteSet(1 .. n) /\ Cardinality(1 .. n) = n BY FS_Interval
<1>2. /\ IsFiniteSet(ps) /\ Cardinality(ps) \in Nat /\ Cardinality(ps) <= n
  BY <1>1, FS_Subset, FS_CardinalityType
<1> DEFINE Upto(i) == {j \in ps : j <= i}
<1>3. ASSUME NEW i \in ps PROVE /\ IsFiniteSet(Upto(i)) /\ Rank(ps, i) = Cardinality(Upto(i))
                               /\ Rank(ps, i) \in 1 .. Cardinality(ps)
  <2>1. IsFiniteSet(Upto(i)) /\ Cardinality(Upto(i)) <= Cardinality(ps)
    <3>1. Upto(i) \in SUBSET ps OBVIOUS
    <3> QED BY <1>2, <3>1, FS_Subset
  <2>2. Cardinality(Upto(i)) \in Nat BY <2>1, FS_CardinalityType
  <2>3. Upto(i) # {} BY i <= i
  <2>4. Cardinality(Upto(i)) # 0 BY <2>1, <2>3, FS_EmptySet
  <2>5. Rank(ps, i) = Cardinality(Upto(i)) BY DEF Rank
  <2> QED BY <1>2, <2>1, <2>2, <2>4, <2>5
<1>4. ASSUME NEW i \in ps, NEW j \in ps, i < j PROVE Rank(ps, i) < Rank(ps, j)
  <2>1. Upto(i) \in SUBSET Upto(j)
    <3>1. \A k \in ps : k \in Nat OBVIOUS
    <3>2. \A k \in Upto(i) : k \in Upto(j) BY <1>4, <3>1
    <3> QED BY <3>2
  <2>2. j \in Upto(j) /\ j \notin Upto(i) BY <1>4
  <2>3. Upto(i) # Upto(j) BY <2>2
  <2>4. /\ Cardinality(Upto(i)) <= Cardinality(Upto(j))
        /\ Cardinality(Upto(i)) # Cardinality(Upto(j))
    BY <1>3, <2>1, <2>3, FS_Subset
  <2> QED BY <1>2, <1>3, <2>4
<1> QED BY <1>2, <1>3, <1>4

(* Every rank up to their number is taken by one position, and the          *)
(* positions come in the order of their ranks.                              *)
LEMMA KthFacts ==
  ASSUME NEW n \in Nat, NEW ps \in SUBSET (1 .. n)
  PROVE  /\ Cardinality(ps) \in Nat /\ Cardinality(ps) <= n
         /\ \A k \in 1 .. Cardinality(ps) : Kth(ps, k) \in ps /\ Rank(ps, Kth(ps, k)) = k
         /\ \A i \in ps : Rank(ps, i) \in 1 .. Cardinality(ps) /\ Kth(ps, Rank(ps, i)) = i
         /\ \A j, k \in 1 .. Cardinality(ps) : j < k <=> Kth(ps, j) < Kth(ps, k)
<1> DEFINE size == Cardinality(ps)
           rank == [i \in ps |-> Rank(ps, i)]
<1>1. /\ IsFiniteSet(ps) /\ size \in Nat /\ size <= n
      /\ \A i \in ps : Rank(ps, i) \in 1 .. size
      /\ \A i, j \in ps : i < j => Rank(ps, i) < Rank(ps, j)
  BY RankFacts
<1> HIDE DEF size
<1>2. \A i, j \in ps : Rank(ps, i) = Rank(ps, j) => i = j
  <2> SUFFICES ASSUME NEW i \in ps, NEW j \in ps, i # j PROVE Rank(ps, i) # Rank(ps, j) OBVIOUS
  <2>1. i \in Nat /\ j \in Nat OBVIOUS
  <2>2. CASE i < j BY <1>1, <2>2
  <2>3. CASE j < i BY <1>1, <2>3
  <2> QED BY <2>1, <2>2, <2>3
<1>3. rank \in [ps -> 1 .. size] BY <1>1
<1>4. rank \in Injection(ps, 1 .. size) BY <1>2, <1>3 DEF Injection, IsInjective
<1>5. IsFiniteSet(1 .. size) /\ Cardinality(1 .. size) = size BY <1>1, FS_Interval
<1>6. rank \in Surjection(ps, 1 .. size) BY <1>4, <1>5, FS_Injection DEF size
<1>7. \A k \in 1 .. size : \E i \in ps : Rank(ps, i) = k BY <1>6 DEF Surjection
<1>8. ASSUME NEW k \in 1 .. size PROVE Kth(ps, k) \in ps /\ Rank(ps, Kth(ps, k)) = k
  BY <1>7, <1>8 DEF Kth
<1>9. ASSUME NEW i \in ps PROVE Kth(ps, Rank(ps, i)) = i BY <1>1, <1>2, <1>8
<1>10. ASSUME NEW j \in 1 .. size, NEW k \in 1 .. size PROVE j < k <=> Kth(ps, j) < Kth(ps, k)
  <2> DEFINE a == Kth(ps, j)
             b == Kth(ps, k)
  <2>1. a \in ps /\ Rank(ps, a) = j /\ b \in ps /\ Rank(ps, b) = k BY <1>8
  <2> HIDE DEF a, b
  <2>2. a \in Nat /\ b \in Nat BY <2>1
  <2>3. a < b => j < k BY <1>1, <2>1
  <2>4. b < a => k < j BY <1>1, <2>1
  <2>5. a = b => j = k BY <2>1
  <2>6. j < k <=> a < b BY <1>1, <2>2, <2>3, <2>4, <2>5
  <2> QED BY <2>6 DEF a, b
<1> QED BY <1>1, <1>8, <1>9, <1>10 DEF size

(* What is kept of a sequence is a sequence of its entries. *)
LEMMA SelectedFacts ==
  ASSUME NEW Item, NEW s \in Seq(Item), NEW ps \in SUBSET (1 .. Len(s))
  PROVE  /\ Selected(s, ps) \in Seq(Item) /\ Len(Selected(s, ps)) = Cardinality(ps)
         /\ Cardinality(ps) \in Nat /\ Cardinality(ps) <= Len(s)
         /\ \A k \in 1 .. Cardinality(ps) : Selected(s, ps)[k] = s[Kth(ps, k)] /\ Kth(ps, k) \in ps
         /\ \A i \in ps : /\ Rank(ps, i) \in 1 .. Cardinality(ps) /\ Kth(ps, Rank(ps, i)) = i
                         /\ Selected(s, ps)[Rank(ps, i)] = s[i]
<1> DEFINE size == Cardinality(ps)
<1>1. Len(s) \in Nat OBVIOUS
<1>2. /\ size \in Nat /\ size <= Len(s)
      /\ \A k \in 1 .. size : Kth(ps, k) \in ps
      /\ \A i \in ps : Rank(ps, i) \in 1 .. size /\ Kth(ps, Rank(ps, i)) = i
  BY <1>1, KthFacts
<1>3. Selected(s, ps) = [k \in 1 .. size |-> s[Kth(ps, k)]] BY DEF Selected
<1> HIDE DEF size
<1>4. \A k \in 1 .. size : Selected(s, ps)[k] = s[Kth(ps, k)] BY <1>3
<1>5. \A i \in ps : s[i] \in Item BY <1>1
<1>6. Selected(s, ps) \in [1 .. size -> Item] BY <1>2, <1>3, <1>5
<1>7. Selected(s, ps) \in Seq(Item) BY <1>2, <1>6, SeqDef
<1>8. Len(Selected(s, ps)) = size BY <1>2, <1>6, <1>7, LenProperties
<1> QED BY <1>2, <1>4, <1>7, <1>8 DEF size

(* Different places of what is kept come from different positions.          *)
LEMMA SelectedApart ==
  ASSUME NEW Item, NEW s \in Seq(Item), NEW ps \in SUBSET (1 .. Len(s))
  PROVE  \A j, k \in 1 .. Len(Selected(s, ps)) :
           /\ Selected(s, ps)[j] = s[Kth(ps, j)] /\ Kth(ps, j) \in ps
           /\ Kth(ps, j) = Kth(ps, k) => j = k
<1>1. Len(s) \in Nat OBVIOUS
<1>2. Cardinality(ps) \in Nat /\ Len(Selected(s, ps)) = Cardinality(ps) BY SelectedFacts
<1>3. \A k \in 1 .. Cardinality(ps) : Selected(s, ps)[k] = s[Kth(ps, k)] /\ Kth(ps, k) \in ps
  BY SelectedFacts
<1>4. \A k \in 1 .. Cardinality(ps) : Rank(ps, Kth(ps, k)) = k BY <1>1, KthFacts
<1>5. ASSUME NEW j \in 1 .. Cardinality(ps), NEW k \in 1 .. Cardinality(ps), Kth(ps, j) = Kth(ps, k)
      PROVE  j = k
  <2>1. Rank(ps, Kth(ps, j)) = j /\ Rank(ps, Kth(ps, k)) = k BY <1>4
  <2> QED BY <1>5, <2>1
<1> QED BY <1>2, <1>3, <1>5

(* Some positions have a first. *)
LEMMA FirstPosition ==
  ASSUME NEW n \in Nat, NEW ps \in SUBSET (1 .. n), ps # {}
  PROVE  \E f \in ps : \A i \in ps : f <= i
<1>1. /\ Cardinality(ps) \in Nat /\ IsFiniteSet(ps) BY RankFacts
<1>2. Cardinality(ps) # 0 BY <1>1, FS_EmptySet
<1>3. 1 \in 1 .. Cardinality(ps) BY <1>1, <1>2
<1>4. Kth(ps, 1) \in ps BY <1>3, KthFacts
<1>5. ASSUME NEW i \in ps PROVE Kth(ps, 1) <= i
  <2>1. Rank(ps, i) \in 1 .. Cardinality(ps) /\ Kth(ps, Rank(ps, i)) = i BY KthFacts
  <2>2. 1 < Rank(ps, i) => Kth(ps, 1) < Kth(ps, Rank(ps, i)) BY <1>3, <2>1, KthFacts
  <2>3. Rank(ps, i) = 1 \/ 1 < Rank(ps, i) BY <1>1, <2>1
  <2>4. i \in Nat /\ Kth(ps, 1) \in Nat
    <3>1. \A x \in ps : x \in Nat OBVIOUS
    <3> QED BY <1>4, <3>1
  <2>5. CASE Rank(ps, i) = 1
    <3>1. Kth(ps, 1) = i BY <2>1, <2>5
    <3> QED BY <2>4, <3>1
  <2>6. CASE 1 < Rank(ps, i)
    <3>1. Kth(ps, 1) < i BY <2>1, <2>2, <2>6
    <3> QED BY <2>4, <3>1
  <2> QED BY <2>3, <2>5, <2>6
<1> QED BY <1>4, <1>5

(* The entries of a concatenation, by their places in either part.          *)
LEMMA ConcatEntries ==
  ASSUME NEW Item, NEW s \in Seq(Item), NEW t \in Seq(Item)
  PROVE  /\ s \o t \in Seq(Item) /\ Len(s \o t) = Len(s) + Len(t)
         /\ \A i \in 1 .. Len(s) : (s \o t)[i] = s[i]
         /\ \A i \in 1 .. Len(t) : (s \o t)[Len(s) + i] = t[i]
<1> DEFINE m == Len(s)
           n == Len(t)
           all == s \o t
<1>1. /\ all \in Seq(Item) /\ Len(all) = m + n
      /\ \A i \in 1 .. m + n : all[i] = IF i <= m THEN s[i] ELSE t[i - m]
  BY ConcatProperties
<1>2. m \in Nat /\ n \in Nat OBVIOUS
<1> HIDE DEF m, n, all
<1>3. \A i \in 1 .. m : i \in 1 .. m + n /\ i <= m BY <1>2
<1>4. \A i \in 1 .. n : m + i \in 1 .. m + n /\ ~(m + i <= m) /\ (m + i) - m = i BY <1>2
<1>5. \A i \in 1 .. m : all[i] = s[i] BY <1>1, <1>3
<1>6. \A i \in 1 .. n : all[m + i] = t[i] BY <1>1, <1>4
<1> QED BY <1>1, <1>5, <1>6 DEF m, n, all

(* A volume is the sum over its places.                                     *)
LEMMA VolumeFacts ==
  ASSUME NEW is, IsFiniteSet(is), NEW f \in [is -> Nat]
  PROVE  /\ \A us \in SUBSET is : Volume(f, us) \in Nat
         /\ \A us, vs \in SUBSET is :
              us \cap vs = {} => Volume(f, us \cup vs) = Volume(f, us) + Volume(f, vs)
         /\ \A s \in is : Volume(f, {s}) = f[s]
         /\ \A us, vs \in SUBSET is : us \subseteq vs => Volume(f, us) <= Volume(f, vs)
         /\ \A us \in SUBSET is : (\A s \in us : f[s] = 0) => Volume(f, us) = 0
<1> DEFINE Units(us) == UNION {{s} \X (1 .. f[s]) : s \in us}
<1>0. \A us : Volume(f, us) = Cardinality(Units(us)) BY DEF Volume
<1>1. \A us \in SUBSET is : IsFiniteSet(Units(us))
  <2> SUFFICES ASSUME NEW us \in SUBSET is PROVE IsFiniteSet(Units(us)) OBVIOUS
  <2> DEFINE Layer == {{s} \X (1 .. f[s]) : s \in us}
  <2>1. IsFiniteSet(us) BY FS_Subset
  <2> DEFINE h == [s \in us |-> {s} \X (1 .. f[s])]
  <2>a. h \in Surjection(us, Layer) BY DEF Surjection
  <2>2. IsFiniteSet(Layer) BY <2>1, <2>a, FS_Surjection
  <2>3. ASSUME NEW vs \in Layer PROVE IsFiniteSet(vs)
    <3>1. PICK s \in us : vs = {s} \X (1 .. f[s]) OBVIOUS
    <3>2. f[s] \in Nat OBVIOUS
    <3>3. IsFiniteSet(1 .. f[s]) BY <3>2, FS_Interval
    <3>4. IsFiniteSet({s}) BY FS_Singleton
    <3>5. IsFiniteSet({s} \X (1 .. f[s])) BY <3>3, <3>4, FS_Product
    <3> QED BY <3>1, <3>5
  <2> HIDE DEF Layer
  <2>4. IsFiniteSet(UNION Layer) BY <2>2, <2>3, FS_UNION
  <2> QED BY <2>4 DEF Layer
<1>2. \A us \in SUBSET is : Volume(f, us) \in Nat BY <1>0, <1>1, FS_CardinalityType
<1>3. ASSUME NEW us \in SUBSET is, NEW vs \in SUBSET is, us \cap vs = {}
      PROVE  Volume(f, us \cup vs) = Volume(f, us) + Volume(f, vs)
  <2>1. Units(us \cup vs) = Units(us) \cup Units(vs) OBVIOUS
  <2>2. Units(us) \cap Units(vs) = {}
    <3> SUFFICES ASSUME NEW x \in Units(us), x \in Units(vs) PROVE FALSE OBVIOUS
    <3>1. PICK s \in us : x \in {s} \X (1 .. f[s]) OBVIOUS
    <3>2. PICK t \in vs : x \in {t} \X (1 .. f[t]) OBVIOUS
    <3>3. x[1] = s /\ x[1] = t BY <3>1, <3>2
    <3> QED BY <1>3, <3>3
  <2>3. IsFiniteSet(Units(us)) /\ IsFiniteSet(Units(vs)) BY <1>1
  <2> HIDE DEF Units
  <2>4. Cardinality(Units(us) \cup Units(vs))
          = Cardinality(Units(us)) + Cardinality(Units(vs)) - Cardinality({})
    BY <2>2, <2>3, FS_Union
  <2>5. Cardinality({}) = 0 BY FS_EmptySet
  <2>6. Cardinality(Units(us)) \in Nat /\ Cardinality(Units(vs)) \in Nat
    BY <2>3, FS_CardinalityType
  <2>7. Volume(f, us \cup vs) = Cardinality(Units(us) \cup Units(vs)) BY <1>0, <2>1
  <2>8. Volume(f, us) = Cardinality(Units(us)) /\ Volume(f, vs) = Cardinality(Units(vs))
    BY <1>0
  <2> QED BY <2>4, <2>5, <2>6, <2>7, <2>8
<1>4. ASSUME NEW s \in is PROVE Volume(f, {s}) = f[s]
  <2>1. f[s] \in Nat OBVIOUS
  <2>2. Units({s}) = {s} \X (1 .. f[s]) OBVIOUS
  <2>3. IsFiniteSet({s}) /\ Cardinality({s}) = 1 BY FS_Singleton
  <2>4. IsFiniteSet(1 .. f[s]) /\ Cardinality(1 .. f[s]) = f[s] BY <2>1, FS_Interval
  <2> DEFINE one == {s}
             all == 1 .. f[s]
  <2> HIDE DEF one, all
  <2>5. Cardinality(one \X all) = Cardinality(one) * Cardinality(all)
    BY <2>3, <2>4, FS_Product DEF one, all
  <2>6. Cardinality(one \X all) = f[s] BY <2>1, <2>3, <2>4, <2>5 DEF one, all
  <2> QED BY <1>0, <2>2, <2>6 DEF one, all
<1>5. ASSUME NEW us \in SUBSET is, NEW vs \in SUBSET is, us \subseteq vs
      PROVE  Volume(f, us) <= Volume(f, vs)
  <2>1. Units(us) \in SUBSET Units(vs) BY <1>5
  <2>2. Cardinality(Units(us)) <= Cardinality(Units(vs)) BY <1>1, <2>1, FS_Subset
  <2> QED BY <1>0, <2>2
<1>6. ASSUME NEW us \in SUBSET is, \A s \in us : f[s] = 0 PROVE Volume(f, us) = 0
  <2>1. Units(us) = {}
    <3> SUFFICES ASSUME NEW s \in us PROVE {s} \X (1 .. f[s]) = {} OBVIOUS
    <3>1. 1 .. 0 = {} OBVIOUS
    <3> QED BY <1>6, <3>1
  <2>2. Cardinality({}) = 0 BY FS_EmptySet
  <2> QED BY <1>0, <2>1, <2>2
<1> QED BY <1>2, <1>3, <1>4, <1>5, <1>6

(* It is decided by what f says of those places.                            *)
LEMMA VolumeAgrees ==
  ASSUME NEW us, NEW f, NEW g, \A s \in us : f[s] = g[s]
  PROVE  Volume(f, us) = Volume(g, us)
<1>1. {{s} \X (1 .. f[s]) : s \in us} = {{s} \X (1 .. g[s]) : s \in us} OBVIOUS
<1> QED BY <1>1 DEF Volume

-----------------------------------------------------------------------------
(* The heap switch *)

(* Nothing is allocated at the start. *)
LEMMA HeapInitInvariant == ASSUME H!HeapConstants PROVE H!Init => H!IInv
<1> SUFFICES ASSUME H!Init PROVE H!IInv OBVIOUS
<1>1. H!Idle \in H!Calls /\ H!Idle.op = "none" BY DEF H!Idle, H!Calls
<1>2. H!None \in [owner : H!Owners \cup {"none"}, size : Nat] BY DEF H!None
<1>3. H!TypeOK BY <1>1, <1>2 DEF H!Init, H!TypeOK
<1>4. \A u \in Threads : H!Held(u) BY <1>1 DEF H!Init, H!Held
<1> QED BY <1>3, <1>4 DEF H!Init, H!IInv, H!HeapSound, H!Marked, H!Free

(* A call ends: its thread holds nothing any more, and the others hold what *)
(* they held if no block of theirs went.                                    *)
LEMMA HeapCallEnds ==
  ASSUME H!IInv, NEW u \in Threads, call' = [call EXCEPT ![u] = H!Idle],
         \A v \in Threads, r \in HeapPlaces :
           v # u /\ call[v].op \in {"free", "realloc"} /\ call[v].place = r => ~ H!Free(r)'
  PROVE  call' \in [Threads -> H!Calls] /\ \A v \in Threads : H!Held(v)'
<1>1. H!Idle \in H!Calls /\ H!Idle.op = "none" /\ H!Idle.place = "none"
  BY DEF H!Idle, H!Calls
<1>2. /\ call' \in [Threads -> H!Calls]
      /\ call'[u] = H!Idle
      /\ \A v \in Threads : v # u => call'[v] = call[v]
  BY <1>1 DEF H!IInv, H!TypeOK
<1>3. ASSUME NEW v \in Threads PROVE H!Held(v)'
  BY <1>1, <1>2 DEF H!IInv, H!Held, H!Free
<1> QED BY <1>2, <1>3

(* Every step preserves the invariant. *)
LEMMA HeapStepInvariant == ASSUME H!HeapConstants, H!IInv, H!Next PROVE H!IInv'
<1>0. /\ H!TypeOK /\ ~ crossed /\ ~ hLost /\ (hActive => tried /\ configured)
      /\ \A p \in HeapPlaces : H!Marked(p)
      /\ \A u \in Threads : H!Held(u)
  BY DEF H!IInv, H!HeapSound
<1>1. CASE H!Configure
  BY <1>0, <1>1 DEF H!Configure, H!IInv, H!TypeOK, H!HeapSound, H!Marked, H!Held, H!Free
<1>2. CASE H!SetGameBase
  <2>1. H!TypeOK' BY <1>0, <1>2 DEF H!SetGameBase, H!TypeOK, H!Ready
  <2>2. \A p \in HeapPlaces : H!Marked(p)' BY <1>0, <1>2 DEF H!SetGameBase, H!Marked, H!Free
  <2>3. \A u \in Threads : H!Held(u)' BY <1>0, <1>2 DEF H!SetGameBase, H!Held, H!Free
  <2> QED BY <1>0, <1>2, <2>1, <2>2, <2>3 DEF H!SetGameBase, H!Ready, H!IInv, H!HeapSound
<1>3. ASSUME NEW u \in Threads, NEW op \in {"malloc", "free", "realloc"},
             NEW p \in HeapPlaces \cup {"none"}, NEW size \in Bytes \cup {0}, H!Enter(u, op, p, size)
      PROVE  H!IInv'
  <2> DEFINE c == [op |-> op, place |-> p, size |-> size]
  <2>1. /\ call' = [call EXCEPT ![u] = c]
        /\ op \in {"free", "realloc"} =>
             p # "none" /\ ~ H!Free(p) /\ \A v \in Threads : call[v].place # p
        /\ op = "malloc" => p = "none"
        /\ UNCHANGED <<hBlock, magic, header, kept, configured, hActive, tried, crossed, hLost>>
    BY <1>3 DEF H!Enter
  <2>2. c \in H!Calls /\ c.op = op /\ c.place = p BY DEF H!Calls, H!HeapConstants
  <2> HIDE DEF c
  <2>3. /\ call' \in [Threads -> H!Calls] /\ call'[u] = c
        /\ \A v \in Threads : v # u => call'[v] = call[v]
    BY <1>0, <2>1, <2>2 DEF H!TypeOK
  <2>4. H!TypeOK' BY <1>0, <2>1, <2>3 DEF H!TypeOK
  <2>5. ASSUME NEW v \in Threads PROVE H!Held(v)'
    <3>1. CASE v = u BY <2>1, <2>2, <2>3, <3>1 DEF H!Held, H!Free
    <3>2. CASE v # u BY <1>0, <2>1, <2>2, <2>3, <3>2 DEF H!Held, H!Free
    <3> QED BY <3>1, <3>2
  <2>6. \A r \in HeapPlaces : H!Marked(r)' BY <1>0, <2>1 DEF H!Marked, H!Free
  <2> QED BY <1>0, <2>1, <2>4, <2>5, <2>6 DEF H!IInv, H!HeapSound
<1>4. ASSUME NEW u \in Threads, H!FreeBlock(u) PROVE H!IInv'
  <2>p. PICK p \in HeapPlaces : p = call[u].place BY <1>0, <1>4 DEF H!FreeBlock, H!Held
  <2>1. /\ call[u].op = "free"
        /\ crossed' = (crossed \/ H!Picked(p) # hBlock[p].owner)
        /\ hBlock' = [hBlock EXCEPT ![p] = H!None]
        /\ magic' = [magic EXCEPT ![p] = IF @ THEN H!MagicFreed ELSE FALSE]
        /\ kept' = [kept EXCEPT ![p] = 0]
        /\ call' = [call EXCEPT ![u] = H!Idle]
        /\ UNCHANGED <<header, configured, hActive, tried, hLost, ops>>
    BY <1>4, <2>p DEF H!FreeBlock
  <2>2. ~ H!Free(p) /\ \A v \in Threads : v # u => call[v].place # p
    BY <1>0, <2>1, <2>p DEF H!Held
  <2>3. H!None \in [owner : H!Owners \cup {"none"}, size : Nat] BY DEF H!None
  <2>4. /\ hBlock' \in [HeapPlaces -> [owner : H!Owners \cup {"none"}, size : Nat]]
        /\ hBlock'[p] = H!None
        /\ \A r \in HeapPlaces : r # p => hBlock'[r] = hBlock[r]
    BY <1>0, <2>1, <2>2, <2>3 DEF H!TypeOK
  <2>5. /\ magic' \in [HeapPlaces -> BOOLEAN] /\ ~ magic'[p]
        /\ \A r \in HeapPlaces : r # p => magic'[r] = magic[r]
    BY <1>0, <2>1, <2>2 DEF H!TypeOK, H!MagicFreed
  <2>6. /\ kept' \in [HeapPlaces -> Nat]
        /\ \A r \in HeapPlaces : r # p => kept'[r] = kept[r]
    BY <1>0, <2>1, <2>2 DEF H!TypeOK
  <2>7. call' \in [Threads -> H!Calls] /\ \A v \in Threads : H!Held(v)'
    <3>1. ASSUME NEW v \in Threads, NEW r \in HeapPlaces,
                 v # u, call[v].op \in {"free", "realloc"}, call[v].place = r
          PROVE  ~ H!Free(r)'
      BY <1>0, <2>2, <2>4, <3>1 DEF H!Held, H!Free
    <3> QED BY <2>1, <3>1, HeapCallEnds
  <2>8. \A r \in HeapPlaces : H!Marked(r)'
    BY <1>0, <2>1, <2>4, <2>5, <2>6 DEF H!Marked, H!Free
  <2>9. ~ crossed'
    BY <1>0, <2>1, <2>2 DEF H!Marked, H!Picked, H!ToolsOf, H!Owners
  <2>10. H!TypeOK' BY <1>0, <2>1, <2>4, <2>5, <2>6, <2>7 DEF H!TypeOK
  <2> QED BY <1>0, <2>1, <2>7, <2>8, <2>9, <2>10 DEF H!IInv, H!HeapSound
<1>5. ASSUME NEW u \in Threads, H!ReallocNative(u) PROVE H!IInv'
  <2>p. PICK p \in HeapPlaces, n \in Nat : p = call[u].place /\ n = call[u].size
    BY <1>0, <1>5 DEF H!ReallocNative, H!Held, H!TypeOK, H!Calls
  <2>1. /\ call[u].op = "realloc" /\ ~ magic[p]
        /\ crossed' = (crossed \/ hBlock[p].owner # H!ToolsOf(hActive))
        /\ hBlock' = [hBlock EXCEPT ![p].size = n]
        /\ kept' = [kept EXCEPT ![p] = n]
        /\ call' = [call EXCEPT ![u] = H!Idle]
        /\ UNCHANGED <<magic, header, configured, hActive, tried, hLost, ops>>
    BY <1>5, <2>p DEF H!ReallocNative
  <2>2. ~ H!Free(p) /\ \A v \in Threads : v # u => call[v].place # p
    BY <1>0, <2>1, <2>p DEF H!Held
  <2>4. /\ hBlock' \in [HeapPlaces -> [owner : H!Owners \cup {"none"}, size : Nat]]
        /\ hBlock'[p].owner = hBlock[p].owner /\ hBlock'[p].size = n
        /\ \A r \in HeapPlaces : r # p => hBlock'[r] = hBlock[r]
    BY <1>0, <2>1, <2>2 DEF H!TypeOK
  <2>5. /\ kept' \in [HeapPlaces -> Nat] /\ kept'[p] = n
        /\ \A r \in HeapPlaces : r # p => kept'[r] = kept[r]
    BY <1>0, <2>1, <2>2 DEF H!TypeOK
  <2>6. hBlock[p].owner \in H!Owners /\ ~ H!Free(p)'
    <3>1. hBlock[p].owner \in H!Owners BY <1>0, <2>2 DEF H!Marked
    <3>2. H!None.owner \notin H!Owners BY DEF H!None, H!Owners
    <3> QED BY <2>4, <3>1, <3>2 DEF H!Free
  <2>7. call' \in [Threads -> H!Calls] /\ \A v \in Threads : H!Held(v)'
    <3>1. ASSUME NEW v \in Threads, NEW r \in HeapPlaces,
                 v # u, call[v].op \in {"free", "realloc"}, call[v].place = r
          PROVE  ~ H!Free(r)'
      BY <1>0, <2>4, <2>6, <3>1 DEF H!Held, H!Free
    <3> QED BY <2>1, <3>1, HeapCallEnds
  <2>8. \A r \in HeapPlaces : H!Marked(r)'
    BY <1>0, <2>1, <2>2, <2>4, <2>5, <2>6 DEF H!Marked, H!Free
  <2>9. ~ crossed'
    BY <1>0, <2>1, <2>2 DEF H!Marked, H!ToolsOf, H!Owners
  <2>10. H!TypeOK' BY <1>0, <2>1, <2>4, <2>5, <2>7 DEF H!TypeOK
  <2> QED BY <1>0, <2>1, <2>7, <2>8, <2>9, <2>10 DEF H!IInv, H!HeapSound
<1>6. ASSUME NEW u \in Threads, H!Fail(u) PROVE H!IInv'
  <2>1. /\ call' = [call EXCEPT ![u] = H!Idle]
        /\ UNCHANGED <<hBlock, magic, header, kept, configured, hActive, tried, crossed, hLost>>
    BY <1>6 DEF H!Fail
  <2>2. call' \in [Threads -> H!Calls] /\ \A v \in Threads : H!Held(v)'
    BY <1>0, <2>1, HeapCallEnds, ZenonT(30) DEF H!Held, H!Free
  <2>3. \A r \in HeapPlaces : H!Marked(r)' BY <1>0, <2>1 DEF H!Marked, H!Free
  <2>4. H!TypeOK' BY <1>0, <2>1, <2>2 DEF H!TypeOK
  <2> QED BY <1>0, <2>1, <2>2, <2>3, <2>4 DEF H!IInv, H!HeapSound
<1>7. ASSUME NEW other \in HeapPlaces, NEW n \in Nat
      PROVE  /\ H!Given(other, n) \in [owner : H!Owners \cup {"none"}, size : Nat]
             /\ H!Given(other, n) # H!None /\ H!Given(other, n).size = n
             /\ H!Given(other, n).owner = H!ToolsOf(hActive) /\ H!ToolsOf(hActive) \in H!Owners
             /\ H!Given(other, n).owner = "rpmalloc" <=> hActive
             /\ H!MagicAfter(other) \in BOOLEAN /\ H!HeaderAfter(other, n) \in Nat
  <2>1. H!Given(other, n).owner = H!ToolsOf(hActive) /\ H!Given(other, n).size = n BY DEF H!Given
  <2>2. H!None.owner = "none" BY DEF H!None
  <2>3. H!ToolsOf(hActive) \in H!Owners /\ (H!ToolsOf(hActive) = "rpmalloc" <=> hActive)
        /\ H!ToolsOf(hActive) # "none"
    BY DEF H!ToolsOf, H!Owners
  <2>4. H!MagicAfter(other) \in BOOLEAN /\ H!HeaderAfter(other, n) \in Nat
    BY <1>0 DEF H!MagicAfter, H!HeaderAfter, H!TypeOK
  <2>5. H!Given(other, n) \in [owner : H!Owners \cup {"none"}, size : Nat]
    BY <2>3 DEF H!Given
  <2> QED BY <2>1, <2>2, <2>3, <2>4, <2>5
<1>8. ASSUME NEW u \in Threads, NEW other \in HeapPlaces, H!Malloc(u, other) PROVE H!IInv'
  <2>p. PICK n \in Nat : n = call[u].size BY <1>0 DEF H!TypeOK, H!Calls
  <2>1. /\ H!Free(other)
        /\ hBlock' = [hBlock EXCEPT ![other] = H!Given(other, n)]
        /\ magic' = [magic EXCEPT ![other] = H!MagicAfter(other)]
        /\ header' = [header EXCEPT ![other] = H!HeaderAfter(other, n)]
        /\ kept' = [kept EXCEPT ![other] = n]
        /\ crossed' = (crossed \/ (hActive /\ ~ configured))
        /\ call' = [call EXCEPT ![u] = H!Idle]
        /\ UNCHANGED <<configured, hActive, tried, hLost, ops>>
    BY <1>8, <2>p DEF H!Malloc
  <2>3. /\ hBlock' \in [HeapPlaces -> [owner : H!Owners \cup {"none"}, size : Nat]]
        /\ hBlock'[other] = H!Given(other, n)
        /\ \A r \in HeapPlaces : r # other => hBlock'[r] = hBlock[r]
    BY <1>0, <1>7, <2>1 DEF H!TypeOK
  <2>4. /\ magic' \in [HeapPlaces -> BOOLEAN] /\ magic'[other] = H!MagicAfter(other)
        /\ \A r \in HeapPlaces : r # other => magic'[r] = magic[r]
    BY <1>0, <1>7, <2>1 DEF H!TypeOK
  <2>5. /\ header' \in [HeapPlaces -> Nat] /\ header'[other] = H!HeaderAfter(other, n)
        /\ \A r \in HeapPlaces : r # other => header'[r] = header[r]
    BY <1>0, <1>7, <2>1 DEF H!TypeOK
  <2>6. /\ kept' \in [HeapPlaces -> Nat] /\ kept'[other] = n
        /\ \A r \in HeapPlaces : r # other => kept'[r] = kept[r]
    BY <1>0, <2>1 DEF H!TypeOK
  <2>7. call' \in [Threads -> H!Calls] /\ \A v \in Threads : H!Held(v)'
    <3>1. ASSUME NEW v \in Threads, NEW r \in HeapPlaces,
                 v # u, call[v].op \in {"free", "realloc"}, call[v].place = r
          PROVE  ~ H!Free(r)'
      BY <1>0, <2>1, <2>3, <3>1 DEF H!Held, H!Free
    <3> QED BY <2>1, <3>1, HeapCallEnds
  <2>8. ASSUME NEW r \in HeapPlaces PROVE H!Marked(r)'
    <3>1. CASE r # other
      BY <1>0, <2>1, <2>3, <2>4, <2>5, <2>6, <3>1 DEF H!Marked, H!Free
    <3>2. CASE r = other
      <4>1. ~ magic[other] BY <1>0, <2>1 DEF H!Marked
      <4>2. /\ hActive => ~ magic'[other] /\ hBlock'[other].owner = "rpmalloc"
            /\ ~ hActive => magic'[other] /\ hBlock'[other].owner = "newlib" /\ header'[other] = n
        <5>1. hBlock'[other].owner = H!ToolsOf(hActive) BY <1>7, <2>3
        <5> QED BY <2>4, <2>5, <4>1, <5>1 DEF H!MagicAfter, H!HeaderAfter, H!ToolsOf
      <4>3. ~ H!Free(other)' /\ hBlock'[other].size = n BY <1>7, <2>3 DEF H!Free
      <4> QED BY <2>1, <2>6, <3>2, <4>2, <4>3 DEF H!Marked, H!Owners
    <3> QED BY <3>1, <3>2
  <2>9. H!TypeOK' BY <1>0, <2>1, <2>3, <2>4, <2>5, <2>6, <2>7 DEF H!TypeOK
  <2> QED BY <1>0, <2>1, <2>7, <2>8, <2>9 DEF H!IInv, H!HeapSound
<1>9. ASSUME NEW u \in Threads, NEW other \in HeapPlaces, H!MoveEarly(u, other) PROVE H!IInv'
  <2>p. PICK p \in HeapPlaces, n \in Nat : p = call[u].place /\ n = call[u].size
    BY <1>0, <1>9 DEF H!MoveEarly, H!Held, H!TypeOK, H!Calls
  <2> DEFINE b == [hBlock EXCEPT ![p] = H!None]
             m == [magic EXCEPT ![p] = H!MagicFreed]
             k == [kept EXCEPT ![p] = 0]
  <2>1. /\ call[u].op = "realloc" /\ magic[p] /\ H!Free(other)
        /\ crossed' = (crossed \/ hBlock[p].owner # "newlib")
        /\ hLost' = (hLost \/ H!Smaller(header[p], n) # H!Smaller(kept[p], n))
        /\ hBlock' = [b EXCEPT ![other] = H!Given(other, n)]
        /\ magic' = [m EXCEPT ![other] = H!MagicAfter(other)]
        /\ header' = [header EXCEPT ![other] = H!HeaderAfter(other, n)]
        /\ kept' = [k EXCEPT ![other] = n]
        /\ call' = [call EXCEPT ![u] = H!Idle]
        /\ UNCHANGED <<configured, hActive, tried, ops>>
    BY <1>9, <2>p DEF H!MoveEarly
  <2>2. ~ H!Free(p) /\ p # other /\ \A v \in Threads : v # u => call[v].place # p
    BY <1>0, <2>1, <2>p DEF H!Held
  <2>a. H!None \in [owner : H!Owners \cup {"none"}, size : Nat] BY DEF H!None
  <2>b. /\ b \in [HeapPlaces -> [owner : H!Owners \cup {"none"}, size : Nat]] /\ b[p] = H!None
        /\ \A r \in HeapPlaces : r # p => b[r] = hBlock[r]
    BY <1>0, <2>2, <2>a DEF H!TypeOK
  <2>c. /\ m \in [HeapPlaces -> BOOLEAN] /\ ~ m[p]
        /\ \A r \in HeapPlaces : r # p => m[r] = magic[r]
    BY <1>0, <2>2 DEF H!TypeOK, H!MagicFreed
  <2>d. /\ k \in [HeapPlaces -> Nat] /\ k[p] = 0
        /\ \A r \in HeapPlaces : r # p => k[r] = kept[r]
    BY <1>0, <2>2 DEF H!TypeOK
  <2> HIDE DEF b, m, k
  <2>3. /\ hBlock' \in [HeapPlaces -> [owner : H!Owners \cup {"none"}, size : Nat]]
        /\ hBlock'[other] = H!Given(other, n) /\ hBlock'[p] = H!None
        /\ \A r \in HeapPlaces \ {p, other} : hBlock'[r] = hBlock[r]
    BY <1>7, <2>1, <2>2, <2>b
  <2>4. /\ magic' \in [HeapPlaces -> BOOLEAN] /\ magic'[other] = H!MagicAfter(other) /\ ~ magic'[p]
        /\ \A r \in HeapPlaces \ {p, other} : magic'[r] = magic[r]
    BY <1>7, <2>1, <2>2, <2>c
  <2>5. /\ header' \in [HeapPlaces -> Nat] /\ header'[other] = H!HeaderAfter(other, n)
        /\ \A r \in HeapPlaces : r # other => header'[r] = header[r]
    BY <1>0, <1>7, <2>1, <2>2 DEF H!TypeOK
  <2>6. /\ kept' \in [HeapPlaces -> Nat] /\ kept'[other] = n
        /\ \A r \in HeapPlaces \ {p, other} : kept'[r] = kept[r]
    BY <2>1, <2>2, <2>d
  <2>7. call' \in [Threads -> H!Calls] /\ \A v \in Threads : H!Held(v)'
    <3>1. ASSUME NEW v \in Threads, NEW r \in HeapPlaces,
                 v # u, call[v].op \in {"free", "realloc"}, call[v].place = r
          PROVE  ~ H!Free(r)'
      BY <1>0, <2>1, <2>2, <2>3, <3>1 DEF H!Held, H!Free
    <3> QED BY <2>1, <3>1, HeapCallEnds
  <2>8. ASSUME NEW r \in HeapPlaces PROVE H!Marked(r)'
    <3>1. CASE r \notin {p, other}
      BY <1>0, <2>1, <2>3, <2>4, <2>5, <2>6, <3>1 DEF H!Marked, H!Free
    <3>2. CASE r = other
      <4>1. ~ magic[other] BY <1>0, <2>1 DEF H!Marked
      <4>2. /\ hActive => ~ magic'[other] /\ hBlock'[other].owner = "rpmalloc"
            /\ ~ hActive => magic'[other] /\ hBlock'[other].owner = "newlib" /\ header'[other] = n
        <5>1. hBlock'[other].owner = H!ToolsOf(hActive) BY <1>7, <2>3
        <5> QED BY <2>4, <2>5, <4>1, <5>1 DEF H!MagicAfter, H!HeaderAfter, H!ToolsOf
      <4>3. ~ H!Free(other)' /\ hBlock'[other].size = n BY <1>7, <2>2, <2>3 DEF H!Free
      <4> QED BY <2>1, <2>6, <3>2, <4>2, <4>3 DEF H!Marked, H!Owners
    <3>3. CASE r = p BY <2>3, <2>4, <3>3 DEF H!Marked, H!Free
    <3> QED BY <3>1, <3>2, <3>3
  <2>9. ~ crossed' /\ ~ hLost' BY <1>0, <2>1, <2>2 DEF H!Marked
  <2>10. H!TypeOK' BY <1>0, <2>1, <2>3, <2>4, <2>5, <2>6, <2>7 DEF H!TypeOK
  <2> QED BY <1>0, <2>1, <2>7, <2>8, <2>9, <2>10 DEF H!IInv, H!HeapSound
<1> QED BY <1>1, <1>2, <1>3, <1>4, <1>5, <1>6, <1>8, <1>9 DEF H!Next

(* A part at rest changes nothing its invariant is about. *)
LEMMA HeapStutterInvariant == H!IInv /\ UNCHANGED heapVars => H!IInv'
BY DEF heapVars, H!IInv, H!TypeOK, H!HeapSound, H!Marked, H!Held, H!Free

(* The invariant holds in every reachable state. *)
THEOREM HeapInvariantHolds == Spec => []H!IInv
<1>1. H!HeapConstants BY ServiceConstants
<1>2. Init => H!IInv BY <1>1, HeapInitInvariant DEF Init
<1>3. H!IInv /\ [Next]_vars => H!IInv'
  BY <1>1, OnePart, HeapStepInvariant, HeapStutterInvariant
<1> QED BY <1>2, <1>3, PTL DEF Spec

-----------------------------------------------------------------------------
(* The table of mappings *)

(* A record is overwritten by the last one and the table cut by one. *)
Cut(s, i) == SubSeq([s EXCEPT ![i] = s[Len(s)]], 1, Len(s) - 1)

(* Every other record stays, once. *)
LEMMA RecordRemoved ==
  ASSUME NEW Item, NEW s \in Seq(Item), NEW i \in 1 .. Len(s),
         \A j, k \in 1 .. Len(s) : s[j] = s[k] => j = k
  PROVE  /\ Cut(s, i) \in Seq(Item)
         /\ \A j, k \in 1 .. Len(Cut(s, i)) : Cut(s, i)[j] = Cut(s, i)[k] => j = k
         /\ \A b : (\E j \in 1 .. Len(Cut(s, i)) : Cut(s, i)[j] = b) <=>
                   b # s[i] /\ \E j \in 1 .. Len(s) : s[j] = b
<1> DEFINE r == [s EXCEPT ![i] = s[Len(s)]]
           t == Cut(s, i)
<1>1. Len(s) \in Nat /\ Len(s) \in 1 .. Len(s) OBVIOUS
<1>2. r \in Seq(Item) /\ Len(r) = Len(s) /\ \A j \in 1 .. Len(s) : r[j] = IF j = i THEN
    s[Len(s)] ELSE s[j]
  BY <1>1
<1> HIDE DEF r
<1>3. t = SubSeq(r, 1, Len(s) - 1) BY DEF r, Cut
<1> HIDE DEF t
<1>4. t \in Seq(Item) /\ Len(t) = Len(s) - 1 /\ \A j \in 1 .. Len(s) - 1 : t[j] = r[j]
  BY <1>1, <1>2, <1>3
<1>5. \A j \in 1 .. Len(s) - 1 : t[j] = IF j = i THEN s[Len(s)] ELSE s[j] BY <1>1, <1>2, <1>4
<1>6. ASSUME NEW j \in 1 .. Len(t), NEW k \in 1 .. Len(t), t[j] = t[k] PROVE j = k
  <2>1. j \in 1 .. Len(s) /\ j # Len(s) /\ k \in 1 .. Len(s) /\ k # Len(s) BY <1>1, <1>4
  <2>2. t[j] = IF j = i THEN s[Len(s)] ELSE s[j] BY <1>4, <1>5
  <2>3. t[k] = IF k = i THEN s[Len(s)] ELSE s[k] BY <1>4, <1>5
  <2> QED BY <1>1, <1>6, <2>1, <2>2, <2>3
<1>7. ASSUME NEW b PROVE (\E j \in 1 .. Len(t) : t[j] = b) <=> b # s[i] /\ \E j \in 1 .. Len(s) : s[j] = b
  <2>1. ASSUME NEW j \in 1 .. Len(t), t[j] = b PROVE b # s[i] /\ \E k \in 1 .. Len(s) : s[k] = b
    <3>1. CASE j = i BY <1>1, <1>4, <1>5, <2>1, <3>1
    <3>2. CASE j # i BY <1>1, <1>4, <1>5, <2>1, <3>2
    <3> QED BY <3>1, <3>2
  <2>2. ASSUME b # s[i], NEW j \in 1 .. Len(s), s[j] = b PROVE \E k \in 1 .. Len(t) : t[k] = b
    <3>1. CASE j = Len(s)
      <4>1. i \in 1 .. Len(t) /\ t[i] = b BY <1>1, <1>4, <1>5, <2>2, <3>1
      <4> QED BY <4>1
    <3>2. CASE j # Len(s)
      <4>1. j \in 1 .. Len(t) /\ t[j] = b BY <1>1, <1>4, <1>5, <2>2, <3>2
      <4> QED BY <4>1
    <3> QED BY <3>1, <3>2
  <2> QED BY <2>1, <2>2
<1> QED BY <1>4, <1>6, <1>7 DEF t

(* Nothing is mapped at the start. *)
LEMMA MmapInitInvariant == ASSUME M!MapConstants PROVE M!Init => M!IInv
<1> SUFFICES ASSUME M!Init PROVE M!IInv OBVIOUS
<1>1. M!TypeOK
  <2>1. << >> \in Seq(Blocks) OBVIOUS
  <2> QED BY <2>1 DEF M!Init, M!TypeOK
<1>2. M!LockInv BY DEF M!Init, M!LockInv, M!Making, M!Locking, M!Inside
<1>3. M!BlockInv BY DEF M!Init, M!BlockInv, M!NoBlock, M!MapConstants
<1>4. M!TableInv BY DEF M!Init, M!TableInv, M!Recorded, M!Forgetting
<1> QED BY <1>1, <1>2, <1>3, <1>4 DEF M!Init, M!IInv

(* A thread goes from one place to another. *)
LEMMA MmapGoes ==
  ASSUME M!TypeOK, NEW t \in Threads, NEW where, M!Goto(t, where),
         where \in {"idle", "fill", "remember", "lock"} \cup M!Inside \cup M!Making \cup M!Forgetting
  PROVE  /\ mPc' \in [Threads -> {"idle", "fill", "remember", "lock"} \cup M!Inside \cup M!Making
                                  \cup M!Forgetting]
         /\ mPc'[t] = where /\ \A u \in Threads : u # t => mPc'[u] = mPc[u]
BY DEF M!TypeOK, M!Goto

(* A thread gets a block, or has it no more. *)
LEMMA MmapBlockOf ==
  ASSUME M!TypeOK, NEW t \in Threads, NEW b \in Blocks \cup {M!NoBlock},
         mBlock' = [mBlock EXCEPT ![t] = b]
  PROVE  /\ mBlock' \in [Threads -> Blocks \cup {M!NoBlock}]
         /\ mBlock'[t] = b /\ \A u \in Threads : u # t => mBlock'[u] = mBlock[u]
BY DEF M!TypeOK

(* A thread that looks at the flag, makes the mutex or locks it keeps its   *)
(* block and stays on the side of the table it was on.                      *)
LEMMA MmapLocking ==
  ASSUME M!IInv, NEW t \in Threads, NEW from, NEW to, mPc[t] = from, M!Goto(t, to),
         from # "idle", to # "idle",
         to \in {"remember", "lock", "length", "store"} \cup {"makelock"} <=>
           from \in {"fill", "remember", "lock", "length"} \cup {"makelock"},
         to \in M!Forgetting <=> from \in M!Forgetting,
         to \in {"idle", "fill", "remember", "lock"} \cup M!Inside \cup M!Making \cup M!Forgetting,
         UNCHANGED <<table, free, mMapped, mBlock, mLost>>
  PROVE  M!BlockInv' /\ M!TableInv'
<1>1. /\ mPc'[t] = to /\ \A u \in Threads : u # t => mPc'[u] = mPc[u]
  BY MmapGoes DEF M!IInv
<1>2. M!BlockInv' BY <1>1 DEF M!IInv, M!BlockInv
<1>3. \A b \in Blocks : M!Recorded(b)' <=> M!Recorded(b) BY <1>1 DEF M!Recorded
<1> QED BY <1>2, <1>3 DEF M!IInv, M!TableInv

(* Every step preserves the invariant. *)
LEMMA MmapStepInvariant == ASSUME M!MapConstants, M!IInv, M!Next PROVE M!IInv'
<1>0. M!TypeOK /\ M!LockInv /\ M!BlockInv /\ M!TableInv /\ ~ mLost BY DEF M!IInv
<1>n. M!NoBlock \notin Blocks BY DEF M!MapConstants
<1> PICK t \in Threads :
      \/ M!Alloc(t, TRUE) \/ M!Alloc(t, FALSE) \/ M!Fill(t)
      \/ M!TestFlag(t, "remember", "makelock", "lock")
      \/ M!InitMutex(t, "makelock", "lock") \/ M!LockMutex(t, "lock", "length")
      \/ M!ReadLength(t) \/ M!Store(t)
      \/ M!Unmap(t) \/ M!TestFlag(t, "forget", "makeforget", "lockforget")
      \/ M!InitMutex(t, "makeforget", "lockforget") \/ M!LockMutex(t, "lockforget", "find")
      \/ M!Forget(t)
  BY DEF M!Next
<1>1. ASSUME NEW anonymous \in BOOLEAN, M!Alloc(t, anonymous) PROVE M!IInv'
  <2>1. PICK b \in free : free' = free \ {b} /\ mBlock' = [mBlock EXCEPT ![t] = b]
    BY <1>1 DEF M!Alloc
  <2> DEFINE where == IF anonymous THEN "remember" ELSE "fill"
  <2>2. /\ mPc[t] = "idle" /\ M!Goto(t, where) /\ where \in {"remember", "fill"}
        /\ ~ inited => \A u \in Threads : mPc[u] = "idle"
        /\ UNCHANGED <<table, inited, mHolders, mMapped, mIndex, mLost>>
    BY <1>1 DEF M!Alloc
  <2> HIDE DEF where
  <2>3. /\ mPc' \in [Threads -> {"idle", "fill", "remember", "lock"} \cup M!Inside \cup M!Making
                                  \cup M!Forgetting]
        /\ mPc'[t] = where /\ \A u \in Threads : u # t => mPc'[u] = mPc[u]
    BY <1>0, <2>2, MmapGoes
  <2>4. b \in Blocks /\ b # M!NoBlock BY <1>0, <1>n DEF M!TypeOK
  <2>5. /\ mBlock' \in [Threads -> Blocks \cup {M!NoBlock}]
        /\ mBlock'[t] = b /\ \A u \in Threads : u # t => mBlock'[u] = mBlock[u]
    BY <1>0, <2>1, <2>4, MmapBlockOf
  <2>6. M!TypeOK' BY <1>0, <2>1, <2>2, <2>3, <2>5 DEF M!TypeOK
  <2>7. M!LockInv' BY <1>0, <2>2, <2>3 DEF M!LockInv, M!Making, M!Locking, M!Inside
  <2>8. M!BlockInv' BY <1>0, <2>1, <2>2, <2>3, <2>4, <2>5 DEF M!BlockInv
  <2>9. \A a \in Blocks : M!Recorded(a)' <=> M!Recorded(a)
    <3>1. mPc[t] \notin M!Forgetting /\ mPc'[t] \notin M!Forgetting
      BY <2>2, <2>3 DEF M!Forgetting
    <3> QED BY <2>2, <2>3, <2>5, <3>1 DEF M!Recorded
  <2>10. M!TableInv' BY <1>0, <2>2, <2>9 DEF M!TableInv
  <2> QED BY <1>0, <2>2, <2>6, <2>7, <2>8, <2>10 DEF M!IInv
<1>2. CASE M!Fill(t)
  <2>1. mPc[t] = "fill" /\ UNCHANGED <<table, inited, mHolders, mMapped, mIndex, mLost>>
    BY <1>2 DEF M!Fill
  <2>2. CASE M!Goto(t, "remember") /\ UNCHANGED <<free, mBlock>>
    <3>1. /\ mPc' \in [Threads -> {"idle", "fill", "remember", "lock"} \cup M!Inside \cup M!Making
                                    \cup M!Forgetting]
          /\ mPc'[t] = "remember" /\ \A u \in Threads : u # t => mPc'[u] = mPc[u]
      BY <1>0, <2>2, MmapGoes
    <3>2. M!TypeOK' BY <1>0, <2>1, <2>2, <3>1 DEF M!TypeOK
    <3>3. M!LockInv' BY <1>0, <2>1, <3>1 DEF M!LockInv, M!Making, M!Locking, M!Inside
    <3>4. M!BlockInv' /\ M!TableInv'
      BY <2>1, <2>2, MmapLocking DEF M!Inside, M!Making, M!Forgetting
    <3> QED BY <1>0, <2>1, <3>2, <3>3, <3>4 DEF M!IInv
  <2>3. CASE /\ M!Goto(t, "idle") /\ free' = free \cup {mBlock[t]}
             /\ mBlock' = [mBlock EXCEPT ![t] = M!NoBlock]
    <3>1. /\ mPc' \in [Threads -> {"idle", "fill", "remember", "lock"} \cup M!Inside \cup M!Making
                                    \cup M!Forgetting]
          /\ mPc'[t] = "idle" /\ \A u \in Threads : u # t => mPc'[u] = mPc[u]
      BY <1>0, <2>3, MmapGoes
    <3>2. /\ mBlock' \in [Threads -> Blocks \cup {M!NoBlock}]
          /\ mBlock'[t] = M!NoBlock /\ \A u \in Threads : u # t => mBlock'[u] = mBlock[u]
      BY <1>0, <2>3, MmapBlockOf
    <3>3. mBlock[t] \in Blocks /\ mBlock[t] \notin mMapped
          /\ \A u \in Threads : u # t => mBlock[u] # mBlock[t]
      BY <1>0, <2>1 DEF M!BlockInv, M!TypeOK
    <3>4. M!TypeOK' BY <1>0, <2>1, <2>3, <3>1, <3>2, <3>3 DEF M!TypeOK
    <3>5. M!LockInv' BY <1>0, <2>1, <3>1 DEF M!LockInv, M!Making, M!Locking, M!Inside
    <3>6. M!BlockInv'
      <4>1. M!NoBlock \notin free' \cup mMapped' BY <1>0, <1>n, <2>1, <2>3, <3>3 DEF M!TypeOK
      <4>2. free' \cap mMapped' = {} BY <1>0, <2>1, <2>3, <3>3 DEF M!BlockInv
      <4> QED BY <1>0, <2>1, <2>3, <3>1, <3>2, <3>3, <4>1, <4>2 DEF M!BlockInv
    <3>7. \A a \in Blocks : M!Recorded(a)' <=> M!Recorded(a)
      <4>1. mPc[t] \notin M!Forgetting /\ mPc'[t] \notin M!Forgetting
        BY <2>1, <3>1 DEF M!Forgetting
      <4> QED BY <2>1, <3>1, <3>2, <4>1 DEF M!Recorded
    <3>8. M!TableInv' BY <1>0, <2>1, <3>7 DEF M!TableInv
    <3> QED BY <1>0, <2>1, <3>4, <3>5, <3>6, <3>8 DEF M!IInv
  <2> QED BY <1>2, <2>2, <2>3 DEF M!Fill
<1>3. ASSUME NEW from, NEW first, NEW lock0, M!TestFlag(t, from, first, lock0),
             <<from, first, lock0>> \in
               {<<"remember", "makelock", "lock">>, <<"forget", "makeforget", "lockforget">>}
      PROVE  M!IInv'
  <2>1. /\ mPc[t] = from /\ M!Goto(t, IF inited THEN lock0 ELSE first)
        /\ UNCHANGED <<table, inited, mHolders, free, mMapped, mBlock, mIndex, mLost, mCalls>>
    BY <1>3 DEF M!TestFlag
  <2> DEFINE to == IF inited THEN lock0 ELSE first
  <2>2. to \in {"makelock", "lock", "makeforget", "lockforget"} /\ (to \in M!Making <=> ~ inited)
        /\ inited \in BOOLEAN
    BY <1>0, <1>3 DEF M!Making, M!TypeOK
  <2>3. to \in {"makelock", "lock"} <=> from = "remember" BY <1>3
  <2>4. from \in {"remember", "forget"} BY <1>3
  <2> HIDE DEF to
  <2>5. M!Goto(t, to) BY <2>1 DEF to
  <2>6. /\ mPc' \in [Threads -> {"idle", "fill", "remember", "lock"} \cup M!Inside \cup M!Making
                                    \cup M!Forgetting]
        /\ mPc'[t] = to /\ \A u \in Threads : u # t => mPc'[u] = mPc[u]
    BY <1>0, <2>2, <2>5, MmapGoes DEF M!Making, M!Forgetting
  <2>7. M!TypeOK' BY <1>0, <2>1, <2>6 DEF M!TypeOK
  <2>8. M!LockInv' BY <1>0, <2>1, <2>2, <2>4, <2>6 DEF M!LockInv, M!Making, M!Locking, M!Inside
  <2>9. M!BlockInv' /\ M!TableInv'
    BY <2>1, <2>2, <2>3, <2>4, <2>5, MmapLocking DEF M!Inside, M!Making, M!Forgetting
  <2> QED BY <1>0, <2>1, <2>7, <2>8, <2>9 DEF M!IInv
<1>4. ASSUME NEW first, NEW lock0, M!InitMutex(t, first, lock0),
             <<first, lock0>> \in {<<"makelock", "lock">>, <<"makeforget", "lockforget">>}
      PROVE  M!IInv'
  <2>1. /\ mPc[t] = first /\ mHolders' = {} /\ inited' = TRUE /\ M!Goto(t, lock0)
        /\ UNCHANGED <<table, free, mMapped, mBlock, mIndex, mLost, mCalls>>
    BY <1>4 DEF M!InitMutex
  <2>2. /\ first \in M!Making /\ lock0 \in {"lock", "lockforget"}
        /\ lock0 = "lock" <=> first = "makelock"
    BY <1>4 DEF M!Making
  <2>3. /\ mPc' \in [Threads -> {"idle", "fill", "remember", "lock"} \cup M!Inside \cup M!Making
                                    \cup M!Forgetting]
        /\ mPc'[t] = lock0 /\ \A u \in Threads : u # t => mPc'[u] = mPc[u]
    BY <1>0, <2>1, <2>2, MmapGoes DEF M!Forgetting
  <2>4. M!TypeOK' BY <1>0, <2>1, <2>3 DEF M!TypeOK
  <2>5. ~ inited /\ \A u \in Threads : u # t => mPc[u] = "idle"
    BY <1>0, <2>1, <2>2 DEF M!LockInv, M!Making
  <2>6. M!LockInv' BY <2>1, <2>2, <2>3, <2>5 DEF M!LockInv, M!Making, M!Locking, M!Inside
  <2>7. M!BlockInv' /\ M!TableInv'
    BY <2>1, <2>2, MmapLocking DEF M!Inside, M!Making, M!Forgetting
  <2> QED BY <1>0, <2>1, <2>4, <2>6, <2>7 DEF M!IInv
<1>5. ASSUME NEW lock0, NEW inside, M!LockMutex(t, lock0, inside),
             <<lock0, inside>> \in {<<"lock", "length">>, <<"lockforget", "find">>}
      PROVE  M!IInv'
  <2>1. /\ mPc[t] = lock0 /\ mHolders = {} /\ mHolders' = {t} /\ M!Goto(t, inside)
        /\ UNCHANGED <<table, inited, free, mMapped, mBlock, mIndex, mLost, mCalls>>
    BY <1>5 DEF M!LockMutex
  <2>2. /\ inside \in {"length", "find"} /\ lock0 \in {"lock", "lockforget"}
        /\ lock0 = "lock" <=> inside = "length"
    BY <1>5
  <2>3. /\ mPc' \in [Threads -> {"idle", "fill", "remember", "lock"} \cup M!Inside \cup M!Making
                                    \cup M!Forgetting]
        /\ mPc'[t] = inside /\ \A u \in Threads : u # t => mPc'[u] = mPc[u]
    BY <1>0, <2>1, <2>2, MmapGoes DEF M!Inside, M!Forgetting
  <2>4. M!TypeOK' BY <1>0, <2>1, <2>3 DEF M!TypeOK
  <2>5. inited BY <1>0, <2>1, <2>2 DEF M!LockInv, M!Locking
  <2>6. \A u \in Threads : mPc[u] \notin M!Inside BY <1>0, <2>1 DEF M!LockInv
  <2>7. M!LockInv' BY <1>0, <2>1, <2>2, <2>3, <2>5, <2>6 DEF M!LockInv, M!Making, M!Locking, M!Inside
  <2>8. M!BlockInv' /\ M!TableInv'
    BY <2>1, <2>2, MmapLocking DEF M!Inside, M!Making, M!Forgetting
  <2> QED BY <1>0, <2>1, <2>4, <2>7, <2>8 DEF M!IInv
<1>6. CASE M!ReadLength(t)
  <2>1. /\ mPc[t] = "length" /\ mIndex' = [mIndex EXCEPT ![t] = Len(table)] /\ M!Goto(t, "store")
        /\ UNCHANGED <<table, inited, mHolders, free, mMapped, mBlock, mLost, mCalls>>
    BY <1>6 DEF M!ReadLength
  <2>2. /\ mPc' \in [Threads -> {"idle", "fill", "remember", "lock"} \cup M!Inside \cup M!Making
                                    \cup M!Forgetting]
        /\ mPc'[t] = "store" /\ \A u \in Threads : u # t => mPc'[u] = mPc[u]
    BY <1>0, <2>1, MmapGoes DEF M!Inside
  <2>3. /\ mIndex' \in [Threads -> Nat] /\ mIndex'[t] = Len(table)
        /\ \A u \in Threads : u # t => mIndex'[u] = mIndex[u]
    BY <1>0, <2>1 DEF M!TypeOK
  <2>4. M!TypeOK' BY <1>0, <2>1, <2>2, <2>3 DEF M!TypeOK
  <2>5. M!LockInv' BY <1>0, <2>1, <2>2, <2>3 DEF M!LockInv, M!Making, M!Locking, M!Inside
  <2>6. M!BlockInv' /\ M!TableInv'
    BY <2>1, MmapLocking DEF M!Inside, M!Making, M!Forgetting
  <2> QED BY <1>0, <2>1, <2>4, <2>5, <2>6 DEF M!IInv
<1>7. CASE M!Store(t)
  <2> DEFINE b == mBlock[t]
  <2>1. /\ mPc[t] = "store"
        /\ table' = [i \in 1 .. mIndex[t] + 1 |->
                       IF i = mIndex[t] + 1 \/ i > Len(table) THEN b ELSE table[i]]
        /\ mMapped' = mMapped \cup {b}
        /\ mBlock' = [mBlock EXCEPT ![t] = M!NoBlock]
        /\ mHolders' = mHolders \ {t} /\ M!Goto(t, "idle")
        /\ UNCHANGED <<inited, free, mIndex, mLost, mCalls>>
    BY <1>7 DEF M!Store
  <2>2. /\ mPc' \in [Threads -> {"idle", "fill", "remember", "lock"} \cup M!Inside \cup M!Making
                                    \cup M!Forgetting]
        /\ mPc'[t] = "idle" /\ \A u \in Threads : u # t => mPc'[u] = mPc[u]
    BY <1>0, <2>1, MmapGoes
  <2>3. /\ mBlock' \in [Threads -> Blocks \cup {M!NoBlock}]
        /\ mBlock'[t] = M!NoBlock /\ \A u \in Threads : u # t => mBlock'[u] = mBlock[u]
    BY <1>0, <2>1, MmapBlockOf
  <2>4. /\ b \in Blocks /\ b \notin free /\ b \notin mMapped /\ b # M!NoBlock
        /\ \A u \in Threads : u # t => mBlock[u] # b
    BY <1>0, <2>1 DEF M!BlockInv, M!TypeOK
  <2>5. mIndex[t] = Len(table) /\ mHolders = {t} /\ inited
    BY <1>0, <2>1 DEF M!LockInv, M!Inside
  <2>6. \A u \in Threads : u # t => mPc[u] \notin M!Inside
    BY <1>0, <2>5 DEF M!LockInv
  <2>7. Len(table) \in Nat /\ table \in Seq(Blocks) BY <1>0 DEF M!TypeOK
  <2> HIDE DEF b
  <2>8. /\ table' \in Seq(Blocks) /\ Len(table') = Len(table) + 1 /\ table'[Len(table) + 1] = b
        /\ \A i \in 1 .. Len(table) : table'[i] = table[i]
    <3>1. table' = [i \in 1 .. Len(table) + 1 |-> IF i = Len(table) + 1 THEN b ELSE table[i]]
      BY <2>1, <2>5, <2>7
    <3>2. /\ table' \in [1 .. Len(table) + 1 -> Blocks]
          /\ table'[Len(table) + 1] = b
          /\ \A i \in 1 .. Len(table) : table'[i] = table[i]
      BY <2>4, <2>7, <3>1
    <3>3. table' \in Seq(Blocks) BY <2>7, <3>2, SeqDef
    <3> QED BY <2>7, <3>2, <3>3, LenProperties
  <2>9. M!TypeOK' BY <1>0, <2>1, <2>2, <2>3, <2>4, <2>8 DEF M!TypeOK
  <2>10. M!LockInv' BY <1>0, <2>1, <2>2, <2>5, <2>6 DEF M!LockInv, M!Making, M!Locking, M!Inside
  <2>11. M!BlockInv'
    <3>1. M!NoBlock \notin free' \cup mMapped' BY <1>0, <1>n, <2>1, <2>4 DEF M!TypeOK
    <3>2. free' \cap mMapped' = {} BY <1>0, <2>1, <2>4 DEF M!BlockInv
    <3> QED BY <1>0, <2>1, <2>2, <2>3, <2>4, <3>1, <3>2 DEF M!BlockInv
  <2>12. M!TableInv'
    <3>1. ~ M!Recorded(b) BY <2>1, <2>4 DEF M!Recorded, M!Forgetting, b
    <3>2. \A i \in 1 .. Len(table) : table[i] # b BY <1>0, <2>4, <3>1 DEF M!TableInv
    <3>3. \A a \in Blocks : M!Recorded(a)' <=> M!Recorded(a) \/ a = b
      <4>1. mPc[t] \notin M!Forgetting /\ mPc'[t] \notin M!Forgetting
        BY <2>1, <2>2 DEF M!Forgetting
      <4> QED BY <2>1, <2>2, <2>3, <4>1 DEF M!Recorded
    <3>4. \A i, j \in 1 .. Len(table') : table'[i] = table'[j] => i = j
      BY <1>0, <2>7, <2>8, <3>2 DEF M!TableInv
    <3>5. \A a \in Blocks : (\E i \in 1 .. Len(table') : table'[i] = a) <=>
                            a = b \/ \E i \in 1 .. Len(table) : table[i] = a
      BY <2>7, <2>8
    <3> QED BY <1>0, <3>3, <3>4, <3>5 DEF M!TableInv
  <2> QED BY <1>0, <2>1, <2>9, <2>10, <2>11, <2>12 DEF M!IInv
<1>8. CASE M!Unmap(t)
  <2>1. PICK b \in mMapped : mBlock' = [mBlock EXCEPT ![t] = b] /\ mMapped' = mMapped \ {b}
    BY <1>8 DEF M!Unmap
  <2>2. /\ mPc[t] = "idle" /\ inited /\ M!Goto(t, "forget")
        /\ UNCHANGED <<table, inited, mHolders, free, mIndex, mLost>>
    BY <1>8 DEF M!Unmap
  <2>3. /\ mPc' \in [Threads -> {"idle", "fill", "remember", "lock"} \cup M!Inside \cup M!Making
                                    \cup M!Forgetting]
        /\ mPc'[t] = "forget" /\ \A u \in Threads : u # t => mPc'[u] = mPc[u]
    BY <1>0, <2>2, MmapGoes DEF M!Forgetting
  <2>4. b \in Blocks /\ b # M!NoBlock /\ b \notin free BY <1>0, <1>n DEF M!TypeOK, M!BlockInv
  <2>5. /\ mBlock' \in [Threads -> Blocks \cup {M!NoBlock}]
        /\ mBlock'[t] = b /\ \A u \in Threads : u # t => mBlock'[u] = mBlock[u]
    BY <1>0, <2>1, <2>4, MmapBlockOf
  <2>6. M!TypeOK' BY <1>0, <2>1, <2>2, <2>3, <2>5 DEF M!TypeOK
  <2>7. M!LockInv' BY <1>0, <2>2, <2>3 DEF M!LockInv, M!Making, M!Locking, M!Inside
  <2>8. M!BlockInv' BY <1>0, <2>1, <2>2, <2>3, <2>4, <2>5 DEF M!BlockInv
  <2>9. \A a \in Blocks : M!Recorded(a)' <=> M!Recorded(a)
    <3>1. mPc[t] \notin M!Forgetting /\ mPc'[t] \in M!Forgetting
      BY <2>2, <2>3 DEF M!Forgetting
    <3> QED BY <2>1, <2>3, <2>5, <3>1 DEF M!Recorded
  <2>10. M!TableInv' BY <1>0, <2>2, <2>9 DEF M!TableInv
  <2> QED BY <1>0, <2>2, <2>6, <2>7, <2>8, <2>10 DEF M!IInv
<1>9. CASE M!Forget(t)
  <2> DEFINE b == mBlock[t]
  <2>1. /\ mPc[t] = "find"
        /\ mBlock' = [mBlock EXCEPT ![t] = M!NoBlock]
        /\ mHolders' = mHolders \ {t} /\ M!Goto(t, "idle")
        /\ UNCHANGED <<inited, mMapped, mIndex, mCalls>>
    BY <1>9 DEF M!Forget
  <2>2. /\ mPc' \in [Threads -> {"idle", "fill", "remember", "lock"} \cup M!Inside \cup M!Making
                                    \cup M!Forgetting]
        /\ mPc'[t] = "idle" /\ \A u \in Threads : u # t => mPc'[u] = mPc[u]
    BY <1>0, <2>1, MmapGoes
  <2>3. /\ mBlock' \in [Threads -> Blocks \cup {M!NoBlock}]
        /\ mBlock'[t] = M!NoBlock /\ \A u \in Threads : u # t => mBlock'[u] = mBlock[u]
    BY <1>0, <2>1, MmapBlockOf
  <2>4. /\ b \in Blocks /\ b \notin free /\ b \notin mMapped /\ b # M!NoBlock
        /\ \A u \in Threads : u # t => mBlock[u] # b
    BY <1>0, <2>1 DEF M!BlockInv, M!TypeOK
  <2>5. mHolders = {t} /\ inited BY <1>0, <2>1 DEF M!LockInv, M!Inside
  <2>6. \A u \in Threads : u # t => mPc[u] \notin M!Inside
    BY <1>0, <2>5 DEF M!LockInv
  <2>7. M!Recorded(b) BY <2>1 DEF M!Recorded, M!Forgetting
  <2>8. PICK i \in 1 .. Len(table) : table[i] = b BY <1>0, <2>4, <2>7 DEF M!TableInv
  <2>9. M!Places(b) = {i} BY <1>0, <2>8 DEF M!Places, M!TableInv
  <2>10. (CHOOSE k \in M!Places(b) : \A j \in M!Places(b) : k <= j) = i BY <2>9
  <2>11. table' = M!Without(i) /\ free' = free \cup {b} /\ UNCHANGED mLost
    BY <1>9, <2>9, <2>10 DEF M!Forget
  <2> HIDE DEF b
  <2>12. /\ table' \in Seq(Blocks)
         /\ \A j, k \in 1 .. Len(table') : table'[j] = table'[k] => j = k
         /\ \A a : (\E j \in 1 .. Len(table') : table'[j] = a) <=>
                   a # b /\ \E j \in 1 .. Len(table) : table[j] = a
    <3>1. table \in Seq(Blocks) /\ \A j, k \in 1 .. Len(table) : table[j] = table[k] => j = k
      BY <1>0 DEF M!TypeOK, M!TableInv
    <3>2. table' = Cut(table, i) BY <2>11 DEF M!Without, Cut
    <3>3. /\ Cut(table, i) \in Seq(Blocks)
          /\ \A j, k \in 1 .. Len(Cut(table, i)) : Cut(table, i)[j] = Cut(table, i)[k] => j = k
          /\ \A a : (\E j \in 1 .. Len(Cut(table, i)) : Cut(table, i)[j] = a) <=>
                    a # table[i] /\ \E j \in 1 .. Len(table) : table[j] = a
      BY <3>1, RecordRemoved, Zenon
    <3> QED BY <2>8, <3>2, <3>3, Zenon
  <2>13. M!TypeOK' BY <1>0, <2>1, <2>2, <2>3, <2>4, <2>11, <2>12 DEF M!TypeOK
  <2>14. M!LockInv' BY <1>0, <2>1, <2>2, <2>5, <2>6 DEF M!LockInv, M!Making, M!Locking, M!Inside
  <2>15. M!BlockInv'
    <3>1. M!NoBlock \notin free' \cup mMapped' BY <1>0, <1>n, <2>1, <2>4, <2>11 DEF M!TypeOK
    <3>2. free' \cap mMapped' = {} BY <1>0, <2>1, <2>4, <2>11 DEF M!BlockInv
    <3> QED BY <1>0, <2>1, <2>2, <2>3, <2>4, <2>11, <3>1, <3>2 DEF M!BlockInv
  <2>16. \A a \in Blocks : M!Recorded(a)' <=> M!Recorded(a) /\ a # b
    <3>1. mPc[t] \in M!Forgetting /\ mPc'[t] \notin M!Forgetting /\ mBlock[t] = b
      BY <2>1, <2>2 DEF M!Forgetting, b
    <3> QED BY <2>1, <2>2, <2>3, <2>4, <3>1 DEF M!Recorded
  <2>17. M!TableInv' BY <1>0, <2>12, <2>16 DEF M!TableInv
  <2> QED BY <1>0, <2>11, <2>13, <2>14, <2>15, <2>17 DEF M!IInv
<1> QED BY <1>1, <1>2, <1>3, <1>4, <1>5, <1>6, <1>7, <1>8, <1>9

(* A part at rest changes nothing its invariant is about. *)
LEMMA MmapStutterInvariant == M!IInv /\ UNCHANGED mmapVars => M!IInv'
BY DEF mmapVars, M!IInv, M!TypeOK, M!LockInv, M!BlockInv, M!TableInv, M!Recorded

(* The invariant holds in every reachable state. *)
THEOREM MmapInvariantHolds == Spec => []M!IInv
<1>1. M!MapConstants BY ServiceConstants
<1>2. Init => M!IInv BY <1>1, MmapInitInvariant DEF Init
<1>3. M!IInv /\ [Next]_vars => M!IInv'
  BY <1>1, OnePart, MmapStepInvariant, MmapStutterInvariant
<1> QED BY <1>2, <1>3, PTL DEF Spec

(* One record for each mapping and none for a block of the heap. *)
LEMMA MmapSound == M!IInv => M!MappingsRemembered
<1> SUFFICES ASSUME M!IInv PROVE M!MappingsRemembered OBVIOUS
<1>0. \A set : M!Cardinality(set) = Cardinality(set) BY DEF M!Cardinality, Cardinality
<1>1. ASSUME NEW b \in mMapped PROVE Cardinality(M!Places(b)) = 1
  <2>1. b \in Blocks /\ M!Recorded(b) BY DEF M!IInv, M!TypeOK, M!Recorded
  <2>2. PICK i \in 1 .. Len(table) : table[i] = b BY <2>1 DEF M!IInv, M!TableInv
  <2>3. M!Places(b) = {i} BY <2>2 DEF M!IInv, M!TableInv, M!Places
  <2> QED BY <2>3, FS_Singleton
<1>2. ASSUME NEW b \in free PROVE M!Places(b) = {}
  <2>1. b \in Blocks /\ ~ M!Recorded(b) BY DEF M!IInv, M!TypeOK, M!BlockInv, M!Recorded
  <2> QED BY <2>1 DEF M!IInv, M!TableInv, M!Places
<1> QED BY <1>0, <1>1, <1>2 DEF M!MappingsRemembered, M!IInv

(* Across the switch every block goes back to the allocator that made it,   *)
(* and the table of mappings remembers every mapping, each once.            *)
THEOREM MemoryHolds == Spec => []MemorySound
<1>1. H!IInv => H!HeapSound /\ H!HeaderHonest
  BY DEF H!IInv, H!HeaderHonest, H!Marked
<1>2. H!IInv /\ M!IInv => MemorySound BY <1>1, MmapSound DEF MemorySound
<1> QED BY <1>2, HeapInvariantHolds, MmapInvariantHolds, PTL

-----------------------------------------------------------------------------
(* The registry of the fake JavaVM *)

(* Where a table without duplicates has an entry. *)
LEMMA FirstFacts ==
  ASSUME NEW Item, NEW s \in Seq(Item), NEW e,
         \A i, j \in 1 .. Len(s) : s[i] = s[j] => i = j
  PROVE  /\ J!First(s, e) \in 0 .. Len(s)
         /\ J!First(s, e) = 0 <=> \A i \in 1 .. Len(s) : s[i] # e
         /\ J!First(s, e) # 0 => s[J!First(s, e)] = e
<1> DEFINE places == {i \in 1 .. Len(s) : s[i] = e}
<1>1. J!First(s, e) = IF places = {} THEN 0 ELSE CHOOSE i \in places : \A j \in places : i <= j
  BY DEF J!First
<1>2. Len(s) \in Nat OBVIOUS
<1>3. CASE places = {} BY <1>1, <1>2, <1>3
<1>4. CASE places # {}
  <2>1. PICK i \in 1 .. Len(s) : s[i] = e BY <1>4
  <2>2. places = {i} BY <2>1
  <2> HIDE DEF places
  <2>3. (CHOOSE k \in places : \A j \in places : k <= j) = i BY <2>2
  <2>4. J!First(s, e) = i BY <1>1, <1>4, <2>3
  <2> QED BY <1>2, <2>1, <2>4
<1> QED BY <1>3, <1>4

(* A new entry comes last and moves no other. *)
LEMMA FirstAppend ==
  ASSUME NEW Item, NEW s \in Seq(Item), NEW x \in Item,
         \A i, j \in 1 .. Len(s) : s[i] = s[j] => i = j,
         J!First(s, x) = 0
  PROVE  /\ \A i, j \in 1 .. Len(Append(s, x)) : Append(s, x)[i] = Append(s, x)[j] => i = j
         /\ J!First(Append(s, x), x) = Len(s) + 1
         /\ \A e : J!First(s, e) # 0 => J!First(Append(s, x), e) = J!First(s, e)
<1> DEFINE t == Append(s, x)
<1>1. /\ t \in Seq(Item) /\ Len(s) \in Nat /\ Len(t) = Len(s) + 1 /\ t[Len(s) + 1] = x
      /\ \A i \in 1 .. Len(s) : t[i] = s[i]
  BY AppendProperties
<1>2. \A i \in 1 .. Len(s) : s[i] # x BY FirstFacts
<1> HIDE DEF t
<1>3. \A i, j \in 1 .. Len(t) : t[i] = t[j] => i = j BY <1>1, <1>2
<1>4. ASSUME NEW e, NEW k \in 1 .. Len(t), t[k] = e PROVE J!First(t, e) = k
  <2>1. J!First(t, e) \in 0 .. Len(t) /\ J!First(t, e) # 0 /\ t[J!First(t, e)] = e
    BY <1>1, <1>3, <1>4, FirstFacts
  <2> QED BY <1>1, <1>3, <1>4, <2>1
<1>5. J!First(t, x) = Len(s) + 1 BY <1>1, <1>4
<1>6. ASSUME NEW e, J!First(s, e) # 0 PROVE J!First(t, e) = J!First(s, e)
  <2>1. J!First(s, e) \in 1 .. Len(s) /\ s[J!First(s, e)] = e BY <1>1, <1>6, FirstFacts
  <2> QED BY <1>1, <1>4, <2>1
<1> QED BY <1>3, <1>5, <1>6 DEF t

(* Nothing is interned at the start. *)
LEMMA JniInitInvariant == ASSUME J!JniConstants PROVE J!Init => J!IInv
<1> SUFFICES ASSUME J!Init PROVE J!IInv OBVIOUS
<1>1. <<>> \in Seq(Classes) /\ <<>> \in Seq(J!MethodRecords) OBVIOUS
<1>2. J!TypeOK BY <1>1 DEF J!Init, J!TypeOK
<1>3. J!NoDuplicates BY DEF J!Init, J!NoDuplicates
<1>4. \A t \in Threads : J!Looking(t) BY DEF J!Init, J!Looking
<1> QED BY <1>2, <1>3, <1>4 DEF J!Init, J!IInv

(* Every step preserves the invariant. *)
LEMMA JniStepInvariant == ASSUME J!JniConstants, J!IInv, J!Next PROVE J!IInv'
<1>0. /\ J!TypeOK /\ J!NoDuplicates /\ NoOne \notin Threads
      /\ \A t \in Threads : J!Looking(t)
      /\ \A a \in told : J!Answered(a)
  BY DEF J!IInv, J!JniConstants
<1>1. ASSUME NEW t \in Threads, NEW wish \in J!Questions, J!Ask(t, wish) PROVE J!IInv'
  <2>1. /\ jpc[t] = "idle"
        /\ jpc' = [jpc EXCEPT ![t] = "wait"] /\ want' = [want EXCEPT ![t] = wish]
        /\ UNCHANGED <<classes, methods, lock, seen, told>>
    BY <1>1 DEF J!Ask
  <2>2. wish \in J!AllQuestions
    <3>1. ASSUME NEW c \in Classes PROVE J!AClass(c) \in J!AllQuestions
      BY DEF J!AClass, J!AllQuestions
    <3>2. ASSUME NEW h \in J!Handles, NEW m \in Members PROVE J!AMethod(h, m) \in J!AllQuestions
      <4>1. h \in Nat BY <1>0 DEF J!TypeOK, J!Handles
      <4> QED BY <4>1 DEF J!AMethod, J!AllQuestions
    <3> QED BY <3>1, <3>2 DEF J!Questions
  <2>3. /\ jpc' \in [Threads -> {"idle", "wait", "found"}] /\ jpc'[t] = "wait"
        /\ \A u \in Threads : u # t => jpc'[u] = jpc[u]
    BY <1>0, <2>1 DEF J!TypeOK
  <2>4. /\ want' \in [Threads -> J!AllQuestions \cup {J!Nothing}] /\ want'[t] = wish
        /\ \A u \in Threads : u # t => want'[u] = want[u]
    BY <1>0, <2>1, <2>2 DEF J!TypeOK
  <2>5. J!TypeOK' BY <1>0, <2>1, <2>3, <2>4 DEF J!TypeOK
  <2>6. ASSUME NEW u \in Threads PROVE J!Looking(u)'
    BY <1>0, <2>1, <2>2, <2>3, <2>4 DEF J!Looking, J!Place
  <2>7. J!NoDuplicates' BY <1>0, <2>1 DEF J!NoDuplicates
  <2>8. \A a \in told' : J!Answered(a)' BY <1>0, <2>1 DEF J!Answered, J!Place, J!Full
  <2> QED BY <2>5, <2>6, <2>7, <2>8 DEF J!IInv
<1>p. ASSUME NEW wish \in J!AllQuestions PROVE J!Place(wish) \in Nat
  <2>1. J!First(classes, wish.class) \in Nat BY <1>0, FirstFacts DEF J!TypeOK, J!NoDuplicates
  <2>2. J!First(methods, [handle |-> wish.handle, member |-> wish.member]) \in Nat
    BY <1>0, FirstFacts DEF J!TypeOK, J!NoDuplicates
  <2> QED BY <2>1, <2>2 DEF J!Place
<1>2. ASSUME NEW t \in Threads, J!Search(t) PROVE J!IInv'
  <2>1. /\ jpc[t] = "wait" /\ lock = NoOne /\ lock' = t
        /\ seen' = [seen EXCEPT ![t] = J!Place(want[t])]
        /\ jpc' = [jpc EXCEPT ![t] = "found"]
        /\ UNCHANGED <<classes, methods, want, told>>
    BY <1>2 DEF J!Search, J!Takes
  <2>2. want[t] \in J!AllQuestions /\ J!Place(want[t]) \in Nat BY <1>0, <1>p, <2>1 DEF J!Looking
  <2>3. /\ jpc' \in [Threads -> {"idle", "wait", "found"}] /\ jpc'[t] = "found"
        /\ \A u \in Threads : u # t => jpc'[u] = jpc[u]
    BY <1>0, <2>1 DEF J!TypeOK
  <2>4. /\ seen' \in [Threads -> Nat] /\ seen'[t] = J!Place(want[t])
    BY <1>0, <2>1, <2>2 DEF J!TypeOK
  <2>5. J!TypeOK' BY <1>0, <2>1, <2>3, <2>4 DEF J!TypeOK
  <2>6. ASSUME NEW u \in Threads PROVE J!Looking(u)'
    <3>1. CASE u = t BY <2>1, <2>2, <2>3, <2>4, <3>1 DEF J!Looking, J!Place
    <3>2. CASE u # t
      <4>1. jpc[u] # "found" BY <1>0, <2>1 DEF J!Looking
      <4> QED BY <1>0, <2>1, <2>3, <3>2, <4>1 DEF J!Looking
    <3> QED BY <3>1, <3>2
  <2>7. J!NoDuplicates' BY <1>0, <2>1 DEF J!NoDuplicates
  <2>8. \A a \in told' : J!Answered(a)' BY <1>0, <2>1 DEF J!Answered, J!Place, J!Full
  <2> QED BY <2>5, <2>6, <2>7, <2>8 DEF J!IInv
<1>3. ASSUME NEW t \in Threads, J!Intern(t) PROVE J!IInv'
  <2>p. PICK wish \in J!AllQuestions : wish = want[t] BY <1>0, <1>3 DEF J!Intern, J!Looking
  <2> DEFINE e == [handle |-> wish.handle, member |-> wish.member]
             new == seen[t] = 0 /\ ~ J!Full(wish)
  <2>1. /\ jpc[t] = "found" /\ lock' = NoOne
        /\ classes' = IF new /\ wish.kind = "class" THEN Append(classes, wish.class) ELSE classes
        /\ methods' = IF new /\ wish.kind = "method" THEN Append(methods, e) ELSE methods
        /\ told' = told \cup {[what |-> wish, place |-> J!Answer(t)]}
        /\ jpc' = [jpc EXCEPT ![t] = "idle"]
        /\ UNCHANGED <<want, seen>>
    BY <1>3, <2>p DEF J!Intern
  <2>2. /\ lock = t /\ seen[t] = J!Place(wish) /\ J!Place(wish) \in Nat
        /\ \A u \in Threads : u # t => jpc[u] # "found"
    BY <1>0, <1>p, <2>1, <2>p DEF J!Looking
  <2>3. /\ jpc' \in [Threads -> {"idle", "wait", "found"}] /\ jpc'[t] = "idle"
        /\ \A u \in Threads : u # t => jpc'[u] = jpc[u]
    BY <1>0, <2>1 DEF J!TypeOK
  <2>4. \A u \in Threads : J!Looking(u)' BY <1>0, <2>1, <2>2, <2>3 DEF J!Looking
  <2>5. /\ wish.kind \in {"class", "method"}
        /\ wish.kind = "class" => wish.class \in Classes
        /\ wish.kind = "method" => e \in J!MethodRecords
    BY DEF J!AllQuestions, J!MethodRecords
  <2>l. Len(classes) \in Nat /\ Len(methods) \in Nat BY <1>0 DEF J!TypeOK
  <2>6. J!Answer(t) \in Nat BY <2>2, <2>l, <2>p DEF J!Answer
  <2>7. PICK answer \in [what : J!AllQuestions, place : Nat] :
          answer.what = wish /\ answer.place = J!Answer(t) /\ told' = told \cup {answer}
    BY <2>1, <2>6
  <2> HIDE DEF e
  <2>8. told' \subseteq [what : J!AllQuestions, place : Nat] BY <1>0, <2>7 DEF J!TypeOK
  <2>9. CASE ~ new
    <3>1. UNCHANGED <<classes, methods>> BY <2>1, <2>9
    <3>2. J!TypeOK' BY <1>0, <2>1, <2>3, <2>8, <3>1 DEF J!TypeOK
    <3>3. J!NoDuplicates' BY <1>0, <3>1 DEF J!NoDuplicates
    <3>4. J!Answered(answer)
      BY <2>2, <2>7, <2>9, <2>p DEF J!Answered, J!Answer
    <3>5. \A a \in told' : J!Answered(a)'
      BY <1>0, <2>7, <3>1, <3>4 DEF J!Answered, J!Place, J!Full
    <3> QED BY <2>4, <3>2, <3>3, <3>5 DEF J!IInv
  <2>10. CASE new /\ wish.kind = "class"
    <3>1. classes' = Append(classes, wish.class) /\ methods' = methods /\ wish.class \in Classes
      BY <2>1, <2>5, <2>10
    <3>2. J!First(classes, wish.class) = 0 BY <2>2, <2>10 DEF J!Place
    <3>3. /\ \A i, j \in 1 .. Len(classes') : classes'[i] = classes'[j] => i = j
          /\ J!First(classes', wish.class) = Len(classes) + 1
          /\ \A x : J!First(classes, x) # 0 => J!First(classes', x) = J!First(classes, x)
      BY <1>0, <3>1, <3>2, FirstAppend DEF J!TypeOK, J!NoDuplicates
    <3>4. classes' \in Seq(Classes) /\ Len(classes') = Len(classes) + 1
      BY <1>0, <3>1, AppendProperties DEF J!TypeOK
    <3>5. J!TypeOK' BY <1>0, <2>1, <2>3, <2>8, <3>1, <3>4 DEF J!TypeOK
    <3>6. J!NoDuplicates' BY <1>0, <3>1, <3>3 DEF J!NoDuplicates
    <3>7. J!Answered(answer)'
      <4>1. J!Answer(t) = Len(classes) + 1 BY <2>p, <2>10 DEF J!Answer
      <4>2. J!Place(answer.what)' = Len(classes) + 1 BY <2>7, <2>10, <3>3 DEF J!Place
      <4> QED BY <2>7, <2>l, <4>1, <4>2 DEF J!Answered
    <3>8. ASSUME NEW a \in told PROVE J!Answered(a)'
      <4>1. J!Answered(a) BY <1>0
      <4>2. CASE a.what.kind = "class"
        <5>1. ~ J!Full(a.what) BY <2>10, <4>2 DEF J!Full
        <5>2. J!Place(a.what) # 0 /\ a.place = J!Place(a.what) BY <4>1, <5>1 DEF J!Answered
        <5> QED BY <3>3, <4>2, <5>2 DEF J!Answered, J!Place
      <4>3. CASE a.what.kind # "class"
        BY <3>1, <4>1, <4>3 DEF J!Answered, J!Place, J!Full
      <4> QED BY <4>2, <4>3
    <3>9. \A a \in told' : J!Answered(a)' BY <2>7, <3>7, <3>8
    <3> QED BY <2>4, <3>5, <3>6, <3>9 DEF J!IInv
  <2>11. CASE new /\ wish.kind = "method"
    <3>1. methods' = Append(methods, e) /\ classes' = classes /\ e \in J!MethodRecords
      BY <2>1, <2>5, <2>11
    <3>2. J!First(methods, e) = 0 BY <2>2, <2>11 DEF J!Place, e
    <3>3. /\ \A i, j \in 1 .. Len(methods') : methods'[i] = methods'[j] => i = j
          /\ J!First(methods', e) = Len(methods) + 1
          /\ \A x : J!First(methods, x) # 0 => J!First(methods', x) = J!First(methods, x)
      BY <1>0, <3>1, <3>2, FirstAppend DEF J!TypeOK, J!NoDuplicates
    <3>4. methods' \in Seq(J!MethodRecords) /\ Len(methods') = Len(methods) + 1
      BY <1>0, <3>1, AppendProperties DEF J!TypeOK
    <3>5. J!TypeOK' BY <1>0, <2>1, <2>3, <2>8, <3>1, <3>4 DEF J!TypeOK
    <3>6. J!NoDuplicates' BY <1>0, <3>1, <3>3 DEF J!NoDuplicates
    <3>7. J!Answered(answer)'
      <4>1. J!Answer(t) = Len(methods) + 1 BY <2>p, <2>11 DEF J!Answer
      <4>2. J!Place(answer.what)' = Len(methods) + 1 BY <2>7, <2>11, <3>3 DEF J!Place, e
      <4> QED BY <2>7, <2>l, <4>1, <4>2 DEF J!Answered
    <3>8. ASSUME NEW a \in told PROVE J!Answered(a)'
      <4>1. J!Answered(a) BY <1>0
      <4>2. CASE a.what.kind # "class"
        <5>1. ~ J!Full(a.what) BY <2>11, <4>2 DEF J!Full
        <5>2. J!Place(a.what) # 0 /\ a.place = J!Place(a.what) BY <4>1, <5>1 DEF J!Answered
        <5> QED BY <3>3, <4>2, <5>2 DEF J!Answered, J!Place
      <4>3. CASE a.what.kind = "class"
        BY <3>1, <4>1, <4>3 DEF J!Answered, J!Place, J!Full
      <4> QED BY <4>2, <4>3
    <3>9. \A a \in told' : J!Answered(a)' BY <2>7, <3>7, <3>8
    <3> QED BY <2>4, <3>5, <3>6, <3>9 DEF J!IInv
  <2> QED BY <2>5, <2>9, <2>10, <2>11
<1> QED BY <1>1, <1>2, <1>3 DEF J!Next

(* A part at rest changes nothing its invariant is about. *)
LEMMA JniStutterInvariant == J!IInv /\ UNCHANGED jniVars => J!IInv'
BY DEF jniVars, J!IInv, J!TypeOK, J!NoDuplicates, J!Looking, J!Answered, J!Place, J!Full

(* The invariant holds in every reachable state. *)
THEOREM JniInvariantHolds == Spec => []J!IInv
<1>1. J!JniConstants BY ServiceConstants
<1>2. Init => J!IInv BY <1>1, JniInitInvariant DEF Init
<1>3. J!IInv /\ [Next]_vars => J!IInv'
  BY <1>1, OnePart, JniStepInvariant, JniStutterInvariant
<1> QED BY <1>2, <1>3, PTL DEF Spec

(* Whichever threads ask, a question keeps its answer, and it is the entry  *)
(* that was asked for unless the table is full without it.                  *)
THEOREM IdsAreStable == Spec => []IdsStable
<1>1. J!IInv => IdsStable
  <2> SUFFICES ASSUME J!IInv PROVE J!IdsStable BY DEF IdsStable
  <2>1. ASSUME NEW a \in told, NEW b \in told, a.what = b.what PROVE a.place = b.place
    BY <2>1 DEF J!IInv, J!Answered
  <2>2. ASSUME NEW a \in told, J!Place(a.what) # 0 PROVE J!Meant(a)
    <3>1. a.place = J!Place(a.what) BY <2>2 DEF J!IInv, J!Answered
    <3>2. CASE a.what.kind = "class"
      BY <2>2, <3>1, <3>2, FirstFacts DEF J!IInv, J!TypeOK, J!NoDuplicates, J!Place, J!Meant
    <3>3. CASE a.what.kind # "class"
      BY <2>2, <3>1, <3>3, FirstFacts DEF J!IInv, J!TypeOK, J!NoDuplicates, J!Place, J!Meant
    <3> QED BY <3>2, <3>3
  <2>3. ASSUME NEW a \in told, J!Place(a.what) = 0 PROVE J!Full(a.what)
    BY <2>3 DEF J!IInv, J!Answered
  <2> QED BY <2>1, <2>2, <2>3 DEF J!IdsStable
<1> QED BY <1>1, JniInvariantHolds, PTL

-----------------------------------------------------------------------------
(* The roots of TLS *)

(* Nothing is prepared at the start. *)
LEMMA SslInitInvariant == ASSUME S!SslConstants PROVE S!Init => S!IInv
<1> SUFFICES ASSUME S!Init PROVE S!IInv OBVIOUS
<1>1. S!TypeOK
  <2>1. /\ next \in [Workers -> Nat \ {0}] /\ roots \in [Workers -> SUBSET S!Certs]
        /\ sWpc \in [Workers -> {"idle", "adding", "made"}]
    BY DEF S!Init
  <2>2. begun \in [Workers -> {"hook", "rand", "setrand", "provider", "inventory", "publish",
                               "network", "play", "exit"}]
    BY DEF S!Init
  <2> QED BY <2>1, <2>2 DEF S!Init, S!TypeOK
<1>2. S!MainInOrder BY DEF S!Init, S!MainInOrder
<1>3. S!TrustSound BY DEF S!Init, S!TrustSound, S!RootsAreTrusted, S!RandomIsHonest
<1>4. S!Made /\ \A w \in Workers : S!UnderWay(w) BY DEF S!Init, S!Made, S!UnderWay
<1> QED BY <1>1, <1>2, <1>3, <1>4 DEF S!IInv

(* A step of main that publishes nothing leaves the contexts as they are. *)
LEMMA SslMainMoves ==
  ASSUME S!IInv, UNCHANGED <<status, usable, sReady, sWpc, next, begun, roots, contexts>>,
         hook' = hook \/ spc = "hook",
         S!Running => S!Running',
         spc \in {"play", "exit"} => spc' \in {"play", "exit"}
  PROVE  S!RootsAreTrusted' /\ S!Made' /\ \A w \in Workers : S!UnderWay(w)'
<1>1. S!AllOfThem' = S!AllOfThem BY DEF S!AllOfThem, S!Trusted, S!Certs
<1>2. S!Made' BY DEF S!IInv, S!Made
<1>3. ~ S!Running => contexts = {} /\ \A w \in Workers : sWpc[w] = "idle"
  BY DEF S!IInv, S!Made, S!UnderWay
<1>4. spc = "hook" => ~ S!Running BY DEF S!Running
<1>5. S!RootsAreTrusted'
  BY <1>1, <1>3, <1>4 DEF S!IInv, S!TrustSound, S!RootsAreTrusted
<1>6. ASSUME NEW w \in Workers PROVE S!UnderWay(w)'
  <2>1. S!Passed(w)' = S!Passed(w) BY <1>1 DEF S!Passed
  <2>2. S!UnderWay(w) BY DEF S!IInv
  <2> QED BY <1>3, <1>4, <2>1, <2>2 DEF S!UnderWay
<1> QED BY <1>2, <1>5, <1>6

(* Every step preserves the invariant. *)
LEMMA SslStepInvariant == ASSUME S!SslConstants, S!IInv, S!Next PROVE S!IInv'
<1>0. /\ S!TypeOK /\ S!MainInOrder /\ S!RootsAreTrusted /\ S!RandomIsHonest /\ S!Made
      /\ \A w \in Workers : S!UnderWay(w)
  BY DEF S!IInv, S!TrustSound
<1>1. ASSUME NEW yes \in BOOLEAN, NEW too \in BOOLEAN, S!InstallHook(yes, too) PROVE S!IInv'
  <2>1. S!RootsAreTrusted' /\ S!Made' /\ \A w \in Workers : S!UnderWay(w)'
    BY <1>1, SslMainMoves DEF S!InstallHook, S!workVars, S!Running
  <2> QED BY <1>0, <1>1, <2>1 DEF S!InstallHook, S!workVars, S!IInv, S!TrustSound, S!TypeOK,
                                  S!MainInOrder, S!RandomIsHonest, S!Certs
<1>2. ASSUME NEW yes \in BOOLEAN, S!NoConfig(yes) PROVE S!IInv'
  <2>1. S!RootsAreTrusted' /\ S!Made' /\ \A w \in Workers : S!UnderWay(w)'
    BY <1>2, SslMainMoves DEF S!NoConfig, S!workVars, S!Running
  <2> QED BY <1>0, <1>2, <2>1 DEF S!NoConfig, S!workVars, S!IInv, S!TrustSound, S!TypeOK,
                                  S!MainInOrder, S!RandomIsHonest, S!Certs
<1>3. ASSUME NEW yes \in BOOLEAN, S!TryCsrng(yes) PROVE S!IInv'
  <2>1. S!RootsAreTrusted' /\ S!Made' /\ \A w \in Workers : S!UnderWay(w)'
    BY <1>3, SslMainMoves DEF S!TryCsrng, S!workVars, S!Running
  <2> QED BY <1>0, <1>3, <2>1 DEF S!TryCsrng, S!workVars, S!IInv, S!TrustSound, S!TypeOK,
                                  S!MainInOrder, S!RandomIsHonest, S!Certs
<1>4. ASSUME NEW yes \in BOOLEAN, S!SetRand(yes) PROVE S!IInv'
  <2>1. S!RootsAreTrusted' /\ S!Made' /\ \A w \in Workers : S!UnderWay(w)'
    BY <1>4, SslMainMoves DEF S!SetRand, S!workVars, S!Running
  <2> QED BY <1>0, <1>4, <2>1 DEF S!SetRand, S!workVars, S!IInv, S!TrustSound, S!TypeOK,
                                  S!MainInOrder, S!RandomIsHonest, S!Certs
<1>5. ASSUME NEW yes \in BOOLEAN, S!LoadProvider(yes) PROVE S!IInv'
  <2>1. S!RootsAreTrusted' /\ S!Made' /\ \A w \in Workers : S!UnderWay(w)'
    BY <1>5, SslMainMoves DEF S!LoadProvider, S!workVars, S!Running
  <2> QED BY <1>0, <1>5, <2>1 DEF S!LoadProvider, S!workVars, S!IInv, S!TrustSound, S!TypeOK,
                                  S!MainInOrder, S!RandomIsHonest, S!Certs
<1>6. ASSUME NEW yes \in BOOLEAN, S!ReadInventory(yes) PROVE S!IInv'
  <2>1. S!RootsAreTrusted' /\ S!Made' /\ \A w \in Workers : S!UnderWay(w)'
    BY <1>6, SslMainMoves DEF S!ReadInventory, S!workVars, S!Running
  <2> QED BY <1>0, <1>6, <2>1 DEF S!ReadInventory, S!workVars, S!IInv, S!TrustSound, S!TypeOK,
                                  S!MainInOrder, S!RandomIsHonest, S!Certs
<1>7. CASE S!StartNetwork
  <2>1. S!RootsAreTrusted' /\ S!Made' /\ \A w \in Workers : S!UnderWay(w)'
    BY <1>7, SslMainMoves DEF S!StartNetwork, S!workVars, S!Running
  <2> QED BY <1>0, <1>7, <2>1 DEF S!StartNetwork, S!workVars, S!IInv, S!TrustSound, S!TypeOK,
                                  S!MainInOrder, S!RandomIsHonest, S!Certs
<1>8. CASE S!Exit
  <2>1. S!RootsAreTrusted' /\ S!Made' /\ \A w \in Workers : S!UnderWay(w)'
    BY <1>8, SslMainMoves DEF S!Exit, S!workVars, S!Running
  <2> QED BY <1>0, <1>8, <2>1 DEF S!Exit, S!workVars, S!IInv, S!TrustSound, S!TypeOK,
                                  S!MainInOrder, S!RandomIsHonest, S!Certs
<1>a. UNCHANGED <<status, usable>> => S!AllOfThem' = S!AllOfThem
  BY DEF S!AllOfThem, S!Trusted, S!Certs
<1>9. CASE S!SetReady
  <2>1. /\ spc = "publish" /\ spc' = "network" /\ sReady' = S!Publish /\ S!Publish \in BOOLEAN
        /\ UNCHANGED <<status, usable, hook, configLoads, rand, csrngReady, csrngOpen, provider,
                       count, sWpc, next, begun, roots, contexts>>
    BY <1>9 DEF S!SetReady, S!workVars, S!Publish
  <2>2. ~ sReady /\ S!Running /\ S!Running' BY <1>0, <2>1 DEF S!MainInOrder, S!Running
  <2>3. S!RootsAreTrusted'
    BY <1>0, <1>a, <2>1 DEF S!RootsAreTrusted, S!Made
  <2>4. S!Made' BY <1>0, <2>1, <2>2 DEF S!Made
  <2>5. ASSUME NEW w \in Workers PROVE S!UnderWay(w)'
    BY <1>0, <2>1, <2>2 DEF S!UnderWay
  <2>6. S!TypeOK' /\ S!MainInOrder' /\ S!RandomIsHonest'
    BY <1>0, <2>1 DEF S!TypeOK, S!MainInOrder, S!RandomIsHonest, S!Certs
  <2> QED BY <2>3, <2>4, <2>5, <2>6 DEF S!IInv, S!TrustSound
<1>10. ASSUME NEW w \in Workers, S!BeginContext(w) PROVE S!IInv'
  <2> DEFINE how == IF hook /\ sReady THEN "adding" ELSE "made"
  <2>1. /\ S!Running /\ sWpc[w] = "idle"
        /\ sWpc' = [sWpc EXCEPT ![w] = how]
        /\ begun' = [begun EXCEPT ![w] = spc]
        /\ next' = [next EXCEPT ![w] = 1]
        /\ roots' = [roots EXCEPT ![w] = {}]
        /\ UNCHANGED <<status, usable, contexts, hook, rand, csrngReady, count, sReady, spc>>
    BY <1>10 DEF S!BeginContext, S!mainVars
  <2>2. /\ sWpc' \in [Workers -> {"idle", "adding", "made"}] /\ sWpc'[w] = how
        /\ \A v \in Workers : v # w => sWpc'[v] = sWpc[v]
    BY <1>0, <2>1 DEF S!TypeOK
  <2>3. /\ begun' \in [Workers -> {"hook", "rand", "setrand", "provider", "inventory", "publish",
                                   "network", "play", "exit"}]
        /\ begun'[w] = spc /\ \A v \in Workers : v # w => begun'[v] = begun[v]
    BY <1>0, <2>1 DEF S!TypeOK, S!Running
  <2>4. /\ next' \in [Workers -> Nat \ {0}]
        /\ next'[w] = 1 /\ \A v \in Workers : v # w => next'[v] = next[v]
    BY <1>0, <2>1 DEF S!TypeOK
  <2>5. /\ roots' \in [Workers -> SUBSET S!Certs]
        /\ roots'[w] = {} /\ \A v \in Workers : v # w => roots'[v] = roots[v]
    BY <1>0, <2>1 DEF S!TypeOK
  <2>6. S!TypeOK' BY <1>0, <2>1, <2>2, <2>3, <2>4, <2>5 DEF S!TypeOK, S!Certs
  <2>7. S!MainInOrder' /\ S!RandomIsHonest' BY <1>0, <2>1 DEF S!MainInOrder, S!RandomIsHonest
  <2>8. S!RootsAreTrusted' BY <1>0, <1>a, <2>1 DEF S!RootsAreTrusted
  <2>9. S!Made' BY <1>0, <2>1 DEF S!Made, S!Running
  <2>10. ASSUME NEW v \in Workers PROVE S!UnderWay(v)'
    <3>1. CASE v = w
      <4>1. S!Passed(w)' = {} BY <1>a, <2>1, <2>4 DEF S!Passed, S!AllOfThem, S!Trusted, S!Certs
      <4> QED BY <2>1, <2>2, <2>3, <2>5, <3>1, <4>1 DEF S!UnderWay, S!Running
    <3>2. CASE v # w
      <4>1. S!Passed(v)' = S!Passed(v) BY <1>a, <2>1, <2>4, <3>2 DEF S!Passed
      <4> QED BY <1>0, <2>1, <2>2, <2>3, <2>5, <3>2, <4>1 DEF S!UnderWay, S!Running
    <3> QED BY <3>1, <3>2
  <2> QED BY <2>6, <2>7, <2>8, <2>9, <2>10 DEF S!IInv, S!TrustSound
<1>11. ASSUME NEW w \in Workers, S!AddRoot(w) PROVE S!IInv'
  <2>p. PICK n \in Nat \ {0} : n = next[w] BY <1>0 DEF S!TypeOK
  <2>1. /\ sWpc[w] = "adding" /\ n <= count
        /\ roots' = [roots EXCEPT ![w] = IF S!Admits(n) THEN @ \cup {n} ELSE @]
        /\ next' = [next EXCEPT ![w] = n + 1]
        /\ UNCHANGED <<status, usable, sWpc, begun, contexts, hook, rand, csrngReady, count, sReady,
                       spc>>
    BY <1>11, <2>p DEF S!AddRoot, S!mainVars
  <2>2. n \in S!Certs BY <1>0, <2>1 DEF S!TypeOK, S!Certs, S!SslConstants
  <2>3. S!Admits(n) <=> n \in S!AllOfThem BY <2>2 DEF S!Admits, S!AllOfThem, S!Trusted
  <2>4. /\ next' \in [Workers -> Nat \ {0}]
        /\ next'[w] = n + 1 /\ \A v \in Workers : v # w => next'[v] = next[v]
    BY <1>0, <2>1 DEF S!TypeOK
  <2>5. /\ roots' \in [Workers -> SUBSET S!Certs]
        /\ roots'[w] = IF S!Admits(n) THEN roots[w] \cup {n} ELSE roots[w]
        /\ \A v \in Workers : v # w => roots'[v] = roots[v]
    BY <1>0, <2>1, <2>2 DEF S!TypeOK
  <2>6. S!TypeOK' BY <1>0, <2>1, <2>4, <2>5 DEF S!TypeOK, S!Certs
  <2>7. S!MainInOrder' /\ S!RandomIsHonest' BY <1>0, <2>1 DEF S!MainInOrder, S!RandomIsHonest
  <2>8. S!RootsAreTrusted' BY <1>0, <1>a, <2>1 DEF S!RootsAreTrusted
  <2>9. S!Made' BY <1>0, <2>1 DEF S!Made, S!Running
  <2>10. ASSUME NEW v \in Workers PROVE S!UnderWay(v)'
    <3>1. CASE v = w
      <4>1. \A c \in S!AllOfThem : c \in Int BY DEF S!AllOfThem, S!Trusted, S!Certs
      <4>2. \A c \in Int : c < n + 1 <=> c < n \/ c = n OBVIOUS
      <4>3. S!Passed(w)' = {c \in S!AllOfThem : c < n + 1} BY <1>a, <2>1, <2>4 DEF S!Passed
      <4>4. S!Passed(w)' = IF S!Admits(n) THEN S!Passed(w) \cup {n} ELSE S!Passed(w)
        BY <2>3, <2>p, <4>1, <4>2, <4>3 DEF S!Passed
      <4>5. roots[w] = S!Passed(w) BY <1>0, <2>1 DEF S!UnderWay
      <4> QED BY <1>0, <2>1, <2>5, <3>1, <4>4, <4>5 DEF S!UnderWay, S!Running
    <3>2. CASE v # w
      <4>1. S!Passed(v)' = S!Passed(v) BY <1>a, <2>1, <2>4, <3>2 DEF S!Passed
      <4> QED BY <1>0, <2>1, <2>5, <3>2, <4>1 DEF S!UnderWay, S!Running
    <3> QED BY <3>1, <3>2
  <2> QED BY <2>6, <2>7, <2>8, <2>9, <2>10 DEF S!IInv, S!TrustSound
<1>12. ASSUME NEW w \in Workers, S!EndContext(w) PROVE S!IInv'
  <2>1. /\ sWpc[w] = "made" \/ (sWpc[w] = "adding" /\ next[w] > count)
        /\ sWpc' = [sWpc EXCEPT ![w] = "idle"]
        /\ contexts' = contexts \cup {[begun |-> begun[w], roots |-> roots[w]]}
        /\ UNCHANGED <<status, usable, next, begun, roots, hook, rand, csrngReady, count, sReady,
                       spc>>
    BY <1>12 DEF S!EndContext, S!mainVars
  <2>2. PICK c : /\ c.begun = begun[w] /\ c.roots = roots[w] /\ contexts' = contexts \cup {c}
    BY <2>1
  <2>3. /\ sWpc' \in [Workers -> {"idle", "adding", "made"}] /\ sWpc'[w] = "idle"
        /\ \A v \in Workers : v # w => sWpc'[v] = sWpc[v]
    BY <1>0, <2>1 DEF S!TypeOK
  <2>4. S!TypeOK' BY <1>0, <2>1, <2>3 DEF S!TypeOK, S!Certs
  <2>5. S!MainInOrder' /\ S!RandomIsHonest' BY <1>0, <2>1 DEF S!MainInOrder, S!RandomIsHonest
  <2>6. S!UnderWay(w) BY <1>0
  <2>7. S!Made' BY <1>0, <2>1, <2>2, <2>6 DEF S!Made, S!Running, S!UnderWay
  <2>8. sWpc[w] = "adding" => roots[w] = S!AllOfThem
    <3>1. ASSUME sWpc[w] = "adding", NEW x \in S!AllOfThem PROVE x < next[w]
      <4>1. x \in Nat /\ x <= NumCerts BY DEF S!AllOfThem, S!Trusted, S!Certs, S!SslConstants
      <4>2. next[w] \in Nat /\ count = NumCerts /\ next[w] > count /\ count \in Nat
        BY <1>0, <2>1, <2>6, <3>1 DEF S!TypeOK, S!UnderWay, S!MainInOrder, S!SslConstants
      <4> QED BY <4>1, <4>2
    <3> QED BY <2>6, <3>1 DEF S!UnderWay, S!Passed
  <2>9. S!RootsAreTrusted'
    BY <1>0, <1>a, <2>1, <2>2, <2>6, <2>8 DEF S!RootsAreTrusted, S!UnderWay
  <2>10. ASSUME NEW v \in Workers PROVE S!UnderWay(v)'
    <3>1. S!Passed(v)' = S!Passed(v) BY <1>a, <2>1 DEF S!Passed
    <3> QED BY <1>0, <2>1, <2>3, <3>1 DEF S!UnderWay, S!Running
  <2> QED BY <2>4, <2>5, <2>7, <2>9, <2>10 DEF S!IInv, S!TrustSound
<1> QED BY <1>1, <1>2, <1>3, <1>4, <1>5, <1>6, <1>7, <1>8, <1>9, <1>10, <1>11, <1>12 DEF S!Next

(* A part at rest changes nothing its invariant is about. *)
LEMMA SslStutterInvariant == S!IInv /\ UNCHANGED sslVars => S!IInv'
BY DEF sslVars, S!IInv, S!TypeOK, S!MainInOrder, S!TrustSound, S!RootsAreTrusted,
   S!RandomIsHonest, S!Made, S!UnderWay, S!Passed, S!AllOfThem, S!Trusted, S!Running, S!Certs

(* The invariant holds in every reachable state. *)
THEOREM SslInvariantHolds == Spec => []S!IInv
<1>1. S!SslConstants BY ServiceConstants
<1>2. Init => S!IInv BY <1>1, SslInitInvariant DEF Init
<1>3. S!IInv /\ [Next]_vars => S!IInv'
  BY <1>1, OnePart, SslStepInvariant, SslStutterInvariant
<1> QED BY <1>2, <1>3, PTL DEF Spec

(* A context has every usable root the console trusts, or none, and csrng   *)
(* is open to OpenSSL exactly while it is its random method.                *)
THEOREM TrustHolds == Spec => []TrustSound
<1>1. S!IInv => TrustSound BY DEF S!IInv, TrustSound
<1> QED BY <1>1, SslInvariantHolds, PTL

-----------------------------------------------------------------------------
(* java.util.HashMap *)

(* The array is empty at the start. *)
LEMMA MapsInitInvariant == ASSUME C!MapConstants PROVE C!Init => C!IInv
<1> SUFFICES ASSUME C!Init PROVE C!IInv OBVIOUS
<1>1. <<>> \in Seq(C!Keys \X Values) /\ <<>> \in Seq(Texts) OBVIOUS
<1>2. C!TypeOK BY <1>1 DEF C!Init, C!TypeOK
<1>3. C!SameMap BY DEF C!Init, C!SameMap
<1>4. \A i \in Iterators : C!Walked(i) BY DEF C!Init, C!Walked
<1> QED BY <1>2, <1>3, <1>4 DEF C!Init, C!IInv, C!AnswersAsJava

(* Where the array has the text of a key. *)
LEMMA MapIndexFacts ==
  ASSUME C!TypeOK, C!SameMap, NEW aKey \in C!Keys
  PROVE  /\ C!MapIndex(aKey) \in 0 .. Len(pairs)
         /\ C!MapIndex(aKey) # 0 => C!Text(C!MapIndex(aKey)) = aKey[1]
         /\ C!MapIndex(aKey) = 0 => \A n \in 1 .. Len(pairs) : C!Text(n) # aKey[1]
<1> DEFINE hits == {n \in 1 .. Len(pairs) : C!Same(pairs[n][1], aKey)}
<1>1. C!MapIndex(aKey) = IF hits = {} THEN 0 ELSE CHOOSE n \in hits : \A m \in hits : n <= m
  BY DEF C!MapIndex
<1>2. Len(pairs) \in Nat BY DEF C!TypeOK
<1>3. \A n \in 1 .. Len(pairs) : n \in hits <=> C!Text(n) = aKey[1]
  BY DEF C!Same, C!Text
<1>4. CASE hits = {} BY <1>1, <1>2, <1>3, <1>4
<1>5. CASE hits # {}
  <2>1. PICK i \in 1 .. Len(pairs) : i \in hits BY <1>5
  <2>2. hits \subseteq 1 .. Len(pairs) OBVIOUS
  <2> HIDE DEF hits
  <2>3. hits = {i} BY <1>3, <2>1, <2>2 DEF C!SameMap
  <2>4. (CHOOSE n \in hits : \A m \in hits : n <= m) = i BY <2>3
  <2>5. C!MapIndex(aKey) = i BY <1>1, <1>5, <2>4
  <2> QED BY <1>2, <1>3, <2>1, <2>5
<1> QED BY <1>4, <1>5

(* What the array says of a key is what the map on Android says. *)
LEMMA GotIsJava ==
  ASSUME C!TypeOK, C!SameMap, NEW aKey \in C!Keys
  PROVE  (IF C!MapIndex(aKey) # 0 THEN pairs[C!MapIndex(aKey)][2] ELSE NoOne) = cHash[aKey[1]]
<1>1. aKey[1] \in Texts BY DEF C!Keys
<1> QED BY <1>1, MapIndexFacts DEF C!SameMap

(* The iterators walk on as long as the array grows and keeps its keys. *)
LEMMA MapsGrow ==
  ASSUME C!TypeOK, \A i \in Iterators : C!Walked(i), UNCHANGED <<kind, cIndex, cVisited, entry, fresh>>,
         pairs' \in Seq(C!Keys \X Values), Len(pairs) <= Len(pairs'),
         \A n \in 1 .. Len(pairs) : pairs'[n][1] = pairs[n][1]
  PROVE  /\ \A i \in Iterators : C!Walked(i)'
         /\ \A n \in 1 .. Len(pairs) : n <= Len(pairs') /\ pairs'[n][1] = pairs[n][1]
<1>1. Len(pairs) \in Nat /\ Len(pairs') \in Nat BY DEF C!TypeOK
<1>2. ASSUME NEW i \in Iterators PROVE C!Walked(i)'
  <2>1. cIndex[i] \in Nat BY DEF C!TypeOK
  <2> QED BY <1>1, <2>1 DEF C!Walked, C!Text
<1> QED BY <1>1, <1>2

(* Every step preserves the invariant, and the keys stay where they are. *)
LEMMA MapsStep ==
  ASSUME C!MapConstants, C!IInv, C!Next
  PROVE  /\ C!IInv'
         /\ \A n \in 1 .. Len(pairs) : n <= Len(pairs') /\ pairs'[n][1] = pairs[n][1]
<1> DEFINE Stay == \A n \in 1 .. Len(pairs) : n <= Len(pairs') /\ pairs'[n][1] = pairs[n][1]
<1>0. /\ C!TypeOK /\ C!SameMap /\ C!AnswersAsJava /\ \A i \in Iterators : C!Walked(i)
  BY DEF C!IInv
<1>l. Len(pairs) \in Nat BY <1>0 DEF C!TypeOK
<1>s. pairs' = pairs => Stay BY <1>l
<1>1. ASSUME NEW aKey \in C!Keys, NEW value \in Values, NEW room \in BOOLEAN,
             C!Put(aKey, value, room)
      PROVE  C!IInv' /\ Stay
  <2>p. PICK n \in 0 .. Len(pairs) : n = C!MapIndex(aKey) BY <1>0, MapIndexFacts
  <2>1. /\ pairs' = IF n # 0 THEN [pairs EXCEPT ![n] = <<@[1], value>>]
                    ELSE IF room THEN Append(pairs, <<aKey, value>>) ELSE pairs
        /\ cHash' = IF n # 0 \/ room THEN [cHash EXCEPT ![aKey[1]] = value] ELSE cHash
        /\ cAnswer' = [got |-> IF n # 0 THEN pairs[n][2] ELSE NoOne, java |-> cHash[aKey[1]]]
        /\ UNCHANGED <<kind, cIndex, cVisited, entry, fresh>>
    BY <1>1, <2>p DEF C!Put, C!iterVars
  <2>2. C!AnswersAsJava' BY <1>0, <2>p, <2>1, GotIsJava DEF C!AnswersAsJava
  <2>3. /\ aKey[1] \in Texts /\ <<aKey, value>> \in C!Keys \X Values
        /\ n # 0 => C!Text(n) = aKey[1]
        /\ n = 0 => \A m \in 1 .. Len(pairs) : C!Text(m) # aKey[1]
    BY <1>0, <2>p, MapIndexFacts DEF C!Keys
  <2>4. n # 0 \/ room => /\ cHash' \in [Texts -> Values \cup {NoOne}] /\ cHash'[aKey[1]] = value
                           /\ \A t \in Texts : t # aKey[1] => cHash'[t] = cHash[t]
    BY <1>0, <2>1, <2>3 DEF C!TypeOK
  <2>t. \A m \in 1 .. Len(pairs) : pairs[m] \in C!Keys \X Values /\ C!Text(m) \in Texts
    BY <1>0 DEF C!TypeOK, C!Text, C!Keys
  <2>5. CASE n # 0
    <3>1. n \in 1 .. Len(pairs) BY <1>l, <2>5
    <3>2. PICK new \in C!Keys \X Values :
            new[1] = pairs[n][1] /\ new[2] = value /\ pairs' = [pairs EXCEPT ![n] = new]
      BY <2>1, <2>5, <2>t, <3>1
    <3>3. /\ pairs' \in Seq(C!Keys \X Values) /\ Len(pairs') = Len(pairs) /\ pairs'[n] = new
          /\ \A m \in 1 .. Len(pairs) : m # n => pairs'[m] = pairs[m]
      BY <1>0, <3>1, <3>2 DEF C!TypeOK
    <3>4. \A m \in 1 .. Len(pairs) : pairs'[m][1] = pairs[m][1] BY <3>2, <3>3
    <3>5. (\A i \in Iterators : C!Walked(i)') /\ Stay BY <1>0, <1>l, <2>1, <3>3, <3>4, MapsGrow
    <3>6. C!TypeOK' BY <1>0, <2>1, <2>4, <2>5, <3>3 DEF C!TypeOK
    <3>7. \A m \in 1 .. Len(pairs') : C!Text(m)' = C!Text(m) BY <3>3, <3>4 DEF C!Text
    <3>8. \A m \in 1 .. Len(pairs') : cHash'[C!Text(m)'] = pairs'[m][2]
      <4> SUFFICES ASSUME NEW m \in 1 .. Len(pairs') PROVE cHash'[C!Text(m)'] = pairs'[m][2] OBVIOUS
      <4>1. CASE m = n BY <2>3, <2>4, <2>5, <3>2, <3>3, <3>7, <4>1
      <4>2. CASE m # n
        <5>1. C!Text(m) # aKey[1] BY <1>0, <2>3, <2>5, <3>1, <3>3, <4>2 DEF C!SameMap
        <5> QED BY <1>0, <2>4, <2>5, <2>t, <3>3, <3>7, <4>2, <5>1 DEF C!SameMap
      <4> QED BY <4>1, <4>2
    <3>9. C!SameMap'
      <4>1. \A m, k \in 1 .. Len(pairs') : C!Text(m)' = C!Text(k)' => m = k
        BY <1>0, <3>3, <3>7 DEF C!SameMap
      <4>2. \A t \in Texts : (\A m \in 1 .. Len(pairs') : C!Text(m)' # t) => cHash'[t] = NoOne
        BY <1>0, <2>3, <2>4, <2>5, <3>1, <3>3, <3>7 DEF C!SameMap
      <4> QED BY <3>8, <4>1, <4>2 DEF C!SameMap
    <3> QED BY <2>2, <3>5, <3>6, <3>9 DEF C!IInv
  <2>6. CASE n = 0 /\ room
    <3>0. PICK last \in Nat : last = Len(pairs) + 1 BY <1>l
    <3>1. pairs' = Append(pairs, <<aKey, value>>) BY <2>1, <2>6
    <3>2. /\ pairs' \in Seq(C!Keys \X Values) /\ Len(pairs') = last
          /\ pairs'[last] = <<aKey, value>>
          /\ \A m \in 1 .. Len(pairs) : pairs'[m] = pairs[m]
      BY <1>0, <2>3, <3>0, <3>1, AppendProperties DEF C!TypeOK
    <3>3. (\A i \in Iterators : C!Walked(i)') /\ Stay BY <1>0, <1>l, <2>1, <3>0, <3>2, MapsGrow
    <3>4. C!TypeOK' BY <1>0, <2>1, <2>4, <2>6, <3>2 DEF C!TypeOK
    <3>5. /\ \A m \in 1 .. Len(pairs) : C!Text(m)' = C!Text(m)
          /\ C!Text(last)' = aKey[1]
      BY <3>2 DEF C!Text
    <3>6. C!SameMap'
      <4>1. \A m, k \in 1 .. Len(pairs') : C!Text(m)' = C!Text(k)' => m = k
        BY <1>0, <1>l, <2>3, <2>6, <3>0, <3>2, <3>5 DEF C!SameMap
      <4>2. \A m \in 1 .. Len(pairs') : cHash'[C!Text(m)'] = pairs'[m][2]
        <5>1. ASSUME NEW m \in 1 .. Len(pairs) PROVE cHash'[C!Text(m)'] = pairs'[m][2]
          BY <1>0, <2>3, <2>4, <2>6, <2>t, <3>2, <3>5 DEF C!SameMap
        <5>2. cHash'[C!Text(last)'] = pairs'[last][2]
          BY <2>4, <2>6, <3>2, <3>5
        <5> QED BY <1>l, <3>0, <3>2, <5>1, <5>2
      <4>3. \A t \in Texts : (\A m \in 1 .. Len(pairs') : C!Text(m)' # t) => cHash'[t] = NoOne
        <5> SUFFICES ASSUME NEW t \in Texts, \A m \in 1 .. Len(pairs') : C!Text(m)' # t
                     PROVE  cHash'[t] = NoOne
          OBVIOUS
        <5>1. t # aKey[1] BY <1>l, <3>0, <3>2, <3>5
        <5>2. \A m \in 1 .. Len(pairs) : C!Text(m) # t BY <1>l, <3>0, <3>2, <3>5
        <5> QED BY <1>0, <2>4, <2>6, <5>1, <5>2 DEF C!SameMap
      <4> QED BY <4>1, <4>2, <4>3 DEF C!SameMap
    <3> QED BY <2>2, <3>3, <3>4, <3>6 DEF C!IInv
  <2>7. CASE n = 0 /\ ~ room
    <3>1. UNCHANGED <<pairs, cHash>> BY <2>1, <2>7
    <3>2. C!TypeOK' BY <1>0, <2>1, <3>1 DEF C!TypeOK
    <3>3. C!SameMap' BY <1>0, <3>1 DEF C!SameMap, C!Text
    <3>4. \A i \in Iterators : C!Walked(i)' BY <1>0, <2>1, <3>1 DEF C!Walked, C!Text
    <3> QED BY <1>s, <2>2, <3>1, <3>2, <3>3, <3>4 DEF C!IInv
  <2> QED BY <2>5, <2>6, <2>7
<1>2. ASSUME NEW aKey \in C!Keys, C!Get(aKey) PROVE C!IInv' /\ Stay
  <2>1. /\ cAnswer' = [got |-> IF C!MapIndex(aKey) # 0 THEN pairs[C!MapIndex(aKey)][2] ELSE NoOne,
                       java |-> cHash[aKey[1]]]
        /\ UNCHANGED <<pairs, cHash, kind, cIndex, cVisited, entry, fresh>>
    BY <1>2 DEF C!Get, C!iterVars
  <2>2. C!AnswersAsJava' BY <1>0, <2>1, GotIsJava DEF C!AnswersAsJava
  <2> QED BY <1>0, <1>s, <2>1, <2>2 DEF C!IInv, C!TypeOK, C!SameMap, C!Walked, C!Text
<1>3. ASSUME NEW i \in Iterators, NEW what \in {"none", "keys", "entries"}, NEW new,
             kind' = [kind EXCEPT ![i] = what], cIndex' = [cIndex EXCEPT ![i] = 0],
             cVisited' = [cVisited EXCEPT ![i] = <<>>], entry' = [entry EXCEPT ![i] = 0],
             fresh' = [fresh EXCEPT ![i] = new],
             new \in {{}, {pairs[n][1][1] : n \in 1 .. Len(pairs)}},
             UNCHANGED <<pairs, cAnswer, cHash, puts>>
      PROVE  C!IInv' /\ Stay
  <2>1. \A t \in new : t \in Texts /\ \E n \in 1 .. Len(pairs) : C!Text(n) = t
    <3>1. \A n \in 1 .. Len(pairs) : C!Text(n) \in Texts BY <1>0 DEF C!TypeOK, C!Text, C!Keys
    <3>2. new = {} \/ new = {C!Text(n) : n \in 1 .. Len(pairs)} BY <1>3 DEF C!Text
    <3> QED BY <3>1, <3>2
  <2>2. <<>> \in Seq(Texts) /\ Len(<<>>) = 0 OBVIOUS
  <2>3. C!TypeOK' BY <1>0, <1>3, <2>1, <2>2 DEF C!TypeOK
  <2>4. C!SameMap' /\ C!AnswersAsJava' BY <1>0, <1>3 DEF C!SameMap, C!AnswersAsJava, C!Text
  <2>5. ASSUME NEW j \in Iterators PROVE C!Walked(j)'
    <3>1. CASE j = i
      BY <1>0, <1>l, <1>3, <2>1, <2>2, <3>1 DEF C!TypeOK, C!Walked, C!Text
    <3>2. CASE j # i
      <4>1. /\ cIndex'[j] = cIndex[j] /\ cVisited'[j] = cVisited[j] /\ fresh'[j] = fresh[j]
        BY <1>0, <1>3, <3>2 DEF C!TypeOK
      <4> QED BY <1>0, <1>3, <4>1 DEF C!Walked, C!Text
    <3> QED BY <3>1, <3>2
  <2> QED BY <1>3, <1>s, <2>3, <2>4, <2>5 DEF C!IInv
<1>4. ASSUME NEW i \in Iterators, NEW what \in {"keys", "entries"}, C!Iterate(i, what)
      PROVE  C!IInv' /\ Stay
  BY <1>3, <1>4 DEF C!Iterate
<1>5. ASSUME NEW i \in Iterators, C!Drop(i) PROVE C!IInv' /\ Stay BY <1>3, <1>5 DEF C!Drop
<1>6. ASSUME NEW i \in Iterators, C!ReadEntry(i) PROVE C!IInv' /\ Stay
  <2>p. PICK n \in 1 .. Len(pairs) : n = entry[i]
    BY <1>0, <1>l, <1>6 DEF C!ReadEntry, C!TypeOK
  <2>1. /\ cAnswer' = [got |-> pairs[n][2], java |-> cHash[C!Text(n)]]
        /\ UNCHANGED <<pairs, cHash, kind, cIndex, cVisited, entry, fresh>>
    BY <1>6, <2>p DEF C!ReadEntry, C!iterVars, C!Text
  <2>2. C!AnswersAsJava' BY <1>0, <2>1 DEF C!AnswersAsJava, C!SameMap
  <2> QED BY <1>0, <1>s, <2>1, <2>2 DEF C!IInv, C!TypeOK, C!SameMap, C!Walked, C!Text
<1>7. ASSUME NEW i \in Iterators, C!Step(i) PROVE C!IInv' /\ Stay
  <2>p. PICK n \in 1 .. Len(pairs) : n = cIndex[i] + 1
    BY <1>0, <1>l, <1>7 DEF C!Step, C!HasNext, C!TypeOK
  <2>1. /\ cIndex' = [cIndex EXCEPT ![i] = @ + 1]
        /\ cVisited' = [cVisited EXCEPT ![i] = Append(@, C!Text(n))]
        /\ entry' = [entry EXCEPT ![i] = IF kind[i] = "entries" THEN n ELSE 0]
        /\ UNCHANGED <<pairs, kind, fresh, cAnswer, cHash>>
    BY <1>7, <2>p DEF C!Step, C!Text
  <2>2. C!Text(n) \in Texts BY <1>0 DEF C!TypeOK, C!Text, C!Keys
  <2>3. cVisited[i] \in Seq(Texts) /\ Len(cVisited[i]) = cIndex[i] /\ cIndex[i] \in Nat
    BY <1>0 DEF C!TypeOK, C!Walked
  <2>4. PICK s \in Seq(Texts) :
          /\ s = Append(cVisited[i], C!Text(n)) /\ Len(s) = n /\ s[n] = C!Text(n)
          /\ \A m \in 1 .. cIndex[i] : s[m] = cVisited[i][m]
    <3>1. /\ Append(cVisited[i], C!Text(n)) \in Seq(Texts)
          /\ Len(Append(cVisited[i], C!Text(n))) = cIndex[i] + 1
          /\ Append(cVisited[i], C!Text(n))[cIndex[i] + 1] = C!Text(n)
          /\ \A m \in 1 .. cIndex[i] : Append(cVisited[i], C!Text(n))[m] = cVisited[i][m]
      BY <2>2, <2>3, AppendProperties
    <3> QED BY <2>p, <3>1
  <2>5. C!TypeOK' BY <1>0, <2>1, <2>3, <2>4 DEF C!TypeOK
  <2>6. C!SameMap' /\ C!AnswersAsJava' BY <1>0, <2>1 DEF C!SameMap, C!AnswersAsJava, C!Text
  <2>7. ASSUME NEW j \in Iterators PROVE C!Walked(j)'
    <3>1. CASE j = i
      <4>1. cIndex'[i] = n /\ cVisited'[i] = s /\ fresh'[i] = fresh[i]
        BY <1>0, <2>1, <2>3, <2>4, <2>p DEF C!TypeOK
      <4>2. \A m \in 1 .. n : s[m] = C!Text(m) BY <1>0, <2>3, <2>4, <2>p DEF C!Walked
      <4> QED BY <1>0, <1>l, <2>1, <2>4, <3>1, <4>1, <4>2 DEF C!Walked, C!Text
    <3>2. CASE j # i
      <4>1. /\ cIndex'[j] = cIndex[j] /\ cVisited'[j] = cVisited[j] /\ fresh'[j] = fresh[j]
            /\ pairs' = pairs
        BY <1>0, <2>1, <3>2 DEF C!TypeOK
      <4> QED BY <1>0, <4>1 DEF C!Walked, C!Text
    <3> QED BY <3>1, <3>2
  <2> QED BY <1>s, <2>1, <2>5, <2>6, <2>7 DEF C!IInv
<1> HIDE DEF C!IInv, Stay
<1>8. C!IInv' /\ Stay BY <1>1, <1>2, <1>4, <1>5, <1>6, <1>7 DEF C!Next
<1> QED BY <1>8 DEF Stay

(* A part at rest changes nothing its invariant is about. *)
LEMMA MapsStutterInvariant == C!IInv /\ UNCHANGED mapsVars => C!IInv'
BY DEF mapsVars, C!IInv, C!TypeOK, C!SameMap, C!AnswersAsJava, C!Walked, C!Text

(* An iterator that has walked over different texts has given each once. *)
LEMMA WalkedOnce == C!IInv => C!WalksOnce
<1> SUFFICES ASSUME C!IInv, NEW i \in Iterators
             PROVE  /\ C!Cardinality(C!TextsOf(i)) = Len(cVisited[i])
                    /\ kind[i] # "none" /\ ~ C!HasNext(i) => fresh[i] \subseteq C!TextsOf(i)
  BY DEF C!WalksOnce
<1>1. PICK s \in Seq(Texts) : s = cVisited[i] BY DEF C!IInv, C!TypeOK
<1>2. /\ cIndex[i] \in Nat /\ Len(pairs) \in Nat /\ Len(s) = cIndex[i] /\ cIndex[i] <= Len(pairs)
      /\ \A n \in 1 .. Len(s) : s[n] = C!Text(n)
      /\ \A t \in fresh[i] : \E n \in 1 .. Len(pairs) : C!Text(n) = t
  BY <1>1 DEF C!IInv, C!TypeOK, C!Walked
<1>3. C!TextsOf(i) = {s[n] : n \in 1 .. Len(s)} BY <1>1 DEF C!TextsOf
<1>4. s \in Bijection(1 .. Len(s), {s[n] : n \in 1 .. Len(s)})
  <2>1. s \in [1 .. Len(s) -> {s[n] : n \in 1 .. Len(s)}] BY LenProperties
  <2>2. \A a, b \in 1 .. Len(s) : s[a] = s[b] => a = b
    BY <1>2 DEF C!IInv, C!SameMap
  <2> QED BY <2>1, <2>2 DEF Bijection, Injection, Surjection, IsInjective
<1>5. Cardinality(C!TextsOf(i)) = Len(s)
  BY <1>2, <1>3, <1>4, FS_CountingElements DEF ExistsBijection
<1>6. C!Cardinality(C!TextsOf(i)) = Cardinality(C!TextsOf(i))
  BY DEF C!Cardinality, Cardinality
<1>7. ASSUME kind[i] # "none", ~ C!HasNext(i) PROVE fresh[i] \subseteq C!TextsOf(i)
  <2>1. Len(s) = Len(pairs) BY <1>2, <1>7 DEF C!HasNext
  <2> QED BY <1>2, <1>3, <2>1
<1> QED BY <1>1, <1>5, <1>6, <1>7

(* The array answers as java.util.HashMap, is walked once over, and keeps   *)
(* its keys where they are.                                                 *)
THEOREM MapAsJava == Spec => MapSound
<1>1. C!MapConstants BY ServiceConstants
<1>2. Init => C!IInv BY <1>1, MapsInitInvariant DEF Init
<1>3. C!IInv /\ [Next]_vars => C!IInv'
  BY <1>1, OnePart, MapsStep, MapsStutterInvariant
<1>4. C!IInv /\ [Next]_vars =>
        [\A n \in 1 .. Len(pairs) : n <= Len(pairs') /\ pairs'[n][1] = pairs[n][1]]_(C!mapVars)
  BY <1>1, OnePart, MapsStep DEF mapsVars, C!mapVars
<1>5. C!IInv => C!AnswersAsJava /\ C!WalksOnce BY WalkedOnce DEF C!IInv
<1> QED BY <1>2, <1>3, <1>4, <1>5, PTL DEF Spec, MapSound, C!MapSound, C!KeysStay

-----------------------------------------------------------------------------
(* Broadcasts and callbacks *)

(* What the registry keeps, whoever leaves it, is what Positions says.      *)
LEMMA KeptRegistrations ==
  ASSUME D!IInv, NEW P0 \in SUBSET (1 .. Len(receivers))
  PROVE  /\ D!Selected(receivers, P0) \in Seq(D!Registrations)
         /\ \A j, k \in 1 .. Len(D!Selected(receivers, P0)) :
              /\ D!Kth(P0, j) \in P0
              /\ D!Selected(receivers, P0)[j] = receivers[D!Kth(P0, j)]
              /\ D!Kth(P0, j) = D!Kth(P0, k) => j = k
         /\ \A i \in P0 : \E k \in 1 .. Len(D!Selected(receivers, P0)) : D!Kth(P0, k) = i
<1>1. receivers \in Seq(D!Registrations) BY DEF D!IInv, D!TypeOK
<1>2. D!Selected(receivers, P0) = Selected(receivers, P0)
  <2>1. \A X0 : D!Cardinality(X0) = Cardinality(X0) BY DEF D!Cardinality, Cardinality
  <2>2. \A k : D!Kth(P0, k) = Kth(P0, k) BY <2>1 DEF D!Kth, Kth, D!Rank, Rank
  <2> QED BY <2>1, <2>2 DEF D!Selected, Selected
<1>3. \A k : D!Kth(P0, k) = Kth(P0, k)
  <2>1. \A X0 : D!Cardinality(X0) = Cardinality(X0) BY DEF D!Cardinality, Cardinality
  <2> QED BY <2>1 DEF D!Kth, Kth, D!Rank, Rank
<1>4. /\ Selected(receivers, P0) \in Seq(D!Registrations)
      /\ Len(Selected(receivers, P0)) = Cardinality(P0)
      /\ \A i \in P0 : Rank(P0, i) \in 1 .. Cardinality(P0) /\ Kth(P0, Rank(P0, i)) = i
  BY <1>1, SelectedFacts
<1>5. \A j, k \in 1 .. Len(Selected(receivers, P0)) :
         /\ Selected(receivers, P0)[j] = receivers[Kth(P0, j)] /\ Kth(P0, j) \in P0
         /\ Kth(P0, j) = Kth(P0, k) => j = k
  BY <1>1, SelectedApart
<1> QED BY <1>2, <1>3, <1>4, <1>5

(* The receivers of a broadcast are those registered for it, each once.     *)
LEMMA SnapshotFacts ==
  ASSUME D!IInv, NEW b0
  PROVE  /\ D!Matching(b0) \in Seq(D!Registrations)
         /\ \A i, j \in DOMAIN D!Matching(b0) :
              D!Matching(b0)[i].who = D!Matching(b0)[j].who => i = j
<1> DEFINE P0 == {i \in DOMAIN receivers : receivers[i].for = b0}
           all == D!Matching(b0)
<1>1. receivers \in Seq(D!Registrations) /\ DOMAIN receivers = 1 .. Len(receivers)
  BY DEF D!IInv, D!TypeOK
<1>2. P0 \in SUBSET (1 .. Len(receivers)) BY <1>1
<1>3. all = D!Selected(receivers, P0) BY DEF D!Matching
<1>a. \A i \in P0 : receivers[i].for = b0 OBVIOUS
<1> HIDE DEF P0, all
<1>4. /\ all \in Seq(D!Registrations)
      /\ \A j, k \in 1 .. Len(all) : /\ D!Kth(P0, j) \in P0 /\ all[j] = receivers[D!Kth(P0, j)]
                                     /\ D!Kth(P0, j) = D!Kth(P0, k) => j = k
  BY <1>2, <1>3, KeptRegistrations
<1>5. DOMAIN all = 1 .. Len(all) BY <1>4
<1>6. ASSUME NEW i \in DOMAIN all, NEW j \in DOMAIN all, all[i].who = all[j].who PROVE i = j
  <2> DEFINE x == D!Kth(P0, i)
             y == D!Kth(P0, j)
  <2>1. /\ x \in P0 /\ all[i] = receivers[x] /\ y \in P0 /\ all[j] = receivers[y]
        /\ x = y => i = j
    BY <1>4, <1>5
  <2>2. x \in DOMAIN receivers /\ y \in DOMAIN receivers BY <1>1, <1>2, <2>1
  <2> HIDE DEF x, y
  <2>3. receivers[x] \in D!Registrations /\ receivers[y] \in D!Registrations BY <1>1, <2>2
  <2>4. receivers[x] = receivers[y] BY <1>a, <1>6, <2>1, <2>3 DEF D!Registrations
  <2>5. x = y BY <2>2, <2>4 DEF D!IInv, D!RegisteredOnce, D!IsInjective
  <2> QED BY <2>1, <2>5
<1> QED BY <1>4, <1>6 DEF all

(* Nobody is registered, nothing queued and nobody owed at the start.       *)
LEMMA DeliveryInitInvariant == ASSUME D!BroadcastConstants PROVE D!Init => D!IInv
<1> SUFFICES ASSUME D!Init PROVE D!IInv OBVIOUS
<1>1. \A X0 : <<>> \in Seq(X0) /\ DOMAIN <<>> = {} OBVIOUS
<1>2. <<>> = <<>> \o <<>> OBVIOUS
<1> QED BY <1>1, <1>2 DEF D!Init, D!IInv, D!TypeOK, D!RegisteredOnce, D!Accounted, D!StatusGoesOut,
           D!DirectInOrder, D!IsInjective, D!Range

(* The registry grows by somebody new or loses all of one receiver.         *)
LEMMA RegistryStep ==
  ASSUME D!IInv, NEW r0 \in Receivers, NEW b0 \in Actions, D!Register(r0, b0) \/ D!Unregister(r0)
  PROVE  receivers' \in Seq(D!Registrations) /\ D!RegisteredOnce'
<1>1. receivers \in Seq(D!Registrations) /\ DOMAIN receivers = 1 .. Len(receivers)
  BY DEF D!IInv, D!TypeOK
<1>2. \A i, j \in DOMAIN receivers : receivers[i] = receivers[j] => i = j
  BY DEF D!IInv, D!RegisteredOnce, D!IsInjective
<1>3. CASE receivers' = receivers
  BY <1>3 DEF D!IInv, D!TypeOK, D!RegisteredOnce, D!IsInjective
<1>4. CASE D!Register(r0, b0) /\ receivers' # receivers
  <2> DEFINE new == [who |-> r0, for |-> b0]
  <2>1. /\ receivers' = Append(receivers, new)
        /\ \A i \in DOMAIN receivers : receivers[i] # new
    BY <1>4 DEF D!Register
  <2>2. new \in D!Registrations BY DEF D!Registrations
  <2> HIDE DEF new
  <2>3. /\ receivers' \in Seq(D!Registrations) /\ Len(receivers') = Len(receivers) + 1
        /\ \A i \in 1 .. Len(receivers) : receivers'[i] = receivers[i]
        /\ receivers'[Len(receivers) + 1] = new
    BY <1>1, <2>1, <2>2, AppendProperties
  <2>4. DOMAIN receivers' = 1 .. Len(receivers) + 1 BY <2>3
  <2>5. ASSUME NEW i \in DOMAIN receivers', NEW j \in DOMAIN receivers', receivers'[i] = receivers'[j]
        PROVE  i = j
    <3>1. Len(receivers) \in Nat BY <1>1
    <3>2. i \in 1 .. Len(receivers) \/ i = Len(receivers) + 1 BY <2>4, <3>1
    <3>3. j \in 1 .. Len(receivers) \/ j = Len(receivers) + 1 BY <2>4, <3>1
    <3> QED BY <1>1, <1>2, <2>1, <2>3, <2>5, <3>2, <3>3
  <2> QED BY <2>3, <2>5 DEF D!RegisteredOnce, D!IsInjective
<1>5. CASE D!Unregister(r0)
  <2> DEFINE P0 == {i \in DOMAIN receivers : receivers[i].who # r0}
  <2>1. P0 \in SUBSET (1 .. Len(receivers)) BY <1>1
  <2>2. receivers' = D!Selected(receivers, P0) BY <1>5 DEF D!Unregister
  <2> HIDE DEF P0
  <2>3. /\ receivers' \in Seq(D!Registrations)
        /\ \A j, k \in 1 .. Len(receivers') :
             /\ D!Kth(P0, j) \in P0 /\ receivers'[j] = receivers[D!Kth(P0, j)]
             /\ D!Kth(P0, j) = D!Kth(P0, k) => j = k
    BY <2>1, <2>2, KeptRegistrations
  <2>4. DOMAIN receivers' = 1 .. Len(receivers') BY <2>3
  <2>5. ASSUME NEW i \in DOMAIN receivers', NEW j \in DOMAIN receivers', receivers'[i] = receivers'[j]
        PROVE  i = j
    <3>1. /\ D!Kth(P0, i) \in 1 .. Len(receivers) /\ D!Kth(P0, j) \in 1 .. Len(receivers)
          /\ receivers[D!Kth(P0, i)] = receivers[D!Kth(P0, j)]
      BY <2>1, <2>3, <2>4, <2>5
    <3>2. D!Kth(P0, i) = D!Kth(P0, j) BY <1>1, <1>2, <3>1
    <3> QED BY <2>3, <2>4, <3>2
  <2> QED BY <2>3, <2>5 DEF D!RegisteredOnce, D!IsInjective
<1> QED BY <1>3, <1>4, <1>5

(* Whoever is called next leaves the snapshot for those who were called.    *)
LEMMA DeliverStep == ASSUME D!IInv, D!Deliver PROVE D!IInv'
<1> DEFINE first == Head(matches).who
<1>1. /\ matches \in Seq(D!Registrations) /\ matches # <<>> /\ dGot \in Seq(Receivers)
      /\ matches' = Tail(matches) /\ dGot' = Append(dGot, first)
      /\ UNCHANGED <<receivers, queue, pump, action, dStarted, netPending, owed, full, sends, direct,
                     dAsked, answered>>
      /\ pump = "delivering"
  BY DEF D!IInv, D!TypeOK, D!Deliver, D!Remaining, D!callbacks
<1>2. /\ matches' \in Seq(D!Registrations) /\ Len(matches') = Len(matches) - 1
      /\ \A i \in 1 .. Len(matches') : matches'[i] = matches[i + 1]
      /\ Len(matches) \in Nat /\ Len(matches) > 0
  BY <1>1, HeadTailProperties
<1>3. first \in Receivers /\ first = matches[1].who
  <2>1. Head(matches) = matches[1] /\ matches[1] \in D!Registrations BY <1>1, <1>2
  <2> QED BY <2>1 DEF D!Registrations
<1> HIDE DEF first
<1>4. /\ dGot' \in Seq(Receivers) /\ Len(dGot') = Len(dGot) + 1 /\ Len(dGot) \in Nat
      /\ \A i \in 1 .. Len(dGot) : dGot'[i] = dGot[i]
      /\ dGot'[Len(dGot) + 1] = first
  BY <1>1, <1>3, AppendProperties
<1>5. /\ DOMAIN dGot = 1 .. Len(dGot) /\ DOMAIN dGot' = 1 .. Len(dGot) + 1
      /\ DOMAIN matches = 1 .. Len(matches) /\ DOMAIN matches' = 1 .. Len(matches) - 1
  BY <1>1, <1>2, <1>4
<1>6. /\ owed = D!Range(dGot) \cup {matches[i].who : i \in DOMAIN matches}
      /\ \A i, j \in DOMAIN dGot : dGot[i] = dGot[j] => i = j
      /\ \A i, j \in DOMAIN matches : matches[i].who = matches[j].who => i = j
      /\ \A i \in DOMAIN dGot, j \in DOMAIN matches : dGot[i] # matches[j].who
  BY DEF D!IInv, D!Accounted, D!IsInjective
<1>7. 1 \in DOMAIN matches /\ \A i \in DOMAIN matches' : i + 1 \in DOMAIN matches /\ i + 1 # 1
  BY <1>2, <1>5
<1>8. \A i \in DOMAIN dGot' : i \in DOMAIN dGot \/ i = Len(dGot) + 1 BY <1>4, <1>5
<1>9. D!IsInjective(dGot')
  <2>1. \A i, j \in DOMAIN dGot' : dGot'[i] = dGot'[j] => i = j
    BY <1>3, <1>4, <1>5, <1>6, <1>7, <1>8
  <2> QED BY <2>1 DEF D!IsInjective
<1>10. \A i, j \in DOMAIN matches' : matches'[i].who = matches'[j].who => i = j
  <2> SUFFICES ASSUME NEW i \in DOMAIN matches', NEW j \in DOMAIN matches',
                      matches'[i].who = matches'[j].who
               PROVE  i = j
    OBVIOUS
  <2>1. i + 1 = j + 1 BY <1>2, <1>5, <1>6, <1>7
  <2> QED BY <1>2, <1>5, <2>1
<1>11. \A i \in DOMAIN dGot', j \in DOMAIN matches' : dGot'[i] # matches'[j].who
  BY <1>2, <1>3, <1>4, <1>5, <1>6, <1>7, <1>8
<1>12. owed = D!Range(dGot') \cup {matches'[i].who : i \in DOMAIN matches'}
  <2>1. \A x : x \in D!Range(dGot) <=> \E i \in DOMAIN dGot : x = dGot[i] BY DEF D!Range
  <2>2. \A x : x \in D!Range(dGot') <=> \E i \in DOMAIN dGot' : x = dGot'[i] BY DEF D!Range
  <2>3. ASSUME NEW x \in owed PROVE x \in D!Range(dGot') \cup {matches'[i].who : i \in DOMAIN matches'}
    <3>1. CASE x \in D!Range(dGot)
      <4>1. PICK i \in DOMAIN dGot : x = dGot[i] BY <2>1, <3>1
      <4>2. i \in DOMAIN dGot' /\ dGot'[i] = x BY <1>4, <1>5, <4>1
      <4> QED BY <2>2, <4>2
    <3>2. CASE x \in {matches[i].who : i \in DOMAIN matches}
      <4>1. PICK i \in DOMAIN matches : x = matches[i].who BY <3>2
      <4>2. CASE i = 1
        <5>1. Len(dGot) + 1 \in DOMAIN dGot' /\ dGot'[Len(dGot) + 1] = x BY <1>3, <1>4, <1>5, <4>1, <4>2
        <5> QED BY <2>2, <5>1
      <4>3. CASE i # 1
        <5>1. i - 1 \in DOMAIN matches' /\ (i - 1) + 1 = i BY <1>2, <1>5, <4>3
        <5>2. matches'[i - 1] = matches[i] BY <1>2, <1>5, <5>1
        <5> QED BY <4>1, <5>1, <5>2
      <4> QED BY <4>2, <4>3
    <3> QED BY <1>6, <3>1, <3>2
  <2>4. ASSUME NEW x \in D!Range(dGot') PROVE x \in owed
    <3>1. PICK i \in DOMAIN dGot' : x = dGot'[i] BY <2>2
    <3>2. CASE i \in DOMAIN dGot
      <4>1. dGot[i] = x BY <1>4, <1>5, <3>1, <3>2
      <4> QED BY <1>6, <2>1, <3>2, <4>1
    <3>3. CASE i = Len(dGot) + 1 BY <1>3, <1>4, <1>6, <1>7, <3>1, <3>3
    <3> QED BY <1>8, <3>2, <3>3
  <2>5. ASSUME NEW i \in DOMAIN matches' PROVE matches'[i].who \in owed
    BY <1>2, <1>5, <1>6, <1>7, SMTT(30)
  <2> QED BY <2>3, <2>4, <2>5
<1>13. D!Accounted' BY <1>1, <1>9, <1>10, <1>11, <1>12 DEF D!Accounted
<1>14. D!TypeOK' BY <1>1, <1>2, <1>4 DEF D!IInv, D!TypeOK
<1> QED BY <1>1, <1>13, <1>14
        DEF D!IInv, D!RegisteredOnce, D!StatusGoesOut, D!DirectInOrder, D!IsInjective

(* A direct callback goes from the head of its queue to those delivered.    *)
LEMMA PumpDirectStep == ASSUME D!IInv, D!PumpDirect PROVE D!IInv'
<1>1. /\ direct \in Seq(Receivers) /\ answered \in Seq(Receivers) /\ dAsked = answered \o direct
      /\ pump = "idle" /\ pump' = "broadcasts"
      /\ UNCHANGED <<receivers, queue, action, matches, dStarted, netPending, owed, dGot, dAsked, full,
                     sends>>
  BY DEF D!IInv, D!TypeOK, D!DirectInOrder, D!PumpDirect
<1>2. direct' \in Seq(Receivers) /\ answered' \in Seq(Receivers) /\ dAsked' = answered' \o direct'
  <2>1. CASE direct = <<>> BY <1>1, <2>1 DEF D!PumpDirect
  <2>2. CASE direct # <<>>
    <3>1. direct' = Tail(direct) /\ answered' = Append(answered, Head(direct))
      BY <2>2 DEF D!PumpDirect
    <3>2. Tail(direct) \in Seq(Receivers) /\ Head(direct) \in Receivers
          /\ direct = <<Head(direct)>> \o Tail(direct)
      BY <1>1, <2>2, HeadTailProperties
    <3>3. Append(answered, Head(direct)) = answered \o <<Head(direct)>> BY <1>1, <3>2
    <3> DEFINE one == <<Head(direct)>>
               rest == Tail(direct)
    <3>4. one \in Seq(Receivers) /\ rest \in Seq(Receivers) BY <3>2
    <3> HIDE DEF one, rest
    <3>5. (answered \o one) \o rest = answered \o (one \o rest) BY <1>1, <3>4, ConcatAssociative, SMTT(30)
    <3>6. dAsked' = answered' \o direct' BY <1>1, <3>1, <3>2, <3>3, <3>5 DEF one, rest
    <3> QED BY <1>1, <3>1, <3>2, <3>6
  <2> QED BY <2>1, <2>2
<1> QED BY <1>1, <1>2
        DEF D!IInv, D!TypeOK, D!RegisteredOnce, D!Accounted, D!StatusGoesOut, D!DirectInOrder,
            D!IsInjective, D!Range

(* A delivery begins with its snapshot owed and nobody called.              *)
LEMMA BeginStep == ASSUME D!IInv, NEW more, D!Begin(more) PROVE D!IInv'
<1> DEFINE a0 == Head(queue)
           all == D!Matching(a0)
<1>1. /\ pump' = "delivering" /\ matches' = all /\ owed' = {all[i].who : i \in DOMAIN all}
      /\ dGot' = <<>>
      /\ UNCHANGED <<receivers, dStarted, netPending, full, direct, dAsked, answered>>
  BY DEF D!Begin, D!callbacks
<1>2. /\ all \in Seq(D!Registrations)
      /\ \A i, j \in DOMAIN all : all[i].who = all[j].who => i = j
  BY SnapshotFacts
<1> HIDE DEF all
<1>3. dGot' \in Seq(Receivers) /\ DOMAIN dGot' = {} BY <1>1
<1>4. D!Accounted' BY <1>1, <1>2, <1>3 DEF D!Accounted, D!IsInjective, D!Range
<1> QED BY <1>1, <1>2, <1>3, <1>4
        DEF D!IInv, D!TypeOK, D!RegisteredOnce, D!StatusGoesOut, D!DirectInOrder, D!IsInjective

(* Every step preserves the invariant. *)
LEMMA DeliveryStepInvariant == ASSUME D!BroadcastConstants, D!IInv, D!Next PROVE D!IInv'
<1> DEFINE Rest == UNCHANGED <<pump, matches, owed, dGot>>
           Same == UNCHANGED <<direct, dAsked, answered>>
           Quiet == UNCHANGED <<dStarted, netPending, full>>
<1>a. Rest => (D!Accounted => D!Accounted') BY DEF D!Accounted, D!IsInjective, D!Range
<1>b. UNCHANGED receivers => (D!RegisteredOnce => D!RegisteredOnce')
  BY DEF D!RegisteredOnce, D!IsInjective
<1>1. CASE D!Pump
  <2>1. CASE D!PumpDirect BY <2>1, PumpDirectStep
  <2>2. CASE D!Deliver BY <2>2, DeliverStep
  <2>3. CASE D!NothingQueued
    BY <2>3 DEF D!NothingQueued, D!callbacks, D!IInv, D!TypeOK, D!RegisteredOnce, D!Accounted,
                D!StatusGoesOut, D!DirectInOrder, D!IsInjective, D!Range
  <2>4. CASE D!End
    BY <2>4 DEF D!End, D!Remaining, D!callbacks, D!IInv, D!TypeOK, D!RegisteredOnce, D!Accounted,
                D!StatusGoesOut, D!DirectInOrder, D!IsInjective, D!Range
  <2> QED BY <1>1, <2>1, <2>2, <2>3, <2>4 DEF D!Pump
<1>2. CASE D!Begin(<<>>) BY <1>2, BeginStep
<1>3. ASSUME D!StatusChanged \/ D!Setup PROVE D!IInv'
  <2>1. Rest /\ Same /\ UNCHANGED receivers
    BY <1>3 DEF D!StatusChanged, D!Setup, D!delivery, D!callbacks
  <2>2. D!StatusGoesOut'
    BY <1>3 DEF D!StatusChanged, D!Setup, D!QueueStatus, D!StatusGoesOut, D!IInv
  <2> QED BY <1>a, <1>b, <2>1, <2>2 DEF D!IInv, D!TypeOK, D!DirectInOrder
<1>4. ASSUME NEW r0 \in Receivers, D!RequestIntegrity(r0) PROVE D!IInv'
  <2>1. Rest /\ Quiet /\ UNCHANGED <<receivers, answered>>
    BY <1>4 DEF D!RequestIntegrity, D!delivery
  <2>2. direct' \in Seq(Receivers) /\ dAsked' \in Seq(Receivers) /\ dAsked' = answered \o direct'
    <3>1. direct \in Seq(Receivers) /\ answered \in Seq(Receivers) /\ dAsked = answered \o direct
          /\ dAsked \in Seq(Receivers)
      BY DEF D!IInv, D!TypeOK, D!DirectInOrder
    <3>2. CASE UNCHANGED <<direct, dAsked>> BY <3>1, <3>2
    <3>3. CASE direct' = Append(direct, r0) /\ dAsked' = Append(dAsked, r0)
      <4> DEFINE one == <<r0>>
      <4>1. one \in Seq(Receivers) OBVIOUS
      <4>2. Append(direct, r0) = direct \o one /\ Append(dAsked, r0) = dAsked \o one BY <3>1
      <4> HIDE DEF one
      <4>3. (answered \o direct) \o one = answered \o (direct \o one)
        BY <3>1, <4>1, ConcatAssociative
      <4>4. direct' \in Seq(Receivers) /\ dAsked' \in Seq(Receivers)
        BY <3>1, <3>3, <4>1, <4>2, ConcatProperties
      <4> QED BY <3>1, <3>3, <4>2, <4>3, <4>4
    <3> QED BY <1>4, <3>2, <3>3 DEF D!RequestIntegrity
  <2> QED BY <1>a, <1>b, <2>1, <2>2 DEF D!IInv, D!TypeOK, D!StatusGoesOut, D!DirectInOrder
<1>5. ASSUME NEW r0 \in Receivers, NEW b0 \in Actions, D!Register(r0, b0) \/ D!Unregister(r0)
      PROVE  D!IInv'
  <2>1. Rest /\ Quiet /\ Same
    BY <1>5 DEF D!Register, D!Unregister, D!delivery, D!callbacks
  <2>2. receivers' \in Seq(D!Registrations) /\ D!RegisteredOnce' BY <1>5, RegistryStep
  <2> QED BY <1>a, <2>1, <2>2 DEF D!IInv, D!TypeOK, D!StatusGoesOut, D!DirectInOrder
<1>6. ASSUME NEW b0 \in Actions, D!Send(b0) PROVE D!IInv'
  <2>1. Rest /\ Quiet /\ Same /\ UNCHANGED receivers BY <1>6 DEF D!Send, D!delivery, D!callbacks
  <2> QED BY <1>a, <1>b, <2>1 DEF D!IInv, D!TypeOK, D!StatusGoesOut, D!DirectInOrder
<1>7. CASE D!Game
  <2>1. Actions # {} BY DEF D!BroadcastConstants
  <2> QED BY <1>3, <1>4, <1>5, <1>6, <1>7, <2>1 DEF D!Game
<1> QED BY <1>1, <1>2, <1>7 DEF D!Next

(* A part at rest changes nothing its invariant is about. *)
LEMMA DeliveryStutterInvariant == D!IInv /\ UNCHANGED deliveryVars => D!IInv'
<1> SUFFICES ASSUME D!IInv, UNCHANGED deliveryVars PROVE D!IInv' OBVIOUS
<1>1. D!RegisteredOnce' BY DEF deliveryVars, D!IInv, D!RegisteredOnce, D!IsInjective
<1>2. D!Accounted' BY DEF deliveryVars, D!IInv, D!Accounted, D!IsInjective, D!Range
<1>3. D!TypeOK' BY DEF deliveryVars, D!IInv, D!TypeOK
<1> QED BY <1>1, <1>2, <1>3 DEF deliveryVars, D!IInv, D!StatusGoesOut, D!DirectInOrder

(* The invariant holds in every reachable state. *)
THEOREM DeliveryInvariantHolds == Spec => []D!IInv
<1>1. D!BroadcastConstants BY ServiceConstants
<1>2. Init => D!IInv BY <1>1, DeliveryInitInvariant DEF Init
<1>3. D!IInv /\ [Next]_vars => D!IInv'
  BY <1>1, OnePart, DeliveryStepInvariant, DeliveryStutterInvariant
<1> QED BY <1>2, <1>3, PTL DEF Spec

(* Whatever the callbacks register, unregister and send, each receiver of a *)
(* broadcast is called once, a network change held back goes out with the   *)
(* setup unless the queue was full, and direct callbacks keep their order.  *)
THEOREM BroadcastsArrive == Spec => []BroadcastSound
<1>1. D!IInv => D!EachReceiverOnce
  <2> SUFFICES ASSUME D!IInv PROVE D!EachReceiverOnce OBVIOUS
  <2>1. /\ owed = D!Range(dGot) \cup {matches[i].who : i \in DOMAIN matches}
        /\ D!IsInjective(dGot)
        /\ pump # "delivering" => matches = <<>>
    BY DEF D!IInv, D!Accounted
  <2>2. matches = <<>> => {matches[i].who : i \in DOMAIN matches} = {} OBVIOUS
  <2> QED BY <2>1, <2>2 DEF D!EachReceiverOnce
<1>2. D!IInv => BroadcastSound BY <1>1 DEF D!IInv, BroadcastSound
<1> QED BY <1>2, DeliveryInvariantHolds, PTL
=============================================================================
