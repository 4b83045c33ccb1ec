-------------------------- MODULE GuestHostProofs --------------------------
(***************************************************************************)
(* Proofs about the two ends of the host that the game meets first and     *)
(* last: the loader, which binds every import as the linear search did and *)
(* runs every initialiser once, and the pointer, which shows one finger    *)
(* whatever the buttons, the sticks, the touch screen and the drawer do.   *)
(***************************************************************************)
EXTENDS GuestServices, Integers, Sequences, FiniteSetTheorems, SequenceTheorems,
        WellFoundedInduction, TLAPS

-----------------------------------------------------------------------------
(* The composition *)

(* A step is a step of the loader or of the pad, or these rest. *)
LEMMA LoaderOrInput ==
  [Next]_vars => (L!Next \/ UNCHANGED loaderVars) /\ (P!Next \/ UNCHANGED inputVars)
<1>1. CASE LoaderNext BY <1>1 DEF LoaderNext
<1>2. CASE InputNext BY <1>2 DEF InputNext
<1>3. CASE UNCHANGED vars BY <1>3 DEF vars
<1>4. CASE HeapNext \/ MmapNext \/ JniNext \/ DeliveryNext \/ AudioNext \/ MapsNext \/ SslNext
  BY <1>4 DEF HeapNext, MmapNext, JniNext, DeliveryNext, AudioNext, MapsNext, SslNext
<1>5. CASE ObbNext \/ InstallNext \/ TarNext \/ TagsNext \/ IndexNext \/ AssetsNext \/ NavNext
  BY <1>5 DEF ObbNext, InstallNext, TarNext, TagsNext, IndexNext, AssetsNext, NavNext
<1> QED BY <1>1, <1>2, <1>3, <1>4, <1>5 DEF Next

-----------------------------------------------------------------------------
(* The loader: the order in which the initialisers run *)

(* The initialisers are those of the other libraries and the game's slots. *)
LEMMA InitsAre ==
  /\ \A m \in L!Loadable \ {L!Game} : <<m, 1>> \in L!Inits
  /\ \A s \in 1 .. InitSlots : <<L!Game, s>> \in L!Inits
  /\ \A i \in L!Inits : \/ \E m \in L!Loadable \ {L!Game} : i = <<m, 1>>
                        \/ \E s \in 1 .. InitSlots : i = <<L!Game, s>>
  /\ \A m \in L!Loadable \ {L!Game}, s \in 1 .. InitSlots : <<m, 1>> # <<L!Game, s>>
BY DEF L!Inits

LEMMA GameLoaded == L!LoaderConstants => L!Game \in L!Loadable
BY DEF L!LoaderConstants, L!Game, L!Loadable, L!ToSet

(* No initialiser has run at the start. *)
LEMMA OrderInitInvariant == ASSUME L!LoaderConstants PROVE L!Init => L!OrderInv
<1> SUFFICES ASSUME L!Init PROVE L!OrderInv OBVIOUS
<1>1. L!TypeOK
  <2>1. <<>> \in Seq(1 .. InitSlots) BY DEF L!Init
  <2> QED BY <2>1 DEF L!Init, L!TypeOK
<1>2. L!Passed(0) BY InitsAre DEF L!Init, L!Passed, L!LoaderConstants
<1>3. L!InOrder BY <1>2 DEF L!Init, L!InOrder
<1>4. L!InitsOnce BY DEF L!Init, L!InitsOnce
<1> QED BY <1>1, <1>3, <1>4 DEF L!OrderInv

(* The next entry of the game's .init_array, counted as the code does. *)
LEMMA NextEntry ==
  ASSUME L!LoaderConstants, L!TypeOK, NEW n \in 0 .. InitSlots, L!Passed(n)
  PROVE  /\ Cardinality({s \in 1 .. InitSlots : ran[<<L!Game, s>>] > 0}) + Len(deferred) = n
         /\ Len(deferred) = IF n < Registrar THEN 0 ELSE n - Registrar + 1
<1> DEFINE R == {s \in 1 .. InitSlots : ran[<<L!Game, s>>] > 0}
           k == IF n < Registrar THEN n ELSE Registrar - 1
<1> USE DEF L!LoaderConstants
<1>1. R = 1 .. k
  <2>1. ASSUME NEW s \in 1 .. InitSlots
        PROVE  ran[<<L!Game, s>>] = IF s <= n /\ s < Registrar THEN 1 ELSE 0
    BY DEF L!Passed
  <2>2. ASSUME NEW s \in 1 .. InitSlots PROVE ran[<<L!Game, s>>] > 0 <=> s <= n /\ s < Registrar
    BY <2>1
  <2>3. R = {s \in 1 .. InitSlots : s <= n /\ s < Registrar} BY <2>2, Zenon
  <2> QED BY <2>3
<1>2. Cardinality(R) = k
  <2>1. k \in Int /\ k >= 0 OBVIOUS
  <2>2. ASSUME NEW j \in Int, j >= 0 PROVE Cardinality(1 .. j) = j
    <3>1. Cardinality(1 .. j) = IF 1 > j THEN 0 ELSE j - 1 + 1 BY 1 \in Int, FS_Interval, Zenon
    <3> QED BY <2>2, <3>1
  <2> QED BY <1>1, <2>1, <2>2, Zenon
<1>3. Len(deferred) = IF n < Registrar THEN 0 ELSE n - Registrar + 1
  <2> DEFINE d == IF n < Registrar THEN 0 ELSE n - Registrar + 1
  <2>1. d \in Nat BY SMT
  <2>2. deferred = [j \in 1 .. d |-> Registrar + j - 1] BY DEF L!Passed
  <2> HIDE DEF d
  <2> QED BY <2>1, <2>2 DEF d
<1> QED BY <1>2, <1>3

(* The next entry runs or is kept, and there is room for it. *)
LEMMA PassesNext ==
  ASSUME L!LoaderConstants, L!TypeOK, L!InOrder, L!InitsOnce, NEW slot \in 1 .. InitSlots,
         L!ConstructGame(slot)
  PROVE  /\ L!TypeOK' /\ ~ lEarly' /\ L!Passed(slot)' /\ L!LibrariesRan'
         /\ \A i \in L!Inits : ran'[i] <= 1 /\ (ran'[i] > 0 => lMapped' = L!Loadable)
<1> USE InitsAre DEF L!LoaderConstants
<1>1. PICK n \in 0 .. InitSlots - 1 : L!Passed(n) /\ (n > 0 => L!LibrariesRan)
  BY DEF L!ConstructGame, L!InOrder
<1>2. slot = n + 1 /\ Len(deferred) = IF n < Registrar THEN 0 ELSE n - Registrar + 1
  <2>0. \A X0 : L!Cardinality(X0) = Cardinality(X0) BY DEF L!Cardinality, Cardinality
  <2>1. n \in 0 .. InitSlots OBVIOUS
  <2>2. /\ Cardinality({s \in 1 .. InitSlots : ran[<<L!Game, s>>] > 0}) + Len(deferred) = n
        /\ Len(deferred) = IF n < Registrar THEN 0 ELSE n - Registrar + 1
    BY <1>1, <2>1, NextEntry, Zenon
  <2>3. slot = 1 + Cardinality({s \in 1 .. InitSlots : ran[<<L!Game, s>>] > 0}) + Len(deferred)
    BY <2>0 DEF L!ConstructGame
  <2>4. Len(deferred) \in Nat /\ n \in Int BY DEF L!TypeOK
  <2>5. Cardinality({s \in 1 .. InitSlots : ran[<<L!Game, s>>] > 0}) \in Nat
    <3>1. {s \in 1 .. InitSlots : ran[<<L!Game, s>>] > 0} \subseteq 1 .. InitSlots OBVIOUS
    <3>2. IsFiniteSet(1 .. InitSlots) BY 1 \in Int, InitSlots \in Int, FS_Interval, Zenon
    <3> QED BY <3>1, <3>2, FS_Subset, FS_CardinalityType, Zenon
  <2> QED BY <2>2, <2>3, <2>4, <2>5
<1>3. /\ L!TypeOK /\ n \in Nat /\ lMapped = L!Loadable /\ lMapped' = lMapped
      /\ \A i \in L!Inits : ran[i] \in 0 .. 1
  BY DEF L!ConstructGame, L!InOrder, L!TypeOK
<1>4. L!LibrariesRan
  <2>1. CASE n = 0
    <3>1. deferred = <<>> BY <1>2, <2>1 DEF L!TypeOK
    <3>2. L!ToSet(deferred) = {} BY <3>1 DEF L!ToSet
    <3>3. ASSUME NEW m \in L!Loadable \ {L!Game} PROVE ran[<<m, 1>>] > 0
      <4>1. L!Constructed(m) BY DEF L!ConstructGame
      <4>2. <<m, 1>>[1] = m /\ <<m, 1>>[2] = 1 /\ <<m, 1>> \in L!Inits BY InitsAre
      <4> QED BY <3>2, <4>1, <4>2 DEF L!Constructed
    <3>4. ASSUME NEW m \in L!Loadable \ {L!Game} PROVE ran[<<m, 1>>] = 1
      <4>1. <<m, 1>> \in L!Inits BY InitsAre
      <4> QED BY <1>3, <3>3, <4>1
    <3> QED BY <3>4, Zenon DEF L!LibrariesRan
  <2> QED BY <1>1, <2>1
<1>5. CASE slot >= Registrar
  <2>1. deferred' = Append(deferred, slot) /\ ran' = ran /\ lEarly' = lEarly
    BY <1>2, <1>5 DEF L!ConstructGame, L!Kept
  <2> DEFINE d == IF n < Registrar THEN 0 ELSE n - Registrar + 1
  <2>2. d \in Nat /\ d + 1 = slot - Registrar + 1 /\ slot = Registrar + (d + 1) - 1 BY <1>2, <1>5
  <2>3. deferred = [k \in 1 .. d |-> Registrar + k - 1] BY <1>1 DEF L!Passed
  <2>4. deferred' = [k \in 1 .. d + 1 |-> Registrar + k - 1]
    <3> HIDE DEF d
    <3> QED BY <2>1, <2>2, <2>3
  <2>5. L!Passed(slot)' BY <1>1, <1>2, <1>5, <2>1, <2>2, <2>4 DEF L!Passed
  <2>6. L!TypeOK' BY <1>3, <2>1 DEF L!TypeOK, L!ConstructGame
  <2> QED BY <1>3, <1>4, <2>1, <2>5, <2>6 DEF L!LibrariesRan, L!InitsOnce
<1>6. CASE ~ slot >= Registrar
  <2>1. /\ ran' = [ran EXCEPT ![<<L!Game, slot>>] = @ + 1] /\ deferred' = deferred
        /\ lEarly' = lEarly
    BY <1>6 DEF L!ConstructGame, L!Kept, L!Run, L!TypeOK
  <2>2. ran[<<L!Game, slot>>] = 0
    <3>1. ran[<<L!Game, slot>>] = IF slot <= n /\ slot < Registrar THEN 1 ELSE 0
      BY <1>1, Zenon DEF L!Passed
    <3> QED BY <1>2, <1>3, <3>1
  <2>3. L!Passed(slot)' BY <1>1, <1>2, <1>3, <1>6, <2>1, <2>2 DEF L!Passed, L!TypeOK
  <2>4. L!LibrariesRan'
    <3>1. ASSUME NEW m \in L!Loadable \ {L!Game} PROVE ran'[<<m, 1>>] = ran[<<m, 1>>]
      BY <1>3, <2>1 DEF L!TypeOK
    <3> QED BY <1>4, <3>1, Zenon DEF L!LibrariesRan
  <2>5. L!TypeOK'
    <3>1. ran' \in [L!Inits -> Nat] BY <1>3, <2>1 DEF L!TypeOK
    <3>2. lpc' \in {"onload", "construct"} BY DEF L!ConstructGame
    <3> QED BY <1>3, <2>1, <3>1, <3>2 DEF L!TypeOK
  <2>6. ASSUME NEW i \in L!Inits PROVE ran'[i] <= 1
    <3>1. CASE i = <<L!Game, slot>> BY <1>3, <2>1, <2>2, <3>1 DEF L!TypeOK
    <3>2. CASE i # <<L!Game, slot>>
      <4>1. ran'[i] = ran[i] BY <1>3, <2>1, <3>2, Zenon DEF L!TypeOK
      <4> QED BY <1>3, <4>1
    <3> QED BY <3>1, <3>2
  <2> QED BY <1>3, <2>1, <2>3, <2>4, <2>5, <2>6 DEF L!InitsOnce
<1> QED BY <1>5, <1>6

(* Every step keeps them in order. *)
LEMMA OrderStepInvariant == ASSUME L!LoaderConstants, L!OrderInv, L!Next PROVE L!OrderInv'
<1> USE InitsAre, GameLoaded
<1>0. L!TypeOK /\ L!InOrder /\ L!InitsOnce BY DEF L!OrderInv
<1>1. CASE L!LoadFails
  BY <1>0, <1>1 DEF L!LoadFails, L!OrderInv, L!TypeOK, L!InOrder, L!InitsOnce
<1>2. ASSUME NEW names \in L!SymbolTables, L!Load(names) PROVE L!OrderInv'
  <2>1. L!Passed(0)' BY <1>0, <1>2 DEF L!Load, L!InOrder, L!Passed
  <2> QED BY <1>0, <1>2, <2>1 DEF L!Load, L!OrderInv, L!TypeOK, L!InOrder, L!InitsOnce
<1>3. ASSUME NEW room \in BOOLEAN, L!Resolve(room) PROVE L!OrderInv'
  <2>1. L!Passed(0)' BY <1>0, <1>3 DEF L!Resolve, L!InOrder, L!Passed
  <2> QED BY <1>0, <1>3, <2>1 DEF L!Resolve, L!OrderInv, L!TypeOK, L!InOrder, L!InitsOnce
<1>4. CASE L!Finalize
  <2>1. L!Passed(0)' BY <1>0, <1>4 DEF L!Finalize, L!InOrder, L!Passed
  <2>2. 0 \in 0 .. InitSlots - 1 BY DEF L!LoaderConstants
  <2> QED BY <1>0, <1>4, <2>1, <2>2 DEF L!Finalize, L!OrderInv, L!TypeOK, L!InOrder, L!InitsOnce
<1>5. ASSUME NEW m \in L!Loadable, L!Construct(m) PROVE L!OrderInv'
  <2> DEFINE i == <<m, 1>>
  <2>1. /\ i \in L!Inits /\ ran[i] = 0 /\ ran' = [ran EXCEPT ![i] = @ + 1]
        /\ deferred' = deferred /\ lEarly' = lEarly /\ lMapped' = lMapped /\ m # L!Game
        /\ lpc = "construct" /\ lpc' = lpc
    BY <1>5 DEF L!Construct, L!Run
  <2>2. \A s \in 1 .. InitSlots : ran'[<<L!Game, s>>] = ran[<<L!Game, s>>]
    BY <1>0, <2>1 DEF L!TypeOK
  <2>3. PICK n \in 0 .. InitSlots - 1 : L!Passed(n) /\ (n > 0 => L!LibrariesRan)
    BY <1>0, <2>1 DEF L!InOrder
  <2>4. L!Passed(n)' BY <2>1, <2>2, <2>3 DEF L!Passed
  <2>5. n = 0 BY <2>1, <2>3 DEF L!LibrariesRan
  <2>6. L!TypeOK' BY <1>0, <2>1 DEF L!TypeOK
  <2>7. \A j \in L!Inits : ran'[j] <= 1 BY <1>0, <2>1 DEF L!TypeOK, L!InOrder
  <2>8. lMapped' = L!Loadable BY <1>0, <2>1 DEF L!InOrder
  <2>9. L!InOrder' BY <2>1, <2>4, <2>5, <2>7, <2>8 DEF L!InOrder
  <2>10. L!InitsOnce' BY <1>0, <2>1, <2>8 DEF L!InitsOnce, L!Inits
  <2> QED BY <2>6, <2>9, <2>10 DEF L!OrderInv
<1>6. ASSUME NEW slot \in 1 .. InitSlots, L!ConstructGame(slot) PROVE L!OrderInv'
  <2>1. /\ L!TypeOK' /\ ~ lEarly' /\ L!Passed(slot)' /\ L!LibrariesRan'
        /\ \A i \in L!Inits : ran'[i] <= 1 /\ (ran'[i] > 0 => lMapped' = L!Loadable)
    BY <1>0, <1>6, PassesNext
  <2>2. lMapped' = L!Loadable /\ lpc' = IF slot = InitSlots THEN "onload" ELSE "construct"
    BY <1>0, <1>6 DEF L!ConstructGame, L!InOrder
  <2>3. L!InOrder'
    <3>1. slot # InitSlots => slot \in 0 .. InitSlots - 1 BY DEF L!LoaderConstants
    <3> QED BY <2>1, <2>2, <3>1 DEF L!InOrder
  <2>4. L!InitsOnce' BY <2>1, <2>2 DEF L!InitsOnce, L!Inits
  <2> QED BY <2>1, <2>3, <2>4 DEF L!OrderInv
<1>7. ASSUME NEW stored \in BOOLEAN, L!NimbleOnLoad(stored) PROVE L!OrderInv'
  <2>1. L!Passed(InitSlots)' /\ L!LibrariesRan'
    BY <1>0, <1>7 DEF L!NimbleOnLoad, L!InOrder, L!Passed, L!LibrariesRan
  <2> QED BY <1>0, <1>7, <2>1 DEF L!NimbleOnLoad, L!OrderInv, L!TypeOK, L!InOrder, L!InitsOnce
<1>8. ASSUME NEW recognised \in BOOLEAN, L!RunRegistrar(recognised) PROVE L!OrderInv'
  <2>1. CASE ~ recognised
    BY <1>0, <1>8, <2>1 DEF L!RunRegistrar, L!OrderInv, L!TypeOK, L!InOrder, L!InitsOnce
  <2>2. CASE recognised
    <3> DEFINE i == <<L!Game, Registrar>>
    <3>1. /\ ran' = [ran EXCEPT ![i] = @ + 1] /\ lpc' = "deferred" /\ deferred' = deferred
          /\ lEarly' = lEarly /\ lMapped' = lMapped /\ lpc = "registrar" /\ i \in L!Inits
      BY <1>8, <2>2 DEF L!RunRegistrar, L!Run, L!LoaderConstants
    <3>2. L!Passed(InitSlots) /\ L!LibrariesRan /\ lMapped = L!Loadable BY <1>0, <3>1 DEF L!InOrder
    <3>3. ran[i] = 0 BY <3>2 DEF L!Passed, L!LoaderConstants
    <3>4. L!TypeOK' BY <1>0, <3>1 DEF L!TypeOK
    <3>5. L!LibrariesRan'
      <4>1. ASSUME NEW m \in L!Loadable \ {L!Game} PROVE ran'[<<m, 1>>] = ran[<<m, 1>>]
        BY <1>0, <3>1 DEF L!TypeOK, L!LoaderConstants
      <4> QED BY <3>2, <4>1, Zenon DEF L!LibrariesRan
    <3>6. ASSUME NEW s \in 1 .. InitSlots
          PROVE  /\ s \in L!ToSet(deferred') <=> s >= Registrar
                 /\ ran'[<<L!Game, s>>] = IF s <= Registrar THEN 1 ELSE 0
      <4>1. s >= Registrar => deferred[s - Registrar + 1] = s /\ s - Registrar + 1 \in DOMAIN deferred
        BY <3>2 DEF L!Passed, L!LoaderConstants
      <4>2. s \in L!ToSet(deferred) <=> s >= Registrar
        <5>1. \A k \in DOMAIN deferred : deferred[k] >= Registrar
          BY <3>2 DEF L!Passed, L!LoaderConstants
        <5>2. s \in L!ToSet(deferred) => s >= Registrar
          <6> SUFFICES ASSUME s \in L!ToSet(deferred) PROVE s >= Registrar OBVIOUS
          <6> QED BY <5>1 DEF L!ToSet
        <5>3. s >= Registrar => s \in L!ToSet(deferred)
          <6> SUFFICES ASSUME s >= Registrar PROVE s \in L!ToSet(deferred) OBVIOUS
          <6> QED BY <4>1 DEF L!ToSet
        <5> QED BY <5>2, <5>3
      <4>3. ran'[<<L!Game, s>>] = IF s <= Registrar THEN 1 ELSE 0
        BY <1>0, <3>1, <3>2, <3>3 DEF L!Passed, L!LoaderConstants, L!TypeOK
      <4> QED BY <3>1, <4>2, <4>3
    <3>7. \A j \in L!Inits : ran'[j] <= 1 BY <1>0, <3>1, <3>3 DEF L!TypeOK, L!InOrder
    <3>8. L!InOrder' BY <3>1, <3>2, <3>5, <3>6, <3>7 DEF L!InOrder
    <3>9. L!InitsOnce' BY <1>0, <3>1, <3>2 DEF L!InitsOnce, L!Inits
    <3> QED BY <3>4, <3>8, <3>9 DEF L!OrderInv
  <2> QED BY <2>1, <2>2
<1>9. CASE L!RunDeferred
  <2>1. /\ lpc = "deferred" /\ lpc' = "play" /\ lMapped' = lMapped /\ lEarly' = lEarly
        /\ deferred' = deferred /\ lMapped = L!Loadable /\ L!LibrariesRan
    BY <1>0, <1>9 DEF L!RunDeferred, L!InOrder
  <2>2. ASSUME NEW m \in L!Loadable \ {L!Game} PROVE ran'[<<m, 1>>] = 1
    BY <1>9, <2>1 DEF L!RunDeferred, L!LibrariesRan
  <2>3. ASSUME NEW s \in 1 .. InitSlots PROVE ran'[<<L!Game, s>>] = 1
    <3>1. /\ s \in L!ToSet(deferred) <=> s >= Registrar
          /\ ran[<<L!Game, s>>] = IF s <= Registrar THEN 1 ELSE 0
      BY <1>0, <2>1 DEF L!InOrder
    <3> QED BY <1>9, <3>1 DEF L!RunDeferred, L!LoaderConstants
  <2>4. \A i \in L!Inits : ran'[i] = 1 BY <2>2, <2>3
  <2>5. ran' \in [L!Inits -> Nat]
    <3>1. ran' = [i \in L!Inits |-> ran'[i]] BY <1>9 DEF L!RunDeferred
    <3> QED BY <2>4, <3>1
  <2>6. L!TypeOK' BY <1>0, <2>1, <2>5 DEF L!TypeOK
  <2>7. L!InOrder' BY <2>1, <2>2, <2>4 DEF L!InOrder, L!LibrariesRan
  <2>8. L!InitsOnce' BY <1>0, <2>1, <2>4 DEF L!InitsOnce, L!Inits
  <2> QED BY <2>6, <2>7, <2>8 DEF L!OrderInv
<1>10. ASSUME NEW n \in L!NameSet, L!DlSym(n) PROVE L!OrderInv'
  BY <1>0, <1>10 DEF L!DlSym, L!OrderInv, L!TypeOK, L!InOrder, L!InitsOnce, L!LibrariesRan
<1> QED BY <1>1, <1>2, <1>3, <1>4, <1>5, <1>6, <1>7, <1>8, <1>9, <1>10 DEF L!Next

-----------------------------------------------------------------------------
(* The loader: its tables, and what the imports are bound to *)

(* A set of numbers has a least. *)
LEMMA LeastNumber ==
  ASSUME NEW Ts \in SUBSET Nat, Ts # {}
  PROVE  \E k \in Ts : \A j \in Ts : k <= j
<1>1. PICK k \in Ts : \A j \in Ts : ~ (<<j, k>> \in OpToRel(<, Nat))
  BY NatLessThanWellFounded, WFMin
<1>2. ASSUME NEW j \in Ts PROVE k <= j
  <2>1. ~ (j < k) BY <1>1 DEF OpToRel
  <2> QED BY <2>1
<1> QED BY <1>2

(* Induction up to n over a set. *)
LEMMA UpTo ==
  ASSUME NEW n \in Nat, NEW Ts, 0 \in Ts, \A k \in 0 .. n : k > 0 /\ k - 1 \in Ts => k \in Ts
  PROVE  \A k \in 0 .. n : k \in Ts
<1> DEFINE Bad == {k \in 0 .. n : k \notin Ts}
<1> SUFFICES ASSUME Bad # {} PROVE FALSE OBVIOUS
<1>1. PICK k \in Bad : \A j \in Bad : k <= j BY LeastNumber, Bad \in SUBSET Nat
<1>2. k > 0 /\ k - 1 \in 0 .. n BY k # 0
<1>3. k - 1 \in Ts BY <1>1, <1>2
<1> QED BY <1>2, <1>3

(* A step repeated up to n times from a. *)
Repeats(g, n, a, turn) == g[0] = a /\ \A k \in 1 .. n : g[k] = turn[k][g[k - 1]]

LEMMA Repeated ==
  ASSUME NEW n \in Nat, NEW Us, NEW a \in Us, NEW turn \in [1 .. n -> [Us -> Us]]
  PROVE  \E g \in [0 .. n -> Us] : Repeats(g, n, a, turn)
<1> DEFINE Ts == {k \in 0 .. n : \E g \in [0 .. k -> Us] : Repeats(g, k, a, turn)}
<1>1. 0 \in Ts
  <2> DEFINE g == [k \in 0 .. 0 |-> a]
  <2>1. g \in [0 .. 0 -> Us] /\ Repeats(g, 0, a, turn) BY DEF Repeats
  <2> QED BY <2>1
<1>2. ASSUME NEW k \in 0 .. n, k > 0, k - 1 \in Ts PROVE k \in Ts
  <2>1. PICK g \in [0 .. k - 1 -> Us] : Repeats(g, k - 1, a, turn) BY <1>2
  <2> DEFINE h == [j \in 0 .. k |-> IF j = k THEN turn[k][g[k - 1]] ELSE g[j]]
  <2>2. turn[k] \in [Us -> Us] /\ g[k - 1] \in Us BY <1>2
  <2>3. h \in [0 .. k -> Us] BY <2>2
  <2>4. \A j \in 0 .. k : j # k => h[j] = g[j] OBVIOUS
  <2>5. h[0] = a BY <1>2, <2>1, <2>4 DEF Repeats
  <2>6. ASSUME NEW j \in 1 .. k PROVE h[j] = turn[j][h[j - 1]]
    <3>1. j - 1 \in 0 .. k /\ j - 1 # k /\ h[j - 1] = g[j - 1] BY <2>4
    <3>2. CASE j = k BY <3>1, <3>2
    <3>3. CASE j # k
      <4>1. j \in 1 .. k - 1 /\ h[j] = g[j] BY <2>4, <3>3
      <4> QED BY <2>1, <3>1, <4>1 DEF Repeats
    <3> QED BY <3>2, <3>3
  <2> QED BY <2>3, <2>5, <2>6 DEF Repeats
<1>3. \A k \in 0 .. n : k \in Ts
  <2> HIDE DEF Ts
  <2> QED BY <1>1, <1>2, UpTo
<1> QED BY <1>3

(* The table is made for the names of every module. *)
LEMMA WantedFacts ==
  ASSUME L!LoaderConstants
  PROVE  /\ L!Wanted \in Nat /\ Len(Names) \in Nat /\ Len(Names) <= L!Wanted
<1>1. Len(Names) \in Nat /\ Len(Modules) \in Nat /\ Len(Modules) >= 2 BY DEF L!LoaderConstants
<1> QED BY <1>1 DEF L!Wanted

(* The recursion has a solution, so its equations hold. *)
LEMMA DoubledFacts ==
  ASSUME L!LoaderConstants
  PROVE  /\ L!Doubled[0] = 1
         /\ \A k \in 1 .. L!Wanted : L!Doubled[k] = IF L!Doubled[k - 1] < 2 * L!Wanted
                                                THEN 2 * L!Doubled[k - 1] ELSE L!Doubled[k - 1]
<1>0. L!Wanted \in Nat BY WantedFacts
<1> DEFINE turn == [k \in 1 .. L!Wanted |-> [x \in Nat |-> IF x < 2 * L!Wanted THEN 2 * x ELSE x]]
           Body(f) == [k \in 0 .. L!Wanted |->
                         IF k = 0 THEN 1
                         ELSE LET size == f[k - 1] IN IF size < 2 * L!Wanted THEN 2 * size ELSE size]
<1>1. \E g : g = Body(g)
  <2>1. turn \in [1 .. L!Wanted -> [Nat -> Nat]] BY <1>0
  <2>2. PICK g \in [0 .. L!Wanted -> Nat] : Repeats(g, L!Wanted, 1, turn) BY <1>0, <2>1, Repeated
  <2>3. ASSUME NEW k \in 0 .. L!Wanted PROVE g[k] = Body(g)[k]
    <3>1. CASE k = 0 BY <2>2, <3>1 DEF Repeats
    <3>2. CASE k # 0
      <4>1. k \in 1 .. L!Wanted /\ g[k - 1] \in Nat BY <1>0, <3>2
      <4>2. g[k] = turn[k][g[k - 1]] BY <2>2, <4>1 DEF Repeats
      <4> QED BY <3>2, <4>1, <4>2
    <3> QED BY <3>1, <3>2
  <2>4. g = Body(g) BY <2>3
  <2> QED BY <2>4
<1>2. L!Doubled = CHOOSE g : g = Body(g) BY DEF L!Doubled
<1>3. L!Doubled = Body(L!Doubled) BY <1>1, <1>2
<1> QED BY <1>0, <1>3

(* At most half of the slots are taken. *)
LEMMA TableSizeFacts ==
  ASSUME L!LoaderConstants
  PROVE  /\ L!TableSize \in Nat /\ L!TableSize >= 1 /\ L!TableSize >= 2 * Len(Names)
<1>0. L!Wanted \in Nat /\ Len(Names) \in Nat /\ Len(Names) <= L!Wanted BY WantedFacts
<1> DEFINE Big(k) == L!Doubled[k] \in Nat /\ L!Doubled[k] >= 1 /\ (L!Doubled[k] >= 2 * k \/ L!Doubled[k] >= 2 * L!Wanted)
           Ts == {k \in 0 .. L!Wanted : Big(k)}
<1>1. 0 \in Ts BY <1>0, DoubledFacts
<1>2. ASSUME NEW k \in 0 .. L!Wanted, k > 0, k - 1 \in Ts PROVE k \in Ts
  <2>1. k \in 1 .. L!Wanted /\ Big(k - 1) BY <1>0, <1>2
  <2>2. L!Doubled[k] = IF L!Doubled[k - 1] < 2 * L!Wanted THEN 2 * L!Doubled[k - 1] ELSE L!Doubled[k - 1]
    BY <2>1, DoubledFacts
  <2>3. L!Doubled[k] \in Nat /\ L!Doubled[k] >= 1 BY <1>0, <2>1, <2>2
  <2>4. CASE L!Doubled[k - 1] >= 2 * L!Wanted BY <1>0, <2>1, <2>2, <2>3, <2>4
  <2>5. CASE L!Doubled[k - 1] < 2 * L!Wanted
    <3>1. L!Doubled[k] = 2 * L!Doubled[k - 1] BY <2>2, <2>5
    <3>2. L!Doubled[k - 1] >= 2 * (k - 1) /\ L!Doubled[k - 1] >= 1 BY <1>0, <2>1, <2>5
    <3>3. L!Doubled[k] >= 2 * k BY <2>1, <3>1, <3>2
    <3> QED BY <2>3, <3>3
  <2> QED BY <1>0, <2>1, <2>4, <2>5
<1>3. L!Wanted \in Ts
  <2> HIDE DEF Ts
  <2>1. \A k \in 0 .. L!Wanted : k \in Ts BY <1>0, <1>1, <1>2, UpTo
  <2> QED BY <1>0, <2>1
<1> QED BY <1>0, <1>3 DEF L!TableSize

(* Probing visits every slot. *)
LEMMA SlotFacts ==
  ASSUME L!LoaderConstants, lHash \in [L!NameSet -> Hashes], NEW n \in L!NameSet
  PROVE  /\ \A k \in 0 .. L!TableSize - 1 : L!Path(n)[k] \in 0 .. L!TableSize - 1
         /\ \A i \in 0 .. L!TableSize - 1 : \E k \in 0 .. L!TableSize - 1 : L!Path(n)[k] = i
<1>1. L!TableSize \in Nat /\ L!TableSize >= 1 BY TableSizeFacts
<1>2. lHash[n] \in Nat BY DEF L!LoaderConstants
<1> DEFINE home == lHash[n] % L!TableSize
<1>3. home \in 0 .. L!TableSize - 1 BY <1>1, <1>2
<1>4. \A k \in 0 .. L!TableSize - 1 :
        L!Path(n)[k] = IF home + k < L!TableSize THEN home + k ELSE home + k - L!TableSize
  BY <1>1, <1>3 DEF L!Path
<1> HIDE DEF home
<1>5. ASSUME NEW i \in 0 .. L!TableSize - 1 PROVE \E k \in 0 .. L!TableSize - 1 : L!Path(n)[k] = i
  <2> DEFINE k == IF i < home THEN i + L!TableSize - home ELSE i - home
  <2>1. k \in 0 .. L!TableSize - 1 BY <1>1, <1>3
  <2>2. L!Path(n)[k] = i BY <1>1, <1>3, <1>4
  <2> QED BY <2>1, <2>2
<1> QED BY <1>1, <1>3, <1>4, <1>5

(* The least of some numbers is the one it is. *)
LEMMA FirstOfFacts ==
  ASSUME NEW Ts \in SUBSET Nat
  PROVE  /\ Ts # {} => L!FirstOf(Ts) \in Ts /\ \A j \in Ts : L!FirstOf(Ts) <= j
         /\ \A k \in Ts : (\A j \in Ts : k <= j) => L!FirstOf(Ts) = k
<1>1. ASSUME Ts # {} PROVE L!FirstOf(Ts) \in Ts /\ \A j \in Ts : L!FirstOf(Ts) <= j
  <2>1. PICK k \in Ts : \A j \in Ts : k <= j BY <1>1, LeastNumber
  <2> QED BY <2>1 DEF L!FirstOf
<1>2. ASSUME NEW k \in Ts, \A j \in Ts : k <= j PROVE L!FirstOf(Ts) = k
  <2>1. L!FirstOf(Ts) \in Ts /\ L!FirstOf(Ts) <= k BY <1>1
  <2>2. k <= L!FirstOf(Ts) /\ k \in Nat /\ L!FirstOf(Ts) \in Nat BY <1>2, <2>1
  <2> QED BY <2>1, <2>2
<1> QED BY <1>1, <1>2

(* What a slot may hold. *)
Owners == L!Loadable \cup {"compat"}
Filling == {L!Empty} \cup [name : L!NameSet, owner : Owners]
Tables == [0 .. L!TableSize - 1 -> Filling]

(* What a probe for n comes to in a table: a slot of n, or an empty one. *)
LEMMA ProbeFacts ==
  ASSUME L!LoaderConstants, lHash \in [L!NameSet -> Hashes], NEW n \in L!NameSet, NEW tab,
         L!Stopping(tab, n) # {}
  PROVE  \E k \in 0 .. L!TableSize - 1 :
           /\ L!Probe(tab, n) = L!Path(n)[k] /\ L!Stops(tab[L!Path(n)[k]], n)
           /\ \A j \in 0 .. k - 1 : ~ L!Stops(tab[L!Path(n)[j]], n)
<1> DEFINE k == L!FirstOf(L!Stopping(tab, n))
<1>1. L!TableSize \in Nat BY TableSizeFacts
<1>2. L!Stopping(tab, n) \in SUBSET Nat BY <1>1 DEF L!Stopping
<1>3. k \in L!Stopping(tab, n) /\ \A j \in L!Stopping(tab, n) : k <= j BY <1>2, FirstOfFacts
<1>4. k \in 0 .. L!TableSize - 1 /\ L!Stops(tab[L!Path(n)[k]], n) BY <1>3 DEF L!Stopping
<1>5. \A j \in 0 .. k - 1 : ~ L!Stops(tab[L!Path(n)[j]], n)
  <2> SUFFICES ASSUME NEW j \in 0 .. k - 1, L!Stops(tab[L!Path(n)[j]], n) PROVE FALSE OBVIOUS
  <2>1. j \in L!Stopping(tab, n) /\ ~ (k <= j) BY <1>1, <1>4 DEF L!Stopping
  <2> QED BY <1>3, <2>1
<1> QED BY <1>4, <1>5 DEF L!Probe

LEMMA ProbeIs ==
  ASSUME L!LoaderConstants, NEW n \in L!NameSet, NEW tab, NEW k \in 0 .. L!TableSize - 1,
         L!Stops(tab[L!Path(n)[k]], n), \A j \in 0 .. k - 1 : ~ L!Stops(tab[L!Path(n)[j]], n)
  PROVE  L!Probe(tab, n) = L!Path(n)[k] /\ L!Stopping(tab, n) # {}
<1>1. L!TableSize \in Nat BY TableSizeFacts
<1>2. L!Stopping(tab, n) \in SUBSET Nat /\ k \in L!Stopping(tab, n) BY <1>1 DEF L!Stopping
<1>3. \A j \in L!Stopping(tab, n) : k <= j BY <1>1 DEF L!Stopping
<1>4. L!FirstOf(L!Stopping(tab, n)) = k BY <1>2, <1>3, FirstOfFacts
<1> QED BY <1>2, <1>4 DEF L!Probe

(* There are no more names than entries of the symbol tables. *)
LEMMA NameFacts ==
  ASSUME L!LoaderConstants
  PROVE  /\ IsFiniteSet(L!NameSet) /\ Cardinality(L!NameSet) <= Len(Names)
         /\ \A i \in 1 .. Len(Names) : Names[i] \in L!NameSet
         /\ \A n \in L!NameSet : \E i \in 1 .. Len(Names) : Names[i] = n
<1>1. /\ DOMAIN Names = 1 .. Len(Names) /\ Len(Names) \in Nat
      /\ Names \in [1 .. Len(Names) -> L!NameSet]
  BY DEF L!LoaderConstants
<1>2. L!NameSet = {Names[i] : i \in 1 .. Len(Names)} BY <1>1 DEF L!NameSet, L!ToSet
<1>3. Names \in Surjection(1 .. Len(Names), L!NameSet) BY <1>1, <1>2 DEF Surjection
<1>4. IsFiniteSet(1 .. Len(Names)) /\ Cardinality(1 .. Len(Names)) = Len(Names)
  <2>1. Len(Names) \in Int BY <1>1
  <2>2. /\ IsFiniteSet(1 .. Len(Names))
        /\ Cardinality(1 .. Len(Names)) = IF 1 > Len(Names) THEN 0 ELSE Len(Names) - 1 + 1
    BY <2>1, 1 \in Int, FS_Interval, Zenon
  <2> QED BY <1>1, <2>2
<1>5. IsFiniteSet(L!NameSet) /\ Cardinality(L!NameSet) <= Cardinality(1 .. Len(Names))
  BY <1>3, <1>4, FS_Surjection
<1> QED BY <1>1, <1>2, <1>4, <1>5

(* A table that holds, for each name offered so far, its first owner, in    *)
(* the slot a probe for the name comes to.                                  *)
Holds(tab, off) ==
  /\ tab \in Tables /\ off \in [L!NameSet -> Owners \cup {"none"}]
  /\ \A i \in 0 .. L!TableSize - 1 :
       tab[i] # L!Empty => /\ tab[i].owner = off[tab[i].name]
                           /\ L!Probe(tab, tab[i].name) = i
  /\ \A n \in L!NameSet :
       off[n] # "none" => \E i \in 0 .. L!TableSize - 1 : tab[i] # L!Empty /\ tab[i].name = n

LEMMA OwnersAre == ASSUME L!LoaderConstants PROVE "none" \notin Owners /\ "zero" \notin Owners
BY DEF L!LoaderConstants, Owners

LEMMA EntryFacts ==
  ASSUME NEW tab \in Tables, NEW i \in 0 .. L!TableSize - 1
  PROVE  /\ tab[i] \in Filling
         /\ tab[i] # L!Empty => /\ tab[i].name \in L!NameSet /\ tab[i].owner \in Owners
                                /\ tab[i] = [name |-> tab[i].name, owner |-> tab[i].owner]
<1>1. tab[i] \in Filling BY DEF Tables
<1> QED BY <1>1 DEF Filling

(* Names have a slot each, so one is empty. *)
LEMMA RoomLeft ==
  ASSUME L!LoaderConstants, NEW tab, NEW off, Holds(tab, off)
  PROVE  \E i \in 0 .. L!TableSize - 1 : tab[i] = L!Empty
<1> SUFFICES ASSUME \A i \in 0 .. L!TableSize - 1 : tab[i] # L!Empty PROVE FALSE OBVIOUS
<1>1. L!TableSize \in Nat /\ L!TableSize >= 1 /\ L!TableSize >= 2 * Len(Names) /\ Len(Names) \in Nat
  BY TableSizeFacts, WantedFacts
<1> DEFINE names == [i \in 0 .. L!TableSize - 1 |-> tab[i].name]
<1>2. \A i \in 0 .. L!TableSize - 1 : names[i] \in L!NameSet /\ L!Probe(tab, names[i]) = i
  BY EntryFacts DEF Holds
<1>3. names \in Injection(0 .. L!TableSize - 1, L!NameSet)
  <2>1. names \in [0 .. L!TableSize - 1 -> L!NameSet] BY <1>2
  <2>2. \A i, j \in 0 .. L!TableSize - 1 : names[i] = names[j] => i = j BY <1>2
  <2> QED BY <2>1, <2>2 DEF Injection, IsInjective
<1> HIDE DEF names
<1>4. Cardinality(0 .. L!TableSize - 1) <= Cardinality(L!NameSet) BY <1>3, NameFacts, FS_Injection
<1>5. Cardinality(0 .. L!TableSize - 1) = L!TableSize
  <2>1. L!TableSize - 1 \in Int BY <1>1
  <2>2. Cardinality(0 .. L!TableSize - 1)
          = IF 0 > L!TableSize - 1 THEN 0 ELSE L!TableSize - 1 - 0 + 1
    BY <2>1, 0 \in Int, FS_Interval, Zenon
  <2> QED BY <1>1, <2>2
<1>6. Cardinality(L!NameSet) <= Len(Names) /\ Cardinality(L!NameSet) \in Nat
  BY NameFacts, FS_CardinalityType
<1> QED BY <1>1, <1>4, <1>5, <1>6

(* A probe finds the owner, or an empty slot where the name would go. *)
LEMMA Found ==
  ASSUME L!LoaderConstants, lHash \in [L!NameSet -> Hashes], NEW tab, NEW off, Holds(tab, off),
         NEW n \in L!NameSet
  PROVE  /\ L!Stopping(tab, n) # {} /\ L!Probe(tab, n) \in 0 .. L!TableSize - 1
         /\ off[n] = "none" => tab[L!Probe(tab, n)] = L!Empty
         /\ off[n] # "none" => tab[L!Probe(tab, n)] = [name |-> n, owner |-> off[n]]
<1>1. L!Stopping(tab, n) # {}
  <2>1. PICK i \in 0 .. L!TableSize - 1 : tab[i] = L!Empty BY RoomLeft
  <2>2. PICK k \in 0 .. L!TableSize - 1 : L!Path(n)[k] = i BY SlotFacts
  <2>3. L!Stops(tab[L!Path(n)[k]], n) BY <2>1, <2>2 DEF L!Stops
  <2> QED BY <2>3 DEF L!Stopping
<1>2. PICK k \in 0 .. L!TableSize - 1 :
        L!Probe(tab, n) = L!Path(n)[k] /\ L!Stops(tab[L!Path(n)[k]], n)
  BY <1>1, ProbeFacts
<1>3. L!Probe(tab, n) \in 0 .. L!TableSize - 1 BY <1>2, SlotFacts
<1>4. ASSUME off[n] = "none" PROVE tab[L!Probe(tab, n)] = L!Empty
  <2> SUFFICES ASSUME tab[L!Probe(tab, n)] # L!Empty PROVE FALSE OBVIOUS
  <2>1. tab[L!Probe(tab, n)].name = n BY <1>2 DEF L!Stops
  <2>2. tab[L!Probe(tab, n)].owner = off[n] BY <1>3, <2>1 DEF Holds
  <2>3. tab[L!Probe(tab, n)].owner \in Owners BY <1>3, EntryFacts DEF Holds
  <2> QED BY <1>4, <2>2, <2>3, OwnersAre
<1>5. ASSUME off[n] # "none" PROVE tab[L!Probe(tab, n)] = [name |-> n, owner |-> off[n]]
  <2>1. PICK i \in 0 .. L!TableSize - 1 : tab[i] # L!Empty /\ tab[i].name = n BY <1>5 DEF Holds
  <2>2. L!Probe(tab, n) = i /\ tab[i].owner = off[n] BY <2>1 DEF Holds
  <2> QED BY <2>1, <2>2, EntryFacts DEF Holds
<1> QED BY <1>1, <1>3, <1>4, <1>5

(* What is offered first stays. *)
With(off, n, owner) == [off EXCEPT ![n] = IF @ = "none" THEN owner ELSE @]

LEMMA InsertKeeps ==
  ASSUME L!LoaderConstants, lHash \in [L!NameSet -> Hashes], NEW tab, NEW off, Holds(tab, off),
         NEW n \in L!NameSet, NEW owner \in Owners
  PROVE  Holds(L!Insert(tab, n, owner), With(off, n, owner))
<1> DEFINE p == L!Probe(tab, n)
           e == [name |-> n, owner |-> owner]
           new == [tab EXCEPT ![p] = e]
           off2 == With(off, n, owner)
<1>0. /\ tab \in Tables /\ off \in [L!NameSet -> Owners \cup {"none"}] /\ "none" \notin Owners
      /\ L!TableSize \in Nat
  BY OwnersAre, TableSizeFacts DEF Holds
<1>1. /\ L!Stopping(tab, n) # {} /\ p \in 0 .. L!TableSize - 1
      /\ off[n] = "none" => tab[p] = L!Empty
      /\ off[n] # "none" => tab[p] = [name |-> n, owner |-> off[n]]
  BY Found
<1>2. tab # <<>> BY <1>0, TableSizeFacts DEF Tables
<1>3. owner # "zero" BY OwnersAre
<1>4. L!Insert(tab, n, owner) = IF tab[p] = L!Empty THEN new ELSE tab
  BY <1>1, <1>2, <1>3 DEF L!Insert
<1>5. /\ off2 \in [L!NameSet -> Owners \cup {"none"}]
      /\ off2[n] = IF off[n] = "none" THEN owner ELSE off[n]
      /\ \A o \in L!NameSet \ {n} : off2[o] = off[o]
  BY <1>0 DEF With
<1>6. CASE off[n] # "none"
  <2>1. tab[p] # L!Empty
    <3>1. off[n] \in Owners BY <1>0, <1>6
    <3>2. off[n] # "zero" BY <3>1, OwnersAre
    <3> QED BY <1>1, <1>6, <3>2 DEF L!Empty
  <2>2. off2 = off BY <1>0, <1>6 DEF With
  <2>3. L!Insert(tab, n, owner) = tab BY <1>4, <2>1
  <2> QED BY <2>2, <2>3
<1>7. CASE off[n] = "none"
  <2>1. L!Insert(tab, n, owner) = new /\ tab[p] = L!Empty BY <1>1, <1>4, <1>7
  <2>2. e \in Filling /\ e # L!Empty BY <1>3 DEF Filling, L!Empty
  <2>3. new \in Tables BY <1>0, <1>1, <2>2 DEF Tables
  <2>4. new[p] = e /\ \A i \in 0 .. L!TableSize - 1 : i # p => new[i] = tab[i]
    BY <1>0, <1>1 DEF Tables
  <2> HIDE DEF new
  <2>5. L!Probe(new, n) = p
    <3>1. PICK k \in 0 .. L!TableSize - 1 :
             /\ p = L!Path(n)[k] /\ \A j \in 0 .. k - 1 : ~ L!Stops(tab[L!Path(n)[j]], n)
      BY <1>1, ProbeFacts
    <3>2. L!Stops(new[L!Path(n)[k]], n) BY <2>4, <3>1 DEF L!Stops
    <3>3. ASSUME NEW j \in 0 .. k - 1 PROVE ~ L!Stops(new[L!Path(n)[j]], n)
      <4>1. L!Path(n)[j] \in 0 .. L!TableSize - 1 BY <1>0, SlotFacts
      <4>2. ~ L!Stops(tab[L!Path(n)[j]], n) BY <3>1
      <4>3. L!Path(n)[j] # p BY <2>1, <4>2 DEF L!Stops
      <4> QED BY <2>4, <4>1, <4>2, <4>3
    <3> QED BY <3>1, <3>2, <3>3, ProbeIs
  <2>6. ASSUME NEW i \in 0 .. L!TableSize - 1, tab[i] # L!Empty
        PROVE  /\ i # p /\ new[i] = tab[i] /\ tab[i].name \in L!NameSet \ {n}
               /\ L!Probe(new, tab[i].name) = i
    <3> DEFINE o == tab[i].name
    <3>1. i # p /\ new[i] = tab[i] BY <2>1, <2>4, <2>6
    <3>2. o \in L!NameSet /\ tab[i].owner \in Owners BY <1>0, <2>6, EntryFacts
    <3>3. tab[i].owner = off[o] /\ L!Probe(tab, o) = i BY <2>6 DEF Holds
    <3>4. o # n BY <1>0, <1>7, <3>2, <3>3
    <3> HIDE DEF o
    <3>5. L!Stopping(tab, o) # {} BY <3>2, Found
    <3>6. PICK k \in 0 .. L!TableSize - 1 :
             /\ i = L!Path(o)[k] /\ L!Stops(tab[L!Path(o)[k]], o)
             /\ \A j \in 0 .. k - 1 : ~ L!Stops(tab[L!Path(o)[j]], o)
      BY <3>2, <3>3, <3>5, ProbeFacts
    <3>7. ASSUME NEW j \in 0 .. k - 1 PROVE ~ L!Stops(new[L!Path(o)[j]], o)
      <4>1. L!Path(o)[j] \in 0 .. L!TableSize - 1 BY <1>0, <3>2, SlotFacts
      <4>2. ~ L!Stops(tab[L!Path(o)[j]], o) BY <3>6
      <4>3. L!Path(o)[j] # p BY <2>1, <4>2 DEF L!Stops
      <4> QED BY <2>4, <4>1, <4>2, <4>3
    <3>8. L!Stops(new[L!Path(o)[k]], o) BY <3>1, <3>6
    <3>9. L!Probe(new, o) = i BY <3>2, <3>6, <3>7, <3>8, ProbeIs
    <3> QED BY <3>1, <3>2, <3>4, <3>9 DEF o
  <2>7. ASSUME NEW i \in 0 .. L!TableSize - 1, new[i] # L!Empty
        PROVE  new[i].owner = off2[new[i].name] /\ L!Probe(new, new[i].name) = i
    <3>1. CASE i = p BY <1>5, <1>7, <2>4, <2>5, <3>1
    <3>2. CASE i # p
      <4>1. tab[i] # L!Empty /\ new[i] = tab[i] BY <2>4, <2>7, <3>2
      <4>2. tab[i].name \in L!NameSet \ {n} /\ L!Probe(new, tab[i].name) = i BY <2>6, <4>1
      <4>3. tab[i].owner = off[tab[i].name] BY <4>1 DEF Holds
      <4> QED BY <1>5, <4>1, <4>2, <4>3
    <3> QED BY <3>1, <3>2
  <2>8. ASSUME NEW o \in L!NameSet, off2[o] # "none"
        PROVE  \E i \in 0 .. L!TableSize - 1 : new[i] # L!Empty /\ new[i].name = o
    <3>1. CASE o = n BY <1>1, <2>2, <2>4, <3>1
    <3>2. CASE o # n
      <4>1. off[o] # "none" BY <1>5, <2>8, <3>2
      <4>2. PICK i \in 0 .. L!TableSize - 1 : tab[i] # L!Empty /\ tab[i].name = o
        BY <4>1 DEF Holds
      <4>3. new[i] = tab[i] BY <2>6, <4>2
      <4> QED BY <4>2, <4>3
    <3> QED BY <3>1, <3>2
  <2> QED BY <1>5, <2>1, <2>3, <2>7, <2>8 DEF Holds
<1> QED BY <1>6, <1>7

(* A table, or none once an insertion has failed. *)
Built == Tables \cup {<<>>}

LEMMA InsertType ==
  ASSUME L!LoaderConstants, lHash \in [L!NameSet -> Hashes], NEW tab \in Built,
         NEW n \in L!NameSet, NEW owner \in Owners \cup {"zero"}
  PROVE  L!Insert(tab, n, owner) \in Built
<1>1. CASE tab = <<>> \/ owner = "zero" \/ L!Stopping(tab, n) = {}
  BY <1>1 DEF L!Insert, Built
<1>2. CASE ~ (tab = <<>> \/ owner = "zero" \/ L!Stopping(tab, n) = {})
  <2>1. tab \in Tables /\ owner \in Owners /\ L!Stopping(tab, n) # {} BY <1>2 DEF Built
  <2>2. L!Probe(tab, n) \in 0 .. L!TableSize - 1 BY <2>1, ProbeFacts, SlotFacts
  <2> DEFINE e == [name |-> n, owner |-> owner]
  <2>3. e \in Filling BY <2>1 DEF Filling
  <2>4. [tab EXCEPT ![L!Probe(tab, n)] = e] \in Tables BY <2>1, <2>2, <2>3 DEF Tables
  <2>5. L!Insert(tab, n, owner) \in {[tab EXCEPT ![L!Probe(tab, n)] = e], tab}
    BY <1>2 DEF L!Insert
  <2> QED BY <2>1, <2>4, <2>5 DEF Built
<1> QED BY <1>1, <1>2

Offers == [L!NameSet -> Owners \cup {"none", "zero"}]

(* One name of a provider after the other. *)
PutIn(tab, offers, i) ==
  IF offers[Names[i]] = "none" THEN tab ELSE L!Insert(tab, Names[i], offers[Names[i]])

LEMMA InsertAllSteps ==
  ASSUME L!LoaderConstants, lHash \in [L!NameSet -> Hashes], NEW tab \in Built, NEW offers \in Offers
  PROVE  \E filled \in [0 .. Len(Names) -> Built] :
           /\ filled[0] = tab
           /\ \A i \in 1 .. Len(Names) : filled[i] = PutIn(filled[i - 1], offers, i)
           /\ L!InsertAll(tab, offers) = filled[Len(Names)]
<1>0. Len(Names) \in Nat /\ \A i \in 1 .. Len(Names) : Names[i] \in L!NameSet
  BY WantedFacts, NameFacts
<1> DEFINE turn == [i \in 1 .. Len(Names) |-> [x \in Built |-> PutIn(x, offers, i)]]
           Body(f) == [i \in 0 .. Len(Names) |->
                         IF i = 0 THEN tab
                         ELSE IF offers[Names[i]] = "none" THEN f[i - 1]
                         ELSE L!Insert(f[i - 1], Names[i], offers[Names[i]])]
           filled == CHOOSE f : f = Body(f)
<1>1. turn \in [1 .. Len(Names) -> [Built -> Built]]
  <2>1. ASSUME NEW i \in 1 .. Len(Names), NEW x \in Built PROVE PutIn(x, offers, i) \in Built
    <3>1. CASE offers[Names[i]] = "none" BY <3>1 DEF PutIn
    <3>2. CASE offers[Names[i]] # "none"
      <4>1. Names[i] \in L!NameSet /\ offers[Names[i]] \in Owners \cup {"zero"}
        BY <1>0, <3>2 DEF Offers
      <4> QED BY <3>2, <4>1, InsertType DEF PutIn
    <3> QED BY <3>1, <3>2
  <2> QED BY <2>1
<1>2. PICK g \in [0 .. Len(Names) -> Built] : Repeats(g, Len(Names), tab, turn)
  BY <1>0, <1>1, Repeated
<1>3. ASSUME NEW i \in 1 .. Len(Names) PROVE g[i] = PutIn(g[i - 1], offers, i)
  <2>1. g[i - 1] \in Built BY <1>0
  <2> QED BY <1>2, <2>1 DEF Repeats
<1>4. g = Body(g)
  <2>1. ASSUME NEW i \in 0 .. Len(Names) PROVE g[i] = Body(g)[i]
    <3>1. CASE i = 0 BY <1>2, <3>1 DEF Repeats
    <3>2. CASE i # 0
      <4>1. i \in 1 .. Len(Names) BY <1>0, <3>2
      <4> QED BY <1>3, <3>2, <4>1 DEF PutIn
    <3> QED BY <3>1, <3>2
  <2> QED BY <2>1
<1>5. filled = Body(filled) BY <1>4
<1>6. L!InsertAll(tab, offers) = filled[Len(Names)] BY DEF L!InsertAll
<1> HIDE DEF filled
<1>7. filled[0] = tab BY <1>0, <1>5
<1>8. ASSUME NEW i \in 1 .. Len(Names) PROVE filled[i] = PutIn(filled[i - 1], offers, i)
  <2>1. i \in 0 .. Len(Names) /\ i # 0 BY <1>0
  <2> QED BY <1>5, <2>1 DEF PutIn
<1>9. \A i \in 0 .. Len(Names) : filled[i] \in Built
  <2> DEFINE Ts == {i \in 0 .. Len(Names) : filled[i] \in Built}
  <2>1. 0 \in Ts BY <1>0, <1>7
  <2>2. ASSUME NEW i \in 0 .. Len(Names), i > 0, i - 1 \in Ts PROVE i \in Ts
    <3>1. i \in 1 .. Len(Names) /\ filled[i - 1] \in Built BY <1>0, <2>2
    <3>2. turn[i][filled[i - 1]] = PutIn(filled[i - 1], offers, i) BY <3>1
    <3>3. turn[i][filled[i - 1]] \in Built BY <1>1, <3>1
    <3>4. filled[i] \in Built BY <1>8, <3>1, <3>2, <3>3
    <3> QED BY <3>4
  <2> HIDE DEF Ts
  <2>3. \A i \in 0 .. Len(Names) : i \in Ts BY <1>0, <2>1, <2>2, UpTo
  <2> QED BY <2>3 DEF Ts
<1>10. filled \in [0 .. Len(Names) -> Built]
  <2>1. filled = [i \in 0 .. Len(Names) |-> filled[i]] BY <1>5
  <2> QED BY <1>9, <2>1
<1> QED BY <1>6, <1>7, <1>8, <1>10

(* What is known once a provider's names are in as well. *)
Offered(off, offers) == [n \in L!NameSet |-> IF off[n] # "none" THEN off[n] ELSE offers[n]]

LEMMA InsertAllHolds ==
  ASSUME L!LoaderConstants, lHash \in [L!NameSet -> Hashes], NEW tab \in Built, NEW offers \in Offers,
         NEW off, tab = <<>> \/ Holds(tab, off)
  PROVE  \/ L!InsertAll(tab, offers) = <<>>
         \/ Holds(L!InsertAll(tab, offers), Offered(off, offers))
<1>0. /\ Len(Names) \in Nat /\ \A i \in 1 .. Len(Names) : Names[i] \in L!NameSet
      /\ \A n \in L!NameSet : \E i \in 1 .. Len(Names) : Names[i] = n
  BY WantedFacts, NameFacts
<1>1. PICK filled \in [0 .. Len(Names) -> Built] :
        /\ filled[0] = tab
        /\ \A i \in 1 .. Len(Names) : filled[i] = PutIn(filled[i - 1], offers, i)
        /\ L!InsertAll(tab, offers) = filled[Len(Names)]
  BY InsertAllSteps
<1> DEFINE Upto(i) == [n \in L!NameSet |->
                         IF off[n] # "none" THEN off[n]
                         ELSE IF \E k \in 1 .. i : Names[k] = n THEN offers[n] ELSE "none"]
           Ts == {i \in 0 .. Len(Names) : filled[i] = <<>> \/ Holds(filled[i], Upto(i))}
<1>2. 0 \in Ts
  <2>1. CASE tab = <<>> BY <1>0, <1>1, <2>1
  <2>2. CASE Holds(tab, off)
    <3>1. off \in [L!NameSet -> Owners \cup {"none"}] BY <2>2 DEF Holds
    <3>2. \A n \in L!NameSet : Upto(0)[n] = off[n] OBVIOUS
    <3>3. Upto(0) = off BY <3>1, <3>2
    <3> QED BY <1>0, <1>1, <2>2, <3>3
  <2> QED BY <2>1, <2>2
<1>3. ASSUME NEW i \in 0 .. Len(Names), i > 0, i - 1 \in Ts PROVE i \in Ts
  <2> DEFINE n == Names[i]
  <2>1. i \in 1 .. Len(Names) /\ n \in L!NameSet BY <1>0, <1>3
  <2>2. filled[i] = PutIn(filled[i - 1], offers, i) BY <1>1, <2>1
  <2>3. \A o \in L!NameSet : (\E k \in 1 .. i : Names[k] = o) <=>
                             (o = n \/ \E k \in 1 .. i - 1 : Names[k] = o)
    BY <2>1
  <2>4. offers[n] \in Owners \cup {"none", "zero"} BY <2>1 DEF Offers
  <2>5. CASE offers[n] = "none"
    <3>1. filled[i] = filled[i - 1] BY <2>2, <2>5 DEF PutIn
    <3>2. \A o \in L!NameSet : Upto(i)[o] = Upto(i - 1)[o] BY <2>3, <2>5
    <3>3. Upto(i) = Upto(i - 1) BY <3>2
    <3> QED BY <1>3, <3>1, <3>3
  <2>6. CASE offers[n] = "zero" \/ filled[i - 1] = <<>>
    <3>1. CASE offers[n] = "none" BY <2>5, <3>1
    <3>2. CASE offers[n] # "none"
      <4>1. filled[i] = <<>> BY <2>2, <2>6, <3>2 DEF PutIn, L!Insert
      <4> QED BY <4>1
    <3> QED BY <3>1, <3>2
  <2>7. CASE offers[n] \in Owners /\ filled[i - 1] # <<>>
    <3>1. offers[n] # "none" BY <2>7, OwnersAre
    <3>2. Holds(filled[i - 1], Upto(i - 1)) BY <1>3, <2>7
    <3>3. filled[i] = L!Insert(filled[i - 1], n, offers[n]) BY <2>2, <3>1 DEF PutIn
    <3>4. Holds(filled[i], With(Upto(i - 1), n, offers[n])) BY <2>1, <2>7, <3>2, <3>3, InsertKeeps
    <3>5. \A o \in L!NameSet : With(Upto(i - 1), n, offers[n])[o] = Upto(i)[o]
      BY <2>1, <2>3 DEF With
    <3>6. With(Upto(i - 1), n, offers[n]) = Upto(i) BY <3>5 DEF With
    <3> QED BY <3>4, <3>6
  <2> QED BY <2>4, <2>5, <2>6, <2>7
<1>4. Len(Names) \in Ts
  <2> HIDE DEF Ts
  <2>1. \A i \in 0 .. Len(Names) : i \in Ts BY <1>0, <1>2, <1>3, UpTo
  <2> QED BY <1>0, <2>1
<1>5. Upto(Len(Names)) = Offered(off, offers)
  <2>1. \A n \in L!NameSet : Upto(Len(Names))[n] = Offered(off, offers)[n] BY <1>0 DEF Offered
  <2> QED BY <2>1 DEF Offered
<1> QED BY <1>1, <1>4, <1>5

(* The first owner of each name among the port's imports and the first j    *)
(* modules, for what module m imports.                                      *)
Among(m, n, j) == {k \in L!Offering(m, n) : k <= j}
Known(m, j) ==
  [n \in L!NameSet |-> IF compat[n] # "none" THEN compat[n]
                     ELSE IF Among(m, n, j) = {} THEN "none" ELSE lList[L!FirstOf(Among(m, n, j))]]

(* One provider after the other. *)
PutAll(tab, m, j) ==
  IF lList[j] = m THEN tab ELSE L!InsertAll(tab, L!Exports(lList[j]))

LEMMA ExportsAre ==
  ASSUME L!LoaderConstants, NEW m \in L!Loadable
  PROVE  L!Exports(m) \in Offers
BY DEF L!Exports, Offers, Owners

LEMMA InsertAllType ==
  ASSUME L!LoaderConstants, lHash \in [L!NameSet -> Hashes], NEW tab \in Built, NEW offers \in Offers
  PROVE  L!InsertAll(tab, offers) \in Built
<1>1. Len(Names) \in 0 .. Len(Names) BY WantedFacts
<1> QED BY <1>1, InsertAllSteps

(* The empty table knows nothing. *)
LEMMA BlankHolds ==
  ASSUME L!LoaderConstants
  PROVE  L!Blank \in Built /\ Holds(L!Blank, [n \in L!NameSet |-> "none"])
<1>1. L!Blank \in Tables BY DEF L!Blank, Tables, Filling
<1>2. \A i \in 0 .. L!TableSize - 1 : L!Blank[i] = L!Empty BY DEF L!Blank
<1> QED BY <1>1, <1>2 DEF Built, Holds

LEMMA CompatOffers ==
  ASSUME L!LoaderConstants, L!SymbolsOK
  PROVE  compat \in Offers
<1>1. ASSUME NEW n \in L!NameSet PROVE compat[n] \in Owners \cup {"none", "zero"}
  BY DEF L!SymbolsOK, Owners
<1> QED BY <1>1 DEF L!SymbolsOK, Offers

LEMMA TableSteps ==
  ASSUME L!LoaderConstants, L!SymbolsOK, NEW m
  PROVE  \E built \in [0 .. Len(lList) -> Built] :
           /\ built[0] = L!InsertAll(L!Blank, compat)
           /\ \A j \in 1 .. Len(lList) : built[j] = PutAll(built[j - 1], m, j)
           /\ L!Table(m) = built[Len(lList)]
<1>0. /\ Len(lList) \in Nat /\ \A j \in 1 .. Len(lList) : lList[j] \in L!Loadable
      /\ lHash \in [L!NameSet -> Hashes]
  BY DEF L!SymbolsOK
<1> DEFINE start == L!InsertAll(L!Blank, compat)
           turn == [j \in 1 .. Len(lList) |-> [x \in Built |-> PutAll(x, m, j)]]
           Body(f) == [j \in 0 .. Len(lList) |->
                         IF j = 0 THEN L!InsertAll(L!Blank, compat)
                         ELSE IF lList[j] = m THEN f[j - 1]
                         ELSE L!InsertAll(f[j - 1], L!Exports(lList[j]))]
           built == CHOOSE f : f = Body(f)
<1>1. start \in Built BY <1>0, BlankHolds, CompatOffers, InsertAllType
<1> HIDE DEF start
<1>2. turn \in [1 .. Len(lList) -> [Built -> Built]]
  <2>1. ASSUME NEW j \in 1 .. Len(lList), NEW x \in Built PROVE PutAll(x, m, j) \in Built
    <3>1. L!Exports(lList[j]) \in Offers BY <1>0, ExportsAre
    <3> QED BY <1>0, <3>1, InsertAllType DEF PutAll
  <2> QED BY <2>1
<1>3. PICK g \in [0 .. Len(lList) -> Built] : Repeats(g, Len(lList), start, turn)
  BY <1>0, <1>1, <1>2, Repeated
<1>4. ASSUME NEW j \in 1 .. Len(lList) PROVE g[j] = PutAll(g[j - 1], m, j)
  <2>1. g[j - 1] \in Built BY <1>0
  <2> QED BY <1>3, <2>1 DEF Repeats
<1>5. g = Body(g)
  <2>1. ASSUME NEW j \in 0 .. Len(lList) PROVE g[j] = Body(g)[j]
    <3>1. CASE j = 0 BY <1>3, <3>1 DEF Repeats, start
    <3>2. CASE j # 0
      <4>1. j \in 1 .. Len(lList) BY <1>0, <3>2
      <4> QED BY <1>4, <3>2, <4>1 DEF PutAll
    <3> QED BY <3>1, <3>2
  <2> QED BY <2>1
<1>6. built = Body(built) BY <1>5
<1>7. L!Table(m) = built[Len(lList)] BY DEF L!Table
<1> HIDE DEF built
<1>8. built[0] = start BY <1>0, <1>6 DEF start
<1>9. ASSUME NEW j \in 1 .. Len(lList) PROVE built[j] = PutAll(built[j - 1], m, j)
  <2>1. j \in 0 .. Len(lList) /\ j # 0 BY <1>0
  <2> QED BY <1>6, <2>1 DEF PutAll
<1>10. \A j \in 0 .. Len(lList) : built[j] \in Built
  <2> DEFINE Ts == {j \in 0 .. Len(lList) : built[j] \in Built}
  <2>1. 0 \in Ts BY <1>0, <1>1, <1>8
  <2>2. ASSUME NEW j \in 0 .. Len(lList), j > 0, j - 1 \in Ts PROVE j \in Ts
    <3>1. j \in 1 .. Len(lList) /\ built[j - 1] \in Built BY <1>0, <2>2
    <3>2. turn[j][built[j - 1]] = PutAll(built[j - 1], m, j) BY <3>1
    <3>3. turn[j][built[j - 1]] \in Built BY <1>2, <3>1
    <3>4. built[j] \in Built BY <1>9, <3>1, <3>2, <3>3
    <3> QED BY <3>4
  <2> HIDE DEF Ts
  <2>3. \A j \in 0 .. Len(lList) : j \in Ts BY <1>0, <2>1, <2>2, UpTo
  <2> QED BY <2>3 DEF Ts
<1>11. built \in [0 .. Len(lList) -> Built]
  <2>1. built = [j \in 0 .. Len(lList) |-> built[j]] BY <1>6
  <2> QED BY <1>10, <2>1
<1> QED BY <1>7, <1>8, <1>9, <1>11 DEF start

(* What the next provider adds to what is known. *)
LEMMA KnownNext ==
  ASSUME L!LoaderConstants, L!SymbolsOK, NEW m, NEW j \in 1 .. Len(lList)
  PROVE  Known(m, j) = IF lList[j] = m THEN Known(m, j - 1)
                       ELSE Offered(Known(m, j - 1), L!Exports(lList[j]))
<1> DEFINE later == IF lList[j] = m THEN Known(m, j - 1)
                   ELSE Offered(Known(m, j - 1), L!Exports(lList[j]))
<1>0. Len(lList) \in Nat /\ \A k \in 1 .. Len(lList) : lList[k] \in L!Loadable BY DEF L!SymbolsOK
<1>1. ASSUME NEW n \in L!NameSet PROVE Known(m, j)[n] = later[n]
  <2> DEFINE upto == Among(m, n, j)
             below == Among(m, n, j - 1)
  <2>1. upto \in SUBSET Nat /\ upto \subseteq 1 .. Len(lList) BY <1>0 DEF Among, L!Offering
  <2>2. below \subseteq upto /\ \A k \in below : k < j BY <1>0 DEF Among, L!Offering
  <2>3. upto = IF lList[j] # m /\ symbols[lList[j]][n] = "def" THEN below \cup {j} ELSE below
    BY <1>0 DEF Among, L!Offering
  <2>4. L!Exports(lList[j])[n] = IF symbols[lList[j]][n] = "def" THEN lList[j] ELSE "none"
    BY DEF L!Exports
  <2>5. Known(m, j - 1)[n] = IF compat[n] # "none" THEN compat[n]
                             ELSE IF below = {} THEN "none" ELSE lList[L!FirstOf(below)]
    BY DEF Known
  <2>6. Known(m, j)[n] = IF compat[n] # "none" THEN compat[n]
                         ELSE IF upto = {} THEN "none" ELSE lList[L!FirstOf(upto)]
    BY DEF Known
  <2>7. Offered(Known(m, j - 1), L!Exports(lList[j]))[n] =
          IF Known(m, j - 1)[n] # "none" THEN Known(m, j - 1)[n] ELSE L!Exports(lList[j])[n]
    BY DEF Offered
  <2> HIDE DEF upto, below
  <2>8. CASE upto = below
    <3>1. CASE lList[j] = m BY <2>5, <2>6, <2>8, <3>1
    <3>2. CASE lList[j] # m
      <4>1. L!Exports(lList[j])[n] = "none"
        <5>1. j \notin below BY <2>2
        <5>2. symbols[lList[j]][n] # "def" BY <2>3, <2>8, <3>2, <5>1
        <5> QED BY <2>4, <5>2
      <4> QED BY <2>5, <2>6, <2>7, <2>8, <3>2, <4>1
    <3> QED BY <3>1, <3>2
  <2>9. CASE upto # below
    <3>1. lList[j] # m /\ symbols[lList[j]][n] = "def" /\ upto = below \cup {j} BY <2>3, <2>9
    <3>2. L!Exports(lList[j])[n] = lList[j] /\ lList[j] # "none"
      BY <1>0, <2>4, <3>1 DEF L!LoaderConstants
    <3>3. CASE below = {}
      <4>1. j \in upto /\ \A k \in upto : j <= k BY <3>1, <3>3
      <4>2. L!FirstOf(upto) = j BY <2>1, <4>1, FirstOfFacts
      <4> QED BY <2>5, <2>6, <2>7, <3>1, <3>2, <3>3, <4>1, <4>2
    <3>4. CASE below # {}
      <4>1. below \in SUBSET Nat BY <2>1, <2>2
      <4>2. L!FirstOf(below) \in below /\ \A k \in below : L!FirstOf(below) <= k BY <3>4, <4>1, FirstOfFacts
      <4>3. L!FirstOf(below) \in upto /\ \A k \in upto : L!FirstOf(below) <= k
        <5>1. L!FirstOf(below) < j /\ L!FirstOf(below) \in Nat BY <2>2, <4>1, <4>2
        <5> QED BY <2>2, <3>1, <4>2, <5>1
      <4>4. L!FirstOf(upto) = L!FirstOf(below) BY <2>1, <4>3, FirstOfFacts
      <4>5. lList[L!FirstOf(below)] # "none" BY <1>0, <2>1, <4>3 DEF L!LoaderConstants
      <4> QED BY <2>5, <2>6, <2>7, <3>1, <3>4, <4>3, <4>4, <4>5
    <3> QED BY <3>3, <3>4
  <2> QED BY <2>8, <2>9
<1>2. later = [n \in L!NameSet |-> later[n]] BY DEF Known, Offered
<1> QED BY <1>1, <1>2 DEF Known

(* The finished table holds what is known of all providers. *)
LEMMA TableHolds ==
  ASSUME L!LoaderConstants, L!SymbolsOK, NEW m
  PROVE  L!Table(m) = <<>> \/ Holds(L!Table(m), Known(m, Len(lList)))
<1>0. /\ Len(lList) \in Nat /\ \A j \in 1 .. Len(lList) : lList[j] \in L!Loadable
      /\ lHash \in [L!NameSet -> Hashes]
  BY DEF L!SymbolsOK
<1>1. PICK built \in [0 .. Len(lList) -> Built] :
        /\ built[0] = L!InsertAll(L!Blank, compat)
        /\ \A j \in 1 .. Len(lList) : built[j] = PutAll(built[j - 1], m, j)
        /\ L!Table(m) = built[Len(lList)]
  BY TableSteps
<1> DEFINE Ts == {j \in 0 .. Len(lList) : built[j] = <<>> \/ Holds(built[j], Known(m, j))}
<1>2. 0 \in Ts
  <2> DEFINE off == [n \in L!NameSet |-> "none"]
  <2>1. Offered(off, compat) = Known(m, 0)
    <3>1. \A n \in L!NameSet : Among(m, n, 0) = {} BY <1>0 DEF Among, L!Offering
    <3>2. \A n \in L!NameSet : Offered(off, compat)[n] = Known(m, 0)[n]
      BY <3>1 DEF Offered, Known
    <3> QED BY <3>2 DEF Offered, Known
  <2>2. \/ L!InsertAll(L!Blank, compat) = <<>>
        \/ Holds(L!InsertAll(L!Blank, compat), Offered(off, compat))
    <3> HIDE DEF off
    <3>1. L!Blank \in Built /\ Holds(L!Blank, off) BY BlankHolds DEF off
    <3> QED BY <1>0, <3>1, CompatOffers, InsertAllHolds
  <2> QED BY <1>0, <1>1, <2>1, <2>2
<1>3. ASSUME NEW j \in 0 .. Len(lList), j > 0, j - 1 \in Ts PROVE j \in Ts
  <2>1. j \in 1 .. Len(lList) /\ j - 1 \in 0 .. Len(lList) BY <1>0, <1>3
  <2>2. built[j] = PutAll(built[j - 1], m, j) BY <1>1, <2>1
  <2>3. built[j - 1] \in Built BY <2>1
  <2>4. built[j - 1] = <<>> \/ Holds(built[j - 1], Known(m, j - 1)) BY <1>3
  <2>5. CASE lList[j] = m
    <3>1. built[j] = built[j - 1] /\ Known(m, j) = Known(m, j - 1)
      BY <2>1, <2>2, <2>5, KnownNext DEF PutAll
    <3> QED BY <2>4, <3>1
  <2>6. CASE lList[j] # m
    <3>1. /\ built[j] = L!InsertAll(built[j - 1], L!Exports(lList[j]))
          /\ Known(m, j) = Offered(Known(m, j - 1), L!Exports(lList[j]))
      BY <2>1, <2>2, <2>6, KnownNext DEF PutAll
    <3>2. L!Exports(lList[j]) \in Offers BY <1>0, <2>1, ExportsAre
    <3>3. built[j] = <<>> \/ Holds(built[j], Known(m, j))
      BY <1>0, <2>3, <2>4, <3>1, <3>2, InsertAllHolds
    <3> QED BY <3>3
  <2> QED BY <2>5, <2>6
<1>4. Len(lList) \in Ts
  <2> HIDE DEF Ts
  <2>1. \A j \in 0 .. Len(lList) : j \in Ts BY <1>0, <1>2, <1>3, UpTo
  <2> QED BY <1>0, <2>1
<1> QED BY <1>1, <1>4

(* With the table or without memory for it, an import is bound as expected. *)
LEMMA BindFacts ==
  ASSUME L!LoaderConstants, L!SymbolsOK, NEW m \in L!Loadable, NEW room \in BOOLEAN,
         NEW n \in L!NameSet, symbols[m][n] = "undef"
  PROVE  L!Bind(m, room)[n] = L!Expected(m, n)
<1> DEFINE tab == IF room THEN L!Table(m) ELSE <<>>
           address == IF tab = <<>> THEN L!SlowLookUp(m, n) ELSE L!LookUp(tab, n)
           knows == Known(m, Len(lList))
<1>0. /\ Len(lList) \in Nat /\ \A j \in 1 .. Len(lList) : lList[j] \in L!Loadable
      /\ lHash \in [L!NameSet -> Hashes] /\ compat[n] \in {"none", "compat", "zero"}
  BY DEF L!SymbolsOK
<1>1. L!Bind(m, room)[n] = IF address = "zero" THEN "taint" ELSE address BY DEF L!Bind
<1>2. L!Offering(m, n) # {} => lList[L!FirstOf(L!Offering(m, n))] \in L!Loadable
  <2>1. L!Offering(m, n) \in SUBSET Nat /\ L!Offering(m, n) \subseteq 1 .. Len(lList)
    BY <1>0 DEF L!Offering
  <2> QED BY <1>0, <2>1, FirstOfFacts
<1>3. \A o \in L!Loadable : o \notin {"none", "zero", "taint"} BY DEF L!LoaderConstants
<1>4. CASE tab = <<>>
  <2>1. address = L!SlowLookUp(m, n) BY <1>4
  <2> HIDE DEF tab, address
  <2> QED BY <1>0, <1>1, <1>2, <1>3, <2>1 DEF L!SlowLookUp, L!Expected
<1>5. CASE tab # <<>>
  <2>1. tab = L!Table(m) BY <1>5
  <2>2. Holds(tab, knows) BY <1>5, <2>1, TableHolds
  <2>3. address = L!LookUp(tab, n) BY <1>5
  <2>4. knows[n] = IF compat[n] # "none" THEN compat[n]
                   ELSE IF L!Offering(m, n) = {} THEN "none" ELSE lList[L!FirstOf(L!Offering(m, n))]
    <3>1. Among(m, n, Len(lList)) = L!Offering(m, n) BY <1>0 DEF Among, L!Offering
    <3> QED BY <3>1 DEF Known
  <2> HIDE DEF tab, address, knows
  <2>5. knows[n] \in Owners \cup {"none"} BY <2>2 DEF Holds
  <2>6. address = IF knows[n] = "none" THEN "zero" ELSE knows[n]
    <3>1. /\ L!Stopping(tab, n) # {}
          /\ knows[n] = "none" => tab[L!Probe(tab, n)] = L!Empty
          /\ knows[n] # "none" => tab[L!Probe(tab, n)] = [name |-> n, owner |-> knows[n]]
      BY <1>0, <2>2, Found
    <3> QED BY <2>3, <3>1 DEF L!LookUp, L!Empty
  <2>7. compat[n] # "zero" BY <2>4, <2>5, OwnersAre
  <2> QED BY <1>0, <1>1, <1>2, <1>3, <2>4, <2>6, <2>7 DEF L!Expected
<1> QED BY <1>4, <1>5

(* Resolving binds every import of every library as expected. *)
LEMMA ResolveBinds ==
  ASSUME L!LoaderConstants, L!SymbolsOK, NEW room \in BOOLEAN, L!Resolve(room)
  PROVE  L!BoundToFirst'
<1>1. /\ symbols' = symbols /\ compat' = compat /\ lList' = lList
      /\ lGot' = [m \in L!Loadable |-> L!Bind(m, room)]
  BY DEF L!Resolve
<1>2. ASSUME NEW m \in L!Loadable, NEW n \in L!NameSet, symbols[m][n] = "undef"
      PROVE  lGot'[m][n] = L!Expected(m, n)
  BY <1>1, <1>2, BindFacts
<1>3. \A m \in L!Loadable, n \in L!NameSet : L!Expected(m, n)' = L!Expected(m, n)
  BY <1>1 DEF L!Expected, L!Offering
<1> QED BY <1>1, <1>2, <1>3 DEF L!BoundToFirst

(* What is bound stays bound, and to what it was expected. *)
LEMMA BoundStays ==
  ASSUME L!BoundToFirst, UNCHANGED <<symbols, compat, lList, lGot>>,
         lpc \in {"load", "resolve", "fatal"} => lpc' \in {"load", "resolve", "fatal"}
  PROVE  L!BoundToFirst'
<1>1. \A m \in L!Loadable, n \in L!NameSet : L!Expected(m, n)' = L!Expected(m, n)
  BY DEF L!Expected, L!Offering
<1> QED BY <1>1 DEF L!BoundToFirst

-----------------------------------------------------------------------------
(* The loader: its invariant *)

(* Nothing is loaded at the start, and there is something to load. *)
LEMMA BindInitInvariant == ASSUME L!LoaderConstants, L!Init PROVE L!BindInv
<1>1. [m \in L!Loadable |-> [n \in L!NameSet |-> "none"]] \in [L!Loadable -> L!SymbolTables]
  BY DEF L!SymbolTables
<1>2. <<>> \in Seq(L!Loadable) /\ Len(<<>>) < Len(Modules) BY DEF L!LoaderConstants
<1>3. L!SymbolsOK BY <1>1, <1>2 DEF L!Init, L!SymbolsOK
<1> QED BY <1>3 DEF L!Init, L!BindInv, L!BoundToFirst

(* Resolving is what binds; before it nothing is said, after it nothing     *)
(* changes.                                                                 *)
LEMMA BindStepInvariant == ASSUME L!LoaderConstants, L!BindInv, L!Next PROVE L!BindInv'
<1>0. L!SymbolsOK /\ L!BoundToFirst BY DEF L!BindInv
<1>1. CASE L!LoadFails
  BY <1>0, <1>1 DEF L!LoadFails, L!BindInv, L!SymbolsOK, L!BoundToFirst
<1>2. ASSUME NEW names \in L!SymbolTables, L!Load(names) PROVE L!BindInv'
  <2>1. /\ lpc = "load" /\ lList \in Seq(L!Loadable) /\ Len(lList) \in Nat
        /\ Len(lList) < Len(Modules) /\ symbols \in [L!Loadable -> L!SymbolTables]
    BY <1>0, <1>2 DEF L!Load, L!SymbolsOK
  <2>2. L!Loading \in L!Loadable BY <2>1 DEF L!LoaderConstants, L!Loading
  <2>3. lList' \in Seq(L!Loadable) /\ Len(lList') = Len(lList) + 1
    BY <1>2, <2>1, <2>2 DEF L!Load
  <2>4. symbols' \in [L!Loadable -> L!SymbolTables] BY <1>2, <2>1, <2>2 DEF L!Load
  <2>5. /\ lpc' = IF Len(lList') = Len(Modules) THEN "resolve" ELSE "load"
        /\ lHash' = lHash /\ compat' = compat
    BY <1>2 DEF L!Load
  <2>6. Len(Modules) \in Nat BY DEF L!LoaderConstants
  <2>7. L!SymbolsOK' BY <1>0, <2>1, <2>3, <2>4, <2>5, <2>6 DEF L!SymbolsOK
  <2>8. L!BoundToFirst' BY <2>5 DEF L!BoundToFirst
  <2> QED BY <2>7, <2>8 DEF L!BindInv
<1>3. ASSUME NEW room \in BOOLEAN, L!Resolve(room) PROVE L!BindInv'
  <2>1. L!SymbolsOK' BY <1>0, <1>3 DEF L!Resolve, L!SymbolsOK
  <2>2. L!BoundToFirst' BY <1>0, <1>3, ResolveBinds
  <2> QED BY <2>1, <2>2 DEF L!BindInv
<1>4. CASE \/ L!Finalize \/ L!RunDeferred
           \/ \E m \in L!Loadable : L!Construct(m)
           \/ \E slot \in 1 .. InitSlots : L!ConstructGame(slot)
           \/ \E stored \in BOOLEAN : L!NimbleOnLoad(stored)
           \/ \E recognised \in BOOLEAN : L!RunRegistrar(recognised)
           \/ \E n \in L!NameSet : L!DlSym(n)
  <2>1. /\ UNCHANGED <<symbols, compat, lHash, lList, lGot>>
        /\ lpc \notin {"load", "resolve", "fatal"} /\ lpc' # "load"
    BY <1>4 DEF L!Finalize, L!RunDeferred, L!Construct, L!ConstructGame, L!NimbleOnLoad,
                L!RunRegistrar, L!DlSym
  <2>2. L!SymbolsOK' BY <1>0, <2>1 DEF L!SymbolsOK
  <2>3. L!BoundToFirst' BY <1>0, <2>1, BoundStays
  <2> QED BY <2>2, <2>3 DEF L!BindInv
<1> QED BY <1>1, <1>2, <1>3, <1>4 DEF L!Next

(* A part at rest changes nothing its invariant is about. *)
LEMMA LoaderStutterInvariant == L!IInv /\ UNCHANGED loaderVars => L!IInv'
<1> SUFFICES ASSUME L!IInv, UNCHANGED loaderVars PROVE L!IInv' OBVIOUS
<1>1. L!OrderInv'
  BY DEF loaderVars, L!IInv, L!OrderInv, L!TypeOK, L!InOrder, L!InitsOnce, L!Passed,
         L!LibrariesRan
<1>2. L!SymbolsOK' BY DEF loaderVars, L!IInv, L!BindInv, L!SymbolsOK
<1>3. L!BoundToFirst' BY BoundStays DEF loaderVars, L!IInv, L!BindInv
<1> QED BY <1>1, <1>2, <1>3 DEF L!IInv, L!BindInv

(* Initialisers run in order: the libraries', then the game's, those that   *)
(* need the JavaVM last; and from so_resolve on each import is bound to the *)
(* first that offers it.                                                    *)
THEOREM LoaderInvariantHolds == Spec => []L!IInv
<1>1. L!LoaderConstants BY ServiceConstants
<1>2. Init => L!IInv BY <1>1, OrderInitInvariant, BindInitInvariant DEF Init, L!IInv
<1>3. L!IInv /\ L!Next => L!IInv' BY <1>1, OrderStepInvariant, BindStepInvariant DEF L!IInv
<1>4. L!IInv /\ [Next]_vars => L!IInv' BY <1>3, LoaderOrInput, LoaderStutterInvariant
<1> QED BY <1>2, <1>4, PTL DEF Spec

(* What the hash table binds is what the old linear search bound: the       *)
(* port's own function, else the first other library that exports the name, *)
(* else a tainted address, whatever the hash and with or without memory for *)
(* the table.  No initialiser runs in an unmapped image, none that needs    *)
(* the JavaVM runs before it is stored, and each has run once when the game *)
(* starts.                                                                  *)
THEOREM LoaderHolds == Spec => []LoaderSound
<1>1. L!IInv => LoaderSound
  BY DEF L!IInv, L!OrderInv, L!BindInv, LoaderSound, L!LoaderSound
<1> QED BY <1>1, LoaderInvariantHolds, PTL

-----------------------------------------------------------------------------
(* The pointer: what a frame of the pad is made of *)

(* A pad whose frame has at most n events so far. *)
Fits(s, n) == s \in P!Pads /\ s.stage < Len(P!Gesture(s.action)) /\ Len(s.out) <= n

(* What decides who may take the pointer. *)
Kept(s, t) ==
  /\ t.context = s.context /\ t.override = s.override /\ t.touch = s.touch
  /\ t.aDown = s.aDown /\ t.start = s.start

Running(s, t) == t.action = s.action /\ t.stage = s.stage

Events == [phase : {"down", "move", "up"}, by : {"drag", "tool", "touch", "cursor"}]

(* A pad with one field changed is a pad. *)
LEMMA PadFields ==
  ASSUME NEW s \in P!Pads
  PROVE  /\ \A v \in BOOLEAN : /\ [s EXCEPT !.override = v] \in P!Pads
                           /\ [s EXCEPT !.focus = v] \in P!Pads
                           /\ [s EXCEPT !.drag = v] \in P!Pads
                           /\ [s EXCEPT !.needsMove = v] \in P!Pads
                           /\ [s EXCEPT !.pending = v] \in P!Pads
                           /\ [s EXCEPT !.touch = v] \in P!Pads
                           /\ [s EXCEPT !.aDown = v] \in P!Pads
                           /\ [s EXCEPT !.shown = v] \in P!Pads
                           /\ [s EXCEPT !.back = v] \in P!Pads
                           /\ [s EXCEPT !.start = v] \in P!Pads
         /\ \A v \in {"menu", "select", "level"} : [s EXCEPT !.context = v] \in P!Pads
         /\ \A v \in Cells : [s EXCEPT !.cell = v] \in P!Pads
         /\ \A v \in Int : [s EXCEPT !.slot = v] \in P!Pads
         /\ \A v \in Cells \cup {"packet"} : [s EXCEPT !.at = v] \in P!Pads
         /\ \A v \in Nat : [s EXCEPT !.rearm = v] \in P!Pads
         /\ \A v \in SUBSET {"B", "X"} : [s EXCEPT !.taps = v] \in P!Pads
         /\ \A v \in {"none", "shovel", "plantfood"} : [s EXCEPT !.action = v] \in P!Pads
         /\ \A v \in Nat : [s EXCEPT !.stage = v] \in P!Pads
         /\ \A v \in Nat : [s EXCEPT !.delay = v] \in P!Pads
         /\ \A v \in {"auto", "hidden", "shown"} : [s EXCEPT !.policy = v] \in P!Pads
         /\ \A v \in Seq(Events) : [s EXCEPT !.out = v] \in P!Pads
         /\ \A v \in {"up", "down", "broken"} : [s EXCEPT !.finger = v] \in P!Pads
<1>1. ASSUME NEW v \in BOOLEAN PROVE [s EXCEPT !.override = v] \in P!Pads BY SMT DEF P!Pads
<1>2. ASSUME NEW v \in BOOLEAN PROVE [s EXCEPT !.focus = v] \in P!Pads BY SMT DEF P!Pads
<1>3. ASSUME NEW v \in BOOLEAN PROVE [s EXCEPT !.drag = v] \in P!Pads BY SMT DEF P!Pads
<1>4. ASSUME NEW v \in BOOLEAN PROVE [s EXCEPT !.needsMove = v] \in P!Pads BY SMT DEF P!Pads
<1>5. ASSUME NEW v \in BOOLEAN PROVE [s EXCEPT !.pending = v] \in P!Pads BY SMT DEF P!Pads
<1>6. ASSUME NEW v \in BOOLEAN PROVE [s EXCEPT !.touch = v] \in P!Pads BY SMT DEF P!Pads
<1>7. ASSUME NEW v \in BOOLEAN PROVE [s EXCEPT !.aDown = v] \in P!Pads BY SMT DEF P!Pads
<1>8. ASSUME NEW v \in BOOLEAN PROVE [s EXCEPT !.shown = v] \in P!Pads BY SMT DEF P!Pads
<1>9. ASSUME NEW v \in BOOLEAN PROVE [s EXCEPT !.back = v] \in P!Pads BY SMT DEF P!Pads
<1>10. ASSUME NEW v \in BOOLEAN PROVE [s EXCEPT !.start = v] \in P!Pads BY SMT DEF P!Pads
<1>12. ASSUME NEW v \in {"menu", "select", "level"} PROVE [s EXCEPT !.context = v] \in P!Pads BY SMT DEF P!Pads
<1>13. ASSUME NEW v \in Cells PROVE [s EXCEPT !.cell = v] \in P!Pads BY SMT DEF P!Pads
<1>14. ASSUME NEW v \in Int PROVE [s EXCEPT !.slot = v] \in P!Pads BY SMT DEF P!Pads
<1>15. ASSUME NEW v \in Cells \cup {"packet"} PROVE [s EXCEPT !.at = v] \in P!Pads BY SMT DEF P!Pads
<1>16. ASSUME NEW v \in Nat PROVE [s EXCEPT !.rearm = v] \in P!Pads BY SMT DEF P!Pads
<1>17. ASSUME NEW v \in SUBSET {"B", "X"} PROVE [s EXCEPT !.taps = v] \in P!Pads BY SMT DEF P!Pads
<1>18. ASSUME NEW v \in {"none", "shovel", "plantfood"} PROVE [s EXCEPT !.action = v] \in P!Pads BY SMT DEF P!Pads
<1>19. ASSUME NEW v \in Nat PROVE [s EXCEPT !.stage = v] \in P!Pads BY SMT DEF P!Pads
<1>20. ASSUME NEW v \in Nat PROVE [s EXCEPT !.delay = v] \in P!Pads BY SMT DEF P!Pads
<1>21. ASSUME NEW v \in {"auto", "hidden", "shown"} PROVE [s EXCEPT !.policy = v] \in P!Pads BY SMT DEF P!Pads
<1>22. ASSUME NEW v \in Seq(Events) PROVE [s EXCEPT !.out = v] \in P!Pads BY SMT DEF P!Pads, Events
<1>23. ASSUME NEW v \in {"up", "down", "broken"} PROVE [s EXCEPT !.finger = v] \in P!Pads BY SMT DEF P!Pads
<1> QED BY <1>1, <1>2, <1>3, <1>4, <1>5, <1>6, <1>7, <1>8, <1>9, <1>10, <1>12, <1>13, <1>14, <1>15, <1>16, <1>17, <1>18, <1>19, <1>20, <1>21, <1>22, <1>23, Zenon

(* An event is heard, and changes nothing else. *)
LEMMA EmitFacts ==
  ASSUME P!InputConstants, NEW n \in Nat, n < PadEvents, NEW s, Fits(s, n),
         NEW phase \in {"down", "move", "up"}, NEW by \in {"drag", "tool", "touch", "cursor"}
  PROVE  LET t == P!Emit(s, phase, by) IN
         /\ Fits(t, n + 1) /\ t.finger = P!After(s.finger, phase)
         /\ Kept(s, t) /\ Running(s, t)
         /\ t.drag = s.drag /\ t.rearm = s.rearm /\ t.pending = s.pending
         /\ t.cell = s.cell /\ t.at = s.at /\ t.slot = s.slot
<1> DEFINE e == [phase |-> phase, by |-> by]
           f == P!After(s.finger, phase)
           heard == Append(s.out, e)
           t == P!Emit(s, phase, by)
<1>1. Len(s.out) # PadEvents /\ s \in P!Pads /\ s.stage < Len(P!Gesture(s.action)) /\ Len(s.out) <= n
  BY DEF Fits, P!InputConstants
<1>2. e \in Events BY DEF Events
<1>3. f \in {"up", "down", "broken"} BY DEF P!After
<1>4. s.out \in Seq(Events) BY <1>1 DEF P!Pads, Events
<1>5. heard \in Seq(Events) /\ Len(heard) = Len(s.out) + 1 BY <1>2, <1>4
<1>6. t = [[s EXCEPT !.out = heard] EXCEPT !.finger = f] BY <1>1, Zenon DEF P!Emit
<1> HIDE DEF e, f, heard, t
<1>7. t \in P!Pads BY <1>1, <1>3, <1>5, <1>6, PadFields, Zenon
<1>8. t.out = heard /\ t.finger = f BY <1>1, <1>6 DEF P!Pads
<1>9. Kept(s, t) /\ Running(s, t) BY <1>1, <1>6 DEF P!Pads, Kept, Running
<1>10. /\ t.drag = s.drag /\ t.rearm = s.rearm /\ t.pending = s.pending
       /\ t.cell = s.cell /\ t.at = s.at /\ t.slot = s.slot
  BY <1>1, <1>6 DEF P!Pads
<1>11. Fits(t, n + 1) BY <1>1, <1>5, <1>7, <1>8, <1>9, <1>4 DEF Fits, Running
<1> QED BY <1>8, <1>9, <1>10, <1>11 DEF f, t

(* The pointer is free for a packet. *)
Idle(s) == s.action = "none" /\ ~s.touch /\ (P!Lawn(s) => ~s.aDown)

Same(s, t) == Kept(s, t) /\ Running(s, t) /\ t.drag = s.drag /\ t.finger = s.finger /\ t.out = s.out

LEMMA SameOwner ==
  ASSUME NEW s, NEW t, Same(s, t)
  PROVE  (P!OneOwner(s) => P!OneOwner(t)) /\ (Idle(s) => Idle(t)) /\ P!Lawn(t) = P!Lawn(s)
BY DEF Same, Kept, Running, P!OneOwner, P!ToolDown, Idle, P!Lawn

(* Fields that no owner depends on. *)
LEMMA Aside ==
  ASSUME NEW n \in Nat, NEW s, Fits(s, n)
  PROVE  /\ \A v \in BOOLEAN :
              /\ Fits([s EXCEPT !.focus = v], n) /\ Same(s, [s EXCEPT !.focus = v])
              /\ Fits([s EXCEPT !.needsMove = v], n) /\ Same(s, [s EXCEPT !.needsMove = v])
              /\ Fits([s EXCEPT !.pending = v], n) /\ Same(s, [s EXCEPT !.pending = v])
              /\ Fits([s EXCEPT !.shown = v], n) /\ Same(s, [s EXCEPT !.shown = v])
              /\ Fits([s EXCEPT !.back = v], n) /\ Same(s, [s EXCEPT !.back = v])
         /\ \A v \in Cells : Fits([s EXCEPT !.cell = v], n) /\ Same(s, [s EXCEPT !.cell = v])
         /\ \A v \in Int : Fits([s EXCEPT !.slot = v], n) /\ Same(s, [s EXCEPT !.slot = v])
         /\ \A v \in Cells \cup {"packet"} : Fits([s EXCEPT !.at = v], n) /\ Same(s, [s EXCEPT !.at = v])
         /\ \A v \in Nat : Fits([s EXCEPT !.rearm = v], n) /\ Same(s, [s EXCEPT !.rearm = v])
         /\ \A v \in SUBSET {"B", "X"} : Fits([s EXCEPT !.taps = v], n) /\ Same(s, [s EXCEPT !.taps = v])
         /\ \A v \in {"auto", "hidden", "shown"} :
              Fits([s EXCEPT !.policy = v], n) /\ Same(s, [s EXCEPT !.policy = v])
<1>0. s \in P!Pads /\ s.stage < Len(P!Gesture(s.action)) /\ Len(s.out) <= n BY DEF Fits
<1>1. ASSUME NEW t \in P!Pads, Same(s, t) PROVE Fits(t, n) BY <1>0, <1>1 DEF Fits, Same, Running
<1>2. ASSUME NEW v \in BOOLEAN PROVE Fits([s EXCEPT !.focus = v], n) /\ Same(s, [s EXCEPT !.focus = v])
  <2>1. [s EXCEPT !.focus = v] \in P!Pads BY <1>0, PadFields, Zenon
  <2>2. Same(s, [s EXCEPT !.focus = v]) BY <1>0, SMT DEF P!Pads, Same, Kept, Running
  <2> QED BY <1>1, <2>1, <2>2, Zenon
<1>3. ASSUME NEW v \in BOOLEAN PROVE Fits([s EXCEPT !.needsMove = v], n) /\ Same(s, [s EXCEPT !.needsMove = v])
  <2>1. [s EXCEPT !.needsMove = v] \in P!Pads BY <1>0, PadFields, Zenon
  <2>2. Same(s, [s EXCEPT !.needsMove = v]) BY <1>0, SMT DEF P!Pads, Same, Kept, Running
  <2> QED BY <1>1, <2>1, <2>2, Zenon
<1>4. ASSUME NEW v \in BOOLEAN PROVE Fits([s EXCEPT !.pending = v], n) /\ Same(s, [s EXCEPT !.pending = v])
  <2>1. [s EXCEPT !.pending = v] \in P!Pads BY <1>0, PadFields, Zenon
  <2>2. Same(s, [s EXCEPT !.pending = v]) BY <1>0, SMT DEF P!Pads, Same, Kept, Running
  <2> QED BY <1>1, <2>1, <2>2, Zenon
<1>5. ASSUME NEW v \in BOOLEAN PROVE Fits([s EXCEPT !.shown = v], n) /\ Same(s, [s EXCEPT !.shown = v])
  <2>1. [s EXCEPT !.shown = v] \in P!Pads BY <1>0, PadFields, Zenon
  <2>2. Same(s, [s EXCEPT !.shown = v]) BY <1>0, SMT DEF P!Pads, Same, Kept, Running
  <2> QED BY <1>1, <2>1, <2>2, Zenon
<1>6. ASSUME NEW v \in BOOLEAN PROVE Fits([s EXCEPT !.back = v], n) /\ Same(s, [s EXCEPT !.back = v])
  <2>1. [s EXCEPT !.back = v] \in P!Pads BY <1>0, PadFields, Zenon
  <2>2. Same(s, [s EXCEPT !.back = v]) BY <1>0, SMT DEF P!Pads, Same, Kept, Running
  <2> QED BY <1>1, <2>1, <2>2, Zenon
<1>7. ASSUME NEW v \in Cells PROVE Fits([s EXCEPT !.cell = v], n) /\ Same(s, [s EXCEPT !.cell = v])
  <2>1. [s EXCEPT !.cell = v] \in P!Pads BY <1>0, PadFields, Zenon
  <2>2. Same(s, [s EXCEPT !.cell = v]) BY <1>0, SMT DEF P!Pads, Same, Kept, Running
  <2> QED BY <1>1, <2>1, <2>2, Zenon
<1>8. ASSUME NEW v \in Int PROVE Fits([s EXCEPT !.slot = v], n) /\ Same(s, [s EXCEPT !.slot = v])
  <2>1. [s EXCEPT !.slot = v] \in P!Pads BY <1>0, PadFields, Zenon
  <2>2. Same(s, [s EXCEPT !.slot = v]) BY <1>0, SMT DEF P!Pads, Same, Kept, Running
  <2> QED BY <1>1, <2>1, <2>2, Zenon
<1>9. ASSUME NEW v \in Cells \cup {"packet"} PROVE Fits([s EXCEPT !.at = v], n) /\ Same(s, [s EXCEPT !.at = v])
  <2>1. [s EXCEPT !.at = v] \in P!Pads BY <1>0, PadFields, Zenon
  <2>2. Same(s, [s EXCEPT !.at = v]) BY <1>0, SMT DEF P!Pads, Same, Kept, Running
  <2> QED BY <1>1, <2>1, <2>2, Zenon
<1>10. ASSUME NEW v \in Nat PROVE Fits([s EXCEPT !.rearm = v], n) /\ Same(s, [s EXCEPT !.rearm = v])
  <2>1. [s EXCEPT !.rearm = v] \in P!Pads BY <1>0, PadFields, Zenon
  <2>2. Same(s, [s EXCEPT !.rearm = v]) BY <1>0, SMT DEF P!Pads, Same, Kept, Running
  <2> QED BY <1>1, <2>1, <2>2, Zenon
<1>11. ASSUME NEW v \in SUBSET {"B", "X"} PROVE Fits([s EXCEPT !.taps = v], n) /\ Same(s, [s EXCEPT !.taps = v])
  <2>1. [s EXCEPT !.taps = v] \in P!Pads BY <1>0, PadFields, Zenon
  <2>2. Same(s, [s EXCEPT !.taps = v]) BY <1>0, SMT DEF P!Pads, Same, Kept, Running
  <2> QED BY <1>1, <2>1, <2>2, Zenon
<1>12. ASSUME NEW v \in {"auto", "hidden", "shown"} PROVE Fits([s EXCEPT !.policy = v], n) /\ Same(s, [s EXCEPT !.policy = v])
  <2>1. [s EXCEPT !.policy = v] \in P!Pads BY <1>0, PadFields, Zenon
  <2>2. Same(s, [s EXCEPT !.policy = v]) BY <1>0, SMT DEF P!Pads, Same, Kept, Running
  <2> QED BY <1>1, <2>1, <2>2, Zenon
<1> QED BY <1>2, <1>3, <1>4, <1>5, <1>6, <1>7, <1>8, <1>9, <1>10, <1>11, <1>12, Zenon

(* Fields an owner depends on. *)
LEMMA OwnerFields ==
  ASSUME NEW n \in Nat, NEW s, Fits(s, n)
  PROVE  /\ \A v \in BOOLEAN : /\ Fits([s EXCEPT !.drag = v], n)
                               /\ Fits([s EXCEPT !.touch = v], n)
                               /\ Fits([s EXCEPT !.aDown = v], n)
                               /\ Fits([s EXCEPT !.start = v], n)
                               /\ Fits([s EXCEPT !.override = v], n)
         /\ \A v \in {"menu", "select", "level"} : Fits([s EXCEPT !.context = v], n)
<1>0. s \in P!Pads /\ s.stage < Len(P!Gesture(s.action)) /\ Len(s.out) <= n BY DEF Fits
<1>1. ASSUME NEW v \in BOOLEAN PROVE Fits([s EXCEPT !.drag = v], n)
  <2>1. [s EXCEPT !.drag = v] \in P!Pads BY <1>0, PadFields, Zenon
  <2>2. /\ [s EXCEPT !.drag = v].stage = s.stage /\ [s EXCEPT !.drag = v].action = s.action
        /\ [s EXCEPT !.drag = v].out = s.out
    BY <1>0, SMT DEF P!Pads
  <2> QED BY <1>0, <2>1, <2>2 DEF Fits
<1>2. ASSUME NEW v \in BOOLEAN PROVE Fits([s EXCEPT !.touch = v], n)
  <2>1. [s EXCEPT !.touch = v] \in P!Pads BY <1>0, PadFields, Zenon
  <2>2. /\ [s EXCEPT !.touch = v].stage = s.stage /\ [s EXCEPT !.touch = v].action = s.action
        /\ [s EXCEPT !.touch = v].out = s.out
    BY <1>0, SMT DEF P!Pads
  <2> QED BY <1>0, <2>1, <2>2 DEF Fits
<1>3. ASSUME NEW v \in BOOLEAN PROVE Fits([s EXCEPT !.aDown = v], n)
  <2>1. [s EXCEPT !.aDown = v] \in P!Pads BY <1>0, PadFields, Zenon
  <2>2. /\ [s EXCEPT !.aDown = v].stage = s.stage /\ [s EXCEPT !.aDown = v].action = s.action
        /\ [s EXCEPT !.aDown = v].out = s.out
    BY <1>0, SMT DEF P!Pads
  <2> QED BY <1>0, <2>1, <2>2 DEF Fits
<1>4. ASSUME NEW v \in BOOLEAN PROVE Fits([s EXCEPT !.start = v], n)
  <2>1. [s EXCEPT !.start = v] \in P!Pads BY <1>0, PadFields, Zenon
  <2>2. /\ [s EXCEPT !.start = v].stage = s.stage /\ [s EXCEPT !.start = v].action = s.action
        /\ [s EXCEPT !.start = v].out = s.out
    BY <1>0, SMT DEF P!Pads
  <2> QED BY <1>0, <2>1, <2>2 DEF Fits
<1>5. ASSUME NEW v \in BOOLEAN PROVE Fits([s EXCEPT !.override = v], n)
  <2>1. [s EXCEPT !.override = v] \in P!Pads BY <1>0, PadFields, Zenon
  <2>2. /\ [s EXCEPT !.override = v].stage = s.stage /\ [s EXCEPT !.override = v].action = s.action
        /\ [s EXCEPT !.override = v].out = s.out
    BY <1>0, SMT DEF P!Pads
  <2> QED BY <1>0, <2>1, <2>2 DEF Fits
<1>6. ASSUME NEW v \in {"menu", "select", "level"} PROVE Fits([s EXCEPT !.context = v], n)
  <2>1. [s EXCEPT !.context = v] \in P!Pads BY <1>0, PadFields, Zenon
  <2>2. /\ [s EXCEPT !.context = v].stage = s.stage /\ [s EXCEPT !.context = v].action = s.action
        /\ [s EXCEPT !.context = v].out = s.out
    BY <1>0, SMT DEF P!Pads
  <2> QED BY <1>0, <2>1, <2>2 DEF Fits
<1> QED BY <1>1, <1>2, <1>3, <1>4, <1>5, <1>6, Zenon

(* The pad with the packet taken up or let go. *)
LEMMA DragSet ==
  ASSUME NEW n \in Nat, NEW s, Fits(s, n), NEW v \in BOOLEAN
  PROVE  LET t == [s EXCEPT !.drag = v] IN
         Fits(t, n) /\ Kept(s, t) /\ Running(s, t) /\ t.drag = v /\ t.finger = s.finger
<1>1. s \in P!Pads BY DEF Fits
<1>2. Fits([s EXCEPT !.drag = v], n) BY OwnerFields, Zenon
<1> QED BY <1>1, <1>2 DEF P!Pads, Kept, Running

LEMMA SameChain ==
  ASSUME NEW s, NEW t, NEW u, Same(s, t), Same(t, u) PROVE Same(s, u)
BY DEF Same, Kept, Running

(* nav_drag_begin takes up the packet when the finger is free. *)
LEMMA BeginFacts ==
  ASSUME P!InputConstants, NEW n \in Nat, n < PadEvents, NEW s, Fits(s, n)
  PROVE  LET t == P!DragBegin(s) IN
         /\ Fits(t, n + 1) /\ Kept(s, t) /\ Running(s, t)
         /\ P!OneOwner(s) /\ Idle(s) => P!OneOwner(t)
<1> DEFINE t == P!DragBegin(s)
<1>1. CASE ~P!Lawn(s) \/ s.drag
  <2>1. t = s BY <1>1 DEF P!DragBegin
  <2> QED BY <2>1 DEF Fits, Kept, Running
<1>2. CASE P!Lawn(s) /\ ~s.drag
  <2> DEFINE e == P!Emit(s, "down", "drag")
             v == IF e.slot < 0 THEN 0 ELSE e.slot
             a == [e EXCEPT !.slot = v]
             b == [a EXCEPT !.drag = TRUE]
             c == [b EXCEPT !.needsMove = TRUE]
             d == [c EXCEPT !.rearm = 0]
             u == [d EXCEPT !.at = "packet"]
  <2>1. t = u BY <1>2, Zenon DEF P!DragBegin
  <2>2. /\ Fits(e, n + 1) /\ e.finger = P!After(s.finger, "down")
        /\ Kept(s, e) /\ Running(s, e) /\ e.drag = s.drag
    BY EmitFacts
  <2> HIDE DEF e
  <2>3. v \in Int BY <2>2 DEF Fits, P!Pads
  <2> HIDE DEF v
  <2>4. n + 1 \in Nat /\ 0 \in Nat /\ "packet" \in Cells \cup {"packet"} OBVIOUS
  <2>5. Fits(a, n + 1) /\ Same(e, a) BY <2>2, <2>3, <2>4, Aside, Zenon
  <2> HIDE DEF a
  <2>6. Fits(b, n + 1) /\ Kept(a, b) /\ Running(a, b) /\ b.drag = TRUE /\ b.finger = a.finger
    BY <2>4, <2>5, DragSet, Zenon
  <2> HIDE DEF b
  <2>7. Fits(c, n + 1) /\ Same(b, c) BY <2>4, <2>6, Aside, Zenon
  <2> HIDE DEF c
  <2>8. Fits(d, n + 1) /\ Same(c, d) BY <2>4, <2>7, Aside, Zenon
  <2> HIDE DEF d
  <2>9. Fits(u, n + 1) /\ Same(d, u) BY <2>4, <2>8, Aside, Zenon
  <2> HIDE DEF u
  <2>10. /\ Kept(s, u) /\ Running(s, u) /\ u.drag = TRUE /\ u.finger = P!After(s.finger, "down")
    BY <2>2, <2>5, <2>6, <2>7, <2>8, <2>9 DEF Same, Kept, Running
  <2>11. P!OneOwner(s) /\ Idle(s) => P!OneOwner(u)
    BY <1>2, <2>10 DEF P!OneOwner, Idle, P!ToolDown, Kept, Running, P!After, P!Lawn
  <2> QED BY <2>1, <2>9, <2>10, <2>11
<1> QED BY <1>1, <1>2

(* nav_drag_move_to_grid moves a packet that is held. *)
LEMMA MoveFacts ==
  ASSUME P!InputConstants, NEW n \in Nat, n < PadEvents, NEW s, Fits(s, n)
  PROVE  LET t == P!DragMove(s) IN
         /\ Fits(t, n + 1) /\ Kept(s, t) /\ Running(s, t) /\ t.drag = s.drag
         /\ P!OneOwner(s) => P!OneOwner(t) /\ t.finger = s.finger
<1> DEFINE t == P!DragMove(s)
<1>1. CASE ~s.drag \/ ~P!Lawn(s) \/ s.at = s.cell
  <2>1. t = s BY <1>1 DEF P!DragMove
  <2> QED BY <2>1 DEF Fits, Kept, Running
<1>2. CASE ~(~s.drag \/ ~P!Lawn(s) \/ s.at = s.cell)
  <2> DEFINE e == P!Emit(s, "move", "drag")
             u == [e EXCEPT !.at = s.cell]
  <2>1. t = u BY <1>2, Zenon DEF P!DragMove
  <2>2. /\ Fits(e, n + 1) /\ e.finger = P!After(s.finger, "move")
        /\ Kept(s, e) /\ Running(s, e) /\ e.drag = s.drag
    BY EmitFacts
  <2> HIDE DEF e
  <2>3. n + 1 \in Nat /\ s.cell \in Cells \cup {"packet"} BY DEF Fits, P!Pads
  <2>4. Fits(u, n + 1) /\ Same(e, u) BY <2>2, <2>3, Aside, Zenon
  <2> HIDE DEF u
  <2>5. Kept(s, u) /\ Running(s, u) /\ u.drag = s.drag /\ u.finger = P!After(s.finger, "move")
    BY <2>2, <2>4 DEF Same, Kept, Running
  <2>6. P!OneOwner(s) => P!OneOwner(u) /\ u.finger = s.finger
    BY <1>2, <2>5 DEF P!OneOwner, P!ToolDown, Kept, Running, P!After, P!Lawn
  <2> QED BY <2>1, <2>4, <2>5, <2>6
<1> QED BY <1>1, <1>2

LEMMA QuietFacts ==
  ASSUME NEW n \in Nat, NEW s, Fits(s, n) PROVE Fits(P!Quiet(s), n) /\ Same(s, P!Quiet(s))
<1> DEFINE a == [s EXCEPT !.needsMove = FALSE]
           b == [a EXCEPT !.rearm = 0]
<1>1. P!Quiet(s) = b BY Zenon DEF P!Quiet
<1>2. 0 \in Nat OBVIOUS
<1>3. Fits(a, n) /\ Same(s, a) BY Aside, Zenon
<1> HIDE DEF a
<1>4. Fits(b, n) /\ Same(a, b) BY <1>2, <1>3, Aside, Zenon
<1> QED BY <1>1, <1>3, <1>4, SameChain, Zenon

(* The UP that ends a packet, after a MOVE to where it is let go. *)
LEMMA LetGo ==
  ASSUME P!InputConstants, NEW n \in Nat, n + 1 < PadEvents, NEW s, Fits(s, n)
  PROVE  LET e == P!Emit(P!Emit(s, "move", "drag"), "up", "drag") IN
         /\ Fits(e, n + 2) /\ Kept(s, e) /\ Running(s, e) /\ e.drag = s.drag
         /\ s.finger = "down" => e.finger = "up"
<1> DEFINE m == P!Emit(s, "move", "drag")
           e == P!Emit(m, "up", "drag")
<1>0. n + 1 \in Nat /\ n < PadEvents /\ (n + 1) + 1 = n + 2 BY DEF P!InputConstants
<1>1. /\ Fits(m, n + 1) /\ m.finger = P!After(s.finger, "move")
      /\ Kept(s, m) /\ Running(s, m) /\ m.drag = s.drag
  BY <1>0, EmitFacts
<1> HIDE DEF m
<1>2. /\ Fits(e, (n + 1) + 1) /\ e.finger = P!After(m.finger, "up")
      /\ Kept(m, e) /\ Running(m, e) /\ e.drag = m.drag
  BY <1>0, <1>1, EmitFacts
<1> HIDE DEF e
<1>3. s.finger = "down" => e.finger = "up" BY <1>1, <1>2 DEF P!After
<1>4. Kept(s, e) /\ Running(s, e) /\ e.drag = s.drag BY <1>1, <1>2 DEF Kept, Running
<1>5. Fits(e, n + 2) BY <1>0, <1>2, Zenon
<1> QED BY <1>3, <1>4, <1>5 DEF e, m

(* nav_drag_cancel lets go of a held packet. *)
LEMMA CancelFacts ==
  ASSUME P!InputConstants, NEW n \in Nat, n + 1 < PadEvents, NEW s, Fits(s, n)
  PROVE  LET t == P!DragCancel(s) IN
         /\ Fits(t, n + 2) /\ Kept(s, t) /\ Running(s, t) /\ ~t.drag
         /\ P!OneOwner(s) => /\ P!OneOwner(t) /\ (s.finger = "up" => t.finger = "up")
<1> DEFINE t == P!DragCancel(s)
<1>0. s.drag \in BOOLEAN BY DEF Fits, P!Pads
<1>1. CASE ~s.drag
  <2>1. t = P!Quiet(s) BY <1>1, Zenon DEF P!DragCancel
  <2>2. Fits(t, n) /\ Same(s, t) BY <2>1, QuietFacts, Zenon
  <2>3. Fits(t, n + 2) BY <2>2 DEF Fits, P!Pads
  <2>4. Kept(s, t) /\ Running(s, t) /\ ~t.drag /\ t.finger = s.finger BY <1>1, <2>2 DEF Same
  <2>5. P!OneOwner(s) => P!OneOwner(t) BY <2>2, SameOwner, Zenon
  <2> QED BY <2>3, <2>4, <2>5
<1>2. CASE s.drag
  <2> DEFINE e == P!Emit(P!Emit(s, "move", "drag"), "up", "drag")
             c == P!Quiet(e)
             u == [c EXCEPT !.drag = FALSE]
  <2>1. t = u BY <1>2, Zenon DEF P!DragCancel
  <2>2. /\ Fits(e, n + 2) /\ Kept(s, e) /\ Running(s, e) /\ (s.finger = "down" => e.finger = "up")
    BY LetGo, Zenon
  <2> HIDE DEF e
  <2>3. n + 2 \in Nat OBVIOUS
  <2>4. Fits(c, n + 2) /\ Same(e, c) BY <2>2, <2>3, QuietFacts, Zenon
  <2> HIDE DEF c
  <2>5. Fits(u, n + 2) /\ Kept(c, u) /\ Running(c, u) /\ u.drag = FALSE /\ u.finger = c.finger
    BY <2>3, <2>4, DragSet, Zenon
  <2> HIDE DEF u
  <2>6. Kept(s, u) /\ Running(s, u) /\ (s.finger = "down" => u.finger = "up")
    BY <2>2, <2>4, <2>5 DEF Same, Kept, Running
  <2>7. P!OneOwner(s) => P!OneOwner(u) /\ (s.finger = "up" => u.finger = "up")
    BY <1>2, <2>5, <2>6 DEF P!OneOwner, P!ToolDown, Kept, Running, P!Lawn
  <2> QED BY <2>1, <2>5, <2>6, <2>7
<1> QED BY <1>0, <1>1, <1>2

(* nav_drag_place begins with a packet or drops the one that is held. *)
LEMMA PlaceFacts ==
  ASSUME P!InputConstants, NEW n \in Nat, n + 1 < PadEvents, NEW s, Fits(s, n)
  PROVE  LET t == P!DragPlace(s) IN
         /\ Fits(t, n + 2) /\ Kept(s, t) /\ Running(s, t)
         /\ P!OneOwner(s) /\ Idle(s) => P!OneOwner(t)
<1> DEFINE t == P!DragPlace(s)
<1>0. n + 1 \in Nat /\ n < PadEvents /\ (n + 1) + 1 = n + 2 /\ n + 2 \in Nat BY DEF P!InputConstants
<1>1. CASE ~P!Lawn(s)
  <2>1. t = s BY <1>1 DEF P!DragPlace
  <2> QED BY <2>1 DEF Fits, Kept, Running
<1>2. CASE P!Lawn(s) /\ ~s.drag
  <2>1. t = P!DragBegin(s) BY <1>2 DEF P!DragPlace
  <2>2. Fits(t, n + 1) /\ Kept(s, t) /\ Running(s, t) /\ (P!OneOwner(s) /\ Idle(s) => P!OneOwner(t))
    BY <1>0, <2>1, BeginFacts, Zenon
  <2>3. Fits(t, n + 2) BY <2>2 DEF Fits, P!Pads
  <2> QED BY <2>2, <2>3
<1>3. CASE P!Lawn(s) /\ s.drag
  <2> DEFINE m == P!DragMove(s)
             e == P!Emit(m, "up", "drag")
             a == [e EXCEPT !.drag = FALSE]
             b == [a EXCEPT !.needsMove = FALSE]
             u == [b EXCEPT !.rearm = 2]
  <2>1. t = u BY <1>3, Zenon DEF P!DragPlace
  <2>2. /\ Fits(m, n + 1) /\ Kept(s, m) /\ Running(s, m) /\ m.drag = s.drag
        /\ P!OneOwner(s) => m.finger = s.finger
    BY <1>0, MoveFacts, Zenon
  <2> HIDE DEF m
  <2>3. /\ Fits(e, n + 2) /\ e.finger = P!After(m.finger, "up") /\ Kept(m, e) /\ Running(m, e)
    <3>1. Fits(e, (n + 1) + 1) /\ e.finger = P!After(m.finger, "up") /\ Kept(m, e) /\ Running(m, e)
      BY <1>0, <2>2, EmitFacts, Zenon
    <3> QED BY <1>0, <3>1
  <2> HIDE DEF e
  <2>4. Fits(a, n + 2) /\ Kept(e, a) /\ Running(e, a) /\ a.drag = FALSE /\ a.finger = e.finger
    BY <1>0, <2>3, DragSet, Zenon
  <2> HIDE DEF a
  <2>5. Fits(b, n + 2) /\ Same(a, b) BY <1>0, <2>4, Aside, Zenon
  <2> HIDE DEF b
  <2>6. Fits(u, n + 2) /\ Same(b, u) BY <1>0, <2>5, 2 \in Nat, Aside, Zenon
  <2> HIDE DEF u
  <2>7. /\ Kept(s, u) /\ Running(s, u) /\ u.drag = FALSE
        /\ P!OneOwner(s) => u.finger = P!After(s.finger, "up")
    BY <2>2, <2>3, <2>4, <2>5, <2>6 DEF Same, Kept, Running
  <2>8. P!OneOwner(s) => P!OneOwner(u)
    BY <1>3, <2>7 DEF P!OneOwner, P!ToolDown, Kept, Running, P!After, P!Lawn
  <2> QED BY <2>1, <2>6, <2>7, <2>8
<1> QED BY <1>1, <1>2, <1>3

LEMMA ShowFacts ==
  ASSUME NEW n \in Nat, NEW s, Fits(s, n)
  PROVE  Fits(P!AutoShow(s), n) /\ Same(s, P!AutoShow(s)) /\ P!AutoShow(s).pending = s.pending
<1> DEFINE v == s.shown \/ s.policy # "hidden"
<1>1. P!AutoShow(s) = [s EXCEPT !.shown = v] BY Zenon DEF P!AutoShow
<1>2. v \in BOOLEAN BY DEF Fits, P!Pads
<1>3. P!AutoShow(s).pending = s.pending BY <1>1 DEF Fits, P!Pads
<1>4. Fits([s EXCEPT !.shown = v], n) /\ Same(s, [s EXCEPT !.shown = v])
  <2> HIDE DEF v
  <2> QED BY <1>2, Aside, Zenon
<1> QED BY <1>1, <1>3, <1>4, Zenon

LEMMA OverlayFacts ==
  ASSUME NEW n \in Nat, NEW s, Fits(s, n) PROVE Fits(P!Overlay(s), n) /\ Same(s, P!Overlay(s))
<1> DEFINE v == IF s.shown THEN FALSE ELSE TRUE
           w == IF s.shown THEN "hidden" ELSE "shown"
           a == [s EXCEPT !.shown = v]
           b == [a EXCEPT !.policy = w]
<1>1. P!Overlay(s) = b
  <2>1. CASE s.shown BY <2>1, Zenon DEF P!Overlay
  <2>2. CASE ~s.shown BY <2>2, Zenon DEF P!Overlay
  <2> QED BY <2>1, <2>2
<1>2. v \in BOOLEAN /\ w \in {"auto", "hidden", "shown"} OBVIOUS
<1> HIDE DEF v, w
<1>3. Fits(a, n) /\ Same(s, a) BY <1>2, Aside, Zenon
<1> HIDE DEF a
<1>4. Fits(b, n) /\ Same(a, b) BY <1>2, <1>3, Aside, Zenon
<1> QED BY <1>1, <1>3, <1>4, SameChain, Zenon

(* The pad with another tool, or none, at some stage of its gesture. *)
Tooled(s, tool, stage, delay) ==
  [s EXCEPT !.action = tool, !.stage = stage, !.delay = delay]

LEMMA ToolSet ==
  ASSUME NEW n \in Nat, NEW s, Fits(s, n), NEW tool \in {"none", "shovel", "plantfood"},
         NEW stage \in Nat, stage < Len(P!Gesture(tool)), NEW delay \in Nat
  PROVE  LET t == Tooled(s, tool, stage, delay) IN
         /\ Fits(t, n) /\ Kept(s, t) /\ t.drag = s.drag /\ t.finger = s.finger
         /\ t.action = tool /\ t.stage = stage /\ t.slot = s.slot
<1> DEFINE a == [s EXCEPT !.action = tool]
           b == [a EXCEPT !.stage = stage]
           t == [b EXCEPT !.delay = delay]
<1>0. s \in P!Pads /\ Len(s.out) <= n BY DEF Fits
<1>1. t = Tooled(s, tool, stage, delay) BY Zenon DEF Tooled
<1>2. a \in P!Pads BY <1>0, PadFields, Zenon
<1>3. b \in P!Pads BY <1>2, PadFields, Zenon
<1>4. t \in P!Pads BY <1>3, PadFields, Zenon
<1>5. /\ Kept(s, t) /\ t.drag = s.drag /\ t.finger = s.finger /\ t.action = tool
      /\ t.stage = stage /\ t.out = s.out /\ t.slot = s.slot
  BY <1>0 DEF P!Pads, Kept
<1>6. Fits(t, n) BY <1>0, <1>4, <1>5 DEF Fits
<1> QED BY <1>1, <1>5, <1>6

LEMMA NoToolFacts ==
  ASSUME NEW n \in Nat, NEW s, Fits(s, n)
  PROVE  LET t == P!NoTool(s) IN
         /\ Fits(t, n) /\ Kept(s, t) /\ t.drag = s.drag /\ t.finger = s.finger
         /\ t.action = "none" /\ t.stage = 0 /\ t.slot = s.slot
         /\ P!OneOwner(s) /\ ~P!ToolDown(s) => P!OneOwner(t)
<1> DEFINE t == P!NoTool(s)
<1>1. 0 \in Nat /\ 0 < Len(P!Gesture("none")) BY DEF P!Gesture
<1>2. t = Tooled(s, "none", 0, 0) BY Zenon DEF P!NoTool, Tooled
<1>3. /\ Fits(t, n) /\ Kept(s, t) /\ t.drag = s.drag /\ t.finger = s.finger
      /\ t.action = "none" /\ t.stage = 0 /\ t.slot = s.slot
  BY <1>1, <1>2, ToolSet, "none" \in {"none", "shovel", "plantfood"}
<1> HIDE DEF t
<1>4. P!OneOwner(s) /\ ~P!ToolDown(s) => P!OneOwner(t) BY <1>3 DEF P!OneOwner, P!ToolDown, Kept, P!Lawn
<1> QED BY <1>3, <1>4 DEF t

(* nav_special_begin ends a held packet; the tool itself waits a frame. *)
LEMMA ToolBeginFacts ==
  ASSUME P!InputConstants, NEW n \in Nat, n + 1 < PadEvents, NEW s, Fits(s, n),
         NEW tool \in {"shovel", "plantfood"}
  PROVE  LET t == P!ToolBegin(s, tool) IN
         /\ Fits(t, n + 2) /\ Kept(s, t)
         /\ P!OneOwner(s) /\ (P!Lawn(s) => ~s.aDown) =>
              /\ P!OneOwner(t) /\ (s.finger = "up" => t.finger = "up")
<1> DEFINE t == P!ToolBegin(s, tool)
<1>1. CASE ~P!Lawn(s) \/ ~s.focus \/ s.action # "none"
  <2>1. t = s BY <1>1 DEF P!ToolBegin
  <2>2. Fits(s, n + 2) BY DEF Fits, P!Pads
  <2> QED BY <2>1, <2>2 DEF Kept
<1>2. CASE ~(~P!Lawn(s) \/ ~s.focus \/ s.action # "none")
  <2> DEFINE a == P!DragCancel(s)
             b == P!AutoShow(a)
             c == [b EXCEPT !.pending = FALSE]
             d == [c EXCEPT !.taps = {}]
             e == Tooled(d, tool, 0, 1)
             u == [e EXCEPT !.focus = TRUE]
  <2>0. n + 2 \in Nat /\ {} \in SUBSET {"B", "X"} OBVIOUS
  <2>1. t = u BY <1>2, Zenon DEF P!ToolBegin, Tooled
  <2>2. /\ Fits(a, n + 2) /\ Kept(s, a) /\ Running(s, a) /\ ~a.drag
        /\ P!OneOwner(s) => P!OneOwner(a) /\ (s.finger = "up" => a.finger = "up")
    BY CancelFacts, Zenon
  <2> HIDE DEF a
  <2>3. Fits(b, n + 2) /\ Same(a, b) BY <2>0, <2>2, ShowFacts, Zenon
  <2> HIDE DEF b
  <2>4. Fits(c, n + 2) /\ Same(b, c) BY <2>0, <2>3, Aside, Zenon
  <2> HIDE DEF c
  <2>5. Fits(d, n + 2) /\ Same(c, d) BY <2>0, <2>4, Aside, Zenon
  <2> HIDE DEF d
  <2>6. /\ Fits(e, n + 2) /\ Kept(d, e) /\ e.drag = d.drag /\ e.finger = d.finger
        /\ e.action = tool /\ e.stage = 0
    <3>1. tool \in {"none", "shovel", "plantfood"} /\ 0 \in Nat /\ 1 \in Nat OBVIOUS
    <3>2. 0 < Len(P!Gesture(tool)) BY DEF P!Gesture
    <3> QED BY <2>0, <2>5, <3>1, <3>2, ToolSet
  <2> HIDE DEF e
  <2>7. Fits(u, n + 2) /\ Same(e, u) BY <2>0, <2>6, Aside, Zenon
  <2> HIDE DEF u
  <2>8. /\ Kept(s, u) /\ ~u.drag /\ u.finger = a.finger /\ u.action = tool /\ u.stage = 0
    BY <2>2, <2>3, <2>4, <2>5, <2>6, <2>7 DEF Same, Kept, Running
  <2>9. P!OneOwner(s) /\ (P!Lawn(s) => ~s.aDown) => P!OneOwner(u)
    BY <1>2, <2>2, <2>8 DEF P!OneOwner, P!ToolDown, Kept, Running, P!Lawn
  <2> QED BY <2>1, <2>2, <2>7, <2>8, <2>9
<1> QED BY <1>1, <1>2

(* A tap is remembered, or the second one begins the tool. *)
LEMMA TapFacts ==
  ASSUME P!InputConstants, NEW n \in Nat, n + 1 < PadEvents, NEW s, Fits(s, n),
         NEW button \in {"B", "X"}, NEW tool \in {"shovel", "plantfood"}, NEW pressed
  PROVE  LET t == P!Tap(s, button, tool, pressed) IN
         /\ Fits(t, n + 2) /\ Kept(s, t)
         /\ P!OneOwner(s) /\ (P!Lawn(s) => ~s.aDown) =>
              /\ P!OneOwner(t) /\ (s.finger = "up" => t.finger = "up")
<1> DEFINE t == P!Tap(s, button, tool, pressed)
           a == [s EXCEPT !.taps = s.taps \ {button}]
           b == [s EXCEPT !.taps = s.taps \cup {button}]
<1>0. s.taps \ {button} \in SUBSET {"B", "X"} /\ s.taps \cup {button} \in SUBSET {"B", "X"}
  BY DEF Fits, P!Pads
<1>1. CASE button \notin pressed
  <2>1. t = s BY <1>1 DEF P!Tap
  <2>2. Fits(s, n + 2) BY DEF Fits, P!Pads
  <2> QED BY <2>1, <2>2 DEF Kept
<1>2. CASE button \in pressed /\ button \in s.taps
  <2>1. t = P!ToolBegin(a, tool) BY <1>2, Zenon DEF P!Tap
  <2>2. Fits(a, n) /\ Same(s, a) BY <1>0, Aside, Zenon
  <2> HIDE DEF a
  <2>3. /\ Fits(t, n + 2) /\ Kept(a, t)
        /\ P!OneOwner(a) /\ (P!Lawn(a) => ~a.aDown) =>
             /\ P!OneOwner(t) /\ (a.finger = "up" => t.finger = "up")
    BY <2>1, <2>2, ToolBeginFacts, Zenon
  <2>4. (P!OneOwner(s) => P!OneOwner(a)) /\ P!Lawn(a) = P!Lawn(s) BY <2>2, SameOwner, Zenon
  <2> QED BY <2>2, <2>3, <2>4 DEF Same, Kept
<1>3. CASE button \in pressed /\ button \notin s.taps
  <2>1. t = b BY <1>3, Zenon DEF P!Tap
  <2>2. Fits(b, n) /\ Same(s, b) BY <1>0, Aside, Zenon
  <2> HIDE DEF b
  <2>3. Fits(b, n + 2) BY <2>2 DEF Fits, P!Pads
  <2>4. P!OneOwner(s) => P!OneOwner(b) BY <2>2, SameOwner, Zenon
  <2> QED BY <2>1, <2>2, <2>3, <2>4 DEF Same
<1> QED BY <1>1, <1>2, <1>3

(* nav_handle_double_tap_shortcuts. *)
LEMMA DoubleTapsFacts ==
  ASSUME P!InputConstants, NEW n \in Nat, n + 3 < PadEvents, NEW s, Fits(s, n),
         NEW pressed, NEW down, NEW expired
  PROVE  LET t == P!DoubleTaps(s, pressed, down, expired) IN
         /\ Fits(t, n + 4) /\ Kept(s, t)
         /\ P!OneOwner(s) /\ (P!Lawn(s) /\ "ZL" \notin down => ~s.aDown) =>
              /\ P!OneOwner(t) /\ (s.finger = "up" => t.finger = "up")
<1> DEFINE t == P!DoubleTaps(s, pressed, down, expired)
           none == [s EXCEPT !.taps = {}]
           v == s.back \/ "B" \in pressed
           back == [none EXCEPT !.back = v]
           recent == [s EXCEPT !.taps = s.taps \ expired]
           one == P!Tap(recent, "B", "shovel", pressed)
           two == P!Tap(one, "X", "plantfood", pressed)
<1>0. /\ {} \in SUBSET {"B", "X"} /\ s.taps \ expired \in SUBSET {"B", "X"} /\ v \in BOOLEAN
      /\ n + 2 \in Nat /\ n + 1 < PadEvents /\ (n + 2) + 1 < PadEvents /\ (n + 2) + 2 = n + 4
  BY DEF Fits, P!Pads, P!InputConstants
<1>1. Fits(none, n) /\ Same(s, none) BY <1>0, Aside, Zenon
<1>2. Fits(recent, n) /\ Same(s, recent) BY <1>0, Aside, Zenon
<1>3. ASSUME t \in {none, back} PROVE Fits(t, n) /\ Same(s, t)
  <2> HIDE DEF none, v
  <2>1. Fits(back, n) /\ Same(none, back) BY <1>0, <1>1, Aside, Zenon
  <2>2. Same(s, back) BY <1>1, <2>1, SameChain, Zenon
  <2> QED BY <1>1, <1>3, <2>1, <2>2, Zenon
<1>4. CASE t \in {none, back}
  <2>1. Fits(t, n) /\ Same(s, t) BY <1>3, <1>4
  <2>2. Fits(t, n + 4) BY <2>1 DEF Fits, P!Pads
  <2>3. P!OneOwner(s) => P!OneOwner(t) BY <2>1, SameOwner, Zenon
  <2> QED BY <2>1, <2>2, <2>3 DEF Same
<1>5. CASE t \notin {none, back}
  <2>0. t = two /\ "ZL" \notin down
    <3>1. s.action = "none" BY <1>5, Zenon DEF P!DoubleTaps
    <3>2. s.context = "level" BY <1>5, <3>1, Zenon DEF P!DoubleTaps
    <3>3. ~(s.override \/ "ZL" \in down \/ ~s.focus) BY <1>5, <3>1, <3>2, Zenon DEF P!DoubleTaps
    <3> QED BY <3>1, <3>2, <3>3, Zenon DEF P!DoubleTaps
  <2> HIDE DEF recent
  <2>1. /\ Fits(one, n + 2) /\ Kept(recent, one)
        /\ P!OneOwner(recent) /\ (P!Lawn(recent) => ~recent.aDown) =>
             /\ P!OneOwner(one) /\ (recent.finger = "up" => one.finger = "up")
    BY <1>0, <1>2, TapFacts, "B" \in {"B", "X"}, "shovel" \in {"shovel", "plantfood"}, Zenon
  <2> HIDE DEF one
  <2>2. /\ Fits(two, (n + 2) + 2) /\ Kept(one, two)
        /\ P!OneOwner(one) /\ (P!Lawn(one) => ~one.aDown) =>
             /\ P!OneOwner(two) /\ (one.finger = "up" => two.finger = "up")
    BY <1>0, <2>1, TapFacts, "X" \in {"B", "X"}, "plantfood" \in {"shovel", "plantfood"}, Zenon
  <2> HIDE DEF two
  <2>3. Fits(two, n + 4) BY <1>0, <2>2, Zenon
  <2>4. P!OneOwner(s) => P!OneOwner(recent) BY <1>2, SameOwner, Zenon
  <2>5. Kept(s, recent) /\ Kept(s, one) /\ Kept(s, two) BY <1>2, <2>1, <2>2 DEF Kept, Same
  <2> QED BY <1>2, <2>0, <2>1, <2>2, <2>3, <2>4, <2>5 DEF Kept, Same, P!Lawn
<1> QED BY <1>4, <1>5

(* nav_special_pump, a frame of a tool's gesture. *)
LEMMA PumpFacts ==
  ASSUME P!InputConstants, NEW n \in Nat, n < PadEvents, NEW s, Fits(s, n), s.action # "none", P!Lawn(s)
  PROVE  LET t == P!ToolPump(s) IN
         /\ Fits(t, n + 1) /\ Kept(s, t) /\ (P!OneOwner(s) /\ ~s.touch => P!OneOwner(t))
<1> DEFINE t == P!ToolPump(s)
           gesture == P!Gesture(s.action)
           phase == gesture[s.stage + 1]
           emitted == IF phase = "none" THEN s ELSE P!Emit(s, phase, "tool")
<1>0. /\ s \in P!Pads /\ s.stage \in Nat /\ s.stage < Len(gesture) /\ s.delay \in Nat
      /\ s.action \in {"shovel", "plantfood"} /\ n + 1 \in Nat
  BY DEF Fits, P!Pads
<1>1. CASE s.delay > 0
  <2> DEFINE d == s.delay - 1
             u == [s EXCEPT !.delay = d]
  <2>1. d \in Nat /\ t = [s EXCEPT !.delay = d] BY <1>0, <1>1 DEF P!ToolPump
  <2> HIDE DEF d
  <2>2. u \in P!Pads BY <1>0, <2>1, PadFields, Zenon
  <2>3. Same(s, u) BY <1>0 DEF P!Pads, Same, Kept, Running
  <2>4. Fits(u, n + 1)
    <3>1. Len(u.out) = Len(s.out) /\ u.stage = s.stage /\ u.action = s.action
      BY <2>3 DEF Same, Running
    <3>2. Len(s.out) <= n + 1 BY DEF Fits, P!Pads
    <3> QED BY <1>0, <2>2, <3>1, <3>2 DEF Fits
  <2>5. P!OneOwner(s) => P!OneOwner(u) BY <2>3, SameOwner, Zenon
  <2> QED BY <2>1, <2>3, <2>4, <2>5 DEF Same
<1>2. /\ s.action = "shovel" => /\ s.stage \in 0 .. 4
                                /\ phase = CASE s.stage \in {0, 3} -> "down"
                                             [] s.stage \in {1, 4} -> "up"
                                             [] s.stage = 2 -> "none"
      /\ s.action = "plantfood" => /\ s.stage \in 0 .. 2
                                   /\ phase = CASE s.stage = 0 -> "down"
                                                [] s.stage = 1 -> "move"
                                                [] s.stage = 2 -> "up"
  BY <1>0 DEF P!Gesture
<1>3. Len(gesture) = IF s.action = "shovel" THEN 5 ELSE 3 BY <1>0 DEF P!Gesture
<1> HIDE DEF phase
<1>4. /\ Fits(emitted, n + 1) /\ Kept(s, emitted) /\ Running(s, emitted) /\ emitted.drag = s.drag
      /\ emitted.finger = IF phase = "none" THEN s.finger ELSE P!After(s.finger, phase)
  <2>1. CASE phase = "none"
    <3>1. Fits(s, n + 1) BY DEF Fits, P!Pads
    <3> QED BY <2>1, <3>1 DEF Kept, Running
  <2>2. CASE phase # "none"
    <3>1. phase \in {"down", "move", "up"} BY <1>0, <1>2, <2>2
    <3>2. emitted = P!Emit(s, phase, "tool") BY <2>2, Zenon
    <3>3. "tool" \in {"drag", "tool", "touch", "cursor"} OBVIOUS
    <3> QED BY <2>2, <3>1, <3>2, <3>3, EmitFacts
  <2> QED BY <2>1, <2>2
<1> HIDE DEF emitted
<1>5. CASE ~(s.delay > 0) /\ s.stage + 1 = Len(gesture)
  <2> DEFINE a == P!NoTool(emitted)
             v == IF P!Lawn(emitted) /\ emitted.slot >= 0 THEN 2 ELSE a.rearm
             u == [a EXCEPT !.rearm = v]
  <2>1. t = u BY <1>5, Zenon DEF P!ToolPump, P!ToolDone, emitted, phase
  <2>2. /\ Fits(a, n + 1) /\ Kept(emitted, a) /\ a.drag = emitted.drag /\ a.finger = emitted.finger
        /\ a.action = "none" /\ a.stage = 0
    BY <1>0, <1>4, NoToolFacts, Zenon
  <2> HIDE DEF a
  <2>3. v \in Nat BY <2>2 DEF Fits, P!Pads
  <2> HIDE DEF v
  <2>4. Fits(u, n + 1) /\ Same(a, u) BY <1>0, <2>2, <2>3, Aside, Zenon
  <2> HIDE DEF u
  <2>5. Kept(s, u) /\ u.drag = s.drag /\ u.finger = emitted.finger /\ u.action = "none"
    BY <1>4, <2>2, <2>4 DEF Same, Kept, Running
  <2>6. phase = "up" /\ P!ToolDown(s) BY <1>0, <1>2, <1>3, <1>5 DEF P!ToolDown
  <2>7. P!OneOwner(s) => P!OneOwner(u)
    <3> SUFFICES ASSUME P!OneOwner(s) PROVE P!OneOwner(u) OBVIOUS
    <3>1. s.finger = "down" /\ ~s.drag /\ ~s.touch /\ ~s.aDown BY <1>0, <2>6 DEF P!OneOwner
    <3>2. u.finger = "up" BY <1>4, <2>5, <2>6, <3>1 DEF P!After
    <3> QED BY <2>5, <3>1, <3>2 DEF P!OneOwner, P!ToolDown, Kept
  <2> QED BY <2>1, <2>4, <2>5, <2>7
<1>6. CASE ~(s.delay > 0) /\ s.stage + 1 # Len(gesture)
  <2> DEFINE v == emitted.stage + 1
             u == [emitted EXCEPT !.stage = v]
  <2>1. t = u BY <1>6, Zenon DEF P!ToolPump, emitted, phase
  <2>2. v = s.stage + 1 /\ v \in Nat /\ v < Len(gesture) /\ emitted \in P!Pads /\ Len(emitted.out) <= n + 1
    BY <1>0, <1>3, <1>4, <1>6 DEF Running, Fits
  <2> HIDE DEF v
  <2>3. u \in P!Pads BY <2>2, PadFields, Zenon
  <2>4. /\ Kept(emitted, u) /\ u.action = emitted.action /\ u.stage = v /\ u.drag = emitted.drag
        /\ u.finger = emitted.finger /\ u.out = emitted.out
    BY <2>2 DEF P!Pads, Kept
  <2> HIDE DEF u
  <2>5. Fits(u, n + 1) BY <1>4, <2>2, <2>3, <2>4 DEF Fits, Running
  <2>6. Kept(s, u) /\ u.drag = s.drag /\ u.finger = emitted.finger /\ u.action = s.action
    BY <1>4, <2>4 DEF Kept, Running
  <2>7. P!OneOwner(s) /\ ~s.touch => P!OneOwner(u)
    <3> SUFFICES ASSUME P!OneOwner(s), ~s.touch PROVE P!OneOwner(u) OBVIOUS
    <3>1. ~s.drag /\ ~s.aDown /\ P!Lawn(u) BY <1>0, <2>6 DEF P!OneOwner, Kept, P!Lawn
    <3>2. s.finger = IF P!ToolDown(s) THEN "down" ELSE "up" BY <3>1 DEF P!OneOwner
    <3>3. u.finger = IF P!ToolDown(u) THEN "down" ELSE "up"
      BY <1>0, <1>2, <1>3, <1>4, <1>6, <2>2, <2>4, <2>6, <3>2 DEF P!ToolDown, P!After
    <3> QED BY <2>6, <3>1, <3>3 DEF P!OneOwner, Kept
  <2> QED BY <2>1, <2>5, <2>6, <2>7
<1> QED BY <1>0, <1>1, <1>5, <1>6

(* Fields of an owner that are set alone. *)
LEMMA OverrideSet ==
  ASSUME NEW n \in Nat, NEW s, Fits(s, n), NEW v \in BOOLEAN
  PROVE  LET t == [s EXCEPT !.override = v] IN
         /\ Fits(t, n) /\ t.override = v /\ t.context = s.context /\ t.touch = s.touch
         /\ t.aDown = s.aDown /\ t.start = s.start /\ Running(s, t) /\ t.drag = s.drag
         /\ t.finger = s.finger
<1>1. s \in P!Pads BY DEF Fits
<1>2. Fits([s EXCEPT !.override = v], n) BY OwnerFields, Zenon
<1> QED BY <1>1, <1>2 DEF P!Pads, Running

LEMMA TouchSet ==
  ASSUME NEW n \in Nat, NEW s, Fits(s, n), NEW v \in BOOLEAN
  PROVE  LET t == [s EXCEPT !.touch = v] IN
         /\ Fits(t, n) /\ t.override = s.override /\ t.context = s.context /\ t.touch = v
         /\ t.aDown = s.aDown /\ t.start = s.start /\ Running(s, t) /\ t.drag = s.drag
         /\ t.finger = s.finger
<1>1. s \in P!Pads BY DEF Fits
<1>2. Fits([s EXCEPT !.touch = v], n) BY OwnerFields, Zenon
<1> QED BY <1>1, <1>2 DEF P!Pads, Running

LEMMA ADownSet ==
  ASSUME NEW n \in Nat, NEW s, Fits(s, n), NEW v \in BOOLEAN
  PROVE  LET t == [s EXCEPT !.aDown = v] IN
         /\ Fits(t, n) /\ t.override = s.override /\ t.context = s.context /\ t.touch = s.touch
         /\ t.aDown = v /\ t.start = s.start /\ Running(s, t) /\ t.drag = s.drag
         /\ t.finger = s.finger
<1>1. s \in P!Pads BY DEF Fits
<1>2. Fits([s EXCEPT !.aDown = v], n) BY OwnerFields, Zenon
<1> QED BY <1>1, <1>2 DEF P!Pads, Running

LEMMA StartSet ==
  ASSUME NEW n \in Nat, NEW s, Fits(s, n), NEW v \in BOOLEAN
  PROVE  LET t == [s EXCEPT !.start = v] IN
         /\ Fits(t, n) /\ t.override = s.override /\ t.context = s.context /\ t.touch = s.touch
         /\ t.aDown = s.aDown /\ t.start = v /\ Running(s, t) /\ t.drag = s.drag
         /\ t.finger = s.finger
<1>1. s \in P!Pads BY DEF Fits
<1>2. Fits([s EXCEPT !.start = v], n) BY OwnerFields, Zenon
<1> QED BY <1>1, <1>2 DEF P!Pads, Running

LEMMA ContextSet ==
  ASSUME NEW n \in Nat, NEW s, Fits(s, n), NEW v \in {"menu", "select", "level"}
  PROVE  LET t == [s EXCEPT !.context = v] IN
         /\ Fits(t, n) /\ t.override = s.override /\ t.context = v /\ t.touch = s.touch
         /\ t.aDown = s.aDown /\ t.start = s.start /\ Running(s, t) /\ t.drag = s.drag
         /\ t.finger = s.finger
<1>1. s \in P!Pads BY DEF Fits
<1>2. Fits([s EXCEPT !.context = v], n) BY OwnerFields, Zenon
<1> QED BY <1>1, <1>2 DEF P!Pads, Running

(* platform_set_navigation_context drops the gesture, which is sound while  *)
(* nobody has the finger.                                                   *)
LEMMA ContextFacts ==
  ASSUME NEW n \in Nat, NEW s, Fits(s, n), NEW context \in {"menu", "select", "level"}
  PROVE  LET t == P!SetContext(s, context) IN
         /\ Fits(t, n) /\ t.context = context /\ t.touch = s.touch /\ t.aDown = s.aDown
         /\ t.finger = s.finger /\ (context = s.context => t.override = s.override)
         /\ P!OneOwner(s) /\ (context = s.context \/ s.finger = "up") => P!OneOwner(t)
<1> DEFINE t == P!SetContext(s, context)
<1>1. CASE context = s.context
  <2>1. t = s BY <1>1 DEF P!SetContext
  <2> QED BY <1>1, <2>1
<1>2. CASE context # s.context
  <2> DEFINE hushed == P!Quiet(s)
             a == P!NoTool(hushed)
             b == [a EXCEPT !.drag = FALSE]
             c == [b EXCEPT !.pending = FALSE]
             d == [c EXCEPT !.taps = {}]
             e == [d EXCEPT !.override = FALSE]
             v == context # "menu"
             f == [e EXCEPT !.focus = v]
             g == [f EXCEPT !.context = context]
             w == IF context = "level" THEN -1 ELSE a.slot
             u == [g EXCEPT !.slot = w]
  <2>0. {} \in SUBSET {"B", "X"} /\ v \in BOOLEAN OBVIOUS
  <2>1. t = u BY <1>2, Zenon DEF P!SetContext
  <2>2. Fits(hushed, n) /\ Same(s, hushed) BY QuietFacts, Zenon
  <2> HIDE DEF hushed, v
  <2>3. Fits(a, n) /\ Kept(hushed, a) /\ a.drag = hushed.drag /\ a.finger = hushed.finger /\ a.action = "none"
    BY <2>2, NoToolFacts, Zenon
  <2> HIDE DEF a
  <2>4. Fits(b, n) /\ Kept(a, b) /\ Running(a, b) /\ b.drag = FALSE /\ b.finger = a.finger
    BY <2>3, DragSet, Zenon
  <2> HIDE DEF b
  <2>5. Fits(c, n) /\ Same(b, c) BY <2>4, Aside, Zenon
  <2> HIDE DEF c
  <2>6. Fits(d, n) /\ Same(c, d) BY <2>0, <2>5, Aside, Zenon
  <2> HIDE DEF d
  <2>7. /\ Fits(e, n) /\ e.override = FALSE /\ e.context = d.context /\ e.touch = d.touch
        /\ e.aDown = d.aDown /\ e.start = d.start /\ Running(d, e) /\ e.drag = d.drag
        /\ e.finger = d.finger
    BY <2>6, OverrideSet, FALSE \in BOOLEAN, Zenon
  <2> HIDE DEF e
  <2>8. Fits(f, n) /\ Same(e, f) BY <2>0, <2>7, Aside, Zenon
  <2> HIDE DEF f
  <2>9. /\ Fits(g, n) /\ g.override = f.override /\ g.context = context /\ g.touch = f.touch
        /\ g.aDown = f.aDown /\ g.start = f.start /\ Running(f, g) /\ g.drag = f.drag
        /\ g.finger = f.finger
    BY <2>8, ContextSet, Zenon
  <2> HIDE DEF g
  <2>10. w \in Int BY <2>3 DEF Fits, P!Pads
  <2> HIDE DEF w
  <2>11. Fits(u, n) /\ Same(g, u) BY <2>9, <2>10, Aside, Zenon
  <2> HIDE DEF u
  <2>12. /\ u.context = context /\ u.touch = s.touch /\ u.aDown = s.aDown /\ u.drag = FALSE
         /\ u.finger = s.finger /\ u.action = "none"
    BY <2>2, <2>3, <2>4, <2>5, <2>6, <2>7, <2>8, <2>9, <2>11 DEF Same, Kept, Running
  <2>13. P!OneOwner(s) /\ s.finger = "up" => P!OneOwner(u) BY <2>12 DEF P!OneOwner, P!ToolDown
  <2> QED BY <1>2, <2>1, <2>11, <2>12, <2>13
<1> QED BY <1>1, <1>2

(* nav_commit_level_back, which drops no tool's gesture. *)
LEMMA LevelBackFacts ==
  ASSUME P!InputConstants, NEW n \in Nat, n + 1 < PadEvents, NEW s, Fits(s, n)
  PROVE  LET t == P!LevelBack(s) IN
         /\ Fits(t, n + 2) /\ t.context = s.context /\ t.touch = s.touch /\ t.aDown = s.aDown
         /\ s.action = "none" => t.override = ~s.override
         /\ P!OneOwner(s) /\ (s.action # "none" \/ s.finger = "up") =>
              P!OneOwner(t) /\ t.finger = s.finger /\ (s.action # "none" => t.override = s.override)
<1> DEFINE t == P!LevelBack(s)
<1>0. n + 2 \in Nat /\ {} \in SUBSET {"B", "X"} /\ s.override \in BOOLEAN BY DEF Fits, P!Pads
<1>1. CASE s.action # "none"
  <2> DEFINE u == [s EXCEPT !.taps = {}]
  <2>1. t = u BY <1>1, Zenon DEF P!LevelBack
  <2>2. Fits(u, n) /\ Same(s, u) BY <1>0, Aside, Zenon
  <2> HIDE DEF u
  <2>3. Fits(u, n + 2) BY <2>2 DEF Fits, P!Pads
  <2>4. P!OneOwner(s) => P!OneOwner(u) BY <2>2, SameOwner, Zenon
  <2> QED BY <1>1, <2>1, <2>2, <2>3, <2>4 DEF Same, Kept
<1>2. CASE s.action = "none"
  <2> DEFINE a == P!DragCancel(s)
             b == P!NoTool(a)
             c == [b EXCEPT !.pending = FALSE]
             d == [c EXCEPT !.taps = {}]
             e == [d EXCEPT !.back = TRUE]
             v == ~b.override
             f == [e EXCEPT !.override = v]
             u == [f EXCEPT !.focus = s.override]
  <2>1. t = u BY <1>2, Zenon DEF P!LevelBack
  <2>2. /\ Fits(a, n + 2) /\ Kept(s, a) /\ Running(s, a) /\ ~a.drag
        /\ P!OneOwner(s) => P!OneOwner(a) /\ (s.finger = "up" => a.finger = "up")
    BY CancelFacts, Zenon
  <2> HIDE DEF a
  <2>3. /\ Fits(b, n + 2) /\ Kept(a, b) /\ b.drag = a.drag /\ b.finger = a.finger
        /\ b.action = "none"
    BY <1>0, <2>2, NoToolFacts, Zenon
  <2> HIDE DEF b
  <2>4. Fits(c, n + 2) /\ Same(b, c) BY <1>0, <2>3, Aside, Zenon
  <2> HIDE DEF c
  <2>5. Fits(d, n + 2) /\ Same(c, d) BY <1>0, <2>4, Aside, Zenon
  <2> HIDE DEF d
  <2>6. Fits(e, n + 2) /\ Same(d, e) BY <1>0, <2>5, Aside, Zenon
  <2> HIDE DEF e
  <2>7. v \in BOOLEAN /\ v = ~s.override BY <2>2, <2>3 DEF Kept
  <2> HIDE DEF v
  <2>8. /\ Fits(f, n + 2) /\ f.override = v /\ f.context = e.context /\ f.touch = e.touch
        /\ f.aDown = e.aDown /\ f.start = e.start /\ Running(e, f) /\ f.drag = e.drag
        /\ f.finger = e.finger
    <3>1. v \in BOOLEAN BY <2>7
    <3> QED BY <1>0, <2>6, <3>1, OverrideSet
  <2> HIDE DEF f
  <2>9. Fits(u, n + 2) /\ Same(f, u) BY <1>0, <2>8, Aside, Zenon
  <2> HIDE DEF u
  <2>10. /\ u.context = s.context /\ u.touch = s.touch /\ u.aDown = s.aDown /\ ~u.drag
         /\ u.finger = a.finger /\ u.action = "none" /\ u.override = v
    BY <2>2, <2>3, <2>4, <2>5, <2>6, <2>8, <2>9 DEF Same, Kept, Running
  <2>11. P!OneOwner(s) /\ s.finger = "up" => P!OneOwner(u) /\ u.finger = s.finger
    BY <2>2, <2>10 DEF P!OneOwner, P!ToolDown
  <2> QED BY <1>2, <2>1, <2>7, <2>9, <2>10, <2>11
<1> QED BY <1>1, <1>2

(* collect_touch_events: a touch that begins while nobody has the finger.   *)
LEMMA TouchFacts ==
  ASSUME P!InputConstants, NEW n \in Nat, n + 2 < PadEvents, NEW s, Fits(s, n),
         NEW contact \in BOOLEAN, NEW hit \in BOOLEAN
  PROVE  LET t == P!Touch(s, contact, hit) IN
         /\ Fits(t, n + 3) /\ t.context = s.context /\ t.override = s.override
         /\ t.touch = contact /\ t.aDown = s.aDown
         /\ t.start => s.start \/ s.context = "select"
         /\ P!OneOwner(s) /\ (s.touch \/ s.finger = "up") =>
              P!OneOwner(t) /\ (s.touch \/ contact => ~P!ToolDown(t) /\ ~t.aDown)
<1> DEFINE t == P!Touch(s, contact, hit)
           cancel == P!DragCancel(s)
           let == [cancel EXCEPT !.focus = FALSE]
           taken == IF ~s.touch /\ contact /\ s.drag THEN let ELSE s
<1>0. /\ n + 1 \in Nat /\ n + 2 \in Nat /\ n + 3 \in Nat /\ n + 1 < PadEvents /\ n + 2 < PadEvents
      /\ n < PadEvents /\ (n + 2) + 1 = n + 3 /\ s.touch \in BOOLEAN /\ s.start \in BOOLEAN
      /\ Fits(s, n + 2) /\ Fits(s, n + 3)
  BY DEF P!InputConstants, Fits, P!Pads
<1>1. CASE contact
  <2>1. /\ Fits(taken, n + 2) /\ Kept(s, taken) /\ Running(s, taken)
        /\ P!OneOwner(s) => /\ P!OneOwner(taken) /\ (s.finger = "up" => taken.finger = "up")
                          /\ (s.touch => taken.finger = "down")
    <3>1. CASE ~s.touch /\ contact /\ s.drag
      <4>1. taken = let BY <3>1, Zenon
      <4>2. /\ Fits(cancel, n + 2) /\ Kept(s, cancel) /\ Running(s, cancel)
            /\ P!OneOwner(s) => P!OneOwner(cancel) /\ (s.finger = "up" => cancel.finger = "up")
        BY <1>0, CancelFacts, Zenon
      <4> HIDE DEF cancel
      <4>3. Fits(let, n + 2) /\ Same(cancel, let) BY <1>0, <4>2, Aside, Zenon
      <4>4. P!OneOwner(cancel) => P!OneOwner(let) BY <4>3, SameOwner, Zenon
      <4> HIDE DEF let
      <4> QED BY <3>1, <4>1, <4>2, <4>3, <4>4 DEF Same, Kept, Running
    <3>2. CASE ~(~s.touch /\ contact /\ s.drag)
      <4>1. taken = s BY <3>2, Zenon
      <4> QED BY <1>0, <4>1 DEF P!OneOwner, Kept, Running
    <3> QED BY <3>1, <3>2
  <2> DEFINE phase == IF s.touch THEN "move" ELSE "down"
             e == P!Emit(taken, phase, "touch")
             a == [e EXCEPT !.touch = TRUE]
             v == e.shown /\ (s.touch \/ s.policy # "auto")
             u == [a EXCEPT !.shown = v]
  <2>2. t = u
    <3>1. taken.shown = s.shown \/ TRUE OBVIOUS
    <3> QED BY <1>1, Zenon DEF P!Touch
  <2> HIDE DEF taken
  <2>3. /\ Fits(e, n + 3) /\ e.finger = P!After(taken.finger, phase) /\ Kept(taken, e)
        /\ Running(taken, e) /\ e.drag = taken.drag
    <3>1. phase \in {"down", "move", "up"} /\ "touch" \in {"drag", "tool", "touch", "cursor"}
      OBVIOUS
    <3> HIDE DEF phase
    <3>2. /\ Fits(e, (n + 2) + 1) /\ e.finger = P!After(taken.finger, phase) /\ Kept(taken, e)
          /\ Running(taken, e) /\ e.drag = taken.drag
      <4>1. Fits(taken, n + 2) BY <2>1
      <4>2. n + 2 \in Nat /\ n + 2 < PadEvents BY <1>0
      <4> QED BY <3>1, <4>1, <4>2, EmitFacts, SMTT(30)
    <3> QED BY <1>0, <3>2
  <2> HIDE DEF e
  <2>4. /\ Fits(a, n + 3) /\ a.override = e.override /\ a.context = e.context /\ a.touch = TRUE
        /\ a.aDown = e.aDown /\ a.start = e.start /\ Running(e, a) /\ a.drag = e.drag
        /\ a.finger = e.finger
    BY <1>0, <2>3, TouchSet, TRUE \in BOOLEAN, Zenon
  <2> HIDE DEF a
  <2>5. v \in BOOLEAN BY <2>3 DEF Fits, P!Pads
  <2> HIDE DEF v
  <2>6. Fits(u, n + 3) /\ Same(a, u) BY <1>0, <2>4, <2>5, Aside, Zenon
  <2> HIDE DEF u
  <2>7. /\ u.context = s.context /\ u.override = s.override /\ u.touch = TRUE
        /\ u.aDown = s.aDown /\ u.start = s.start /\ Running(s, u) /\ u.drag = taken.drag
        /\ u.finger = P!After(taken.finger, phase)
    BY <2>1, <2>3, <2>4, <2>6 DEF Same, Kept, Running
  <2>8. P!OneOwner(s) /\ (s.touch \/ s.finger = "up") => P!OneOwner(u) /\ ~P!ToolDown(u) /\ ~u.aDown
    <3> SUFFICES ASSUME P!OneOwner(s), s.touch \/ s.finger = "up"
                 PROVE  P!OneOwner(u) /\ ~P!ToolDown(u) /\ ~u.aDown
      OBVIOUS
    <3>1. ~s.drag /\ ~P!ToolDown(s) /\ ~s.aDown BY DEF P!OneOwner
    <3>2. ~u.aDown /\ ~P!ToolDown(u) BY <2>7, <3>1 DEF Running, P!ToolDown
    <3>3. P!OneOwner(taken) /\ taken.finger = IF s.touch THEN "down" ELSE "up" BY <1>0, <2>1
    <3>4. u.finger = "down" BY <1>0, <2>7, <3>3 DEF P!After
    <3>5. ~u.drag
      <4>1. taken.touch = s.touch BY <2>1 DEF Kept
      <4> QED BY <1>0, <2>7, <3>3, <4>1 DEF P!OneOwner
    <3> QED BY <2>7, <3>2, <3>4, <3>5 DEF P!OneOwner, Running, P!Lawn
  <2> QED BY <1>1, <2>2, <2>6, <2>7, <2>8
<1>2. CASE ~contact /\ s.touch
  <2> DEFINE e == P!Emit(s, "up", "touch")
             a == [e EXCEPT !.touch = FALSE]
             v == e.start \/ (hit /\ s.context = "select")
             u == [a EXCEPT !.start = v]
  <2>1. t = u BY <1>2, Zenon DEF P!Touch
  <2>2. Fits(e, n + 1) /\ e.finger = P!After(s.finger, "up") /\ Kept(s, e) /\ Running(s, e) /\ e.drag = s.drag
    <3>1. "up" \in {"down", "move", "up"} /\ "touch" \in {"drag", "tool", "touch", "cursor"}
      OBVIOUS
    <3> QED BY <1>0, <3>1, EmitFacts
  <2> HIDE DEF e
  <2>3. /\ Fits(a, n + 1) /\ a.override = e.override /\ a.context = e.context /\ a.touch = FALSE
        /\ a.aDown = e.aDown /\ a.start = e.start /\ Running(e, a) /\ a.drag = e.drag
        /\ a.finger = e.finger
    BY <1>0, <2>2, TouchSet, FALSE \in BOOLEAN, Zenon
  <2> HIDE DEF a
  <2>4. v \in BOOLEAN /\ (v => s.start \/ s.context = "select") BY <1>0, <2>2 DEF Kept
  <2> HIDE DEF v
  <2>5. /\ Fits(u, n + 1) /\ u.override = a.override /\ u.context = a.context /\ u.touch = a.touch
        /\ u.aDown = a.aDown /\ u.start = v /\ Running(a, u) /\ u.drag = a.drag
        /\ u.finger = a.finger
    <3>1. v \in BOOLEAN BY <2>4
    <3>2. Fits(a, n + 1) BY <2>3
    <3> QED BY <1>0, <3>1, <3>2, StartSet
  <2> HIDE DEF u
  <2>6. Fits(u, n + 3) BY <2>5 DEF Fits, P!Pads
  <2>7. /\ u.context = s.context /\ u.override = s.override /\ u.touch = FALSE
        /\ u.aDown = s.aDown /\ u.start = v /\ Running(s, u) /\ u.drag = s.drag
        /\ u.finger = P!After(s.finger, "up")
    BY <2>2, <2>3, <2>5 DEF Kept, Running
  <2>8. P!OneOwner(s) => P!OneOwner(u) /\ ~P!ToolDown(u) /\ ~u.aDown
    <3> SUFFICES ASSUME P!OneOwner(s) PROVE P!OneOwner(u) /\ ~P!ToolDown(u) /\ ~u.aDown OBVIOUS
    <3>1. ~s.drag /\ ~P!ToolDown(s) /\ ~s.aDown /\ s.finger = "down" BY <1>2 DEF P!OneOwner
    <3>2. ~u.aDown /\ ~P!ToolDown(u) /\ ~u.drag BY <2>7, <3>1 DEF Running, P!ToolDown
    <3>3. u.finger = "up" BY <2>7, <3>1 DEF P!After
    <3> QED BY <2>7, <3>2, <3>3 DEF P!OneOwner, Running, P!Lawn
  <2> QED BY <1>2, <2>1, <2>4, <2>6, <2>7, <2>8
<1>3. CASE ~contact /\ ~s.touch
  <2>1. t = s BY <1>3 DEF P!Touch
  <2> QED BY <1>0, <1>3, <2>1
<1> QED BY <1>0, <1>1, <1>2, <1>3

(* A touch that is there, or was until now, drops what the buttons hold.    *)
LEMMA OwnsFacts ==
  ASSUME NEW n \in Nat, NEW s, Fits(s, n), NEW down
  PROVE  LET t == P!TouchOwns(s, down) IN
         /\ Fits(t, n) /\ t.context = s.context /\ t.override = s.override /\ t.touch = s.touch
         /\ t.start = s.start /\ t.aDown = ("A" \in down)
         /\ P!OneOwner(s) /\ ~P!ToolDown(s) /\ ~s.aDown /\ ~t.aDown => P!OneOwner(t)
<1> DEFINE t == P!TouchOwns(s, down)
           hushed == P!Quiet(s)
           a == P!NoTool(hushed)
           b == [a EXCEPT !.focus = FALSE]
           c == [b EXCEPT !.pending = FALSE]
           d == [c EXCEPT !.taps = {}]
           v == "A" \in down
           u == [d EXCEPT !.aDown = v]
<1>0. {} \in SUBSET {"B", "X"} /\ v \in BOOLEAN OBVIOUS
<1>1. t = u BY Zenon DEF P!TouchOwns
<1>2. Fits(hushed, n) /\ Same(s, hushed) BY QuietFacts, Zenon
<1>3. P!OneOwner(s) => P!OneOwner(hushed) BY <1>2, SameOwner, Zenon
<1> HIDE DEF hushed
<1>4. /\ Fits(a, n) /\ Kept(hushed, a) /\ a.drag = hushed.drag /\ a.finger = hushed.finger
      /\ P!OneOwner(hushed) /\ ~P!ToolDown(hushed) => P!OneOwner(a)
  BY <1>2, NoToolFacts, Zenon
<1> HIDE DEF a
<1>5. Fits(b, n) /\ Same(a, b) BY <1>0, <1>4, Aside, Zenon
<1> HIDE DEF b
<1>6. Fits(c, n) /\ Same(b, c) BY <1>0, <1>5, Aside, Zenon
<1> HIDE DEF c
<1>7. Fits(d, n) /\ Same(c, d) BY <1>0, <1>6, Aside, Zenon
<1> HIDE DEF d, v
<1>8. /\ Fits(u, n) /\ u.override = d.override /\ u.context = d.context /\ u.touch = d.touch
      /\ u.aDown = v /\ u.start = d.start /\ Running(d, u) /\ u.drag = d.drag
      /\ u.finger = d.finger
  BY <1>0, <1>7, ADownSet, Zenon
<1> HIDE DEF u
<1>9. /\ u.context = s.context /\ u.override = s.override /\ u.touch = s.touch /\ u.start = s.start
  BY <1>2, <1>4, <1>5, <1>6, <1>7, <1>8 DEF Same, Kept
<1>10. P!OneOwner(s) /\ ~P!ToolDown(s) /\ ~s.aDown /\ ~v => P!OneOwner(u)
  <2>1. P!OneOwner(a) => P!OneOwner(d)
    <3>1. Same(a, d) BY <1>5, <1>6, <1>7 DEF Same, Kept, Running
    <3> QED BY <3>1, SameOwner, Zenon
  <2>2. P!ToolDown(hushed) = P!ToolDown(s) BY <1>2 DEF Same, Running, P!ToolDown
  <2>3. d.aDown = s.aDown BY <1>2, <1>4, <1>5, <1>6, <1>7 DEF Same, Kept
  <2>4. P!OneOwner(d) /\ ~d.aDown /\ ~v => P!OneOwner(u)
    BY <1>8 DEF P!OneOwner, P!ToolDown, Running, P!Lawn
  <2> QED BY <1>3, <1>4, <2>1, <2>2, <2>3, <2>4
<1> QED BY <1>1, <1>8, <1>9, <1>10 DEF v
(* Whether the finger is free for the buttons, with those that are down.    *)
Free(s, down) == s.action = "none" /\ ~s.touch /\ (P!Lawn(s) /\ "ZL" \notin down => ~s.aDown)

LEMMA FreeCarries ==
  ASSUME NEW s, NEW t, Kept(s, t), Running(s, t), NEW down
  PROVE  /\ Idle(s) => Idle(t)
         /\ Free(s, down) => Free(t, down)
         /\ Free(s, down) /\ "ZL" \notin down => Idle(s)
         /\ P!Lawn(s) => P!Lawn(t)
         /\ P!Lawn(t) => P!Lawn(s)
BY DEF Kept, Running, Idle, Free, P!Lawn

LEMMA KeptChain ==
  ASSUME NEW s, NEW t, NEW u, Kept(s, t), Running(s, t), Kept(t, u), Running(t, u)
  PROVE  Kept(s, u) /\ Running(s, u)
BY DEF Kept, Running

LEMMA SameKept ==
  ASSUME NEW s, NEW t, Same(s, t) PROVE Kept(s, t) /\ Running(s, t) /\ t.drag = s.drag
BY DEF Same

LEMMA FitsMore ==
  ASSUME NEW n \in Nat, NEW m \in Nat, n <= m, NEW s, Fits(s, n) PROVE Fits(s, m)
<1>1. s.out \in Seq(Events) BY DEF Fits, P!Pads, Events
<1> QED BY <1>1 DEF Fits

(* A step of the D-pad or the stick takes up the packet or moves it.        *)
LEMMA BeginOrMoveFacts ==
  ASSUME P!InputConstants, NEW n \in Nat, n < PadEvents, NEW s, Fits(s, n), NEW moved \in BOOLEAN
  PROVE  LET t == P!BeginOrMove(s, moved) IN
         /\ Fits(t, n + 1) /\ Kept(s, t) /\ Running(s, t)
         /\ P!OneOwner(s) /\ Idle(s) => P!OneOwner(t)
<1> DEFINE t == P!BeginOrMove(s, moved)
<1>1. CASE t = P!DragBegin(s) BY <1>1, BeginFacts, Zenon
<1>2. CASE t = P!DragMove(s) BY <1>2, MoveFacts, Zenon
<1>3. CASE t = s
  <2>1. Fits(s, n + 1) BY FitsMore, n + 1 \in Nat, n <= n + 1
  <2> QED BY <1>3, <2>1 DEF Kept, Running
<1>4. t = P!DragBegin(s) \/ t = P!DragMove(s) \/ t = s BY Zenon DEF P!BeginOrMove
<1> QED BY <1>1, <1>2, <1>3, <1>4

LEMMA DpadFacts ==
  ASSUME P!InputConstants, NEW n \in Nat, n < PadEvents, NEW s, Fits(s, n), NEW cell \in Cells
  PROVE  LET t == P!Dpad(s, cell) IN
         /\ Fits(t, n + 1) /\ Kept(s, t) /\ Running(s, t)
         /\ P!OneOwner(s) /\ Idle(s) => P!OneOwner(t)
<1> DEFINE t == P!Dpad(s, cell)
           a == P!AutoShow(s)
           b == [a EXCEPT !.focus = TRUE]
           c == [b EXCEPT !.cell = cell]
           v == s.context = "select"
           d == [a EXCEPT !.focus = v]
<1>0. v \in BOOLEAN OBVIOUS
<1>1. Fits(a, n) /\ Same(s, a) BY ShowFacts, Zenon
<1> HIDE DEF v
<1>2. CASE P!Lawn(s)
  <2>1. t = P!BeginOrMove(c, TRUE) BY <1>2, Zenon DEF P!Dpad
  <2> HIDE DEF a
  <2>2. Fits(b, n) /\ Same(a, b) BY <1>1, Aside, TRUE \in BOOLEAN, Zenon
  <2> HIDE DEF b
  <2>3. Fits(c, n) /\ Same(b, c) BY <2>2, Aside, Zenon
  <2> HIDE DEF c
  <2>4. Same(s, c) BY <1>1, <2>2, <2>3, SameChain, Zenon
  <2>5. /\ Fits(t, n + 1) /\ Kept(c, t) /\ Running(c, t)
        /\ P!OneOwner(c) /\ Idle(c) => P!OneOwner(t)
    BY <2>1, <2>3, BeginOrMoveFacts, TRUE \in BOOLEAN, Zenon
  <2> HIDE DEF t
  <2>6. Kept(s, t) /\ Running(s, t) BY <2>4, <2>5, SameKept, KeptChain, Zenon
  <2>7. P!OneOwner(s) /\ Idle(s) => P!OneOwner(t) BY <2>4, <2>5, SameOwner, Zenon
  <2> QED BY <2>5, <2>6, <2>7 DEF t
<1>3. CASE ~P!Lawn(s)
  <2>1. t = d BY <1>3, Zenon DEF P!Dpad, v
  <2> HIDE DEF a
  <2>2. Fits(d, n) /\ Same(a, d) BY <1>0, <1>1, Aside
  <2> HIDE DEF d
  <2>3. Same(s, d) BY <1>1, <2>2, SameChain, Zenon
  <2>4. Fits(d, n + 1) BY <2>2, FitsMore, n + 1 \in Nat, n <= n + 1
  <2> QED BY <2>1, <2>3, <2>4, SameKept, SameOwner, Zenon
<1> QED BY <1>2, <1>3

(* What follows a packet from frame to frame.                               *)
LEMMA PacketFacts ==
  ASSUME P!InputConstants, NEW n \in Nat, n + 2 < PadEvents, NEW s, Fits(s, n), NEW pressed, NEW down
  PROVE  LET t == P!Packet(s, pressed, down) IN
         /\ Fits(t, n + 3) /\ Kept(s, t) /\ Running(s, t)
         /\ P!OneOwner(s) /\ Free(s, down) => P!OneOwner(t)
<1> DEFINE t == P!Packet(s, pressed, down)
           calm == P!Lawn(s) /\ pressed \cap {"L", "R", "B"} = {} /\ "ZL" \notin down
           moving == [s EXCEPT !.needsMove = FALSE]
           a == IF s.needsMove /\ s.drag /\ calm THEN P!DragMove(moving) ELSE s
           waiting == [a EXCEPT !.pending = FALSE]
           b == IF a.pending /\ calm THEN P!DragBegin(waiting) ELSE a
           r == b.rearm - 1
           c == [b EXCEPT !.rearm = r]
<1>0. /\ n + 1 \in Nat /\ n + 2 \in Nat /\ n + 3 \in Nat /\ n < PadEvents /\ n + 1 < PadEvents
      /\ (n + 1) + 1 = n + 2 /\ (n + 2) + 1 = n + 3
      /\ n <= n + 1 /\ n + 1 <= n + 2 /\ n + 2 <= n + 3
  BY DEF P!InputConstants
<1>1. /\ Fits(a, n + 1) /\ Kept(s, a) /\ Running(s, a) /\ (P!OneOwner(s) => P!OneOwner(a))
  <2>1. CASE a = s
    <3>1. Fits(s, n + 1) BY <1>0, FitsMore, Zenon
    <3> QED BY <2>1, <3>1 DEF Kept, Running
  <2>2. CASE a = P!DragMove(moving)
    <3>1. Fits(moving, n) /\ Same(s, moving) BY Aside, FALSE \in BOOLEAN, Zenon
    <3> HIDE DEF moving
    <3>2. /\ Fits(a, n + 1) /\ Kept(moving, a) /\ Running(moving, a)
          /\ P!OneOwner(moving) => P!OneOwner(a)
      BY <1>0, <2>2, <3>1, MoveFacts, Zenon
    <3> HIDE DEF a
    <3> QED BY <3>1, <3>2, SameKept, SameOwner, KeptChain, Zenon
  <2> QED BY <2>1, <2>2, Zenon
<1>2. Idle(s) => Idle(a) BY <1>1, FreeCarries, Zenon
<1>3. /\ Fits(b, n + 2) /\ Kept(s, b) /\ Running(s, b)
      /\ P!OneOwner(s) /\ Free(s, down) => P!OneOwner(b)
  <2>1. CASE ~(a.pending /\ calm)
    <3>1. b = a BY <2>1, Zenon
    <3>2. Fits(a, n + 2) BY <1>0, <1>1, FitsMore, Zenon
    <3> HIDE DEF a, b
    <3> QED BY <1>1, <3>1, <3>2
  <2>2. CASE a.pending /\ calm
    <3>1. b = P!DragBegin(waiting) BY <2>2, Zenon
    <3> HIDE DEF a
    <3>2. Fits(waiting, n + 1) /\ Same(a, waiting) BY <1>0, <1>1, Aside, FALSE \in BOOLEAN, Zenon
    <3> HIDE DEF waiting
    <3>3. /\ Fits(b, (n + 1) + 1) /\ Kept(waiting, b) /\ Running(waiting, b)
          /\ P!OneOwner(waiting) /\ Idle(waiting) => P!OneOwner(b)
      BY <1>0, <3>1, <3>2, BeginFacts, Zenon
    <3>4. Fits(b, n + 2) BY <1>0, <3>3, Zenon
    <3> HIDE DEF b
    <3>5. Kept(a, b) /\ Running(a, b) BY <3>2, <3>3, SameKept, KeptChain, Zenon
    <3>6. Kept(s, b) /\ Running(s, b) BY <1>1, <3>5, KeptChain, Zenon
    <3>7. P!OneOwner(a) /\ Idle(a) => P!OneOwner(b) BY <3>2, <3>3, SameOwner, Zenon
    <3>8. Free(s, down) => Idle(s) BY <2>2 DEF Free, Idle
    <3> QED BY <1>1, <1>2, <3>4, <3>6, <3>7, <3>8
  <2> QED BY <2>1, <2>2
<1>4. t = IF b.rearm = 0 THEN b ELSE IF c.rearm = 0 /\ calm /\ c.focus THEN P!DragBegin(c) ELSE c
  BY Zenon DEF P!Packet
<1>5. CASE b.rearm = 0
  <2>1. t = b BY <1>4, <1>5, Zenon
  <2> HIDE DEF b, t
  <2>2. Fits(b, n + 3) BY <1>0, <1>3, FitsMore, Zenon
  <2> QED BY <1>3, <2>1, <2>2 DEF t
<1>6. CASE b.rearm # 0
  <2>0. t = c \/ (t = P!DragBegin(c) /\ calm) BY <1>4, <1>6, Zenon
  <2> HIDE DEF b, t
  <2>1. r \in Nat BY <1>3, <1>6 DEF Fits, P!Pads
  <2> HIDE DEF r
  <2>2. Fits(c, n + 2) /\ Same(b, c) BY <1>0, <1>3, <2>1, Aside, Zenon
  <2> HIDE DEF c
  <2>3. Kept(s, c) /\ Running(s, c) BY <1>3, <2>2, SameKept, KeptChain, Zenon
  <2>4. P!OneOwner(s) /\ Free(s, down) => P!OneOwner(c) BY <1>3, <2>2, SameOwner, Zenon
  <2>5. CASE t = c
    <3>1. Fits(c, n + 3) BY <1>0, <2>2, FitsMore, Zenon
    <3> QED BY <2>3, <2>4, <2>5, <3>1 DEF t
  <2>6. CASE t = P!DragBegin(c) /\ calm
    <3>1. /\ Fits(t, (n + 2) + 1) /\ Kept(c, t) /\ Running(c, t)
          /\ P!OneOwner(c) /\ Idle(c) => P!OneOwner(t)
      BY <1>0, <2>2, <2>6, BeginFacts, Zenon
    <3>2. Fits(t, n + 3) BY <1>0, <3>1, Zenon
    <3>3. Kept(s, t) /\ Running(s, t) BY <2>3, <3>1, KeptChain, Zenon
    <3>4. Free(s, down) => Idle(s) BY <2>6 DEF Free, Idle
    <3>5. Idle(s) => Idle(c) BY <2>3, FreeCarries, Zenon
    <3> QED BY <2>4, <3>1, <3>2, <3>3, <3>4, <3>5 DEF t
  <2> QED BY <2>0, <2>5, <2>6
<1> QED BY <1>5, <1>6
(* The shoulder buttons let go of the packet or take up the next one.       *)
LEMMA ShoulderFacts ==
  ASSUME P!InputConstants, NEW n \in Nat, n + 1 < PadEvents, NEW s, Fits(s, n), NEW pressed
  PROVE  LET t == P!Shoulder(s, pressed) IN
         /\ Fits(t, n + 2) /\ Kept(s, t) /\ Running(s, t)
         /\ P!OneOwner(s) /\ (pressed \cap {"L", "R"} # {} => Idle(s)) => P!OneOwner(t)
<1> DEFINE t == P!Shoulder(s, pressed)
           left == "L" \in pressed
           slot == IF s.slot < 0 THEN 0
                   ELSE IF left THEN (IF s.slot > 0 THEN s.slot - 1 ELSE 0)
                   ELSE IF s.slot + 1 < Packets THEN s.slot + 1 ELSE s.slot
           z == P!DragCancel(s)
           a == P!AutoShow(z)
           b == [a EXCEPT !.slot = slot]
           c == [b EXCEPT !.rearm = 0]
           d == [c EXCEPT !.focus = TRUE]
           moved == [d EXCEPT !.pending = s.drag]
<1>0. /\ n + 1 \in Nat /\ n + 2 \in Nat /\ n < PadEvents /\ n + 1 < PadEvents
      /\ n <= n + 1 /\ n <= n + 2 /\ n + 1 <= n + 2 /\ 0 \in Nat /\ s.drag \in BOOLEAN
  BY DEF P!InputConstants, Fits, P!Pads
<1>1. CASE ~P!Lawn(s) \/ left = ("R" \in pressed) \/ (slot = s.slot /\ s.drag)
  <2>1. t = s BY <1>1, Zenon DEF P!Shoulder
  <2>2. Fits(s, n + 2) BY <1>0, FitsMore, Zenon
  <2> QED BY <2>1, <2>2 DEF Kept, Running
<1>2. CASE ~(~P!Lawn(s) \/ left = ("R" \in pressed) \/ (slot = s.slot /\ s.drag))
  <2>0. t = IF s.drag THEN moved ELSE P!DragBegin(moved) BY <1>2, Zenon DEF P!Shoulder
  <2>1. pressed \cap {"L", "R"} # {} BY <1>2
  <2>2. slot \in Int BY DEF Fits, P!Pads, P!InputConstants
  <2> HIDE DEF slot
  <2>3. ASSUME NEW m \in Nat, Fits(z, m), Kept(s, z), Running(s, z), P!OneOwner(s) => P!OneOwner(z)
        PROVE  /\ Fits(moved, m) /\ Kept(s, moved) /\ Running(s, moved)
               /\ P!OneOwner(s) => P!OneOwner(moved)
    <3> HIDE DEF z
    <3>1. Fits(a, m) /\ Same(z, a) BY <2>3, ShowFacts, Zenon
    <3> HIDE DEF a
    <3>2. Fits(b, m) /\ Same(a, b) BY <2>2, <3>1, Aside, Zenon
    <3> HIDE DEF b
    <3>3. Fits(c, m) /\ Same(b, c) BY <1>0, <3>2, Aside, Zenon
    <3> HIDE DEF c
    <3>4. Fits(d, m) /\ Same(c, d) BY <3>3, Aside, TRUE \in BOOLEAN, Zenon
    <3> HIDE DEF d
    <3>5. Fits(moved, m) /\ Same(d, moved) BY <1>0, <3>4, Aside
    <3> HIDE DEF moved
    <3>6. Same(z, moved) BY <3>1, <3>2, <3>3, <3>4, <3>5, SameChain, Zenon
    <3> QED BY <2>3, <3>5, <3>6, SameKept, SameOwner, KeptChain, Zenon
  <2>4. CASE s.drag
    <3>1. t = moved BY <2>0, <2>4, Zenon
    <3>2. /\ Fits(z, n + 2) /\ Kept(s, z) /\ Running(s, z) /\ (P!OneOwner(s) => P!OneOwner(z))
      BY <1>0, CancelFacts, Zenon
    <3>3. /\ Fits(moved, n + 2) /\ Kept(s, moved) /\ Running(s, moved)
          /\ P!OneOwner(s) => P!OneOwner(moved)
      BY <1>0, <2>3, <3>2, Zenon
    <3> HIDE DEF moved, t
    <3> QED BY <3>1, <3>3 DEF t
  <2>5. CASE ~s.drag
    <3>1. t = P!DragBegin(moved) BY <2>0, <2>5, Zenon
    <3>2. z = P!Quiet(s) BY <2>5, Zenon DEF P!DragCancel
    <3>3. /\ Fits(z, n) /\ Kept(s, z) /\ Running(s, z) /\ (P!OneOwner(s) => P!OneOwner(z))
      BY <3>2, QuietFacts, SameKept, SameOwner, Zenon
    <3>4. /\ Fits(moved, n) /\ Kept(s, moved) /\ Running(s, moved)
          /\ P!OneOwner(s) => P!OneOwner(moved)
      BY <2>3, <3>3, Zenon
    <3> HIDE DEF moved, t
    <3>5. /\ Fits(t, n + 1) /\ Kept(moved, t) /\ Running(moved, t)
          /\ P!OneOwner(moved) /\ Idle(moved) => P!OneOwner(t)
      BY <1>0, <3>1, <3>4, BeginFacts, Zenon
    <3>6. Fits(t, n + 2) BY <1>0, <3>5, FitsMore, Zenon
    <3>7. Kept(s, t) /\ Running(s, t) BY <3>4, <3>5, KeptChain, Zenon
    <3>8. Idle(s) => Idle(moved) BY <3>4, FreeCarries, Zenon
    <3> QED BY <2>1, <3>4, <3>5, <3>6, <3>7, <3>8 DEF t
  <2> QED BY <1>0, <2>4, <2>5
<1> QED BY <1>1, <1>2

(* The stick and A: on the lawn the packet is placed, elsewhere the cursor  *)
(* follows the button.                                                      *)
LEMMA CursorFacts ==
  ASSUME P!InputConstants, NEW n \in Nat, n + 2 < PadEvents, NEW s, Fits(s, n),
         NEW down, NEW pressed, NEW stick \in BOOLEAN, NEW cell \in Cells
  PROVE  LET t == P!Cursor(s, down, pressed, stick, cell) IN
         /\ Fits(t, n + 3) /\ t.context = s.context /\ t.override = s.override
         /\ t.touch = s.touch /\ t.start = s.start
         /\ t.aDown => "A" \in down /\ (~P!Lawn(t) \/ "ZL" \in down)
         /\ P!OneOwner(s) /\ Free(s, down) => P!OneOwner(t)
<1> DEFINE t == P!Cursor(s, down, pressed, stick, cell)
           shown == IF stick THEN P!AutoShow(s) ELSE s
           focused == [shown EXCEPT !.focus = TRUE]
           there == [focused EXCEPT !.cell = cell]
           other == cell # s.cell
           moved == IF stick THEN P!BeginOrMove(there, other) ELSE s
           asked == "ZL" \in down
           cancelled == P!DragCancel(shown)
           settled == [cancelled EXCEPT !.pending = FALSE]
           loose == [settled EXCEPT !.focus = FALSE]
           lone == IF P!Lawn(s) /\ asked THEN loose ELSE shown
           press == "A" \in down /\ ~(P!Lawn(s) /\ s.drag)
           emitted == IF press \/ s.aDown THEN P!Emit(lone, P!CursorPhase(s, press), "cursor") ELSE lone
<1>0. /\ n + 1 \in Nat /\ n + 2 \in Nat /\ n + 3 \in Nat /\ n < PadEvents /\ n + 1 < PadEvents
      /\ (n + 1) + 1 < PadEvents /\ (n + 1) + 2 = n + 3 /\ (n + 2) + 1 = n + 3
      /\ n <= n + 1 /\ n <= n + 2 /\ n + 1 <= n + 3 /\ n + 2 <= n + 3
      /\ other \in BOOLEAN /\ press \in BOOLEAN /\ TRUE \in BOOLEAN /\ FALSE \in BOOLEAN
      /\ s.drag \in BOOLEAN /\ s.aDown \in BOOLEAN
  BY DEF P!InputConstants, Fits, P!Pads
<1>1. Fits(shown, n) /\ Same(s, shown)
  <2>1. CASE stick BY <2>1, ShowFacts, Zenon
  <2>2. CASE ~stick BY <2>2 DEF Same, Kept, Running
  <2> QED BY <2>1, <2>2
<1>2. t = IF P!Lawn(s) /\ ~asked
          THEN [(IF "A" \in pressed THEN P!DragPlace(moved) ELSE moved) EXCEPT !.aDown = FALSE]
          ELSE [emitted EXCEPT !.aDown = press]
  BY Zenon DEF P!Cursor
<1> HIDE DEF t, other, asked
<1>3. CASE P!Lawn(s) /\ ~asked
  <2> DEFINE placed == IF "A" \in pressed THEN P!DragPlace(moved) ELSE moved
             u == [placed EXCEPT !.aDown = FALSE]
  <2>1. t = u BY <1>2, <1>3, Zenon
  <2>2. /\ Fits(moved, n + 1) /\ Kept(s, moved) /\ Running(s, moved)
        /\ P!OneOwner(s) /\ Idle(s) => P!OneOwner(moved)
    <3>1. CASE stick
      <4>0. moved = P!BeginOrMove(there, other) BY <3>1, Zenon
      <4> HIDE DEF shown, moved
      <4>1. Fits(focused, n) /\ Same(shown, focused) BY <1>0, <1>1, Aside, Zenon
      <4> HIDE DEF focused
      <4>2. Fits(there, n) /\ Same(focused, there) BY <4>1, Aside, Zenon
      <4> HIDE DEF there
      <4>3. Same(s, there) BY <1>1, <4>1, <4>2, SameChain, Zenon
      <4>4. /\ Fits(moved, n + 1) /\ Kept(there, moved) /\ Running(there, moved)
            /\ P!OneOwner(there) /\ Idle(there) => P!OneOwner(moved)
        BY <1>0, <4>0, <4>2, BeginOrMoveFacts
      <4> QED BY <4>3, <4>4, SameKept, SameOwner, KeptChain, Zenon
    <3>2. CASE ~stick
      <4>1. moved = s BY <3>2, Zenon
      <4>2. Fits(s, n + 1) BY <1>0, FitsMore, Zenon
      <4> QED BY <4>1, <4>2 DEF Kept, Running
    <3> QED BY <3>1, <3>2
  <2> HIDE DEF moved
  <2>3. Idle(s) => Idle(moved) BY <2>2, FreeCarries, Zenon
  <2>4. /\ Fits(placed, n + 3) /\ Kept(s, placed) /\ Running(s, placed)
        /\ P!OneOwner(s) /\ Idle(s) => P!OneOwner(placed)
    <3>1. CASE "A" \in pressed
      <4>0. placed = P!DragPlace(moved) BY <3>1, Zenon
      <4> HIDE DEF placed
      <4>1. /\ Fits(placed, (n + 1) + 2) /\ Kept(moved, placed) /\ Running(moved, placed)
            /\ P!OneOwner(moved) /\ Idle(moved) => P!OneOwner(placed)
        BY <1>0, <2>2, <4>0, PlaceFacts, Zenon
      <4>2. Fits(placed, n + 3) BY <1>0, <4>1, Zenon
      <4>3. Kept(s, placed) /\ Running(s, placed) BY <2>2, <4>1, KeptChain, Zenon
      <4> QED BY <2>2, <2>3, <4>1, <4>2, <4>3
    <3>2. CASE "A" \notin pressed
      <4>1. placed = moved BY <3>2, Zenon
      <4>2. Fits(moved, n + 3) BY <1>0, <2>2, FitsMore, Zenon
      <4> HIDE DEF placed
      <4> QED BY <2>2, <4>1, <4>2
    <3> QED BY <3>1, <3>2
  <2> HIDE DEF placed
  <2>5. /\ Fits(u, n + 3) /\ u.override = placed.override /\ u.context = placed.context
        /\ u.touch = placed.touch /\ u.aDown = FALSE /\ u.start = placed.start /\ Running(placed, u)
        /\ u.drag = placed.drag /\ u.finger = placed.finger
    <3>1. n + 3 \in Nat /\ Fits(placed, n + 3) BY <1>0, <2>4
    <3> QED BY <3>1, ADownSet, FALSE \in BOOLEAN, Zenon
  <2> HIDE DEF u
  <2>6. P!OneOwner(s) /\ Free(s, down) => P!OneOwner(u)
    <3> SUFFICES ASSUME P!OneOwner(s), Free(s, down) PROVE P!OneOwner(u) OBVIOUS
    <3>1. Idle(s) /\ ~s.aDown BY <1>3 DEF Free, Idle, asked
    <3>2. P!OneOwner(placed) /\ ~placed.aDown BY <2>4, <3>1 DEF Kept
    <3> QED BY <2>5, <3>2 DEF P!OneOwner, P!ToolDown, Running, P!Lawn
  <2> QED BY <2>1, <2>4, <2>5, <2>6 DEF t, Kept
<1>4. CASE ~(P!Lawn(s) /\ ~asked)
  <2> DEFINE phase == P!CursorPhase(s, press)
             u == [emitted EXCEPT !.aDown = press]
  <2>1. t = u BY <1>2, <1>4, Zenon
  <2>2. /\ Fits(lone, n + 2) /\ Kept(s, lone) /\ Running(s, lone)
        /\ P!OneOwner(s) => P!OneOwner(lone) /\ ~lone.drag
    <3>1. CASE P!Lawn(s) /\ asked
      <4>0. lone = loose BY <3>1, Zenon
      <4> HIDE DEF shown, lone
      <4>1. /\ Fits(cancelled, n + 2) /\ Kept(shown, cancelled) /\ Running(shown, cancelled)
            /\ ~cancelled.drag /\ (P!OneOwner(shown) => P!OneOwner(cancelled))
        BY <1>0, <1>1, CancelFacts, Zenon
      <4> HIDE DEF cancelled
      <4>2. Fits(settled, n + 2) /\ Same(cancelled, settled) BY <1>0, <4>1, Aside, Zenon
      <4> HIDE DEF settled
      <4>3. Fits(loose, n + 2) /\ Same(settled, loose) BY <1>0, <4>2, Aside, Zenon
      <4> HIDE DEF loose
      <4>4. Same(cancelled, loose) BY <4>2, <4>3, SameChain, Zenon
      <4>5. P!OneOwner(s) => P!OneOwner(loose) BY <1>1, <4>1, <4>4, SameOwner, Zenon
      <4>6. Kept(shown, loose) /\ Running(shown, loose) /\ ~loose.drag
        BY <4>1, <4>4, SameKept, KeptChain, Zenon
      <4>7. Kept(s, loose) /\ Running(s, loose) BY <1>1, <4>6, SameKept, KeptChain, Zenon
      <4> QED BY <4>0, <4>3, <4>5, <4>6, <4>7
    <3>2. CASE ~P!Lawn(s)
      <4>0. lone = shown BY <3>2, Zenon
      <4> HIDE DEF shown, lone
      <4>1. Fits(shown, n + 2) BY <1>0, <1>1, FitsMore, Zenon
      <4>2. Kept(s, shown) /\ Running(s, shown) /\ (P!OneOwner(s) => P!OneOwner(shown))
        BY <1>1, SameKept, SameOwner, Zenon
      <4>3. P!OneOwner(s) => ~shown.drag BY <1>1, <3>2 DEF P!OneOwner, Same
      <4> QED BY <4>0, <4>1, <4>2, <4>3
    <3> QED BY <1>4, <3>1, <3>2
  <2> HIDE DEF lone
  <2>3. press => "A" \in down OBVIOUS
  <2>4. s.aDown /\ P!OneOwner(s) => ~s.drag BY DEF P!OneOwner
  <2> HIDE DEF press
  <2>5. /\ Fits(emitted, n + 3) /\ Kept(s, emitted) /\ Running(s, emitted) /\ emitted.drag = lone.drag
        /\ emitted.finger = IF press \/ s.aDown THEN P!After(lone.finger, phase) ELSE lone.finger
    <3>1. CASE press \/ s.aDown
      <4>1. emitted = P!Emit(lone, phase, "cursor") BY <3>1, Zenon
      <4>2. phase \in {"down", "move", "up"} /\ "cursor" \in {"drag", "tool", "touch", "cursor"}
        BY DEF P!CursorPhase
      <4> HIDE DEF emitted, phase
      <4>3. /\ Fits(emitted, (n + 2) + 1) /\ emitted.finger = P!After(lone.finger, phase)
            /\ Kept(lone, emitted) /\ Running(lone, emitted) /\ emitted.drag = lone.drag
        <5>1. n + 2 \in Nat /\ n + 2 < PadEvents /\ Fits(lone, n + 2) BY <1>0, <2>2
        <5> QED BY <4>1, <4>2, <5>1, EmitFacts, SMTT(30)
      <4>4. Fits(emitted, n + 3) BY <1>0, <4>3, Zenon
      <4>5. Kept(s, emitted) /\ Running(s, emitted) BY <2>2, <4>3, KeptChain, Zenon
      <4> QED BY <3>1, <4>3, <4>4, <4>5
    <3>2. CASE ~(press \/ s.aDown)
      <4>1. emitted = lone BY <3>2, Zenon
      <4>2. Fits(lone, n + 3) BY <1>0, <2>2, FitsMore, Zenon
      <4> HIDE DEF emitted
      <4> QED BY <2>2, <3>2, <4>1, <4>2
    <3> QED BY <3>1, <3>2
  <2> HIDE DEF emitted
  <2>6. /\ Fits(u, n + 3) /\ u.override = emitted.override /\ u.context = emitted.context
        /\ u.touch = emitted.touch /\ u.aDown = press /\ u.start = emitted.start /\ Running(emitted, u)
        /\ u.drag = emitted.drag /\ u.finger = emitted.finger
    <3>1. Fits(emitted, n + 3) /\ n + 3 \in Nat /\ press \in BOOLEAN BY <1>0, <2>5
    <3> QED BY <3>1, ADownSet
  <2> HIDE DEF u
  <2>7. P!OneOwner(s) /\ Free(s, down) => P!OneOwner(u)
    <3> SUFFICES ASSUME P!OneOwner(s), Free(s, down) PROVE P!OneOwner(u) OBVIOUS
    <3>1. lone.action = "none" /\ ~lone.touch /\ ~lone.drag /\ P!OneOwner(lone)
      BY <2>2 DEF Free, Kept, Running
    <3>2. lone.finger = IF s.aDown THEN "down" ELSE "up"
      BY <2>2, <3>1 DEF P!OneOwner, P!ToolDown, Kept
    <3>3. emitted.finger = IF press THEN "down" ELSE "up"
      BY <1>0, <2>5, <3>2 DEF P!After, P!CursorPhase, phase
    <3>4. u.action = "none" /\ ~u.touch /\ ~u.drag
      BY <2>5, <2>6, <3>1 DEF Kept, Running, Free
    <3> QED BY <2>6, <3>3, <3>4 DEF P!OneOwner, P!ToolDown
  <2>8. ~P!Lawn(u) \/ asked BY <1>4, <2>5, <2>6 DEF Kept, P!Lawn
  <2> QED BY <2>1, <2>3, <2>5, <2>6, <2>7, <2>8 DEF t, Kept, asked
<1> QED BY <1>3, <1>4 DEF t
(* A frame takes the buttons, then the touch, which has it when there is    *)
(* one, else a tool, else the lawn focus and the cursor.                    *)
LEMMA UpdateFacts ==
  ASSUME P!InputConstants, NEW s, Fits(s, 0), NEW in,
         in.touch \in {"none", "contact", "docked"}, in.hit \in BOOLEAN, in.stick \in BOOLEAN,
         in.cell \in Cells
  PROVE  LET u == P!Update(s, in) IN
         /\ Fits(u, 15) /\ u.context = s.context
         /\ in.touch # "docked" => (u.touch <=> in.touch = "contact")
         /\ /\ P!OneOwner(s) /\ in.touch # "docked"
            /\ s.finger = "up" \/ (u.override = s.override /\ (u.touch => s.touch))
            /\ P!Lawn(s) /\ "ZL" \notin in.down => ~s.aDown
            /\ ~((s.touch \/ u.touch) /\ u.aDown)
            /\ ~("ZL" \in in.down /\ in.down \cap {"L", "R", "Dpad"} # {})
            => /\ P!OneOwner(u) /\ (u.aDown => ~P!Lawn(u) \/ "ZL" \in in.down)
               /\ u.start /\ ~u.touch => u.finger = "up"
<1> DEFINE u == P!Update(s, in)
           pressed == in.down \ pHeld
           a == IF "Minus" \in pressed THEN P!Overlay(s) ELSE s
           b == IF "Plus" \in pressed /\ a.context = "level" THEN P!LevelBack(a) ELSE a
           chosen == "A" \in pHeld \ in.down /\ in.hit /\ b.context = "select"
           c == [b EXCEPT !.start = chosen]
           d == P!DoubleTaps(c, pressed, in.down, in.late)
           contact == in.touch = "contact"
           e == IF in.touch = "docked" THEN d ELSE P!Touch(d, contact, in.hit)
           f == P!Packet(e, pressed, in.down)
           g == P!Shoulder(f, pressed)
           again == "Dpad" \in pressed \/ (in.repeat /\ "Dpad" \in in.down)
           h == IF again THEN P!Dpad(g, in.cell) ELSE g
           busy == in.touch # "docked" /\ (d.touch \/ contact)
           owned == P!TouchOwns(e, in.down)
           pumped == P!ToolPump(e)
           worked == [pumped EXCEPT !.aDown = FALSE]
           cursor == P!Cursor(h, in.down, pressed, in.stick, in.cell)
           early == P!OneOwner(s) /\ (s.finger = "up" \/ b.override = s.override)
                    /\ (P!Lawn(s) /\ "ZL" \notin in.down => ~s.aDown)
<1>0. /\ PadEvents \in Nat /\ 15 < PadEvents /\ chosen \in BOOLEAN /\ contact \in BOOLEAN
      /\ FALSE \in BOOLEAN
  BY DEF P!InputConstants
<1>1. u = IF busy THEN owned ELSE IF P!ToolBusy(e) THEN worked ELSE cursor
  BY Zenon DEF P!Update
<1>2. Fits(a, 0) /\ Same(s, a)
  <2>1. CASE "Minus" \in pressed BY <2>1, OverlayFacts, 0 \in Nat, Zenon
  <2>2. CASE "Minus" \notin pressed BY <2>2 DEF Same, Kept, Running
  <2> QED BY <2>1, <2>2
<1> HIDE DEF u
<1>3. /\ Fits(b, 2) /\ b.context = s.context /\ b.touch = s.touch /\ b.aDown = s.aDown
      /\ P!OneOwner(s) /\ (s.finger = "up" \/ b.override = s.override) =>
           P!OneOwner(b) /\ b.finger = s.finger /\ (s.finger = "up" \/ P!Lawn(b) = P!Lawn(s))
  <2>0. (P!OneOwner(s) => P!OneOwner(a)) /\ P!Lawn(a) = P!Lawn(s) BY <1>2, SameOwner, Zenon
  <2>1. CASE "Plus" \in pressed /\ a.context = "level"
    <3>0. b = P!LevelBack(a) BY <2>1, Zenon
    <3> HIDE DEF a, b
    <3>1. /\ Fits(b, 0 + 2) /\ b.context = a.context /\ b.touch = a.touch /\ b.aDown = a.aDown
          /\ a.action = "none" => b.override = ~a.override
          /\ P!OneOwner(a) /\ (a.action # "none" \/ a.finger = "up") =>
               P!OneOwner(b) /\ b.finger = a.finger /\ (a.action # "none" => b.override = a.override)
      BY <1>0, <1>2, <3>0, LevelBackFacts
    <3>2. P!OneOwner(s) /\ b.override = s.override /\ s.finger # "up" => a.action # "none"
      <4>1. a.override = s.override /\ a.override \in BOOLEAN BY <1>2 DEF Same, Kept, Fits, P!Pads
      <4> QED BY <3>1, <4>1
    <3>3. a.finger = s.finger /\ a.context = s.context /\ a.touch = s.touch /\ a.aDown = s.aDown
      BY <1>2 DEF Same, Kept
    <3> QED BY <2>0, <3>1, <3>2, <3>3 DEF P!Lawn
  <2>2. CASE ~("Plus" \in pressed /\ a.context = "level")
    <3>1. b = a BY <2>2, Zenon
    <3>2. Fits(a, 2) BY <1>2, FitsMore, 0 \in Nat, 2 \in Nat, 0 <= 2
    <3> HIDE DEF a, b
    <3> QED BY <1>2, <2>0, <3>1, <3>2 DEF Same, Kept
  <2> QED BY <2>1, <2>2
<1> HIDE DEF a, b
<1>4. /\ Fits(c, 2) /\ c.override = b.override /\ c.context = b.context /\ c.touch = b.touch
      /\ c.aDown = b.aDown /\ c.start = chosen /\ Running(b, c) /\ c.drag = b.drag
      /\ c.finger = b.finger
  <2> HIDE DEF chosen
  <2>1. chosen \in BOOLEAN /\ Fits(b, 2) /\ 2 \in Nat BY <1>0, <1>3
  <2> QED BY <2>1, StartSet
<1>5. early => /\ P!OneOwner(c) /\ (P!Lawn(c) /\ "ZL" \notin in.down => ~c.aDown)
               /\ c.finger = s.finger
  <2> SUFFICES ASSUME early
               PROVE  /\ P!OneOwner(c) /\ (P!Lawn(c) /\ "ZL" \notin in.down => ~c.aDown)
                      /\ c.finger = s.finger
    OBVIOUS
  <2>1. P!OneOwner(b) /\ b.finger = s.finger /\ (s.finger = "up" \/ P!Lawn(b) = P!Lawn(s)) BY <1>3
  <2>2. P!OneOwner(c) BY <1>4, <2>1 DEF P!OneOwner, P!ToolDown, Running, P!Lawn
  <2>3. s.finger = "up" => ~c.aDown BY <1>4, <2>1, <2>2 DEF P!OneOwner
  <2>4. P!Lawn(c) = P!Lawn(b) /\ c.aDown = s.aDown BY <1>3, <1>4 DEF P!Lawn
  <2> QED BY <1>4, <2>1, <2>2, <2>3, <2>4
<1>6. c.start => c.context = "select" BY <1>4
<1> HIDE DEF c, early
<1>7. /\ Fits(d, 6) /\ Kept(c, d)
      /\ early => P!OneOwner(d) /\ (s.finger = "up" => d.finger = "up")
                  /\ (P!Lawn(d) /\ "ZL" \notin in.down => ~d.aDown)
  <2>1. /\ Fits(d, 2 + 4) /\ Kept(c, d)
        /\ P!OneOwner(c) /\ (P!Lawn(c) /\ "ZL" \notin in.down => ~c.aDown) =>
             /\ P!OneOwner(d) /\ (c.finger = "up" => d.finger = "up")
    BY <1>0, <1>4, DoubleTapsFacts
  <2> HIDE DEF d
  <2>2. P!Lawn(d) = P!Lawn(c) /\ d.aDown = c.aDown BY <2>1 DEF Kept, P!Lawn
  <2> QED BY <1>5, <2>1, <2>2
<1> HIDE DEF d
<1>8. /\ d.context = s.context /\ d.override = b.override /\ d.touch = s.touch
      /\ d.start => d.context = "select"
  BY <1>3, <1>4, <1>6, <1>7 DEF Kept
<1>9. CASE busy
  <2>0. u = owned /\ e = P!Touch(d, contact, in.hit) BY <1>1, <1>9, Zenon
  <2>1. /\ Fits(e, 6 + 3) /\ e.context = d.context /\ e.override = d.override
        /\ e.touch = contact /\ e.aDown = d.aDown
        /\ e.start => d.start \/ d.context = "select"
        /\ P!OneOwner(d) /\ (d.touch \/ d.finger = "up") =>
             P!OneOwner(e) /\ (d.touch \/ contact => ~P!ToolDown(e) /\ ~e.aDown)
    <3> HIDE DEF e, contact
    <3>1. Fits(d, 6) /\ 6 \in Nat /\ 6 + 2 < PadEvents /\ contact \in BOOLEAN /\ in.hit \in BOOLEAN
      BY <1>0, <1>7
    <3> QED BY <2>0, <3>1, TouchFacts, SMTT(30)
  <2> HIDE DEF e, busy
  <2>2. /\ Fits(owned, 9) /\ owned.context = e.context /\ owned.override = e.override
        /\ owned.touch = e.touch /\ owned.start = e.start
        /\ P!OneOwner(e) /\ ~P!ToolDown(e) /\ ~e.aDown /\ ~owned.aDown => P!OneOwner(owned)
    BY <2>1, OwnsFacts, 9 \in Nat, 6 + 3 = 9
  <2> HIDE DEF owned
  <2>3. Fits(u, 15) BY <2>0, <2>2, FitsMore, 9 \in Nat, 15 \in Nat, 9 <= 15
  <2>4. /\ u.context = s.context /\ u.override = b.override /\ u.touch = contact
        /\ u.start => u.context = "select"
    BY <1>8, <2>0, <2>1, <2>2
  <2>5. ASSUME P!OneOwner(s), s.finger = "up" \/ (u.override = s.override /\ (u.touch => s.touch)),
               P!Lawn(s) /\ "ZL" \notin in.down => ~s.aDown, ~((s.touch \/ u.touch) /\ u.aDown)
        PROVE  /\ P!OneOwner(u) /\ ~u.aDown /\ (u.start /\ ~u.touch => u.finger = "up")
    <3>1. early BY <2>4, <2>5 DEF early
    <3>2. d.touch \/ contact BY <1>9 DEF busy
    <3>3. ~u.aDown BY <1>8, <2>4, <2>5, <3>2
    <3>4. d.touch \/ d.finger = "up" BY <1>7, <1>8, <2>4, <2>5, <3>1, <3>2
    <3>5. P!OneOwner(e) /\ ~P!ToolDown(e) /\ ~e.aDown BY <1>7, <2>1, <3>1, <3>2, <3>4
    <3>6. P!OneOwner(u) BY <2>0, <2>2, <3>3, <3>5
    <3>7. u.start /\ ~u.touch => u.finger = "up"
      BY <2>4, <3>3, <3>6 DEF P!OneOwner, P!ToolDown, P!Lawn
    <3> QED BY <3>3, <3>6, <3>7
  <2> QED BY <2>3, <2>4, <2>5 DEF u
<1>10. CASE ~busy
  <2>0. u = IF P!ToolBusy(e) THEN worked ELSE cursor BY <1>1, <1>10, Zenon
  <2>1. e = d /\ (in.touch # "docked" => ~contact /\ ~d.touch)
    BY <1>10 DEF P!Touch, busy
  <2> HIDE DEF e, busy
  <2>2. CASE P!ToolBusy(e)
    <3>0. u = worked /\ e.action # "none" /\ P!Lawn(e) BY <2>0, <2>2, Zenon DEF P!ToolBusy
    <3>1. /\ Fits(pumped, 6 + 1) /\ Kept(e, pumped)
          /\ P!OneOwner(e) /\ ~e.touch => P!OneOwner(pumped)
      BY <1>0, <1>7, <2>1, <3>0, PumpFacts
    <3> HIDE DEF pumped
    <3>2. /\ Fits(worked, 7) /\ worked.override = pumped.override /\ worked.context = pumped.context
          /\ worked.touch = pumped.touch /\ worked.aDown = FALSE /\ worked.start = pumped.start
          /\ Running(pumped, worked) /\ worked.drag = pumped.drag /\ worked.finger = pumped.finger
      <4>1. Fits(pumped, 7) BY <3>1, 6 + 1 = 7
      <4> QED BY <4>1, ADownSet, 7 \in Nat, FALSE \in BOOLEAN, Zenon
    <3> HIDE DEF worked
    <3>3. Fits(u, 15) BY <3>0, <3>2, FitsMore, 7 \in Nat, 15 \in Nat, 7 <= 15
    <3>4. /\ u.context = s.context /\ u.override = b.override /\ u.touch = d.touch /\ ~u.aDown
          /\ u.start => u.context = "select"
      BY <1>8, <2>1, <3>0, <3>1, <3>2 DEF Kept
    <3>5. ASSUME P!OneOwner(s), in.touch # "docked",
                 s.finger = "up" \/ (u.override = s.override /\ (u.touch => s.touch)),
                 P!Lawn(s) /\ "ZL" \notin in.down => ~s.aDown
          PROVE  P!OneOwner(u) /\ (u.start /\ ~u.touch => u.finger = "up")
      <4>1. early BY <3>4, <3>5 DEF early
      <4>2. P!OneOwner(e) /\ ~e.touch /\ ~e.aDown BY <1>7, <2>1, <3>0, <3>5, <4>1 DEF P!OneOwner
      <4>3. P!OneOwner(pumped) /\ ~pumped.aDown BY <3>1, <4>2 DEF Kept
      <4>4. P!OneOwner(u) BY <3>0, <3>2, <4>3 DEF P!OneOwner, P!ToolDown, Running, P!Lawn
      <4>5. ~u.start BY <2>1, <3>0, <3>4, <1>8 DEF P!Lawn
      <4> QED BY <4>4, <4>5
    <3> QED BY <2>1, <3>3, <3>4, <3>5 DEF u
  <2>3. CASE ~P!ToolBusy(e)
    <3>0. u = cursor BY <2>0, <2>3, Zenon
    <3>1. /\ Fits(f, 9) /\ Kept(d, f) /\ Running(d, f)
          /\ P!OneOwner(d) /\ Free(d, in.down) => P!OneOwner(f)
      <4>1. /\ Fits(f, 6 + 3) /\ Kept(d, f) /\ Running(d, f)
            /\ P!OneOwner(d) /\ Free(d, in.down) => P!OneOwner(f)
        BY <1>0, <1>7, <2>1, PacketFacts
      <4> QED BY <4>1, 6 + 3 = 9
    <3> HIDE DEF f
    <3>2. /\ Fits(g, 11) /\ Kept(f, g) /\ Running(f, g)
          /\ P!OneOwner(f) /\ (pressed \cap {"L", "R"} # {} => Idle(f)) => P!OneOwner(g)
      <4>1. /\ Fits(g, 9 + 2) /\ Kept(f, g) /\ Running(f, g)
            /\ P!OneOwner(f) /\ (pressed \cap {"L", "R"} # {} => Idle(f)) => P!OneOwner(g)
        BY <1>0, <3>1, ShoulderFacts
      <4> QED BY <4>1, 9 + 2 = 11
    <3> HIDE DEF g
    <3>3. /\ Fits(h, 12) /\ Kept(g, h) /\ Running(g, h)
          /\ P!OneOwner(g) /\ ("Dpad" \in in.down => Idle(g)) => P!OneOwner(h)
      <4>1. CASE again
        <5>0. h = P!Dpad(g, in.cell) /\ "Dpad" \in in.down BY <4>1
        <5> HIDE DEF h
        <5>1. /\ Fits(h, 11 + 1) /\ Kept(g, h) /\ Running(g, h)
              /\ P!OneOwner(g) /\ Idle(g) => P!OneOwner(h)
          BY <1>0, <3>2, <5>0, DpadFacts
        <5> QED BY <5>0, <5>1, 11 + 1 = 12
      <4>2. CASE ~again
        <5>1. h = g BY <4>2, Zenon
        <5>2. Fits(g, 12) BY <3>2, FitsMore, 11 \in Nat, 12 \in Nat, 11 <= 12
        <5> HIDE DEF h
        <5> QED BY <5>1, <5>2 DEF Kept, Running
      <4> QED BY <4>1, <4>2
    <3> HIDE DEF h
    <3>4. /\ Fits(cursor, 15) /\ cursor.context = h.context /\ cursor.override = h.override
          /\ cursor.touch = h.touch /\ cursor.start = h.start
          /\ cursor.aDown => "A" \in in.down /\ (~P!Lawn(cursor) \/ "ZL" \in in.down)
          /\ P!OneOwner(h) /\ Free(h, in.down) => P!OneOwner(cursor)
      <4>1. /\ Fits(cursor, 12 + 3) /\ cursor.context = h.context /\ cursor.override = h.override
            /\ cursor.touch = h.touch /\ cursor.start = h.start
            /\ cursor.aDown => "A" \in in.down /\ (~P!Lawn(cursor) \/ "ZL" \in in.down)
            /\ P!OneOwner(h) /\ Free(h, in.down) => P!OneOwner(cursor)
        BY <1>0, <3>3, CursorFacts
      <4> QED BY <4>1, 12 + 3 = 15
    <3> HIDE DEF cursor
    <3>5. /\ u.context = s.context /\ u.override = b.override /\ u.touch = d.touch
          /\ u.start => u.context = "select"
      BY <1>8, <3>0, <3>1, <3>2, <3>3, <3>4 DEF Kept
    <3>6. u.start => "A" \notin in.down
      BY <1>4, <1>7, <3>0, <3>1, <3>2, <3>3, <3>4 DEF Kept, chosen
    <3>7. ASSUME P!OneOwner(s), in.touch # "docked",
                 s.finger = "up" \/ (u.override = s.override /\ (u.touch => s.touch)),
                 P!Lawn(s) /\ "ZL" \notin in.down => ~s.aDown,
                 ~("ZL" \in in.down /\ in.down \cap {"L", "R", "Dpad"} # {})
          PROVE  P!OneOwner(u) /\ (u.start /\ ~u.touch => u.finger = "up")
      <4>1. early BY <3>5, <3>7 DEF early
      <4>2. P!OneOwner(d) /\ (P!Lawn(d) /\ "ZL" \notin in.down => ~d.aDown) BY <1>7, <4>1
      <4>3. Free(d, in.down) BY <2>1, <2>3, <3>7, <4>2 DEF Free, P!OneOwner, P!ToolBusy
      <4>4. Free(f, in.down) /\ Free(g, in.down) /\ Free(h, in.down)
        BY <3>1, <3>2, <3>3, <4>3, FreeCarries, Zenon
      <4>5. P!OneOwner(f) BY <3>1, <4>2, <4>3
      <4>6. "ZL" \notin in.down => Idle(f) /\ Idle(g)
        BY <3>2, <3>3, <4>4, FreeCarries, Zenon
      <4>7. pressed \cap {"L", "R"} # {} => "ZL" \notin in.down BY <3>7
      <4>8. "Dpad" \in in.down => "ZL" \notin in.down BY <3>7
      <4>9. P!OneOwner(u) BY <3>0, <3>2, <3>3, <3>4, <4>4, <4>5, <4>6, <4>7, <4>8
      <4>10. u.start => ~u.aDown BY <3>0, <3>4, <3>6
      <4>11. u.start /\ ~u.touch => u.finger = "up"
        BY <3>5, <4>9, <4>10 DEF P!OneOwner, P!ToolDown, P!Lawn
      <4> QED BY <4>9, <4>11
    <3> QED BY <2>1, <3>0, <3>4, <3>5, <3>7 DEF u
  <2> QED BY <2>2, <2>3
<1> QED BY <1>9, <1>10
LEMMA Drained ==
  ASSUME NEW n \in Nat, NEW s, Fits(s, n)
  PROVE  LET t == [s EXCEPT !.out = << >>] IN
         /\ Fits(t, 0) /\ Kept(s, t) /\ Running(s, t) /\ t.drag = s.drag /\ t.finger = s.finger
<1> DEFINE t == [s EXCEPT !.out = << >>]
<1>1. s \in P!Pads /\ s.stage < Len(P!Gesture(s.action)) BY DEF Fits
<1>2. << >> \in Seq(Events) /\ Len(<< >>) = 0 OBVIOUS
<1>3. t \in P!Pads BY <1>1, <1>2, PadFields, Zenon
<1>4. Kept(s, t) /\ Running(s, t) /\ t.drag = s.drag /\ t.finger = s.finger /\ t.out = << >>
  BY <1>1 DEF P!Pads, Kept, Running
<1>5. Fits(t, 0) BY <1>1, <1>2, <1>3, <1>4 DEF Fits, Running
<1> QED BY <1>4, <1>5

LEMMA FrameInvariant ==
  ASSUME P!InputConstants, P!IInv, NEW in,
         in.down \subseteq PadButtons, in.context \in {"menu", "select", "level"},
         in.touch \in {"none", "contact", "docked"}, in.hit \in BOOLEAN, in.stick \in BOOLEAN,
         in.cell \in Cells, in.touch = "docked" => pad.touch, P!Frame(in)
  PROVE  P!IInv'
<1> DEFINE old == P!SetContext(pad, in.context)
           clear == [old EXCEPT !.out = << >>]
           set == [clear EXCEPT !.back = FALSE]
           way == "ZL" \in in.down /\ in.down \cap {"L", "R", "Dpad"} # {}
<1>0. /\ P!TypeOK /\ P!Owned /\ Len(pad.out) \in Nat /\ Fits(pad, Len(pad.out))
  <2>1. P!TypeOK /\ P!Owned /\ pad.out \in Seq(Events) BY DEF P!IInv, P!TypeOK, P!Pads, Events
  <2> QED BY <2>1 DEF P!TypeOK, Fits
<1>1. pad' = P!Update(set, in) /\ pHeld' = in.down BY Zenon DEF P!Frame
<1>2. switched' = (\/ switched
                   \/ pad.finger = "down" /\ P!Interrupts(in)
                   \/ (pad.touch \/ pad'.touch) /\ pad'.aDown
                   \/ way)
  BY DEF P!Frame
<1>3. /\ Fits(old, Len(pad.out)) /\ old.context = in.context /\ old.touch = pad.touch
      /\ old.aDown = pad.aDown /\ old.finger = pad.finger
      /\ in.context = pad.context => old.override = pad.override
      /\ P!OneOwner(pad) /\ (in.context = pad.context \/ pad.finger = "up") => P!OneOwner(old)
  BY <1>0, ContextFacts
<1> HIDE DEF old
<1>4. /\ Fits(clear, 0) /\ Kept(old, clear) /\ Running(old, clear) /\ clear.drag = old.drag
      /\ clear.finger = old.finger
  BY <1>0, <1>3, Drained, Zenon
<1> HIDE DEF clear
<1>5. Fits(set, 0) /\ Same(clear, set) BY <1>4, Aside, FALSE \in BOOLEAN, 0 \in Nat, Zenon
<1>6. /\ set.context = in.context /\ set.override = old.override /\ set.touch = pad.touch
      /\ set.aDown = pad.aDown /\ set.finger = pad.finger
      /\ P!OneOwner(old) => P!OneOwner(set)
  <2>1. P!OneOwner(old) => P!OneOwner(clear) BY <1>4 DEF P!OneOwner, P!ToolDown, Kept, Running, P!Lawn
  <2>2. P!OneOwner(clear) => P!OneOwner(set) BY <1>5, SameOwner, Zenon
  <2> QED BY <1>3, <1>4, <1>5, <2>1, <2>2 DEF Kept, Same
<1> HIDE DEF set
<1>7. /\ Fits(pad', 15) /\ pad'.context = set.context
      /\ in.touch # "docked" => (pad'.touch <=> in.touch = "contact")
      /\ /\ P!OneOwner(set) /\ in.touch # "docked"
         /\ set.finger = "up" \/ (pad'.override = set.override /\ (pad'.touch => set.touch))
         /\ P!Lawn(set) /\ "ZL" \notin in.down => ~set.aDown
         /\ ~((set.touch \/ pad'.touch) /\ pad'.aDown)
         /\ ~way
         => /\ P!OneOwner(pad') /\ (pad'.aDown => ~P!Lawn(pad') \/ "ZL" \in in.down)
            /\ pad'.start /\ ~pad'.touch => pad'.finger = "up"
  BY <1>1, <1>5, UpdateFacts
<1>8. P!TypeOK' /\ P!NothingDropped'
  <2>1. switched' \in BOOLEAN BY <1>2
  <2>2. pad'.out \in Seq(Events) BY <1>7 DEF Fits, P!Pads, Events
  <2> QED BY <1>1, <1>7, <2>1, <2>2 DEF P!TypeOK, P!NothingDropped, Fits, P!InputConstants
<1>9. ASSUME ~switched'
      PROVE  /\ P!OneOwner(pad') /\ (pad'.aDown => ~P!Lawn(pad') \/ "ZL" \in in.down)
             /\ pad'.start /\ ~pad'.touch => pad'.finger = "up"
  <2>1. /\ P!OneOwner(pad) /\ (pad.aDown => ~P!Lawn(pad) \/ "ZL" \in pHeld) /\ ~way
        /\ ~((pad.touch \/ pad'.touch) /\ pad'.aDown)
        /\ pad.finger = "down" => ~P!Interrupts(in)
    BY <1>0, <1>2, <1>9 DEF P!Owned
  <2>2. pad.finger \in {"up", "down"} BY <2>1 DEF P!OneOwner
  <2>3. pad.finger = "down" => /\ in.context = pad.context /\ pad'.override = pad.override
                               /\ ("ZL" \in pHeld <=> "ZL" \in in.down)
                               /\ in.touch # "docked" /\ (pad'.touch => pad.touch)
    BY <1>6, <1>7, <2>1 DEF P!Interrupts, P!Way
  <2>4. pad.touch \/ pad.aDown => pad.finger = "down" BY <2>1 DEF P!OneOwner
  <2>5. in.touch # "docked" BY <2>3, <2>4
  <2>6. P!OneOwner(set) BY <1>3, <1>6, <2>1, <2>2, <2>3
  <2>7. set.finger = "up" \/ (pad'.override = set.override /\ (pad'.touch => set.touch))
    BY <1>3, <1>6, <2>2, <2>3
  <2>8. P!Lawn(set) /\ "ZL" \notin in.down => ~set.aDown
    BY <1>3, <1>6, <2>1, <2>3, <2>4 DEF P!Lawn
  <2> QED BY <1>6, <1>7, <2>1, <2>5, <2>6, <2>7, <2>8
<1>10. P!Owned' /\ P!ChooserSeesRelease' BY <1>1, <1>9 DEF P!Owned, P!ChooserSeesRelease
<1> QED BY <1>8, <1>10 DEF P!IInv

LEMMA InputInitInvariant == ASSUME P!InputConstants, P!Init PROVE P!IInv
<1>1. PICK c \in Cells :
        pad = [context |-> "menu", override |-> FALSE, focus |-> FALSE, cell |-> c, slot |-> -1,
               drag |-> FALSE, at |-> "packet", needsMove |-> FALSE, rearm |-> 0, pending |-> FALSE,
               taps |-> {}, action |-> "none", stage |-> 0, delay |-> 0,
               touch |-> FALSE, aDown |-> FALSE, policy |-> "auto", shown |-> FALSE,
               back |-> FALSE, start |-> FALSE, out |-> << >>, finger |-> "up"]
  BY DEF P!Init
<1>2. pad \in P!Pads
  <2>1. << >> \in Seq(Events) OBVIOUS
  <2> QED BY <1>1, <2>1 DEF P!Pads, Events
<1>3. 0 < Len(P!Gesture("none")) BY DEF P!Gesture
<1>4. P!TypeOK BY <1>1, <1>2, <1>3 DEF P!TypeOK, P!Init
<1>5. P!Owned BY <1>1 DEF P!Owned, P!OneOwner, P!ToolDown
<1>6. P!NothingDropped BY <1>1 DEF P!NothingDropped, P!InputConstants
<1>7. P!ChooserSeesRelease BY <1>1 DEF P!ChooserSeesRelease
<1> QED BY <1>4, <1>5, <1>6, <1>7 DEF P!IInv

LEMMA InputStepInvariant == ASSUME P!InputConstants, P!IInv, P!Next PROVE P!IInv'
<1>1. PICK down \in SUBSET PadButtons,
           context \in {"menu", "select", "level"},
           touch \in {"none", "contact"} \cup (IF pad.touch THEN {"docked"} ELSE {}),
           expired \in SUBSET pad.taps, stick \in BOOLEAN :
        \E hit \in IF context = "select" THEN BOOLEAN ELSE {FALSE},
           repeat \in IF "Dpad" \in pHeld \cap down THEN BOOLEAN ELSE {FALSE},
           cell \in IF context = "level" /\ (stick \/ "Dpad" \in down) THEN Cells ELSE {pad.cell} :
          P!Frame([down |-> down, context |-> context, touch |-> touch, late |-> expired, hit |-> hit,
                 repeat |-> repeat, stick |-> stick, cell |-> cell])
  BY Zenon DEF P!Next
<1>2. PICK hit \in IF context = "select" THEN BOOLEAN ELSE {FALSE},
           repeat \in IF "Dpad" \in pHeld \cap down THEN BOOLEAN ELSE {FALSE},
           cell \in IF context = "level" /\ (stick \/ "Dpad" \in down) THEN Cells ELSE {pad.cell} :
          P!Frame([down |-> down, context |-> context, touch |-> touch, late |-> expired, hit |-> hit,
                 repeat |-> repeat, stick |-> stick, cell |-> cell])
  BY <1>1, Zenon
<1> DEFINE in == [down |-> down, context |-> context, touch |-> touch, late |-> expired, hit |-> hit,
                  repeat |-> repeat, stick |-> stick, cell |-> cell]
<1>3. /\ in.down \subseteq PadButtons /\ in.context \in {"menu", "select", "level"}
      /\ in.touch \in {"none", "contact", "docked"} /\ in.hit \in BOOLEAN /\ in.stick \in BOOLEAN
      /\ in.touch = "docked" => pad.touch
  OBVIOUS
<1>4. in.cell \in Cells BY DEF P!IInv, P!TypeOK, P!Pads
<1>5. P!Frame(in) BY <1>2
<1> HIDE DEF in
<1> QED BY <1>3, <1>4, <1>5, FrameInvariant, Zenon

LEMMA InputStutterInvariant == ASSUME P!IInv, UNCHANGED inputVars PROVE P!IInv'
BY DEF inputVars, P!IInv, P!TypeOK, P!Owned, P!NothingDropped, P!ChooserSeesRelease

(* The invariant holds in every reachable state. *)
THEOREM InputInvariantHolds == Spec => []P!IInv
<1>1. P!InputConstants BY ServiceConstants
<1>2. Init => P!IInv BY <1>1, InputInitInvariant DEF Init
<1>3. P!IInv /\ [Next]_vars => P!IInv'
  BY <1>1, LoaderOrInput, InputStepInvariant, InputStutterInvariant
<1> QED BY <1>2, <1>3, PTL DEF Spec

(* Unless the player changes the way of input in mid gesture, the game sees *)
(* one finger that goes down, moves and comes up, whatever the buttons; no  *)
(* event is ever lost to a full queue, and the seed chooser is left with    *)
(* the finger up.                                                           *)
THEOREM OnePointer == Spec => []PointerSound
<1>1. P!IInv => PointerSound
  <2>1. P!IInv => P!OneFinger
    BY DEF P!IInv, P!TypeOK, P!Owned, P!OneOwner, P!OneFinger
  <2> QED BY <2>1 DEF P!IInv, PointerSound
<1> QED BY <1>1, InputInvariantHolds, PTL
=============================================================================
