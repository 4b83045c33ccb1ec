-------------------------- MODULE GuestContentProofs --------------------------
(***************************************************************************)
(* Proofs about the parts of GuestServices that answer for the game's      *)
(* files and its sound, and about the controls of a frame.                 *)
(***************************************************************************)
EXTENDS GuestServicesProofs

-----------------------------------------------------------------------------
(* stat: the startup index *)

(* No probe was made and held says what is so. *)
LEMMA IndexInitInvariant == ASSUME X!IndexConstants PROVE X!Init => X!IInv
BY DEF X!Init, X!IInv, X!TypeOK, X!HeldSince, X!DirectNow, X!StatHonest, X!IndexConstants

(* Every step preserves the invariant. *)
LEMMA IndexStepInvariant == ASSUME X!IndexConstants, X!IInv, X!Next PROVE X!IInv'
<1> USE DEF X!IInv, X!TypeOK, X!HeldSince, X!DirectNow, X!StatHonest, X!IndexConstants
<1>1. CASE X!Prebuild BY <1>1 DEF X!Prebuild
<1>2. CASE X!Spawn BY <1>2 DEF X!Spawn, X!ScanStarts
<1>3. CASE X!Publish BY <1>3 DEF X!Publish
<1>4. CASE X!BuildFails BY <1>4 DEF X!BuildFails
<1>5. CASE X!TitleGoesOn BY <1>5 DEF X!TitleGoesOn
<1>6. CASE X!StatFromIndex BY <1>6 DEF X!StatFromIndex, X!Reply, X!IndexReady
<1>7. CASE X!StatDirect BY <1>7 DEF X!StatDirect, X!Reply, X!IndexReady
<1>8. CASE X!StatBuilds BY <1>8 DEF X!StatBuilds, X!ScanStarts
<1>9. ASSUME NEW n \in HotNames, X!Scan(n) PROVE X!IInv' BY <1>9 DEF X!Scan
<1>10. ASSUME NEW n \in HotNames, X!Ask(n) PROVE X!IInv' BY <1>10 DEF X!Ask
<1>11. ASSUME NEW n \in HotNames, X!Change(n) PROVE X!IInv'
  <2>1. /\ xHeld' = [xHeld EXCEPT ![n] = @ \cup {(n \in files')}]
        /\ \A m \in HotNames : m # n => (m \in files') = (m \in files)
        /\ xAnswer' = X!NoAnswer
        /\ UNCHANGED <<state, builder, xVisited, build, xIndex, loading, probe>>
    BY <1>11 DEF X!Change
  <2>2. (n \in files') \in BOOLEAN OBVIOUS
  <2>3. /\ xHeld' \in [HotNames -> SUBSET BOOLEAN]
        /\ \A m \in HotNames : xHeld[m] \subseteq xHeld'[m]
        /\ (n \in files') \in xHeld'[n]
        /\ \A m \in HotNames : m # n => xHeld'[m] = xHeld[m]
    BY <2>1, <2>2
  <2>4. X!HeldSince' BY <2>1, <2>3
  <2> QED BY <2>1, <2>3, <2>4
<1> QED BY <1>1, <1>2, <1>3, <1>4, <1>5, <1>6, <1>7, <1>8, <1>9, <1>10, <1>11 DEF X!Next

(* A part at rest changes nothing its invariant is about. *)
LEMMA IndexStutterInvariant == X!IInv /\ UNCHANGED indexVars => X!IInv'
BY DEF indexVars, X!IInv, X!TypeOK, X!HeldSince, X!DirectNow, X!StatHonest

(* The invariant holds in every reachable state. *)
THEOREM IndexInvariantHolds == Spec => []X!IInv
<1>1. X!IndexConstants BY ServiceConstants
<1>2. Init => X!IInv BY <1>1, IndexInitInvariant DEF Init
<1>3. X!IInv /\ [Next]_vars => X!IInv'
  BY <1>1, OnePart, IndexStepInvariant, IndexStutterInvariant
<1> QED BY <1>2, <1>3, PTL DEF Spec

(* Whatever changes while the snapshot is taken and used, stat says nothing *)
(* of a name that was not so since the scan began.                          *)
THEOREM StatSound == Spec => []StatHonest
<1>1. X!IInv => StatHonest BY DEF X!IInv, StatHonest
<1> QED BY <1>1, IndexInvariantHolds, PTL

-----------------------------------------------------------------------------
(* AAsset: open and closed handles *)

(* Nothing is open at the start. *)
LEMMA AssetInitInvariant == ASSUME A!AssetConstants PROVE A!Init => A!IInv
BY DEF A!Init, A!IInv, A!TypeOK, A!MemoryKnown, A!ClosedStaysHarmless, A!Unopened,
       A!Sources, A!Error

(* A call that leaves the assets alone can at most ask a stream that has    *)
(* gone for its remaining length.                                           *)
LEMMA AssetsUnchanged ==
  ASSUME A!IInv, UNCHANGED <<modState, asset, memory>>,
         touched' \in {touched, touched \cup {"remaining"}}
  PROVE  A!IInv'
<1>1. A!TypeOK' BY DEF A!IInv, A!TypeOK
<1>2. A!MemoryKnown' BY DEF A!IInv, A!MemoryKnown
<1>3. touched' \subseteq {"remaining"}
  <2>1. touched \subseteq {"remaining"} BY DEF A!IInv, A!ClosedStaysHarmless
  <2> QED BY <2>1
<1>4. A!ClosedStaysHarmless' BY <1>3 DEF A!IInv, A!ClosedStaysHarmless
<1> QED BY <1>1, <1>2, <1>4 DEF A!IInv

(* A call that changes one handle preserves the invariant if that handle    *)
(* stays inside its buffer and in line with the memory there is.            *)
LEMMA AssetStaysInside ==
  ASSUME A!IInv, NEW h \in AssetSlots, A!TypeOK',
         \A k \in AssetSlots : k # h => asset'[k] = asset[k] /\ (k \in memory' <=> k \in memory),
         asset'[h].mem <=> h \in memory',
         ~ asset'[h].mem => asset'[h].size = 0,
         asset'[h].pos <= asset'[h].size,
         modState = "present" => modState' = "present",
         asset'[h].from = "mods" => modState' = "present",
         touched' = touched
  PROVE  A!IInv'
<1>0. asset'[h].pos \in Nat BY DEF A!TypeOK
<1>1. A!MemoryKnown'
  <2>1. ~ asset'[h].mem => asset'[h].pos = 0 BY <1>0
  <2> QED BY <2>1 DEF A!IInv, A!MemoryKnown
<1>2. A!ClosedStaysHarmless' BY DEF A!IInv, A!ClosedStaysHarmless
<1> QED BY <1>1, <1>2 DEF A!IInv

(* Every step preserves the invariant. *)
LEMMA AssetStepInvariant == ASSUME A!AssetConstants, A!IInv, A!Next PROVE A!IInv'
<1>1. CASE A!CardChanges BY <1>1, AssetsUnchanged DEF A!CardChanges
<1>2. ASSUME NEW h \in AssetSlots, A!Open(h) PROVE A!IInv'
  <2>1. /\ modState' = A!ModState /\ touched' = touched
        /\ modState' \in {"unknown", "absent", "present"}
        /\ modState = "present" => modState' = "present"
    BY <1>2 DEF A!Open, A!ModState, A!IInv, A!TypeOK
  <2>2. CASE UNCHANGED <<asset, memory>>
    <3>1. A!TypeOK' BY <2>1, <2>2 DEF A!IInv, A!TypeOK
    <3>2. A!MemoryKnown' BY <2>2 DEF A!IInv, A!MemoryKnown
    <3>3. A!ClosedStaysHarmless' BY <2>1, <2>2 DEF A!IInv, A!ClosedStaysHarmless
    <3> QED BY <3>1, <3>2, <3>3 DEF A!IInv
  <2>3. ASSUME NEW n \in ByteCounts, NEW source \in A!Choices,
               asset' = [asset EXCEPT ![h] =
                 [live |-> TRUE, mem |-> TRUE, size |-> n, pos |-> 0, from |-> source]],
               memory' = memory \cup {h}
        PROVE  A!IInv'
    <3>1. source \in A!Sources BY DEF A!Choices, A!Sources
    <3>2. n \in 0 .. A!Error - 1 BY DEF A!AssetConstants
    <3>3. source = "mods" => modState' = "present" BY <2>1 DEF A!Choices
    <3>4. A!TypeOK' BY <2>1, <2>3, <3>1, <3>2 DEF A!IInv, A!TypeOK
    <3>5. /\ asset'[h].mem /\ asset'[h].size = n /\ asset'[h].pos = 0
          /\ asset'[h].from = source
          /\ \A k \in AssetSlots : k # h => asset'[k] = asset[k]
      BY <2>3 DEF A!IInv, A!TypeOK
    <3>6. 0 <= n BY <3>2 DEF A!Error
    <3> QED BY <2>1, <2>3, <3>3, <3>4, <3>5, <3>6, AssetStaysInside
  <2> QED BY <1>2, <2>2, <2>3 DEF A!Open
<1>3. ASSUME NEW h \in AssetSlots, A!Close(h) PROVE A!IInv'
  <2>1. /\ asset' = [asset EXCEPT ![h].mem = FALSE, ![h].size = 0, ![h].pos = 0]
        /\ memory' = memory \ {h} /\ UNCHANGED <<modState, touched>>
    BY <1>3 DEF A!Close
  <2>0. 0 \in 0 .. A!Error - 1 /\ FALSE \in BOOLEAN BY DEF A!Error
  <2> DEFINE R == [live : BOOLEAN, mem : BOOLEAN, size : 0 .. A!Error - 1, pos : Nat,
                   from : A!Sources \cup {"none"}]
             a1 == [asset EXCEPT ![h].mem = FALSE]
             a2 == [a1 EXCEPT ![h].size = 0]
  <2>a. asset \in [AssetSlots -> R] BY DEF A!IInv, A!TypeOK
  <2>b. a1 \in [AssetSlots -> R] BY <2>a
  <2>c. a2 \in [AssetSlots -> R] BY <2>0, <2>b, ZenonT(30)
  <2>d. asset' = [a2 EXCEPT ![h].pos = 0] BY <2>1
  <2> HIDE DEF a2
  <2>e. asset' \in [AssetSlots -> R] BY <2>c, <2>d
  <2>2. A!TypeOK' BY <2>1, <2>e DEF A!IInv, A!TypeOK
  <2>3. /\ ~ asset'[h].mem /\ asset'[h].size = 0 /\ asset'[h].pos = 0
        /\ asset'[h].from = asset[h].from
        /\ \A k \in AssetSlots : k # h => asset'[k] = asset[k]
    BY <2>1 DEF A!IInv, A!TypeOK
  <2>4. asset[h].from = "mods" => modState = "present" BY DEF A!IInv, A!ClosedStaysHarmless
  <2>5. h \notin memory' /\ \A k \in AssetSlots : k # h => (k \in memory' <=> k \in memory)
    BY <2>1
  <2>6. /\ asset'[h].mem <=> h \in memory'
        /\ asset'[h].pos <= asset'[h].size
        /\ asset'[h].from = "mods" => modState' = "present"
    BY <2>1, <2>3, <2>4, <2>5
  <2> QED BY <2>1, <2>2, <2>3, <2>5, <2>6, AssetStaysInside
<1>4. ASSUME NEW h \in AssetSlots, A!GetBuffer(h) PROVE A!IInv'
  <2>1. asset[h].mem => h \in memory BY DEF A!IInv, A!MemoryKnown
  <2> QED BY <1>4, <2>1, AssetsUnchanged DEF A!GetBuffer, A!Deref
<1>5. ASSUME NEW h \in AssetSlots, A!GetLength(h) PROVE A!IInv'
  BY <1>5, AssetsUnchanged DEF A!GetLength
<1>6. ASSUME NEW h \in AssetSlots, A!GetRemainingLength(h) PROVE A!IInv'
  BY <1>6, AssetsUnchanged DEF A!GetRemainingLength, A!Deref
<1>7. ASSUME NEW h \in AssetSlots, NEW n \in {0, 1, 3}, A!Read(h, n) PROVE A!IInv'
  <2> DEFINE m == A!Least(n, asset[h].size - asset[h].pos)
  <2>1. UNCHANGED <<modState, memory>> BY <1>7 DEF A!Read
  <2>2. \/ UNCHANGED <<asset, touched>>
        \/ /\ asset[h].mem /\ ~ asset[h].pos >= asset[h].size
           /\ A!Deref(h, "read") /\ asset' = [asset EXCEPT ![h].pos = @ + m]
    BY <1>7 DEF A!Read
  <2>3. CASE UNCHANGED <<asset, touched>> BY <2>1, <2>3, AssetsUnchanged
  <2>4. CASE /\ asset[h].mem /\ ~ asset[h].pos >= asset[h].size
             /\ A!Deref(h, "read") /\ asset' = [asset EXCEPT ![h].pos = @ + m]
    <3>1. asset[h].size \in Nat /\ asset[h].pos \in Nat BY SMTT(30) DEF A!IInv, A!TypeOK, A!Error
    <3>2. asset[h].pos + m \in Nat /\ asset[h].pos + m <= asset[h].size
      BY <2>4, <3>1 DEF A!Least
    <3> HIDE DEF m
    <3>3. h \in memory BY <2>4 DEF A!IInv, A!MemoryKnown
    <3>4. touched' = touched BY <2>4, <3>3 DEF A!Deref
    <3>5. A!TypeOK' BY <2>1, <2>4, <3>2 DEF A!IInv, A!TypeOK
    <3>6. /\ asset'[h].pos = asset[h].pos + m /\ asset'[h].mem = asset[h].mem
          /\ asset'[h].size = asset[h].size /\ asset'[h].from = asset[h].from
          /\ \A k \in AssetSlots : k # h => asset'[k] = asset[k]
      BY <2>4, <3>2 DEF A!IInv, A!TypeOK
    <3>7. asset[h].from = "mods" => modState = "present" BY DEF A!IInv, A!ClosedStaysHarmless
    <3> QED BY <2>1, <2>4, <3>2, <3>3, <3>4, <3>5, <3>6, <3>7, AssetStaysInside
  <2> QED BY <2>2, <2>3, <2>4
<1>8. ASSUME NEW h \in AssetSlots, NEW n \in {0, 1, 3}, A!Seek(h, n) PROVE A!IInv'
  <2>1. UNCHANGED <<modState, memory, touched>> BY <1>8 DEF A!Seek
  <2>2. CASE asset' = asset BY <2>1, <2>2, AssetsUnchanged
  <2>3. CASE asset[h].mem /\ n <= asset[h].size /\ asset' = [asset EXCEPT ![h].pos = n]
    <3>1. A!TypeOK' BY <2>1, <2>3 DEF A!IInv, A!TypeOK
    <3>2. /\ asset'[h].pos = n /\ asset'[h].mem = asset[h].mem
          /\ asset'[h].size = asset[h].size /\ asset'[h].from = asset[h].from
          /\ \A k \in AssetSlots : k # h => asset'[k] = asset[k]
      BY <2>3 DEF A!IInv, A!TypeOK
    <3>3. h \in memory BY <2>3 DEF A!IInv, A!MemoryKnown
    <3>4. asset[h].from = "mods" => modState = "present" BY DEF A!IInv, A!ClosedStaysHarmless
    <3> QED BY <2>1, <2>3, <3>1, <3>2, <3>3, <3>4, AssetStaysInside
  <2> QED BY <1>8, <2>2, <2>3 DEF A!Seek
<1> QED BY <1>1, <1>2, <1>3, <1>4, <1>5, <1>6, <1>7, <1>8 DEF A!Next

(* A part at rest changes nothing its invariant is about. *)
LEMMA AssetStutterInvariant == A!IInv /\ UNCHANGED assetsVars => A!IInv'
BY DEF assetsVars, A!IInv, A!TypeOK, A!MemoryKnown, A!ClosedStaysHarmless

(* The invariant holds in every reachable state. *)
THEOREM AssetInvariantHolds == Spec => []A!IInv
<1>1. A!AssetConstants BY ServiceConstants
<1>2. Init => A!IInv BY <1>1, AssetInitInvariant DEF Init
<1>3. A!IInv /\ [Next]_vars => A!IInv'
  BY <1>1, OnePart, AssetStepInvariant, AssetStutterInvariant
<1> QED BY <1>2, <1>3, PTL DEF Spec

(* No call on a closed handle reads or writes memory, for any number of     *)
(* handles and calls.                                                       *)
THEOREM HandlesHarmless == Spec => []ClosedStaysHarmless
<1>1. A!IInv => ClosedStaysHarmless BY DEF A!IInv, ClosedStaysHarmless
<1> QED BY <1>1, AssetInvariantHolds, PTL

-----------------------------------------------------------------------------
(* tar.full: the numbered files *)

(* No file of any number is there at the start. *)
LEMMA TarInitInvariant == ASSUME T!TarConstants PROVE T!Init => T!IInv
BY DEF T!Init, T!IInv, T!TypeOK, T!NumbersInOrder, T!TarAsOnAndroid, T!NameAsOnAndroid,
       T!ReaderUndisturbed, T!InUse, T!Generations, T!TarConstants

(* Every step preserves the invariant. *)
LEMMA TarStepInvariant == ASSUME T!TarConstants, T!IInv, T!Next PROVE T!IInv'
<1> USE DEF T!IInv, T!TypeOK, T!NumbersInOrder, T!TarAsOnAndroid, T!NameAsOnAndroid,
            T!ReaderUndisturbed, T!InUse, T!Generations, T!TarConstants
<1>1. CASE T!OpenWrite BY <1>1 DEF T!OpenWrite
<1>2. CASE T!OpenRead BY <1>2 DEF T!OpenRead
<1>3. CASE T!Remove BY <1>3 DEF T!Remove, T!Advance
<1>4. CASE T!Restart BY <1>4 DEF T!Restart
<1>5. ASSUME NEW k \in Packages, T!Write(k) PROVE T!IInv' BY <1>5 DEF T!Write
<1>6. ASSUME NEW g \in T!Generations, T!CloseRead(g) PROVE T!IInv' BY <1>6 DEF T!CloseRead
<1> QED BY <1>1, <1>2, <1>3, <1>4, <1>5, <1>6 DEF T!Next

(* A part at rest changes nothing its invariant is about. *)
LEMMA TarStutterInvariant == T!IInv /\ UNCHANGED tarVars => T!IInv'
BY DEF tarVars, T!IInv, T!TypeOK, T!NumbersInOrder, T!TarAsOnAndroid, T!NameAsOnAndroid,
   T!ReaderUndisturbed, T!InUse, T!Generations

(* The invariant holds in every reachable state. *)
THEOREM TarInvariantHolds == Spec => []T!IInv
<1>1. T!TarConstants BY ServiceConstants
<1>2. Init => T!IInv BY <1>1, TarInitInvariant DEF Init
<1>3. T!IInv /\ [Next]_vars => T!IInv'
  BY <1>1, OnePart, TarStepInvariant, TarStutterInvariant
<1> QED BY <1>2, <1>3, PTL DEF Spec

-----------------------------------------------------------------------------
(* tags/: the clear and the next read *)

(* Nobody has called at the start. *)
LEMMA TagsInitInvariant == G!Init => G!IInv
BY DEF G!Init, G!IInv, G!TypeOK, G!VersionAfterClear

(* Every step of a thread preserves the invariant. *)
LEMMA TagsStepInvariant == ASSUME G!IInv, G!Next PROVE G!IInv'
<1> USE DEF G!IInv, G!TypeOK, G!VersionAfterClear, G!Undisturbed, G!Goto, G!Return, G!Fault,
            G!NoFault
<1> PICK t \in Threads :
      \/ G!Begin(t, "parents") \/ G!Begin(t, "wparents") \/ G!Begin(t, "clear")
      \/ G!ReadParents(t) \/ G!Probe(t) \/ G!Seed(t) \/ G!Seeding(t) \/ G!Open(t)
      \/ G!WriteParents(t) \/ G!Persist(t) \/ G!Persisting(t)
      \/ G!WriteCache(t) \/ G!ReadCache(t)
      \/ G!ClearStart(t) \/ G!ClearDirectory(t)
      \/ \E name \in {"version", "cache"} : G!ClearName(t, name)
  BY DEF G!Next
<1>1. ASSUME NEW l \in {"parents", "wparents", "clear"}, G!Begin(t, l) PROVE G!IInv'
  BY <1>1 DEF G!Begin, G!Busy
<1>2. CASE G!ReadParents(t) BY <1>2, ZenonT(30) DEF G!ReadParents, G!MakeParents
<1>3. CASE G!Probe(t) BY <1>3 DEF G!Probe, G!Usable
<1>4. CASE G!Seed(t)
  <2>1. ~ disturbed[t] => dir /\ gHolders = {} BY <1>4 DEF G!Seed
  <2>2. CASE G!Truncate(t) /\ G!Goto(t, "seeding") /\ G!NoFault
    BY <1>4, <2>2 DEF G!Seed, G!Truncate
  <2>3. CASE ~ (dir /\ gHolders = {}) /\ G!Goto(t, "open") /\ G!NoFault
             /\ UNCHANGED <<version, gHolders>>
    BY <1>4, <2>1, <2>3 DEF G!Seed
  <2>4. CASE G!Fault(t) /\ G!Goto(t, "open") /\ UNCHANGED <<version, gHolders>>
    BY <1>4, <2>4 DEF G!Seed
  <2> QED BY <1>4, <2>2, <2>3, <2>4 DEF G!Seed
<1>5. CASE G!Seeding(t) BY <1>5, ZenonT(30) DEF G!Seeding, G!FillAndClose
<1>6. CASE G!Open(t) BY <1>6 DEF G!Open
<1>7. CASE G!WriteParents(t) BY <1>7, ZenonT(30) DEF G!WriteParents, G!MakeParents
<1>8. CASE G!Persist(t)
  <2>1. ~ disturbed[t] => dir /\ gHolders = {} BY <1>8 DEF G!Persist
  <2>2. CASE G!Truncate(t) /\ G!Goto(t, "persisting") /\ G!NoFault
    BY <1>8, <2>2 DEF G!Persist, G!Truncate
  <2>3. CASE ~ (dir /\ gHolders = {}) /\ G!Goto(t, "open") /\ G!NoFault
             /\ UNCHANGED <<version, gHolders>>
    BY <1>8, <2>1, <2>3 DEF G!Persist
  <2>4. CASE G!Fault(t) /\ G!Goto(t, "open") /\ UNCHANGED <<version, gHolders>>
    BY <1>8, <2>4 DEF G!Persist
  <2> QED BY <1>8, <2>2, <2>3, <2>4 DEF G!Persist
<1>9. CASE G!Persisting(t) BY <1>9, ZenonT(30) DEF G!Persisting, G!FillAndClose
<1>10. CASE G!WriteCache(t) BY <1>10 DEF G!WriteCache
<1>11. CASE G!ReadCache(t) BY <1>11 DEF G!ReadCache
<1>12. CASE G!ClearStart(t) BY <1>12 DEF G!ClearStart
<1>13. CASE G!ClearDirectory(t)
  <2>1. /\ gPc[t] = "unlink" /\ gPc' = [gPc EXCEPT ![t] = "idle"]
        /\ \E r \in {"cleared", "failed"} : gGot' = [gGot EXCEPT ![t] = r]
        /\ dir' \in BOOLEAN
        /\ UNCHANGED <<version, gHolders, disturbed>>
    BY <1>13 DEF G!ClearDirectory
  <2>2. \A u \in Threads \ {t} : gPc[u] # "idle" => disturbed[u] BY <2>1
  <2> QED BY <2>1, <2>2
<1>14. ASSUME NEW name \in {"version", "cache"}, G!ClearName(t, name) PROVE G!IInv'
  <2>1. /\ gPc[t] = "unlink"
        /\ \/ gPc' = gPc /\ gGot' = gGot
           \/ /\ gPc' = [gPc EXCEPT ![t] = "idle"]
              /\ gGot' = [gGot EXCEPT ![t] = "failed"]
        /\ disturbed' = disturbed \/ disturbed' = [disturbed EXCEPT ![t] = TRUE]
        /\ version' \in {version, "absent"}
        /\ UNCHANGED <<dir, gHolders>>
    BY <1>14 DEF G!ClearName
  <2>2. \A u \in Threads \ {t} : gPc[u] # "idle" => disturbed[u] BY <2>1
  <2>3. disturbed' \in [Threads -> BOOLEAN] /\ \A u \in Threads : disturbed[u] => disturbed'[u]
    BY <2>1
  <2>4. G!TypeOK' BY <2>1, <2>3
  <2>5. G!VersionAfterClear' BY <2>1, <2>3
  <2>6. \A u \in Threads : gPc'[u] # "idle" => gPc'[u] = gPc[u] /\ gPc[u] # "idle" BY <2>1
  <2>7. ASSUME NEW u \in Threads, gPc'[u] # "idle", ~ disturbed'[u] PROVE G!Undisturbed(u)'
    <3>1. u = t /\ ~ disturbed[t] BY <2>2, <2>3, <2>6, <2>7
    <3> QED BY <2>1, <2>7, <3>1
  <2> QED BY <2>4, <2>5, <2>7
<1> QED BY <1>1, <1>2, <1>3, <1>4, <1>5, <1>6, <1>7, <1>8, <1>9, <1>10, <1>11, <1>12, <1>13,
           <1>14

(* A part at rest changes nothing its invariant is about. *)
LEMMA TagsStutterInvariant == G!IInv /\ UNCHANGED tagsVars => G!IInv'
BY DEF tagsVars, G!IInv, G!TypeOK, G!VersionAfterClear, G!Undisturbed

(* The invariant holds in every reachable state. *)
THEOREM TagsInvariantHolds == Spec => []G!IInv
<1>1. G!TagConstants BY ServiceConstants
<1>2. Init => G!IInv BY <1>1, TagsInitInvariant DEF Init
<1>3. G!IInv /\ [Next]_vars => G!IInv'
  BY <1>1, OnePart, TagsStepInvariant, TagsStutterInvariant
<1> QED BY <1>2, <1>3, PTL DEF Spec

(* The renamed tar.full and the cleared tags/ behave as the game expects,   *)
(* for any number of packages, removals and threads.                        *)
THEOREM PrivateFilesHold == Spec => []PrivateFilesSound
<1>1. T!IInv /\ G!IInv => PrivateFilesSound BY DEF T!IInv, G!IInv, PrivateFilesSound
<1> QED BY <1>1, TarInvariantHolds, TagsInvariantHolds, PTL

-----------------------------------------------------------------------------
(* The installer *)

(* Only the archive is on the card. *)
LEMMA InstallInitInvariant == ASSUME I!InstallConstants PROVE I!Init => I!IInv
BY DEF I!Init, I!IInv, I!TypeOK, I!IndexIsCurrent, I!HonestCard, I!AllWhole, I!Whole,
       I!InstallConstants

(* The apk is no required file. *)
LEMMA RequiredParts == I!Required \subseteq I!Parts \ {"apk"}
BY DEF I!Required, I!Parts

(* Every step preserves the invariant. *)
LEMMA InstallStepInvariant == ASSUME I!InstallConstants, I!IInv, I!Next PROVE I!IInv'
<1> USE RequiredParts
    DEF I!IInv, I!TypeOK, I!IndexIsCurrent, I!HonestCard, I!AllWhole, I!Whole,
        I!RequiredPresent
<1>1. Len(layout) \in Nat /\ layout \in Seq(I!Parts \cup {"endapk"})
  BY DEF I!InstallConstants
<1>a. DOMAIN layout = 1 .. Len(layout) BY <1>1
<1>2. \A i, j \in 1 .. Len(layout) : layout[i] = layout[j] => i = j
  BY <1>a DEF I!InstallConstants, I!IsInjective
<1>3. \A e \in I!Parts : \E i \in 1 .. Len(layout) : layout[i] = e
  <2> SUFFICES ASSUME NEW e \in I!Parts PROVE \E i \in 1 .. Len(layout) : layout[i] = e
    OBVIOUS
  <2>1. e \in I!Range(layout) BY DEF I!InstallConstants
  <2> QED BY <2>1, <1>a DEF I!Range
<1>4. CASE I!Launch
  <2>1. \A e \in I!Parts : file[e] = "absent" \/ file[e] # "absent" OBVIOUS
  <2>2. I!Required # {} /\ "obb" \in I!Required BY DEF I!Required
  <2>3. /\ UNCHANGED <<file, iCache, layout, mayFail, cuts>>
        /\ iIndex' = "none"
    BY <1>4 DEF I!Launch
  <2>4. CASE I!RequiredPresent
    <3>1. ipc = "off" /\ ipc' = "open" /\ step' = step /\ xapk' \in BOOLEAN
      BY <1>4, <2>4 DEF I!Launch, I!RemoveArchive
    <3>2. ~ \A e \in I!Parts : file[e] = "absent" BY <2>2, <2>4
    <3> QED BY <2>3, <2>4, <3>1, <3>2
  <2>5. CASE ~ I!RequiredPresent
    <3>1. ipc = "off" /\ ipc' = "extract" /\ step' = 1 /\ xapk' = xapk
      BY <1>4, <2>5 DEF I!Launch
    <3>2. ~ I!AllWhole BY <2>5
    <3> QED BY <2>3, <2>5, <3>1, <3>2, <1>1
  <2> QED BY <2>4, <2>5
<1>5. CASE I!Extract BY <1>1, <1>2, <1>5 DEF I!Extract, I!Part, I!Abort
<1>6. CASE I!EndApk
  <2>1. /\ ipc = "extract" /\ ipc' = ipc /\ step <= Len(layout) /\ step' = step + 1
        /\ layout[step] = "endapk" /\ file' = [file EXCEPT !["apk"] = "absent"]
        /\ UNCHANGED <<xapk, iCache, layout, iIndex, mayFail, cuts>>
    BY <1>6 DEF I!EndApk, I!Part
  <2>2. "apk" \in I!Parts /\ "endapk" \notin I!Parts BY DEF I!Parts, I!InstallConstants
  <2>3. /\ file' \in [I!Parts -> {"absent", "whole", "torn"}]
        /\ \A e \in I!Parts : e # "apk" => file'[e] = file[e]
        /\ file'["apk"] = "absent"
    BY <2>1, <2>2
  <2>4. I!TypeOK' BY <2>1, <2>3, <1>1
  <2>5. I!HonestCard'
    <3> SUFFICES ASSUME ~mayFail, cuts = 0, NEW i \in 1 .. Len(layout), layout[i] \in I!Parts
                 PROVE  IF i < step + 1 THEN layout[i] # "apk" => file'[layout[i]] = "whole"
                                        ELSE file'[layout[i]] = "absent"
      BY <2>1
    <3>1. i # step BY <2>1, <2>2
    <3> QED BY <2>1, <2>3, <3>1, <1>1
  <2>6. \A e \in I!Required : file'[e] = file[e] BY <2>3
  <2> QED BY <2>1, <2>4, <2>5, <2>6
<1>7. CASE I!Visited BY <1>1, <1>3, <1>7 DEF I!Visited
<1>8. CASE I!PrepareIndex
  BY <1>8 DEF I!PrepareIndex, I!CacheFits, I!SaveCache, I!RemoveArchive, I!Parts
<1>9. CASE I!Open BY <1>9 DEF I!Open, I!CacheFits
<1>10. CASE I!RuntimeIndex BY <1>10 DEF I!RuntimeIndex, I!SaveCache
<1>11. CASE I!Quit BY <1>11 DEF I!Quit
<1>12. CASE I!PowerOff BY <1>12 DEF I!PowerOff
<1> QED BY <1>4, <1>5, <1>6, <1>7, <1>8, <1>9, <1>10, <1>11, <1>12 DEF I!Next

(* A part at rest changes nothing its invariant is about. *)
LEMMA InstallStutterInvariant == I!IInv /\ UNCHANGED installVars => I!IInv'
BY DEF installVars, I!IInv, I!TypeOK, I!IndexIsCurrent, I!HonestCard, I!AllWhole, I!Whole,
   I!RequiredPresent

(* The invariant holds in every reachable state. *)
THEOREM InstallInvariantHolds == Spec => []I!IInv
<1>1. I!InstallConstants BY ServiceConstants
<1>2. Init => I!IInv BY <1>1, InstallInitInvariant DEF Init
<1>3. I!IInv /\ [Next]_vars => I!IInv'
  BY <1>1, OnePart, InstallStepInvariant, InstallStutterInvariant
<1> QED BY <1>2, <1>3, PTL DEF Spec

(* Wherever the console is switched off and in whatever order the archive   *)
(* has its parts, it is deleted only when the game can start, and an honest *)
(* card that is not interrupted loses nothing.                              *)
THEOREM InstallKeepsSource == Spec => []InstallSound
<1>1. I!HonestCard /\ I!TypeOK => (~mayFail /\ cuts = 0 /\ ipc = "play" => I!AllWhole)
  BY DEF I!HonestCard
<1>2. I!IInv => InstallSound
  BY <1>1 DEF I!IInv, InstallSound, I!SourceOrFiles, I!AllWhole
<1> QED BY <1>2, InstallInvariantHolds, PTL

-----------------------------------------------------------------------------
(* The controls of a frame *)

(* No level and no chooser at the start. *)
LEMMA NavInitInvariant == ASSUME N!NavConstants PROVE N!Init => N!IInv
BY DEF N!Init, N!IInv

(* A commit forgets the chooser and enters the level unless it is entered. *)
LEMMA CommitKeeps == ASSUME N!IInv, N!Commit PROVE N!IInv'
BY DEF N!Commit, N!IInv, N!Enter, N!Stay

(* Every step preserves the invariant. *)
LEMMA NavStepInvariant == ASSUME N!NavConstants, N!IInv, N!Next PROVE N!IInv'
<1>1. CASE N!Decide
  <2>1. CASE N!DecideChooser BY <1>1, <2>1 DEF N!Decide, N!DecideChooser, N!IInv
  <2>2. CASE N!DecideNoBoard BY <1>1, <2>2 DEF N!Decide, N!DecideNoBoard, N!IInv
  <2>3. CASE N!DecideBoard
    BY <1>1, <2>3 DEF N!Decide, N!DecideBoard, N!IInv, N!Enter, N!Stay, N!LatchOver
  <2> QED BY <1>1, <2>1, <2>2, <2>3 DEF N!Decide
<1>2. CASE N!LetsRock
  BY <1>2, CommitKeeps DEF N!LetsRock, N!IInv
<1>3. CASE N!Destroy BY <1>3 DEF N!Destroy, N!IInv
<1>4. CASE N!EndFrame BY <1>4 DEF N!EndFrame, N!IInv
<1>5. ASSUME NEW confirms \in BOOLEAN, N!Input(confirms) PROVE N!IInv'
  BY <1>5, CommitKeeps DEF N!Input, N!IInv
<1>6. ASSUME NEW c \in Choosers, N!Construct(c) PROVE N!IInv'
  BY <1>6 DEF N!Construct, N!IInv, N!NavConstants
<1>7. ASSUME NEW b \in Boards \cup {NoOne}, N!ChangeBoard(b) PROVE N!IInv'
  BY <1>7 DEF N!ChangeBoard, N!IInv
<1> QED BY <1>1, <1>2, <1>3, <1>4, <1>5, <1>6, <1>7 DEF N!Next

(* A part at rest changes nothing its invariant is about. *)
LEMMA NavStutterInvariant == N!IInv /\ UNCHANGED navVars => N!IInv'
BY DEF navVars, N!IInv

(* The level of a chooser that was left stays the level whatever becomes of *)
(* its board, is entered once, and an observed chooser has its own controls.*)
THEOREM ControlsFollow == Spec => NavSound
<1> DEFINE Kept == N!Decide /\ committed /\ board # NoOne /\ ~ N!ObjectAlive => mode' = "level"
           Wins == N!Decide /\ visible /\ chooser = object => mode' = "chooser"
<1>1. N!NavConstants BY ServiceConstants
<1>2. Init => N!IInv BY <1>1, NavInitInvariant DEF Init
<1>3. N!IInv /\ [Next]_vars => N!IInv'
  BY <1>1, OnePart, NavStepInvariant, NavStutterInvariant
<1>4. N!IInv => N!EnteredOnce /\ N!CommitForgets
  BY DEF N!IInv, N!EnteredOnce, N!CommitForgets
<1>5. N!IInv => Kept
  BY DEF N!IInv, N!Decide, N!DecideChooser, N!DecideNoBoard, N!DecideBoard, N!LatchOver
<1>6. N!IInv => Wins
  BY DEF N!IInv, N!Decide, N!DecideChooser, N!DecideNoBoard, N!DecideBoard, N!ObjectAlive
<1> QED BY <1>2, <1>3, <1>4, <1>5, <1>6, PTL
     DEF Spec, NavSound, N!NavSound, N!LevelKept, N!ChooserWins

-----------------------------------------------------------------------------
(* The archive's index and hot cache *)

(* What a slot takes is what the model's Total adds up.                     *)
Sizes == [u \in O!Slots |-> O!SizeAt(u)]

LEMMA SlotsFinite == O!ObbConstants => IsFiniteSet(O!Slots) /\ O!Slots \in SUBSET (Nat \ {0})
<1> SUFFICES ASSUME O!ObbConstants PROVE IsFiniteSet(O!Slots) /\ O!Slots \in SUBSET (Nat \ {0})
  OBVIOUS
<1>1. HotSlots \in Nat BY DEF O!ObbConstants
<1>2. IsFiniteSet(1 .. HotSlots) BY <1>1, FS_Interval
<1> QED BY <1>2 DEF O!Slots

(* An empty slot has no size, another one that of its stream.               *)
LEMMA SizesKnown ==
  ASSUME O!ObbConstants, O!IInv
  PROVE  /\ Sizes \in [O!Slots -> Nat]
         /\ \A u \in O!Slots : Sizes[u] = IF hot[u] = O!Unused THEN 0 ELSE Size[hot[u].data]
         /\ \A us \in SUBSET O!Slots : O!Total(us) = Volume(Sizes, us)
<1>1. \A u \in O!Slots : hot[u] # O!Unused => hot[u].data \in Entries
  BY DEF O!IInv, O!TypeOK, O!Filled
<1>2. \A u \in O!Slots : O!SizeAt(u) \in Nat
  BY <1>1 DEF O!SizeAt, O!ObbConstants
<1>3. Sizes \in [O!Slots -> Nat] BY <1>2 DEF Sizes
<1>4. ASSUME NEW us PROVE O!Total(us) = Volume(Sizes, us)
  <2> DEFINE units == UNION {{u} \X (1 .. Sizes[u]) : u \in us}
  <2>1. O!Total(us) = O!Volume(Sizes, us) BY DEF O!Total, Sizes
  <2>2. O!Volume(Sizes, us) = O!Cardinality(units) BY DEF O!Volume
  <2>3. Volume(Sizes, us) = Cardinality(units) BY DEF Volume
  <2>4. O!Cardinality(units) = Cardinality(units) BY DEF O!Cardinality, Cardinality
  <2> QED BY <2>1, <2>2, <2>3, <2>4
<1> QED BY <1>3, <1>4 DEF Sizes, O!SizeAt

(* Among some slots there is a least recently used one.                     *)
LEMMA OldestOf ==
  ASSUME O!ObbConstants, O!IInv, NEW us \in SUBSET O!Slots, us # {}
  PROVE  \E s \in us : \A u \in us : hot[s].stamp <= hot[u].stamp
<1> DEFINE stamps == {hot[u].stamp + 1 : u \in us}
<1>1. \A u \in us : hot[u].stamp \in Nat /\ hot[u].stamp <= clock
  BY DEF O!IInv, O!TypeOK, O!HotCacheSound
<1>2. clock \in Nat BY DEF O!IInv, O!TypeOK
<1>3. stamps \in SUBSET (1 .. clock + 1) /\ stamps # {} BY <1>1, <1>2
<1> HIDE DEF stamps
<1>4. clock + 1 \in Nat BY <1>2
<1>5. PICK f \in stamps : \A i \in stamps : f <= i BY <1>3, <1>4, FirstPosition
<1>6. PICK s \in us : f = hot[s].stamp + 1 BY <1>5 DEF stamps
<1>7. \A u \in us : hot[u].stamp + 1 \in stamps BY DEF stamps
<1>8. \A u \in us : hot[s].stamp + 1 <= hot[u].stamp + 1 BY <1>5, <1>6, <1>7
<1>9. \A u \in us : hot[s].stamp <= hot[u].stamp BY <1>1, <1>8
<1> QED BY <1>9

(* A store goes to a slot, and no other one has its key.                    *)
LEMMA ChoiceFacts ==
  ASSUME O!ObbConstants, O!IInv, NEW k \in AssetKeys
  PROVE  /\ O!Choice(k) \in O!Slots
         /\ \A u \in O!Slots : hot[u].key = k => u = O!Choice(k)
<1> DEFINE s == O!Choice(k)
<1>0. k # NoOne BY DEF O!ObbConstants
<1>1. CASE O!SlotOf(k) # {}
  <2>1. s = CHOOSE u \in O!SlotOf(k) : TRUE BY <1>1 DEF O!Choice
  <2>2. s \in O!SlotOf(k) BY <1>1, <2>1
  <2>3. s \in O!Slots /\ hot[s].key = k BY <2>2 DEF O!SlotOf
  <2>4. \A u \in O!Slots : hot[u].key = k => u = s
    BY <1>0, <2>3 DEF O!IInv, O!HotCacheSound
  <2> QED BY <2>3, <2>4
<1>2. CASE O!SlotOf(k) = {}
  <2>1. \A u \in O!Slots : hot[u].key # k BY <1>2 DEF O!SlotOf
  <2>2. CASE O!SlotOf(NoOne) # {}
    <3>1. s = O!Min(O!SlotOf(NoOne)) BY <1>2, <2>2 DEF O!Choice
    <3>2. O!SlotOf(NoOne) \in SUBSET (1 .. HotSlots) /\ HotSlots \in Nat
      BY DEF O!SlotOf, O!Slots, O!ObbConstants
    <3>3. \E u \in O!SlotOf(NoOne) : \A v \in O!SlotOf(NoOne) : u <= v
      BY <2>2, <3>2, FirstPosition
    <3>4. s \in O!SlotOf(NoOne) BY <3>1, <3>3 DEF O!Min
    <3> QED BY <2>1, <3>4 DEF O!SlotOf
  <2>3. CASE O!SlotOf(NoOne) = {}
    <3>1. s = CHOOSE u \in O!Slots : \A v \in O!Slots : hot[u].stamp <= hot[v].stamp
      BY <1>2, <2>3 DEF O!Choice
    <3>2. O!Slots # {}
      <4>1. HotSlots \in Nat \ {0} BY DEF O!ObbConstants
      <4>2. 1 \in 1 .. HotSlots BY <4>1
      <4> QED BY <4>2 DEF O!Slots
    <3>3. \E u \in O!Slots : \A v \in O!Slots : hot[u].stamp <= hot[v].stamp
      BY <3>2, OldestOf
    <3>4. s \in O!Slots BY <3>1, <3>3
    <3> QED BY <2>1, <3>4
  <2> QED BY <2>2, <2>3
<1> QED BY <1>1, <1>2

(* The other slots in use, what they take, and those that stay when an      *)
(* asset of that size goes into slot s.                                     *)
Others(s) == {u \in O!Slots : u # s /\ hot[u] # O!Unused}
Had(s) == hotBytes - O!SizeAt(s)
Stay(s, size) == {u \in Others(s) : Had(s) - O!Total(O!Older(u, Others(s))) <= HotBytes - size}

(* Eviction leaves room: what is kept and the new asset fit the budget, and *)
(* the count that is left is that of what is kept.                          *)
LEMMA EvictionFits ==
  ASSUME O!ObbConstants, O!IInv, NEW s \in O!Slots, NEW size \in Nat, size <= HotBytes
  PROVE  /\ Volume(Sizes, Stay(s, size)) \in Nat
         /\ Volume(Sizes, Stay(s, size)) + size <= HotBytes
         /\ Had(s) - O!Total(Others(s) \ Stay(s, size)) = Volume(Sizes, Stay(s, size))
<1> DEFINE rest == Others(s)
           had == Had(s)
           stay == Stay(s, size)
<1>a. /\ rest = {u \in O!Slots : u # s /\ hot[u] # O!Unused}
      /\ had = hotBytes - O!SizeAt(s)
      /\ stay = {u \in rest : had - O!Total(O!Older(u, rest)) <= HotBytes - size}
  BY DEF Others, Had, Stay
<1> HIDE DEF rest, had, stay
<1> DEFINE V(us) == Volume(Sizes, us)
           none == O!Slots \ (rest \cup {s})
<1>0. HotBytes \in Nat BY DEF O!ObbConstants
<1>1. /\ Sizes \in [O!Slots -> Nat]
      /\ \A u \in O!Slots : Sizes[u] = IF hot[u] = O!Unused THEN 0 ELSE Size[hot[u].data]
      /\ \A us \in SUBSET O!Slots : O!Total(us) = V(us)
  BY SizesKnown
<1>2. /\ \A us \in SUBSET O!Slots : V(us) \in Nat
      /\ \A us, vs \in SUBSET O!Slots : us \cap vs = {} => V(us \cup vs) = V(us) + V(vs)
      /\ \A u \in O!Slots : V({u}) = Sizes[u]
      /\ \A us, vs \in SUBSET O!Slots : us \subseteq vs => V(us) <= V(vs)
      /\ \A us \in SUBSET O!Slots : (\A u \in us : Sizes[u] = 0) => V(us) = 0
  BY <1>1, SlotsFinite, VolumeFacts
<1>3. Sizes[s] = O!SizeAt(s) BY DEF Sizes
<1> HIDE DEF V
<1>4. /\ rest \in SUBSET O!Slots /\ stay \in SUBSET O!Slots /\ rest \ stay \in SUBSET O!Slots
      /\ stay \subseteq rest /\ none \in SUBSET O!Slots /\ {s} \in SUBSET O!Slots
      /\ rest \cup {s} \in SUBSET O!Slots
  BY <1>a
<1>5. had = V(rest)
  <2>1. V(none) = 0 BY <1>1, <1>2, <1>4, <1>a
  <2>2. V((rest \cup {s}) \cup none) = V(rest \cup {s}) + V(none) BY <1>2, <1>4
  <2>3. V(rest \cup {s}) = V(rest) + V({s})
    <3>1. rest \cap {s} = {} BY <1>a
    <3> QED BY <1>2, <1>4, <3>1
  <2>4. (rest \cup {s}) \cup none = O!Slots BY <1>4
  <2>5. hotBytes = O!Total(O!Slots) BY DEF O!IInv, O!HotCacheSound
  <2>6. O!Total(O!Slots) = V(O!Slots) BY <1>1
  <2>7. V({s}) = O!SizeAt(s) BY <1>2, <1>3
  <2>8. V(rest) \in Nat /\ V({s}) \in Nat BY <1>2, <1>4
  <2>9. V(O!Slots) = V(rest \cup {s}) + V(none) BY <2>2, <2>4
  <2>10. hotBytes = V(rest) + V({s}) BY <2>1, <2>3, <2>5, <2>6, <2>8, <2>9
  <2> QED BY <1>a, <2>7, <2>8, <2>10
<1>6. V(rest) = V(stay) + V(rest \ stay)
  <2>1. stay \cup (rest \ stay) = rest /\ stay \cap (rest \ stay) = {} BY <1>4
  <2>2. V(stay \cup (rest \ stay)) = V(stay) + V(rest \ stay) BY <1>2, <1>4, <2>1
  <2> QED BY <2>1, <2>2
<1>7. had - O!Total(rest \ stay) = V(stay)
  <2>1. O!Total(rest \ stay) = V(rest \ stay) BY <1>1, <1>4
  <2>2. V(stay) \in Nat /\ V(rest \ stay) \in Nat BY <1>2, <1>4
  <2> QED BY <1>5, <1>6, <2>1, <2>2
<1>8. V(stay) + size <= HotBytes
  <2>0. V(stay) \in Nat BY <1>2, <1>4
  <2>1. CASE stay = {}
    <3>1. V({}) = 0 BY <1>2
    <3> QED BY <1>0, <2>1, <3>1
  <2>2. CASE stay # {}
    <3>1. PICK o \in stay : \A u \in stay : hot[o].stamp <= hot[u].stamp
      BY <1>4, <2>2, OldestOf
    <3> DEFINE old == O!Older(o, rest)
    <3>2. old \in SUBSET O!Slots /\ rest \ old \in SUBSET O!Slots /\ old \subseteq rest
      BY <1>4 DEF O!Older
    <3>3. stay \subseteq rest \ old
      <4> SUFFICES ASSUME NEW u \in stay, u \in old PROVE FALSE BY <1>4
      <4>1. hot[u].stamp < hot[o].stamp BY DEF O!Older
      <4>2. hot[u].stamp \in Nat /\ hot[o].stamp \in Nat
        BY <1>4 DEF O!IInv, O!TypeOK
      <4> QED BY <3>1, <4>1, <4>2
    <3>4. had - O!Total(old) <= HotBytes - size BY <3>1, <1>a
    <3> HIDE DEF old
    <3>5. V(rest) = V(old) + V(rest \ old)
      <4>1. old \cup (rest \ old) = rest /\ old \cap (rest \ old) = {} BY <3>2
      <4>2. V(old \cup (rest \ old)) = V(old) + V(rest \ old) BY <1>2, <3>2, <4>1
      <4> QED BY <4>1, <4>2
    <3>6. O!Total(old) = V(old) BY <1>1, <3>2
    <3>7. V(stay) <= V(rest \ old) BY <1>2, <1>4, <3>2, <3>3
    <3>8. V(old) \in Nat /\ V(rest \ old) \in Nat BY <1>2, <3>2
    <3>9. V(rest \ old) <= HotBytes - size BY <1>5, <3>4, <3>5, <3>6, <3>8
    <3> QED BY <1>0, <2>0, <3>7, <3>8, <3>9
  <2> QED BY <2>1, <2>2
<1>9. V(stay) \in Nat BY <1>2, <1>4
<1> QED BY <1>7, <1>8, <1>9 DEF V, rest, had, stay

(* A store that evicts, with or without memory for its copy.                *)
LEMMA StoreFits ==
  ASSUME O!ObbConstants, O!IInv, NEW t \in Threads, O!Store(t),
         NEW k, k = key[t], NEW e, e = Entry[k], Size[e] <= HotBytes,
         NEW s, s = O!Choice(k),
         NEW stay \in SUBSET (O!Slots \ {s}), NEW bytes, bytes = Volume(Sizes, stay),
         bytes \in Nat, bytes + Size[e] <= HotBytes,
         \A u \in stay : hot[u] # O!Unused,
         NEW evicted, evicted = [u \in O!Slots |-> IF u \in stay THEN hot[u] ELSE O!Unused],
         \/ /\ hot' = [evicted EXCEPT ![s] = [key |-> k, data |-> e, stamp |-> clock + 1]]
            /\ hotBytes' = bytes + Size[e] /\ clock' = clock + 1
         \/ hot' = evicted /\ hotBytes' = bytes /\ UNCHANGED clock
  PROVE  /\ hot' \in [O!Slots -> [key : AssetKeys \cup {NoOne}, data : Entries \cup {NoOne},
                                  stamp : Nat]]
         /\ hotBytes' \in Nat /\ clock' \in Nat /\ hotBytes' <= HotBytes
         /\ hotBytes' = O!Total(O!Slots)'
         /\ \A u, v \in O!Slots : hot'[u].key = hot'[v].key /\ hot'[u].key # NoOne => u = v
         /\ \A u \in O!Slots : /\ hot'[u].stamp <= clock'
                               /\ hot'[u] # O!Unused => hot'[u].data = Entry[hot'[u].key]
                               /\ hot'[u] # O!Unused => hot'[u].key # NoOne /\ hot'[u].data # NoOne
<1>1. /\ k \in AssetKeys /\ e \in Entries /\ Size[e] \in Nat
      /\ k # NoOne /\ e # NoOne /\ clock \in Nat /\ HotBytes \in Nat
  BY DEF O!IInv, O!TypeOK, O!Asking, O!Store, O!ObbConstants
<1>2. s \in O!Slots /\ \A u \in O!Slots : hot[u].key = k => u = s BY <1>1, ChoiceFacts
<1> DEFINE new == [key |-> k, data |-> e, stamp |-> clock + 1]
<1>3. /\ new \in [key : AssetKeys \cup {NoOne}, data : Entries \cup {NoOne}, stamp : Nat]
      /\ new # O!Unused /\ new.key = k /\ new.data = e /\ new.stamp = clock + 1
  BY <1>1 DEF O!Unused
<1>4. /\ O!Unused \in [key : AssetKeys \cup {NoOne}, data : Entries \cup {NoOne}, stamp : Nat]
      /\ O!Unused.key = NoOne /\ O!Unused.stamp = 0
  BY DEF O!Unused
<1>5. /\ \A u \in stay : hot'[u] = hot[u] /\ u \in O!Slots /\ u # s
      /\ \A u \in O!Slots : u \notin stay /\ u # s => hot'[u] = O!Unused
      /\ \/ hot'[s] = new /\ hotBytes' = bytes + Size[e] /\ clock' = clock + 1
         \/ hot'[s] = O!Unused /\ hotBytes' = bytes /\ clock' = clock
      /\ DOMAIN hot' = O!Slots /\ hot' = [u \in O!Slots |-> hot'[u]]
  BY <1>2
<1> HIDE DEF new
<1>6. \A u \in O!Slots :
        /\ hot[u] \in [key : AssetKeys \cup {NoOne}, data : Entries \cup {NoOne}, stamp : Nat]
        /\ hot[u].stamp \in Nat /\ hot[u].stamp <= clock
        /\ hot[u] # O!Unused => /\ hot[u].data = Entry[hot[u].key]
                                /\ hot[u].key # NoOne /\ hot[u].data # NoOne
  BY DEF O!IInv, O!TypeOK, O!HotCacheSound, O!Filled
<1>7. \A u, v \in O!Slots : hot[u].key = hot[v].key /\ hot[u].key # NoOne => u = v
  BY DEF O!IInv, O!HotCacheSound
<1>8. hot' \in [O!Slots -> [key : AssetKeys \cup {NoOne}, data : Entries \cup {NoOne}, stamp : Nat]]
  <2>1. \A u \in O!Slots :
          hot'[u] \in [key : AssetKeys \cup {NoOne}, data : Entries \cup {NoOne}, stamp : Nat]
    BY <1>3, <1>4, <1>5, <1>6
  <2> QED BY <1>5, <2>1
<1>9. hotBytes' \in Nat /\ clock' \in Nat /\ hotBytes' <= HotBytes /\ clock <= clock'
  BY <1>1, <1>5
<1>10. \A u, v \in O!Slots : hot'[u].key = hot'[v].key /\ hot'[u].key # NoOne => u = v
  <2> SUFFICES ASSUME NEW u \in O!Slots, NEW v \in O!Slots, hot'[u].key = hot'[v].key,
                      hot'[u].key # NoOne
               PROVE  u = v
    OBVIOUS
  <2>1. u \in stay \/ u = s BY <1>4, <1>5
  <2>2. v \in stay \/ v = s BY <1>4, <1>5
  <2>3. hot'[s].key # NoOne => hot'[s].key = k BY <1>3, <1>4, <1>5
  <2>4. CASE u \in stay /\ v \in stay BY <1>5, <1>7, <2>4
  <2>5. CASE u \in stay /\ v = s BY <1>2, <1>5, <2>3, <2>5
  <2>6. CASE u = s /\ v \in stay BY <1>2, <1>5, <2>3, <2>6
  <2> QED BY <2>1, <2>2, <2>4, <2>5, <2>6
<1>11. \A u \in O!Slots :
         /\ hot'[u].stamp <= clock'
         /\ hot'[u] # O!Unused => hot'[u].data = Entry[hot'[u].key]
         /\ hot'[u] # O!Unused => hot'[u].key # NoOne /\ hot'[u].data # NoOne
  <2> SUFFICES ASSUME NEW u \in O!Slots
               PROVE  /\ hot'[u].stamp <= clock'
                      /\ hot'[u] # O!Unused => hot'[u].data = Entry[hot'[u].key]
                      /\ hot'[u] # O!Unused => hot'[u].key # NoOne /\ hot'[u].data # NoOne
    OBVIOUS
  <2>1. CASE u \in stay BY <1>1, <1>5, <1>6, <1>9, <2>1
  <2>2. CASE hot'[u] = O!Unused BY <1>4, <1>9, <2>2
  <2>3. CASE u = s /\ hot'[s] = new
    <3>1. clock' = clock + 1 BY <1>3, <1>4, <1>5, <2>3
    <3> QED BY <1>1, <1>3, <2>3, <3>1
  <2> QED BY <1>5, <2>1, <2>2, <2>3
<1>12. hotBytes' = O!Total(O!Slots)'
  <2> DEFINE now == [u \in O!Slots |-> IF hot'[u] = O!Unused THEN 0 ELSE Size[hot'[u].data]]
             none == O!Slots \ (stay \cup {s})
  <2>1. Sizes' = now BY DEF Sizes, O!SizeAt
  <2>2. \A u \in O!Slots : now[u] \in Nat
    BY <1>8, <1>11 DEF O!ObbConstants
  <2>3. now \in [O!Slots -> Nat] BY <2>2
  <2>4. now[s] = hotBytes' - bytes
    BY <1>1, <1>2, <1>3, <1>5
  <2>5. \A u \in stay : now[u] = Sizes[u]
    BY <1>5 DEF Sizes, O!SizeAt
  <2>6. \A u \in none : now[u] = 0 BY <1>5
  <2>7. O!Total(O!Slots)' = Volume(now, O!Slots)
    <3> DEFINE units == UNION {{u} \X (1 .. now[u]) : u \in O!Slots}
    <3>1. O!Total(O!Slots)' = O!Volume(now, O!Slots) BY DEF O!Total, O!SizeAt
    <3>2. O!Volume(now, O!Slots) = O!Cardinality(units) BY DEF O!Volume
    <3>3. Volume(now, O!Slots) = Cardinality(units) BY DEF Volume
    <3>4. O!Cardinality(units) = Cardinality(units) BY DEF O!Cardinality, Cardinality
    <3> QED BY <3>1, <3>2, <3>3, <3>4
  <2> HIDE DEF now
  <2>8. /\ \A us \in SUBSET O!Slots : Volume(now, us) \in Nat
        /\ \A us, vs \in SUBSET O!Slots :
             us \cap vs = {} => Volume(now, us \cup vs) = Volume(now, us) + Volume(now, vs)
        /\ \A u \in O!Slots : Volume(now, {u}) = now[u]
        /\ \A us \in SUBSET O!Slots : (\A u \in us : now[u] = 0) => Volume(now, us) = 0
    <3>1. IsFiniteSet(O!Slots) BY SlotsFinite
    <3>2. \A us \in SUBSET O!Slots : Volume(now, us) \in Nat BY <2>3, <3>1, VolumeFacts
    <3>3. \A us, vs \in SUBSET O!Slots :
            us \cap vs = {} => Volume(now, us \cup vs) = Volume(now, us) + Volume(now, vs)
      BY <2>3, <3>1, VolumeFacts
    <3>4. \A u \in O!Slots : Volume(now, {u}) = now[u] BY <2>3, <3>1, VolumeFacts
    <3>5. \A us \in SUBSET O!Slots : (\A u \in us : now[u] = 0) => Volume(now, us) = 0
      BY <2>3, <3>1, VolumeFacts
    <3> QED BY <3>2, <3>3, <3>4, <3>5
  <2>9. Volume(now, stay) = bytes BY <2>5, VolumeAgrees
  <2>10. Volume(now, none) = 0 BY <2>6, <2>8
  <2>11. /\ stay \cup {s} \in SUBSET O!Slots /\ none \in SUBSET O!Slots /\ stay \cap {s} = {}
         /\ stay \in SUBSET O!Slots /\ {s} \in SUBSET O!Slots
         /\ (stay \cup {s}) \cap none = {} /\ (stay \cup {s}) \cup none = O!Slots
    BY <1>2
  <2> HIDE DEF none
  <2>12. Volume(now, (stay \cup {s}) \cup none) = Volume(now, stay \cup {s}) + Volume(now, none)
    BY <2>8, <2>11
  <2>13. Volume(now, stay \cup {s}) = Volume(now, stay) + Volume(now, {s})
    <3> DEFINE one == {s}
    <3>1. one \in SUBSET O!Slots /\ stay \in SUBSET O!Slots /\ stay \cap one = {} BY <2>11
    <3> HIDE DEF one
    <3>2. Volume(now, stay \cup one) = Volume(now, stay) + Volume(now, one) BY <2>8, <3>1
    <3> QED BY <3>2 DEF one
  <2>14. Volume(now, {s}) = now[s] BY <1>2, <2>8
  <2>15. Volume(now, O!Slots) = (bytes + now[s]) + 0
    BY <2>9, <2>10, <2>11, <2>12, <2>13, <2>14
  <2> QED BY <1>9, <2>4, <2>7, <2>15
<1> QED BY <1>8, <1>9, <1>10, <1>11, <1>12

(* Nothing is cached at the start. *)
LEMMA ObbInitInvariant == ASSUME O!ObbConstants PROVE O!Init => O!IInv
<1> SUFFICES ASSUME O!Init PROVE O!IInv OBVIOUS
<1>1. /\ O!Unused \in [key : AssetKeys \cup {NoOne}, data : Entries \cup {NoOne}, stamp : Nat]
      /\ O!Unused.key = NoOne /\ O!Unused.stamp = 0
  BY DEF O!Unused
<1>2. O!TypeOK BY <1>1 DEF O!Init, O!TypeOK
<1>3. hotBytes = O!Total(O!Slots)
  <2> DEFINE units == UNION {{u} \X (1 .. Sizes[u]) : u \in O!Slots}
  <2>1. \A u \in O!Slots : Sizes[u] = 0 BY DEF O!Init, Sizes, O!SizeAt
  <2>2. Sizes \in [O!Slots -> Nat] BY <2>1 DEF Sizes
  <2>3. Volume(Sizes, O!Slots) = 0 BY <2>1, <2>2, SlotsFinite, VolumeFacts
  <2>4. O!Total(O!Slots) = O!Volume(Sizes, O!Slots) BY DEF O!Total, Sizes
  <2>5. O!Volume(Sizes, O!Slots) = O!Cardinality(units) BY DEF O!Volume
  <2>6. Volume(Sizes, O!Slots) = Cardinality(units) BY DEF Volume
  <2>7. O!Cardinality(units) = Cardinality(units) BY DEF O!Cardinality, Cardinality
  <2> QED BY <2>3, <2>4, <2>5, <2>6, <2>7 DEF O!Init
<1>4. O!HotCacheSound BY <1>1, <1>3 DEF O!Init, O!HotCacheSound, O!ObbConstants
<1> QED BY <1>2, <1>4
     DEF O!Init, O!IInv, O!ReadsTheirAsset, O!Filled, O!ScannedOnce, O!Asking, O!ScanAllowed

(* What a step leaves of the cache when it changes no slot.                 *)
LEMMA CacheUnchanged ==
  ASSUME UNCHANGED <<hot, hotBytes>>
  PROVE  O!Total(O!Slots)' = O!Total(O!Slots) /\ (O!Filled <=> O!Filled')
BY DEF O!Total, O!SizeAt, O!Filled

(* A step of one reader that leaves the cache and the index alone.          *)
LEMMA ReaderStep ==
  ASSUME O!ObbConstants, O!IInv, NEW t \in Threads, UNCHANGED O!hotVars,
         O!CheckIndex(t) \/ O!LockIndex(t) \/ O!BuildIndex(t) \/ O!Load(t) \/ O!Call(t)
  PROVE  O!IInv'
<1>0. O!Total(O!Slots)' = O!Total(O!Slots) /\ O!Filled' BY CacheUnchanged DEF O!hotVars, O!IInv
<1> USE DEF O!IInv, O!TypeOK, O!ReadsTheirAsset, O!ScannedOnce, O!Asking, O!ScanAllowed, O!hotVars,
            O!indexVars, O!Goto, O!Return
<1>1. CASE O!CheckIndex(t)
  <2>1. O!HotCacheSound' BY <1>0, <1>1 DEF O!CheckIndex, O!HotCacheSound
  <2> QED BY <1>0, <1>1, <2>1 DEF O!CheckIndex, O!ObbConstants
<1>2. CASE O!LockIndex(t)
  <2>1. O!HotCacheSound' BY <1>0, <1>2 DEF O!LockIndex, O!HotCacheSound
  <2> QED BY <1>0, <1>2, <2>1 DEF O!LockIndex, O!ObbConstants
<1>3. CASE O!BuildIndex(t)
  <2>1. O!HotCacheSound' BY <1>0, <1>3 DEF O!BuildIndex, O!HotCacheSound
  <2>2. CASE oReady
    <3>1. rpc' = [rpc EXCEPT ![t] = "lookup"] /\ UNCHANGED <<oAnswer, oReady, scans, oEarly>>
      BY <1>3, <2>2 DEF O!BuildIndex
    <3> QED BY <1>0, <1>3, <2>1, <3>1 DEF O!BuildIndex
  <2>3. CASE ~ oReady /\ oReady'
    <3>1. /\ rpc' = [rpc EXCEPT ![t] = "lookup"] /\ oAnswer' = oAnswer /\ oReady' = TRUE
          /\ scans' = scans + 1 /\ oEarly' = (oEarly \/ ~allowed) /\ open
      BY <1>3, <2>3 DEF O!BuildIndex
    <3> QED BY <1>0, <1>3, <2>1, <3>1 DEF O!BuildIndex
  <2>4. CASE ~ oReady /\ ~ oReady'
    <3>1. /\ rpc' = [rpc EXCEPT ![t] = "idle"] /\ oAnswer' = [oAnswer EXCEPT ![t] = NoOne]
          /\ UNCHANGED <<oReady, scans, oEarly>>
      BY <1>3, <2>4 DEF O!BuildIndex
    <3> QED BY <1>0, <1>3, <2>1, <3>1 DEF O!BuildIndex
  <2> QED BY <2>2, <2>3, <2>4
<1>4. CASE O!Load(t)
  <2>1. O!HotCacheSound' BY <1>0, <1>4 DEF O!Load, O!HotCacheSound
  <2> QED BY <1>0, <1>4, <2>1 DEF O!Load, O!ObbConstants
<1>5. CASE O!Call(t)
  <2>1. O!HotCacheSound' BY <1>0, <1>5 DEF O!Call, O!HotCacheSound
  <2> QED BY <1>0, <1>5, <2>1 DEF O!Call, O!ObbConstants
<1> QED BY <1>1, <1>2, <1>3, <1>4, <1>5

(* A hit stamps its slot and answers with what is there; a miss goes on to  *)
(* the card, to the package, or away.                                       *)
LEMMA LookupStep ==
  ASSUME O!ObbConstants, O!IInv, NEW t \in Threads, O!Lookup(t) PROVE O!IInv'
<1> DEFINE k == key[t]
<1>1. /\ rpc[t] = "lookup" /\ k \in AssetKeys /\ k # NoOne /\ oAnswer[t] = NoOne
      /\ NoOne \notin AssetKeys
  BY DEF O!Lookup, O!IInv, O!TypeOK, O!Asking, O!ObbConstants
<1>2. UNCHANGED <<open, oReady, allowed, indexLock, scans, oEarly, reads>>
  BY DEF O!Lookup, O!indexVars
<1>3. CASE UNCHANGED O!hotVars
  <2>0. O!Total(O!Slots)' = O!Total(O!Slots) /\ O!Filled'
    BY <1>3, CacheUnchanged DEF O!hotVars, O!IInv
  <2>1. O!HotCacheSound' BY <1>2, <1>3, <2>0 DEF O!HotCacheSound, O!hotVars, O!IInv
  <2>2. \/ \E s \in O!SlotOf(k) : /\ key' = key /\ cut' = cut
                                 /\ rpc' = [rpc EXCEPT ![t] = "idle"]
                                 /\ oAnswer' = [oAnswer EXCEPT ![t] = hot[s].data]
        \/ /\ Entry[k] # NoOne /\ rpc' = [rpc EXCEPT ![t] = "load"]
           /\ UNCHANGED <<key, cut, oAnswer>>
        \/ /\ rpc' = [rpc EXCEPT ![t] = "start"] /\ oAnswer' = oAnswer
           /\ key' = [key EXCEPT ![t] = Package] /\ cut' = [cut EXCEPT ![t] = TRUE]
        \/ /\ rpc' = [rpc EXCEPT ![t] = "idle"] /\ oAnswer' = [oAnswer EXCEPT ![t] = NoOne]
           /\ UNCHANGED <<key, cut>>
    BY DEF O!Lookup, O!Goto, O!Return
  <2>3. \A s \in O!SlotOf(k) : hot[s].data = Entry[k] /\ hot[s].data \in Entries
    <3> SUFFICES ASSUME NEW s \in O!SlotOf(k)
                 PROVE  hot[s].data = Entry[k] /\ hot[s].data \in Entries
      OBVIOUS
    <3>1. s \in O!Slots /\ hot[s].key = k BY DEF O!SlotOf
    <3>2. hot[s] # O!Unused BY <1>1, <3>1 DEF O!Unused
    <3> QED BY <3>1, <3>2 DEF O!IInv, O!TypeOK, O!HotCacheSound, O!Filled
  <2> USE DEF O!IInv, O!TypeOK, O!ReadsTheirAsset, O!ScannedOnce, O!Asking, O!ScanAllowed
  <2>4. Package \in AssetKeys BY DEF O!ObbConstants
  <2>5. ASSUME NEW s \in O!SlotOf(k), key' = key, cut' = cut,
               rpc' = [rpc EXCEPT ![t] = "idle"], oAnswer' = [oAnswer EXCEPT ![t] = hot[s].data]
        PROVE  O!IInv'
    BY <1>1, <1>2, <1>3, <2>0, <2>1, <2>3, <2>5 DEF O!hotVars
  <2>6. CASE /\ Entry[k] # NoOne /\ rpc' = [rpc EXCEPT ![t] = "load"]
             /\ UNCHANGED <<key, cut, oAnswer>>
    BY <1>1, <1>2, <1>3, <2>0, <2>1, <2>6 DEF O!hotVars
  <2>7. CASE /\ rpc' = [rpc EXCEPT ![t] = "start"] /\ oAnswer' = oAnswer
             /\ key' = [key EXCEPT ![t] = Package] /\ cut' = [cut EXCEPT ![t] = TRUE]
    BY <1>1, <1>2, <1>3, <2>0, <2>1, <2>4, <2>7 DEF O!hotVars
  <2>8. CASE /\ rpc' = [rpc EXCEPT ![t] = "idle"] /\ oAnswer' = [oAnswer EXCEPT ![t] = NoOne]
             /\ UNCHANGED <<key, cut>>
    BY <1>1, <1>2, <1>3, <2>0, <2>1, <2>8 DEF O!hotVars
  <2> QED BY <2>2, <2>5, <2>6, <2>7, <2>8
<1>4. ASSUME NEW s \in O!SlotOf(k), clock' = clock + 1,
             hot' = [hot EXCEPT ![s].stamp = clock + 1], UNCHANGED <<hotBytes, key, cut>>,
             rpc' = [rpc EXCEPT ![t] = "idle"], oAnswer' = [oAnswer EXCEPT ![t] = hot[s].data]
      PROVE  O!IInv'
  <2>1. s \in O!Slots /\ hot[s].key = k BY DEF O!SlotOf
  <2>2. hot[s] # O!Unused BY <1>1, <2>1 DEF O!Unused
  <2>3. hot[s].data = Entry[k] /\ hot[s].data \in Entries /\ hot[s].data # NoOne
    BY <2>1, <2>2 DEF O!IInv, O!TypeOK, O!HotCacheSound, O!Filled
  <2>4. clock \in Nat /\ \A u \in O!Slots : hot[u].stamp \in Nat /\ hot[u].stamp <= clock
    BY DEF O!IInv, O!TypeOK, O!HotCacheSound
  <2>5. hot \in [O!Slots -> [key : AssetKeys \cup {NoOne}, data : Entries \cup {NoOne}, stamp : Nat]]
    BY DEF O!IInv, O!TypeOK
  <2>6. /\ \A u \in O!Slots : u # s => hot'[u] = hot[u]
        /\ hot'[s] = [hot[s] EXCEPT !.stamp = clock + 1]
        /\ DOMAIN hot' = O!Slots /\ hot' = [u \in O!Slots |-> hot'[u]]
    BY <1>4, <2>1, <2>5
  <2>7. /\ hot'[s] \in [key : AssetKeys \cup {NoOne}, data : Entries \cup {NoOne}, stamp : Nat]
        /\ hot'[s].key = hot[s].key /\ hot'[s].data = hot[s].data /\ hot'[s].stamp = clock + 1
    <3>1. hot[s] \in [key : AssetKeys \cup {NoOne}, data : Entries \cup {NoOne}, stamp : Nat]
      BY <2>1, <2>5
    <3> QED BY <2>4, <2>6, <3>1
  <2>8. hot'[s] # O!Unused BY <1>1, <2>1, <2>7 DEF O!Unused
  <2>9. O!Total(O!Slots)' = O!Total(O!Slots)
    <3>1. \A u \in O!Slots : O!SizeAt(u)' = O!SizeAt(u)
      BY <2>2, <2>6, <2>7, <2>8 DEF O!SizeAt
    <3>2. [u \in O!Slots |-> O!SizeAt(u)]' = [u \in O!Slots |-> O!SizeAt(u)] BY <3>1
    <3> QED BY <3>2 DEF O!Total
  <2>10. hot' \in [O!Slots -> [key : AssetKeys \cup {NoOne}, data : Entries \cup {NoOne},
                              stamp : Nat]]
    BY <2>1, <2>5, <2>6, <2>7
  <2>11. O!TypeOK'
    BY <1>1, <1>2, <1>4, <2>3, <2>4, <2>10 DEF O!IInv, O!TypeOK
  <2>12. O!HotCacheSound'
    <3>1. \A u \in O!Slots : /\ hot'[u].key = hot[u].key /\ hot'[u].data = hot[u].data
                            /\ hot'[u] # O!Unused => hot[u] # O!Unused
      BY <2>2, <2>6, <2>7
    <3>2. \A u \in O!Slots : hot'[u].stamp <= clock'
      BY <1>4, <2>4, <2>6, <2>7
    <3> QED BY <1>2, <1>4, <2>9, <3>1, <3>2 DEF O!IInv, O!HotCacheSound
  <2>13. O!Filled' BY <2>2, <2>6, <2>7 DEF O!IInv, O!Filled
  <2> QED BY <1>1, <1>2, <1>4, <2>3, <2>11, <2>12, <2>13
          DEF O!IInv, O!TypeOK, O!ReadsTheirAsset, O!ScannedOnce, O!Asking, O!ScanAllowed
<1> QED BY <1>3, <1>4 DEF O!Lookup, O!hotVars, O!Return, O!Goto

(* A store answers with what was read, whether it is cached or not.         *)
LEMMA StoreStep ==
  ASSUME O!ObbConstants, O!IInv, NEW t \in Threads, O!Store(t) PROVE O!IInv'
<1> DEFINE k == key[t]
           e == Entry[k]
           s == O!Choice(k)
           rest == {u \in O!Slots : u # s /\ hot[u] # O!Unused}
           had == hotBytes - O!SizeAt(s)
           stay == {u \in rest : had - O!Total(O!Older(u, rest)) <= HotBytes - Size[e]}
           bytes == had - O!Total(rest \ stay)
           evicted == [u \in O!Slots |-> IF u \in stay THEN hot[u] ELSE O!Unused]
<1>1. /\ rpc[t] = "store" /\ k \in AssetKeys /\ e \in Entries /\ e # NoOne /\ k # NoOne
      /\ Size[e] \in Nat /\ HotBytes \in Nat /\ HotAsset \in Nat
      /\ UNCHANGED <<open, oReady, allowed, indexLock, scans, oEarly, key, cut, reads>>
      /\ rpc' = [rpc EXCEPT ![t] = "idle"] /\ oAnswer' = [oAnswer EXCEPT ![t] = e]
  BY DEF O!Store, O!IInv, O!TypeOK, O!Asking, O!ObbConstants, O!indexVars, O!Return, O!Goto
<1>2. /\ hot' \in [O!Slots -> [key : AssetKeys \cup {NoOne}, data : Entries \cup {NoOne},
                               stamp : Nat]]
      /\ hotBytes' \in Nat /\ clock' \in Nat /\ O!HotCacheSound' /\ O!Filled'
  <2>1. CASE Size[e] > HotAsset \/ Size[e] > HotBytes
    <3>1. UNCHANGED <<hot, hotBytes, clock>> BY <2>1 DEF O!Store, O!hotVars
    <3>2. O!Total(O!Slots)' = O!Total(O!Slots) /\ O!Filled'
      BY <3>1, CacheUnchanged DEF O!IInv
    <3> QED BY <1>1, <3>1, <3>2 DEF O!IInv, O!TypeOK, O!HotCacheSound
  <2>2. CASE ~ (Size[e] > HotAsset \/ Size[e] > HotBytes)
    <3>1. \/ /\ hot' = [evicted EXCEPT ![s] = [key |-> k, data |-> e, stamp |-> clock + 1]]
             /\ hotBytes' = bytes + Size[e] /\ clock' = clock + 1
          \/ hot' = evicted /\ hotBytes' = bytes /\ UNCHANGED clock
      BY <2>2 DEF O!Store
    <3>2. Size[e] <= HotBytes BY <1>1, <2>2
    <3>3. s \in O!Slots BY <1>1, ChoiceFacts
    <3>4. stay \in SUBSET (O!Slots \ {s}) /\ \A u \in stay : hot[u] # O!Unused OBVIOUS
    <3>5. /\ Volume(Sizes, stay) \in Nat /\ Volume(Sizes, stay) + Size[e] <= HotBytes
          /\ bytes = Volume(Sizes, stay)
      <4>1. rest = Others(s) /\ had = Had(s) /\ stay = Stay(s, Size[e])
        BY DEF Others, Had, Stay
      <4>2. bytes = had - O!Total(rest \ stay) OBVIOUS
      <4> HIDE DEF rest, had, stay, bytes, s, e
      <4>3. /\ Volume(Sizes, Stay(s, Size[e])) \in Nat
            /\ Volume(Sizes, Stay(s, Size[e])) + Size[e] <= HotBytes
            /\ Had(s) - O!Total(Others(s) \ Stay(s, Size[e])) = Volume(Sizes, Stay(s, Size[e]))
        <5>1. Size[e] \in Nat BY <1>1
        <5> QED BY <3>2, <3>3, <5>1, EvictionFits
      <4> QED BY <4>1, <4>2, <4>3
    <3>6. /\ k = key[t] /\ e = Entry[k] /\ s = O!Choice(k)
          /\ evicted = [u \in O!Slots |-> IF u \in stay THEN hot[u] ELSE O!Unused]
      OBVIOUS
    <3> HIDE DEF k, e, s, rest, had, stay, bytes, evicted
    <3>7. /\ hot' \in [O!Slots -> [key : AssetKeys \cup {NoOne}, data : Entries \cup {NoOne},
                                  stamp : Nat]]
          /\ hotBytes' \in Nat /\ clock' \in Nat /\ hotBytes' <= HotBytes
          /\ hotBytes' = O!Total(O!Slots)'
          /\ \A u, v \in O!Slots : hot'[u].key = hot'[v].key /\ hot'[u].key # NoOne => u = v
          /\ \A u \in O!Slots : /\ hot'[u].stamp <= clock'
                                /\ hot'[u] # O!Unused => hot'[u].data = Entry[hot'[u].key]
                                /\ hot'[u] # O!Unused =>
                                     hot'[u].key # NoOne /\ hot'[u].data # NoOne
      BY <3>1, <3>2, <3>4, <3>5, <3>6, StoreFits
    <3>8. scans' = scans /\ oEarly' = oEarly BY <1>1
    <3> QED BY <3>7, <3>8 DEF O!HotCacheSound, O!Filled, O!IInv
  <2> QED BY <2>1, <2>2
<1> HIDE DEF e, k
<1>3. e = Entry[key[t]] BY DEF e, k
<1> QED BY <1>1, <1>2, <1>3
        DEF O!IInv, O!TypeOK, O!ReadsTheirAsset, O!ScannedOnce, O!Asking, O!ScanAllowed

(* Every step preserves the invariant. *)
LEMMA ObbStepInvariant == ASSUME O!ObbConstants, O!IInv, O!Next PROVE O!IInv'
<1>1. ASSUME NEW t \in Threads, O!Call(t) PROVE O!IInv'
  BY <1>1, ReaderStep DEF O!Call
<1>2. ASSUME NEW t \in Threads, O!Read(t) PROVE O!IInv'
  <2>1. CASE O!CheckIndex(t) BY <2>1, ReaderStep DEF O!CheckIndex
  <2>2. CASE O!LockIndex(t) BY <2>2, ReaderStep DEF O!LockIndex
  <2>3. CASE O!BuildIndex(t) BY <2>3, ReaderStep DEF O!BuildIndex
  <2>4. CASE O!Load(t) BY <2>4, ReaderStep DEF O!Load
  <2>5. CASE O!Lookup(t) BY <2>5, LookupStep
  <2>6. CASE O!Store(t) BY <2>6, StoreStep
  <2> QED BY <1>2, <2>1, <2>2, <2>3, <2>4, <2>5, <2>6 DEF O!Read
<1>3. CASE O!Allow
  <2>1. O!Total(O!Slots)' = O!Total(O!Slots) /\ O!Filled'
    BY <1>3, CacheUnchanged DEF O!Allow, O!hotVars, O!IInv
  <2>2. O!HotCacheSound' BY <1>3, <2>1 DEF O!Allow, O!hotVars, O!IInv, O!HotCacheSound
  <2> QED BY <1>3, <2>1, <2>2
          DEF O!Allow, O!hotVars, O!IInv, O!TypeOK, O!ReadsTheirAsset, O!ScannedOnce, O!Asking,
              O!ScanAllowed
<1>4. CASE O!Close
  <2>1. /\ O!Unused \in [key : AssetKeys \cup {NoOne}, data : Entries \cup {NoOne}, stamp : Nat]
        /\ O!Unused.key = NoOne /\ O!Unused.stamp = 0
    BY DEF O!Unused
  <2>2. O!Total(O!Slots)' = 0
    <3> DEFINE zero == [u \in O!Slots |-> 0]
               units == UNION {{u} \X (1 .. zero[u]) : u \in O!Slots}
    <3>1. zero \in [O!Slots -> Nat] /\ \A u \in O!Slots : zero[u] = 0 OBVIOUS
    <3>2. O!Total(O!Slots)' = O!Volume(zero, O!Slots) BY <1>4 DEF O!Close, O!Total, O!SizeAt
    <3> HIDE DEF zero
    <3>3. Volume(zero, O!Slots) = 0 BY <3>1, SlotsFinite, VolumeFacts
    <3>4. O!Volume(zero, O!Slots) = O!Cardinality(units) BY DEF O!Volume
    <3>5. Volume(zero, O!Slots) = Cardinality(units) BY DEF Volume
    <3>6. O!Cardinality(units) = Cardinality(units) BY DEF O!Cardinality, Cardinality
    <3> QED BY <3>2, <3>3, <3>4, <3>5, <3>6
  <2>3. O!HotCacheSound'
    BY <1>4, <2>1, <2>2 DEF O!Close, O!IInv, O!HotCacheSound, O!ObbConstants
  <2> QED BY <1>4, <2>1, <2>3
          DEF O!Close, O!IInv, O!TypeOK, O!ReadsTheirAsset, O!ScannedOnce, O!Asking, O!ScanAllowed,
              O!Filled
<1> QED BY <1>1, <1>2, <1>3, <1>4 DEF O!Next

(* A part at rest changes nothing its invariant is about. *)
LEMMA ObbStutterInvariant == O!IInv /\ UNCHANGED obbVars => O!IInv'
<1> SUFFICES ASSUME O!IInv, UNCHANGED obbVars PROVE O!IInv' OBVIOUS
<1>1. O!Total(O!Slots)' = O!Total(O!Slots) /\ O!Filled'
  BY CacheUnchanged DEF obbVars, O!IInv
<1> QED BY <1>1 DEF obbVars, O!IInv, O!TypeOK, O!HotCacheSound, O!ReadsTheirAsset, O!ScannedOnce,
                    O!Asking, O!ScanAllowed

(* The invariant holds in every reachable state. *)
THEOREM ObbInvariantHolds == Spec => []O!IInv
<1>1. O!ObbConstants BY ServiceConstants
<1>2. Init => O!IInv BY <1>1, ObbInitInvariant DEF Init
<1>3. O!IInv /\ [Next]_vars => O!IInv'
  BY <1>1, OnePart, ObbStepInvariant, ObbStutterInvariant
<1> QED BY <1>2, <1>3, PTL DEF Spec

(* Whatever readers race for the archive, each gets the stream its name     *)
(* stands for or nothing; the cache keeps its budget and counts what it     *)
(* holds, and the archive is scanned once at most and not before the title. *)
THEOREM AssetsAreTheirs == Spec => []ObbSound
<1>1. O!IInv => ObbSound BY DEF O!IInv, ObbSound
<1> QED BY <1>1, ObbInvariantHolds, PTL

-----------------------------------------------------------------------------
(* Sound *)

(* The output frames a buffer still gives reach its end, and not a step     *)
(* further.                                                                 *)
LEMMA LeftFacts ==
  ASSUME U!AudioConstants, NEW c \in U!Buffers, NEW x \in Nat
  PROVE  /\ U!Left(c, x) \in Nat
         /\ x < c.frames => /\ c.frames <= x + U!Left(c, x) * ResampleStep
                            /\ x + U!Left(c, x) * ResampleStep < c.frames + ResampleStep
         /\ c.frames <= x => U!Left(c, x) = 0
         /\ \A n \in Nat : n <= U!Left(c, x) => n * ResampleStep <= U!Left(c, x) * ResampleStep
         /\ \A n \in Nat : n * ResampleStep \in Nat
<1>a. ResampleStep \in Nat \ {0} /\ FrameSizes \subseteq Nat BY DEF U!AudioConstants
<1>b. c.frames \in FrameSizes BY DEF U!Buffers
<1>c. c.frames \in Nat BY <1>a, <1>b
<1>d. ResampleStep \in Nat /\ ResampleStep # 0 BY <1>a
<1>1. ResampleStep \in Nat /\ ResampleStep >= 1 /\ c.frames \in Nat BY <1>c, <1>d
<1> DEFINE f == c.frames
           k == ResampleStep
<1>2. ASSUME NEW a \in Nat, NEW b \in Nat, b >= 1
      PROVE  LET d == (a + b - 1) \div b IN d \in Nat /\ a <= d * b /\ d * b < a + b
  <2> DEFINE d == (a + b - 1) \div b
             r == (a + b - 1) % b
  <2>1. d \in Nat /\ r \in 0 .. (b - 1) /\ a + b - 1 = b * d + r BY <1>2
  <2> HIDE DEF d, r
  <2>2. a <= d * b /\ d * b < a + b BY <1>2, <2>1
  <2> QED BY <2>1, <2>2 DEF d
<1>3. CASE c.frames <= x
  <2>1. U!Left(c, x) = 0 BY <1>1, <1>3 DEF U!Left
  <2> QED BY <1>1, <1>3, <2>1
<1>4. CASE x < c.frames
  <2> DEFINE a == c.frames - x
             l == U!Left(c, x)
  <2>1. a \in Nat BY <1>1, <1>4
  <2>2. l = (a + ResampleStep - 1) \div ResampleStep BY <1>1, <1>4 DEF U!Left
  <2>3. l \in Nat /\ a <= l * ResampleStep /\ l * ResampleStep < a + ResampleStep
    BY <1>1, <1>2, <2>1, <2>2
  <2> HIDE DEF l
  <2>4. l * ResampleStep \in Nat BY <1>1, <2>3
  <2>5. c.frames <= x + l * ResampleStep /\ x + l * ResampleStep < c.frames + ResampleStep
    BY <1>1, <1>4, <2>3, <2>4
  <2>6. \A n \in Nat : n <= l => n * ResampleStep <= l * ResampleStep BY <1>1, <2>3
  <2>7. \A n \in Nat : n * ResampleStep \in Nat BY <1>1
  <2> QED BY <1>1, <1>4, <2>3, <2>5, <2>6, <2>7 DEF l
<1> QED BY <1>1, <1>3, <1>4

(* The buffer a turn of the mixer drains is the next that was not consumed. *)
Drained(p) == IF cur[p] # NoOne THEN cur[p] ELSE IF q[p] # <<>> THEN Head(q[p]) ELSE NoOne
Behind(p) == IF cur[p] = NoOne /\ q[p] # <<>> THEN Tail(q[p]) ELSE q[p]

LEMMA NextBuffer ==
  ASSUME U!AudioConstants, U!TypeOK, NEW p \in Players, U!InSequence(p), Drained(p) # NoOne
  PROVE  /\ Drained(p) \in U!Buffers /\ Behind(p) \in Seq(U!Buffers)
         /\ Drained(p).id = base[p] + Len(done[p]) + 1
         /\ base[p] + Len(done[p]) + 1 + Len(Behind(p)) = enq[p]
         /\ \A i \in 1 .. Len(Behind(p)) : Behind(p)[i].id = base[p] + Len(done[p]) + 1 + i
         /\ pos[p] < ResampleStep + Drained(p).frames
<1> DEFINE c == Drained(p)
           rest == Behind(p)
<1>0. ResampleStep \in Nat /\ FrameSizes \subseteq Nat BY DEF U!AudioConstants
<1>1. /\ q[p] \in Seq(U!Buffers) /\ cur[p] \in U!Buffers \cup {NoOne} /\ done[p] \in Seq(Nat)
      /\ pos[p] \in Nat /\ enq[p] \in Nat /\ base[p] \in Nat /\ Len(done[p]) \in Nat
      /\ Len(q[p]) \in Nat
  BY DEF U!TypeOK
<1>2. CASE cur[p] # NoOne
  BY <1>1, <1>2 DEF U!InSequence, U!Draining, Drained, Behind
<1>3. CASE cur[p] = NoOne
  <2>1. q[p] # <<>> /\ c = Head(q[p]) /\ rest = Tail(q[p]) BY <1>3 DEF Drained, Behind
  <2> HIDE DEF c, rest
  <2>2. /\ c = q[p][1] /\ c \in U!Buffers /\ rest \in Seq(U!Buffers)
        /\ Len(rest) = Len(q[p]) - 1 /\ \A i \in 1 .. Len(rest) : rest[i] = q[p][i + 1]
        /\ Len(q[p]) > 0
    BY <1>1, <2>1, HeadTailProperties
  <2>3. /\ base[p] + Len(done[p]) + Len(q[p]) = enq[p]
        /\ \A i \in 1..Len(q[p]) : q[p][i].id = base[p] + Len(done[p]) + i
        /\ pos[p] < ResampleStep
    BY <1>0, <1>1, <1>3 DEF U!InSequence, U!Draining
  <2>4. c.frames \in Nat
    <3>1. c.frames \in FrameSizes BY <2>2 DEF U!Buffers
    <3> QED BY <1>0, <3>1
  <2>5. 1 \in 1 .. Len(q[p]) /\ \A i \in 1 .. Len(rest) : i + 1 \in 1 .. Len(q[p])
    BY <1>1, <2>2
  <2>6. c.id = base[p] + Len(done[p]) + 1 BY <2>2, <2>3, <2>5
  <2>7. \A i \in 1 .. Len(rest) : rest[i].id = base[p] + Len(done[p]) + 1 + i
    <3> SUFFICES ASSUME NEW i \in 1 .. Len(rest)
                 PROVE  rest[i].id = base[p] + Len(done[p]) + 1 + i
      OBVIOUS
    <3>1. rest[i] = q[p][i + 1] /\ i + 1 \in 1 .. Len(q[p]) BY <2>2, <2>5
    <3>2. q[p][i + 1].id = base[p] + Len(done[p]) + (i + 1) BY <2>3, <3>1
    <3>3. i \in Nat /\ base[p] \in Nat /\ Len(done[p]) \in Nat BY <1>1
    <3>4. base[p] + Len(done[p]) + (i + 1) = base[p] + Len(done[p]) + 1 + i
      <4>1. \A x, y, z \in Nat : x + y + (z + 1) = x + y + 1 + z OBVIOUS
      <4> QED BY <3>3, <4>1
    <3> QED BY <3>1, <3>2, <3>4
  <2>8. base[p] + Len(done[p]) + 1 + Len(rest) = enq[p]
    <3>1. base[p] + Len(done[p]) + Len(q[p]) = enq[p] BY <2>3
    <3>2. Len(rest) = Len(q[p]) - 1 BY <2>2
    <3>3. base[p] \in Nat /\ Len(done[p]) \in Nat /\ Len(q[p]) \in Nat BY <1>1
    <3>4. \A a, b, d \in Nat : a + b + 1 + (d - 1) = a + b + d OBVIOUS
    <3>5. base[p] + Len(done[p]) + 1 + (Len(q[p]) - 1) = base[p] + Len(done[p]) + Len(q[p])
      BY <3>3, <3>4
    <3> QED BY <3>1, <3>2, <3>5
  <2>9. pos[p] < ResampleStep + c.frames BY <1>0, <1>1, <2>3, <2>4
  <2> QED BY <2>2, <2>6, <2>7, <2>8, <2>9 DEF c, rest
<1> QED BY <1>2, <1>3

(* The part of the state that one turn changes.                             *)
QueueTypes ==
  /\ q \in [Players -> Seq(U!Buffers)] /\ cur \in [Players -> U!Buffers \cup {NoOne}]
  /\ pos \in [Players -> Nat] /\ uIndex \in [Players -> Nat] /\ done \in [Players -> Seq(Nat)]
  /\ enq \in [Players -> Nat] /\ base \in [Players -> Nat]

(* A turn drains what is next, keeps its place in it or counts it consumed. *)
LEMMA DrainStep ==
  ASSUME U!AudioConstants, U!TypeOK, NEW p \in Players, U!InSequence(p), U!Drain(p),
         UNCHANGED <<enq, base>>
  PROVE  QueueTypes' /\ U!InSequence(p)' /\ need' \in Nat
<1> DEFINE c == Drained(p)
           rest == Behind(p)
           l == U!Left(c, pos[p])
<1>1. /\ q[p] \in Seq(U!Buffers) /\ cur[p] \in U!Buffers \cup {NoOne} /\ done[p] \in Seq(Nat)
      /\ pos[p] \in Nat /\ enq[p] \in Nat /\ base[p] \in Nat /\ Len(done[p]) \in Nat
      /\ uIndex[p] \in Nat /\ need \in Nat /\ Block \in Nat /\ ResampleStep \in Nat
      /\ NoOne \notin U!Buffers /\ QueueTypes
  BY DEF U!TypeOK, U!AudioConstants, QueueTypes
<1>n. base[p] \in Nat /\ Len(done[p]) \in Nat /\ enq[p] \in Nat /\ pos[p] \in Nat BY <1>1
<1>2. q' = [q EXCEPT ![p] = rest] BY DEF U!Drain, Behind
<1>3. CASE c = NoOne
  <2>1. cur[p] = NoOne /\ q[p] = <<>>
    <3>1. q[p] # <<>> => Head(q[p]) \in U!Buffers BY <1>1, HeadTailProperties
    <3> QED BY <1>1, <1>3, <3>1 DEF Drained
  <2>2. UNCHANGED <<cur, pos, uIndex, done>> /\ need' = Block
    BY <1>3 DEF U!Drain, U!NextPlayer, Drained
  <2>3. q' = q BY <1>1, <1>2, <2>1 DEF QueueTypes, Behind
  <2> QED BY <1>1, <2>2, <2>3 DEF QueueTypes, U!InSequence, U!Draining
<1>4. CASE c # NoOne
  <2>1. /\ c \in U!Buffers /\ rest \in Seq(U!Buffers)
        /\ c.id = base[p] + Len(done[p]) + 1
        /\ base[p] + Len(done[p]) + 1 + Len(rest) = enq[p]
        /\ \A i \in 1 .. Len(rest) : rest[i].id = base[p] + Len(done[p]) + 1 + i
        /\ pos[p] < ResampleStep + c.frames
    <3> HIDE DEF l
    <3> QED BY <1>4, NextBuffer
  <2>2. c.frames \in Nat /\ c.id \in Nat
    <3>1. c.frames \in FrameSizes /\ c.id \in Nat BY <2>1 DEF U!Buffers
    <3>2. FrameSizes \subseteq Nat BY DEF U!AudioConstants
    <3> QED BY <3>1, <3>2
  <2>b. /\ pos[p] < ResampleStep + c.frames /\ Len(rest) \in Nat
        /\ c.id = base[p] + Len(done[p]) + 1
        /\ base[p] + Len(done[p]) + 1 + Len(rest) = enq[p]
    BY <2>1
  <2>3. /\ l \in Nat /\ (c.frames <= pos[p] => l = 0)
        /\ pos[p] < c.frames => /\ c.frames <= pos[p] + l * ResampleStep
                                /\ pos[p] + l * ResampleStep < c.frames + ResampleStep
        /\ \A n \in Nat : n <= l => n * ResampleStep <= l * ResampleStep
        /\ \A n \in Nat : n * ResampleStep \in Nat
    BY <1>1, <2>1, LeftFacts
  <2>4. uIndex[p] = Len(done[p]) /\ \A i \in 1..Len(done[p]) : done[p][i] = base[p] + i
    BY DEF U!InSequence
  <2>a. IF l >= need
        THEN /\ cur' = [cur EXCEPT ![p] = c] /\ pos' = [pos EXCEPT ![p] = @ + need * ResampleStep]
             /\ need' = Block /\ UNCHANGED <<uIndex, done>>
        ELSE /\ cur' = [cur EXCEPT ![p] = NoOne]
             /\ pos' = [pos EXCEPT ![p] = @ + U!Left(c, @) * ResampleStep - c.frames]
             /\ uIndex' = [uIndex EXCEPT ![p] = @ + 1] /\ done' = [done EXCEPT ![p] = Append(@, c.id)]
             /\ need' = need - l
    BY <1>4 DEF U!Drain, U!NextPlayer, Drained
  <2> HIDE DEF c, rest, l
  <2>5. CASE l >= need
    <3> DEFINE n == need * ResampleStep
    <3>1. /\ cur' = [cur EXCEPT ![p] = c] /\ pos' = [pos EXCEPT ![p] = pos[p] + n]
          /\ need' = Block /\ UNCHANGED <<uIndex, done>>
      BY <2>a, <2>5
    <3>2. n \in Nat /\ n <= l * ResampleStep /\ l * ResampleStep \in Nat BY <1>1, <2>3, <2>5
    <3>3. pos[p] + n < ResampleStep + c.frames
      <4>1. CASE pos[p] < c.frames
        <5> DEFINE m == l * ResampleStep
        <5>1. pos[p] + m < c.frames + ResampleStep /\ n <= m /\ m \in Nat BY <2>3, <3>2, <4>1
        <5> HIDE DEF m, n
        <5> QED BY <1>1, <2>2, <3>2, <5>1
      <4>2. CASE c.frames <= pos[p]
        <5>1. need = 0 BY <1>1, <2>3, <2>5, <4>2
        <5>2. n = 0 BY <1>1, <5>1
        <5> QED BY <1>1, <2>1, <5>2
      <4> QED BY <1>1, <2>2, <4>1, <4>2
    <3> HIDE DEF n
    <3>4. /\ cur'[p] = c /\ q'[p] = rest /\ pos'[p] = pos[p] + n /\ pos[p] + n \in Nat
          /\ done'[p] = done[p] /\ uIndex'[p] = uIndex[p] /\ enq'[p] = enq[p] /\ base'[p] = base[p]
      BY <1>1, <1>2, <3>1, <3>2 DEF QueueTypes
    <3>5. U!InSequence(p)'
      BY <1>1, <1>4, <2>1, <2>2, <2>4, <3>3, <3>4 DEF U!InSequence, U!Draining, c
    <3>6. QueueTypes' BY <1>1, <1>2, <2>1, <3>1, <3>4 DEF QueueTypes
    <3> QED BY <1>1, <3>1, <3>5, <3>6
  <2>6. CASE ~(l >= need)
    <3> DEFINE m == l * ResampleStep
    <3>1. /\ cur' = [cur EXCEPT ![p] = NoOne] /\ pos' = [pos EXCEPT ![p] = pos[p] + m - c.frames]
          /\ uIndex' = [uIndex EXCEPT ![p] = uIndex[p] + 1]
          /\ done' = [done EXCEPT ![p] = Append(done[p], c.id)] /\ need' = need - l
      BY <2>a, <2>6 DEF l
    <3>2. m \in Nat BY <2>3
    <3>3. pos[p] + m - c.frames \in Nat /\ pos[p] + m - c.frames < ResampleStep
      <4>1. CASE pos[p] < c.frames
        <5>1. c.frames <= pos[p] + m /\ pos[p] + m < c.frames + ResampleStep BY <2>3, <4>1
        <5> HIDE DEF m
        <5> QED BY <1>1, <2>2, <3>2, <5>1, SMTT(30)
      <4>2. CASE c.frames <= pos[p]
        <5>1. m = 0 BY <1>1, <2>3, <4>2
        <5> HIDE DEF m
        <5>2. \A x, f, k \in Nat : f <= x /\ x < k + f => x + 0 - f \in Nat /\ x + 0 - f < k
          OBVIOUS
        <5> QED BY <1>1, <2>2, <2>b, <4>2, <5>1, <5>2
      <4> QED BY <1>1, <2>2, <4>1, <4>2
    <3> HIDE DEF m
    <3>4. need - l \in Nat
      <4>1. need \in Nat /\ l \in Nat BY <1>1, <2>3
      <4> HIDE DEF m
      <4> QED BY <2>6, <4>1
    <3> DEFINE more == Append(done[p], c.id)
    <3>5. /\ more \in Seq(Nat) /\ Len(more) = Len(done[p]) + 1 /\ more[Len(done[p]) + 1] = c.id
          /\ \A i \in 1 .. Len(done[p]) : more[i] = done[p][i]
      BY <1>1, <2>2, AppendProperties
    <3> HIDE DEF more
    <3>6. \A i \in 1 .. Len(more) : more[i] = base[p] + i
      <4> SUFFICES ASSUME NEW i \in 1 .. Len(more) PROVE more[i] = base[p] + i OBVIOUS
      <4>1. i \in 1 .. Len(done[p]) \/ i = Len(done[p]) + 1 BY <1>1, <3>5
      <4>2. CASE i \in 1 .. Len(done[p]) BY <2>4, <3>5, <4>2
      <4>3. CASE i = Len(done[p]) + 1 
        <5>1. more[i] = base[p] + Len(done[p]) + 1 BY <2>b, <3>5, <4>3
        <5>2. base[p] + Len(done[p]) + 1 = base[p] + i BY <1>n, <4>3
        <5> QED BY <5>1, <5>2
      <4> QED BY <4>1, <4>2, <4>3
    <3>7. /\ cur'[p] = NoOne /\ q'[p] = rest /\ pos'[p] = pos[p] + m - c.frames
          /\ done'[p] = more /\ uIndex'[p] = uIndex[p] + 1 /\ enq'[p] = enq[p] /\ base'[p] = base[p]
      BY <1>1, <1>2, <3>1 DEF QueueTypes, more
    <3>8. U!Draining(p)' = 0 BY <3>7 DEF U!Draining
    <3>9. base[p] + Len(more) + 0 + Len(rest) = enq[p]
      <4>1. \A x, y, z \in Nat : x + (y + 1) + 0 + z = x + y + 1 + z OBVIOUS
      <4>2. Len(more) = Len(done[p]) + 1 /\ Len(rest) \in Nat BY <2>b, <3>5
      <4>3. base[p] + Len(more) + 0 + Len(rest) = base[p] + Len(done[p]) + 1 + Len(rest)
        BY <1>n, <4>1, <4>2
      <4> QED BY <2>b, <4>3
    <3>10. \A i \in 1 .. Len(rest) : rest[i].id = base[p] + Len(more) + 0 + i
      <4>1. Len(more) \in Nat /\ Len(more) = Len(done[p]) + 1 BY <1>1, <3>5
      <4>2. ASSUME NEW i \in 1 .. Len(rest) PROVE rest[i].id = base[p] + Len(more) + 0 + i
        <5>1. rest[i].id = base[p] + Len(done[p]) + 1 + i BY <2>1
        <5>a. i \in Nat OBVIOUS
        <5>2. base[p] + Len(more) + 0 + i = base[p] + Len(done[p]) + 1 + i 
          <6>1. \A a, b, d \in Nat : a + (b + 1) + 0 + d = a + b + 1 + d OBVIOUS
          <6>2. base[p] \in Nat /\ Len(done[p]) \in Nat BY <1>n
          <6> QED BY <4>1, <5>a, <6>1, <6>2
        <5> QED BY <5>1, <5>2
      <4> QED BY <4>2
    <3>11. uIndex[p] + 1 = Len(more) /\ uIndex[p] + 1 \in Nat BY <1>1, <2>4, <3>5
    <3>12. U!InSequence(p)'
      BY <1>1, <3>3, <3>6, <3>7, <3>8, <3>9, <3>10, <3>11 DEF U!InSequence
    <3>13. QueueTypes' BY <1>1, <1>2, <2>1, <3>1, <3>3, <3>5, <3>11 DEF QueueTypes, more
    <3> QED BY <3>1, <3>4, <3>12, <3>13
  <2> QED BY <2>5, <2>6
<1> QED BY <1>3, <1>4

(* What the rest of the state may hold.                                     *)
MixerTypes ==
  /\ registry \in [1 .. MaxPlayers -> Players \cup {NoOne}]
  /\ life \in [Players -> {"none", "live", "destroyed"}]
  /\ playing \in [Players -> BOOLEAN] /\ hasCb \in [Players -> BOOLEAN]
  /\ late \in [Players \cup Streams -> Nat]
  /\ uActive \in Streams \cup {NoOne} /\ uStarted \in [Streams -> BOOLEAN] /\ closed \subseteq Streams
  /\ snap \in Streams \cup {NoOne} /\ uList \in Seq(Players) /\ need \in Nat

LEMMA AudioParts ==
  /\ U!IInv <=> QueueTypes /\ MixerTypes /\ U!Numbered /\ U!CalledWhileThere /\ U!OneLateCallback
  /\ (U!IInv)' <=> QueueTypes' /\ MixerTypes' /\ U!Numbered' /\ U!CalledWhileThere' /\ U!OneLateCallback'
BY DEF U!IInv, U!TypeOK, QueueTypes, MixerTypes

(* Nothing was enqueued and nobody called at the start.                     *)
LEMMA AudioInitInvariant == ASSUME U!AudioConstants PROVE U!Init => U!IInv
<1> SUFFICES ASSUME U!Init PROVE U!IInv OBVIOUS
<1>1. MaxPlayers \in Nat /\ ResampleStep \in Nat /\ ResampleStep > 0
  <2>1. ResampleStep \in Nat /\ ResampleStep # 0 /\ MaxPlayers \in Nat BY DEF U!AudioConstants
  <2> QED BY <2>1
<1>2. <<>> \in Seq(U!Buffers) /\ <<>> \in Seq(Nat) /\ <<>> \in Seq(Players) /\ Len(<<>>) = 0 OBVIOUS
<1>3. QueueTypes BY <1>2 DEF U!Init, QueueTypes
<1>4. MixerTypes BY <1>1, <1>2 DEF U!Init, MixerTypes
<1>5. U!Numbered
  <2> SUFFICES ASSUME NEW p \in Players PROVE U!InSequence(p) BY DEF U!Numbered
  <2>1. /\ q[p] = <<>> /\ cur[p] = NoOne /\ pos[p] = 0 /\ uIndex[p] = 0 /\ enq[p] = 0 /\ base[p] = 0
        /\ done[p] = <<>>
    BY DEF U!Init
  <2> QED BY <1>1, <1>2, <2>1 DEF U!InSequence, U!Draining
<1>6. U!CalledWhileThere /\ U!OneLateCallback
  BY DEF U!Init, U!CalledWhileThere, U!OneLateCallback
<1> QED BY <1>3, <1>4, <1>5, <1>6, AudioParts

(* An accepted buffer follows those accepted before it.                     *)
LEMMA EnqueueStep ==
  ASSUME U!AudioConstants, U!IInv, NEW p \in Players, NEW n \in FrameSizes, U!Enqueue(p, n)
  PROVE  QueueTypes' /\ U!Numbered'
<1> DEFINE new == [id |-> enq[p] + 1, frames |-> n]
           more == Append(q[p], new)
<1>1. QueueTypes /\ U!Numbered BY AudioParts
<1>2. /\ q' = [q EXCEPT ![p] = more] /\ enq' = [enq EXCEPT ![p] = enq[p] + 1]
      /\ UNCHANGED <<cur, pos, uIndex, base, done, life>>
  BY DEF U!Enqueue, U!playerVars
<1>3. /\ q[p] \in Seq(U!Buffers) /\ enq[p] \in Nat /\ base[p] \in Nat /\ done[p] \in Seq(Nat)
      /\ q \in [Players -> Seq(U!Buffers)] /\ enq \in [Players -> Nat]
  BY <1>1 DEF QueueTypes
<1>4. new \in U!Buffers /\ new.id = enq[p] + 1 BY <1>3 DEF U!Buffers
<1> HIDE DEF new
<1>5. /\ more \in Seq(U!Buffers) /\ Len(more) = Len(q[p]) + 1 /\ more[Len(q[p]) + 1] = new
      /\ \A i \in 1 .. Len(q[p]) : more[i] = q[p][i]
  BY <1>3, <1>4, AppendProperties
<1> HIDE DEF more
<1>6. QueueTypes'
  <2>1. q' \in [Players -> Seq(U!Buffers)] /\ enq' \in [Players -> Nat] BY <1>2, <1>3, <1>5
  <2> QED BY <1>1, <1>2, <2>1 DEF QueueTypes
<1>7. ASSUME NEW r \in Players, life'[r] # "destroyed" PROVE U!InSequence(r)'
  <2>1. U!InSequence(r) BY <1>1, <1>2, <1>7 DEF U!Numbered
  <2>2. CASE r # p
    <3>1. q'[r] = q[r] /\ enq'[r] = enq[r] BY <1>2, <1>3, <2>2
    <3> QED BY <1>2, <2>1, <3>1 DEF U!InSequence, U!Draining
  <2>3. CASE r = p
    <3> DEFINE d == U!Draining(p)
    <3>1. q'[p] = more /\ enq'[p] = enq[p] + 1 BY <1>2, <1>3
    <3>2. d \in Nat BY DEF U!Draining
    <3>3. /\ base[p] + Len(done[p]) + d + Len(q[p]) = enq[p]
          /\ \A i \in 1..Len(q[p]) : q[p][i].id = base[p] + Len(done[p]) + d + i
      BY <2>1, <2>3 DEF U!InSequence
    <3>4. Len(done[p]) \in Nat /\ Len(q[p]) \in Nat BY <1>3
    <3> HIDE DEF d
    <3>5. base[p] + Len(done[p]) + d + (Len(q[p]) + 1) = enq[p] + 1
      <4>1. \A a, b, c, e \in Nat : a + b + c + (e + 1) = (a + b + c + e) + 1 OBVIOUS
      <4>2. base[p] + Len(done[p]) + d + (Len(q[p]) + 1) = (base[p] + Len(done[p]) + d + Len(q[p])) + 1
        <5>1. base[p] \in Nat BY <1>3
        <5> QED BY <3>2, <3>4, <4>1, <5>1
      <4> QED BY <3>3, <4>2
    <3>6. ASSUME NEW i \in 1 .. Len(more) PROVE more[i].id = base[p] + Len(done[p]) + d + i
      <4>1. i \in 1 .. Len(q[p]) \/ i = Len(q[p]) + 1 BY <1>5, <3>4
      <4>2. CASE i \in 1 .. Len(q[p]) BY <1>5, <3>3, <4>2
      <4>3. CASE i = Len(q[p]) + 1 BY <1>4, <1>5, <3>5, <4>3
      <4> QED BY <4>1, <4>2, <4>3
    <3>7. U!Draining(p)' = d BY <1>2 DEF d, U!Draining
    <3> QED BY <1>2, <1>5, <2>1, <2>3, <3>1, <3>5, <3>6, <3>7 DEF U!InSequence
  <2> QED BY <2>2, <2>3
<1> QED BY <1>6, <1>7 DEF U!Numbered

(* Cleared, a player has consumed nothing and holds nothing.                *)
LEMMA ClearStep ==
  ASSUME U!AudioConstants, U!IInv, NEW p \in Players, U!Clear(p) PROVE QueueTypes' /\ U!Numbered'
<1>1. QueueTypes /\ U!Numbered BY AudioParts
<1>2. /\ q' = [q EXCEPT ![p] = <<>>] /\ cur' = [cur EXCEPT ![p] = NoOne]
      /\ pos' = [pos EXCEPT ![p] = 0] /\ uIndex' = [uIndex EXCEPT ![p] = 0]
      /\ base' = [base EXCEPT ![p] = enq[p]] /\ done' = [done EXCEPT ![p] = <<>>]
      /\ UNCHANGED <<life, enq>>
  BY DEF U!Clear, U!playerVars
<1>3. <<>> \in Seq(U!Buffers) /\ <<>> \in Seq(Nat) /\ Len(<<>>) = 0 OBVIOUS
<1>4. QueueTypes' BY <1>1, <1>2, <1>3 DEF QueueTypes
<1>5. ASSUME NEW r \in Players, life'[r] # "destroyed" PROVE U!InSequence(r)'
  <2>1. U!InSequence(r) BY <1>1, <1>2, <1>5 DEF U!Numbered
  <2>2. CASE r # p
    <3>1. /\ q'[r] = q[r] /\ cur'[r] = cur[r] /\ pos'[r] = pos[r] /\ uIndex'[r] = uIndex[r]
          /\ base'[r] = base[r] /\ done'[r] = done[r]
      BY <1>1, <1>2, <2>2 DEF QueueTypes
    <3> QED BY <1>2, <2>1, <3>1 DEF U!InSequence, U!Draining
  <2>3. CASE r = p
    <3>1. /\ q'[p] = <<>> /\ cur'[p] = NoOne /\ pos'[p] = 0 /\ uIndex'[p] = 0
          /\ base'[p] = enq[p] /\ done'[p] = <<>> /\ enq'[p] = enq[p] /\ enq[p] \in Nat
      BY <1>1, <1>2 DEF QueueTypes
    <3>2. ResampleStep \in Nat /\ ResampleStep # 0 BY DEF U!AudioConstants
    <3>3. ResampleStep > 0 BY <3>2
    <3> QED BY <1>3, <2>3, <3>1, <3>2, <3>3 DEF U!InSequence, U!Draining
  <2> QED BY <2>2, <2>3
<1> QED BY <1>4, <1>5 DEF U!Numbered

(* Every step keeps the buffers of whoever was not destroyed in sequence.   *)
LEMMA QueueStep ==
  ASSUME U!AudioConstants, U!IInv, U!Next PROVE QueueTypes' /\ U!Numbered'
<1> DEFINE Gone == {p \in Players : life[p] = "destroyed"}
           Same == UNCHANGED <<q, cur, pos, uIndex, enq, base, done>>
           Kept == \A p \in Players : life'[p] # "destroyed" => life[p] # "destroyed"
<1>1. QueueTypes /\ U!Numbered /\ U!CalledWhileThere /\ MixerTypes BY AudioParts
<1>2. ASSUME Same, Kept PROVE QueueTypes' /\ U!Numbered'
  <2>1. \A p \in Players : U!InSequence(p) => U!InSequence(p)' BY <1>2 DEF U!InSequence, U!Draining
  <2> QED BY <1>1, <1>2, <2>1 DEF QueueTypes, U!Numbered
<1>3. ASSUME NEW p \in Players, U!PlayerCall(p) PROVE QueueTypes' /\ U!Numbered'
  <2>1. ASSUME NEW n \in FrameSizes, U!Enqueue(p, n) PROVE QueueTypes' /\ U!Numbered'
    BY <2>1, EnqueueStep
  <2>2. CASE U!Clear(p) BY <2>2, ClearStep
  <2>3. CASE U!Destroy(p)
    <3>1. /\ q' = [q EXCEPT ![p] = <<>>] /\ cur' = [cur EXCEPT ![p] = NoOne]
          /\ UNCHANGED <<pos, uIndex, enq, base, done>> /\ life' = [life EXCEPT ![p] = "destroyed"]
      BY <2>3 DEF U!Destroy
    <3>2. <<>> \in Seq(U!Buffers) OBVIOUS
    <3>3. QueueTypes' BY <1>1, <3>1, <3>2 DEF QueueTypes
    <3>4. ASSUME NEW r \in Players, life'[r] # "destroyed" PROVE U!InSequence(r)'
      <4>1. r # p /\ life[r] # "destroyed" BY <1>1, <3>1, <3>4 DEF MixerTypes
      <4>2. q'[r] = q[r] /\ cur'[r] = cur[r] BY <1>1, <3>1, <4>1 DEF QueueTypes
      <4>3. U!InSequence(r) BY <1>1, <4>1 DEF U!Numbered
      <4> QED BY <3>1, <4>2, <4>3 DEF U!InSequence, U!Draining
    <3> QED BY <3>3, <3>4 DEF U!Numbered
  <2>4. CASE U!CreateAudioPlayer(p)
    <3>1. Same /\ life[p] = "none" BY <2>4 DEF U!CreateAudioPlayer, U!queueVars
    <3>2. life' = [life EXCEPT ![p] = "live"] BY <2>4 DEF U!CreateAudioPlayer
    <3>3. Kept BY <1>1, <3>1, <3>2 DEF MixerTypes
    <3> QED BY <1>2, <3>1, <3>3
  <2>5. ASSUME NEW on \in BOOLEAN, U!RegisterCallback(p, on) \/ U!SetPlayState(p, on)
        PROVE  QueueTypes' /\ U!Numbered'
    <3>1. Same /\ life' = life BY <2>5 DEF U!RegisterCallback, U!SetPlayState, U!queueVars
    <3> QED BY <1>2, <3>1
  <2> QED BY <1>3, <2>1, <2>2, <2>3, <2>4, <2>5 DEF U!PlayerCall
<1>4. ASSUME NEW s \in Streams, U!OpenStream(s) \/ U!RequestStart(s) \/ U!Close(s)
      PROVE  QueueTypes' /\ U!Numbered'
  <2>1. Same /\ life' = life
    BY <1>4 DEF U!OpenStream, U!RequestStart, U!Close, U!queueVars, U!playerVars
  <2> QED BY <1>2, <2>1
<1>5. ASSUME NEW b \in OutBufs, U!Device(b) \/ U!Take(b) \/ U!Append_(b) PROVE QueueTypes' /\ U!Numbered'
  <2>1. Same /\ life' = life BY <1>5 DEF U!Device, U!Take, U!Append_, U!queueVars, U!playerVars
  <2> QED BY <1>2, <2>1
<1>6. CASE U!CheckStarted \/ U!NativeCallback \/ U!Snapshot \/ U!Callback \/ U!RequestStop \/ U!Shutdown
  <2>1. Same /\ life' = life
    BY <1>6 DEF U!CheckStarted, U!NativeCallback, U!Snapshot, U!Callback, U!RequestStop, U!Shutdown,
                U!queueVars, U!playerVars
  <2> QED BY <1>2, <2>1
<1>7. CASE U!MixPlayer
  <2>1. PICK p \in Players : p = Head(uList)
    <3>1. uList \in Seq(Players) /\ uList # <<>> BY <1>1, <1>7 DEF MixerTypes, U!MixPlayer
    <3> QED BY <3>1, HeadTailProperties
  <2>2. UNCHANGED <<enq, base, life>> BY <1>7 DEF U!MixPlayer, U!playerVars
  <2>3. CASE UNCHANGED <<q, cur, pos, uIndex, done>> BY <1>2, <2>2, <2>3
  <2>4. CASE playing[p] /\ U!Drain(p)
    <3>1. life[p] # "destroyed" BY <1>1, <2>1, <2>4 DEF U!CalledWhileThere
    <3>2. U!InSequence(p) BY <1>1, <2>1, <3>1 DEF U!Numbered
    <3>3. QueueTypes' /\ U!InSequence(p)' BY <2>1, <2>2, <2>4, <3>2, DrainStep DEF U!IInv
    <3>4. ASSUME NEW r \in Players, life'[r] # "destroyed" PROVE U!InSequence(r)'
      <4>1. U!InSequence(r) BY <1>1, <2>2, <3>4 DEF U!Numbered
      <4>2. CASE r # p
        <5>1. /\ q'[r] = q[r] /\ cur'[r] = cur[r] /\ pos'[r] = pos[r] /\ uIndex'[r] = uIndex[r]
              /\ done'[r] = done[r]
          BY <1>1, <2>4, <4>2 DEF QueueTypes, U!Drain
        <5> QED BY <2>2, <4>1, <5>1 DEF U!InSequence, U!Draining
      <4> QED BY <3>3, <4>2
    <3> QED BY <3>3, <3>4 DEF U!Numbered
  <2> QED BY <1>7, <2>1, <2>3, <2>4 DEF U!MixPlayer
<1> QED BY <1>3, <1>4, <1>5, <1>6, <1>7 DEF U!Next, U!EngineCall, U!Mixer

(* The players the mixer goes through are some of those registered.         *)
LEMMA SnapshotStep == ASSUME U!AudioConstants, MixerTypes, U!Snapshot PROVE uList' \in Seq(Players)
<1> DEFINE P0 == {i \in 1 .. MaxPlayers : registry[i] # NoOne}
           Item == Players \cup {NoOne}
<1>1. MaxPlayers \in Nat BY DEF U!AudioConstants
<1>2. registry \in [1 .. MaxPlayers -> Item] BY DEF MixerTypes
<1>3. registry \in Seq(Item) /\ Len(registry) = MaxPlayers BY <1>1, <1>2, SeqDef, LenProperties
<1>4. uList' = U!Selected(registry, P0) BY DEF U!Snapshot
<1>5. U!Selected(registry, P0) = Selected(registry, P0)
  <2>1. \A X0 : U!Cardinality(X0) = Cardinality(X0) BY DEF U!Cardinality, Cardinality
  <2>2. \A k : U!Kth(P0, k) = Kth(P0, k) BY <2>1 DEF U!Kth, Kth, U!Rank, Rank
  <2> QED BY <2>1, <2>2 DEF U!Selected, Selected
<1>6. P0 \in SUBSET (1 .. Len(registry)) BY <1>3
<1>7. \A i \in P0 : registry[i] \in Players BY <1>2
<1> HIDE DEF P0, Item
<1>8. /\ Selected(registry, P0) \in Seq(Item) /\ Len(Selected(registry, P0)) = Cardinality(P0)
      /\ Cardinality(P0) \in Nat
      /\ \A k \in 1 .. Cardinality(P0) : /\ Selected(registry, P0)[k] = registry[Kth(P0, k)]
                                         /\ Kth(P0, k) \in P0
  BY <1>3, <1>6, SelectedFacts
<1>9. Selected(registry, P0) \in [1 .. Cardinality(P0) -> Players]
  <2>1. Selected(registry, P0) \in [1 .. Cardinality(P0) -> Item] BY <1>8, LenProperties
  <2>2. \A k \in 1 .. Cardinality(P0) : Selected(registry, P0)[k] \in Players BY <1>7, <1>8
  <2> QED BY <2>1, <2>2
<1> QED BY <1>4, <1>5, <1>8, <1>9, SeqDef

(* A callback decided on is late at most once: who is gone is not decided   *)
(* on again.                                                                *)
LEMMA CallStep ==
  ASSUME U!AudioConstants, U!IInv, U!Next
  PROVE  MixerTypes' /\ U!CalledWhileThere' /\ U!OneLateCallback'
<1> DEFINE Rest == UNCHANGED <<registry, life, playing, hasCb>>
           Sound == MixerTypes' /\ U!CalledWhileThere' /\ U!OneLateCallback'
           Mix == UNCHANGED <<mpc, uList, need, snap>>
           Stream == UNCHANGED <<uActive, uStarted, closed>>
<1>0. /\ MixerTypes /\ U!CalledWhileThere /\ U!OneLateCallback
      /\ NoOne \notin Players \cup Streams /\ Players \cap Streams = {} /\ Block \in Nat
  BY AudioParts DEF U!AudioConstants
<1>1. ASSUME NEW p \in Players, NEW n \in FrameSizes, U!Enqueue(p, n) PROVE Sound
  <2>1. Rest /\ Mix /\ Stream /\ late' = late
    BY <1>1 DEF U!Enqueue, U!playerVars, U!streamVars, U!mixVars
  <2> QED BY <1>0, <2>1 DEF MixerTypes, U!CalledWhileThere, U!OneLateCallback
<1>2. ASSUME NEW p \in Players, NEW on \in BOOLEAN, U!RegisterCallback(p, on) \/ U!SetPlayState(p, on)
      PROVE  Sound
  <2>1. UNCHANGED <<registry, life>> /\ Mix /\ Stream /\ late' = late /\ life[p] = "live"
    BY <1>2 DEF U!RegisterCallback, U!SetPlayState, U!Live, U!streamVars, U!mixVars
  <2>2. /\ playing' \in [Players -> BOOLEAN] /\ hasCb' \in [Players -> BOOLEAN]
        /\ \A r \in Players : r # p => playing'[r] = playing[r] /\ hasCb'[r] = hasCb[r]
    BY <1>0, <1>2 DEF U!RegisterCallback, U!SetPlayState, MixerTypes
  <2>3. \A r \in Players : life'[r] = "destroyed" => ~playing'[r] /\ ~hasCb'[r]
    BY <1>0, <2>1, <2>2 DEF U!CalledWhileThere
  <2> QED BY <1>0, <2>1, <2>2, <2>3 DEF MixerTypes, U!CalledWhileThere, U!OneLateCallback
<1>3. ASSUME NEW p \in Players, U!Destroy(p) PROVE Sound
  <2>1. /\ Mix /\ Stream /\ late' = late /\ life' = [life EXCEPT ![p] = "destroyed"]
        /\ registry' = [i \in 1..MaxPlayers |-> IF registry[i] = p THEN NoOne ELSE registry[i]]
        /\ playing' = [playing EXCEPT ![p] = FALSE] /\ hasCb' = [hasCb EXCEPT ![p] = FALSE]
    BY <1>3 DEF U!Destroy, U!streamVars, U!mixVars
  <2>2. MixerTypes' BY <1>0, <2>1 DEF MixerTypes
  <2>3. \A r \in Players : life'[r] = "destroyed" => ~playing'[r] /\ ~hasCb'[r]
    BY <1>0, <2>1 DEF U!CalledWhileThere, MixerTypes
  <2>4. \A r \in Players : life'[r] # "destroyed" => late'[r] = 0
    BY <1>0, <2>1 DEF U!CalledWhileThere, MixerTypes
  <2> QED BY <1>0, <2>1, <2>2, <2>3, <2>4 DEF U!CalledWhileThere, U!OneLateCallback
<1>4. ASSUME NEW p \in Players, U!CreateAudioPlayer(p) PROVE Sound
  <2>1. /\ Mix /\ Stream /\ UNCHANGED <<playing, hasCb, late>>
        /\ life' = [life EXCEPT ![p] = "live"] /\ life[p] = "none"
    BY <1>4 DEF U!CreateAudioPlayer, U!streamVars, U!mixVars
  <2>2. PICK i : registry' = [registry EXCEPT ![i] = p] BY <1>4 DEF U!CreateAudioPlayer
  <2>3. MixerTypes' BY <1>0, <2>1, <2>2 DEF MixerTypes
  <2>4. \A r \in Players : /\ life'[r] = "destroyed" => life[r] = "destroyed"
                           /\ life'[r] # "destroyed" => life[r] # "destroyed"
    BY <1>0, <2>1 DEF MixerTypes
  <2> QED BY <1>0, <2>1, <2>3, <2>4 DEF U!CalledWhileThere, U!OneLateCallback
<1>5. ASSUME NEW s \in Streams, U!OpenStream(s) PROVE Sound
  <2>1. Rest /\ Mix /\ Stream /\ late' = late BY <1>5 DEF U!OpenStream, U!playerVars, U!mixVars
  <2> QED BY <1>0, <2>1 DEF MixerTypes, U!CalledWhileThere, U!OneLateCallback
<1>6. ASSUME NEW s \in Streams, U!RequestStart(s) PROVE Sound
  <2>1. Rest /\ Mix /\ late' = late /\ closed' = closed /\ s \notin closed
    BY <1>6 DEF U!RequestStart, U!playerVars, U!mixVars, U!streamVars
  <2>2. \/ UNCHANGED <<uActive, uStarted>>
        \/ uStarted' = [uStarted EXCEPT ![s] = TRUE] /\ uActive' = s
    BY <1>6 DEF U!RequestStart, U!streamVars
  <2>3. MixerTypes' BY <1>0, <2>1, <2>2 DEF MixerTypes
  <2>4. \A r \in closed' : ~uStarted'[r]
    <3> SUFFICES ASSUME NEW r \in closed PROVE ~uStarted'[r] BY <2>1
    <3>1. r \in Streams /\ r # s /\ ~uStarted[r] BY <1>0, <2>1 DEF U!CalledWhileThere, MixerTypes
    <3>2. uStarted'[r] = uStarted[r] BY <1>0, <2>2, <3>1 DEF MixerTypes
    <3> QED BY <3>1, <3>2
  <2> QED BY <1>0, <2>1, <2>3, <2>4 DEF U!CalledWhileThere, U!OneLateCallback
<1>7. ASSUME NEW s \in Streams, U!Close(s) PROVE Sound
  <2>1. /\ Rest /\ Mix /\ late' = late /\ closed' = closed \cup {s}
        /\ uStarted' = [uStarted EXCEPT ![s] = FALSE]
        /\ uActive' = IF uActive = s THEN NoOne ELSE uActive
    BY <1>7 DEF U!Close, U!playerVars, U!mixVars
  <2>2. MixerTypes' BY <1>0, <2>1 DEF MixerTypes
  <2>3. \A r \in closed' : ~uStarted'[r]
    <3> SUFFICES ASSUME NEW r \in closed' PROVE ~uStarted'[r] OBVIOUS
    <3>1. CASE r = s BY <1>0, <2>1, <3>1 DEF MixerTypes
    <3>2. CASE r # s
      <4>1. r \in closed /\ ~uStarted[r] BY <1>0, <2>1, <3>2 DEF U!CalledWhileThere
      <4>2. uStarted'[r] = uStarted[r] BY <1>0, <2>1, <3>2 DEF MixerTypes
      <4> QED BY <4>1, <4>2
    <3> QED BY <3>1, <3>2
  <2> QED BY <1>0, <2>1, <2>2, <2>3 DEF U!CalledWhileThere, U!OneLateCallback
<1>8. ASSUME NEW b \in OutBufs, U!Device(b) \/ U!Take(b) \/ U!Append_(b) PROVE Sound
  <2>1. CASE U!Device(b)
    <3>1. Rest /\ Mix /\ Stream /\ late' = late
      BY <2>1 DEF U!Device, U!playerVars, U!mixVars, U!streamVars
    <3> QED BY <1>0, <3>1 DEF MixerTypes, U!CalledWhileThere, U!OneLateCallback
  <2>2. CASE U!Take(b)
    <3>1. /\ Rest /\ Stream /\ UNCHANGED <<late, uList, need>> /\ mpc' = "check"
          /\ snap' = (IF worker THEN uActive ELSE NoOne)
      BY <2>2 DEF U!Take, U!playerVars, U!streamVars
    <3>2. snap' \in Streams \cup {NoOne} BY <1>0, <3>1 DEF MixerTypes
    <3> QED BY <1>0, <3>1, <3>2 DEF MixerTypes, U!CalledWhileThere, U!OneLateCallback
  <2>3. CASE U!Append_(b)
    <3>1. /\ Rest /\ UNCHANGED <<late, uList, need, uActive, closed>> /\ mpc' = "idle" /\ snap' = NoOne
          /\ \/ uStarted' = uStarted
             \/ uStarted' = [uStarted EXCEPT ![snap] = FALSE]
      BY <2>3 DEF U!Append_, U!playerVars
    <3>2. uStarted' \in [Streams -> BOOLEAN] BY <1>0, <3>1 DEF MixerTypes
    <3>3. \A r \in closed : ~uStarted'[r]
      <4> SUFFICES ASSUME NEW r \in closed PROVE ~uStarted'[r] OBVIOUS
      <4>1. ~uStarted[r] /\ r \in Streams BY <1>0 DEF U!CalledWhileThere, MixerTypes
      <4> QED BY <1>0, <3>1, <4>1 DEF MixerTypes
    <3>4. MixerTypes' BY <1>0, <3>1, <3>2 DEF MixerTypes
    <3> QED BY <1>0, <3>1, <3>3, <3>4 DEF U!CalledWhileThere, U!OneLateCallback
  <2> QED BY <1>8, <2>1, <2>2, <2>3
<1>9. CASE U!RequestStop \/ U!Shutdown
  <2>1. /\ Rest /\ Mix /\ UNCHANGED <<late, closed, uStarted>> /\ uActive' \in {uActive, NoOne}
    BY <1>9 DEF U!RequestStop, U!Shutdown, U!playerVars, U!mixVars, U!streamVars
  <2> QED BY <1>0, <2>1 DEF MixerTypes, U!CalledWhileThere, U!OneLateCallback
<1>10. CASE U!CheckStarted
  <2>1. /\ Rest /\ Stream /\ UNCHANGED <<late, uList, need, snap>>
        /\ mpc' = IF snap # NoOne /\ uStarted[snap] THEN "native" ELSE "snapshot"
    BY <1>10 DEF U!CheckStarted, U!playerVars, U!streamVars
  <2>2. mpc' = "native" => snap' \in Streams /\ late'[snap'] = 0
    <3> SUFFICES ASSUME mpc' = "native" PROVE snap \in Streams /\ late[snap] = 0 BY <2>1
    <3>1. snap # NoOne /\ uStarted[snap] BY <2>1
    <3>2. snap \in Streams BY <1>0, <3>1 DEF MixerTypes
    <3>3. snap \notin closed BY <1>0, <3>1 DEF U!CalledWhileThere
    <3> QED BY <1>0, <3>2, <3>3 DEF U!CalledWhileThere
  <2>3. mpc' # "call" BY <2>1
  <2> QED BY <1>0, <2>1, <2>2, <2>3 DEF MixerTypes, U!CalledWhileThere, U!OneLateCallback
<1>11. CASE U!NativeCallback
  <2>1. /\ Rest /\ Stream /\ UNCHANGED <<uList, need, snap>> /\ mpc = "native" /\ mpc' = "snapshot"
        /\ late' = [late EXCEPT ![snap] = IF snap \in closed THEN @ + 1 ELSE @]
    BY <1>11 DEF U!NativeCallback, U!playerVars, U!streamVars
  <2>2. snap \in Streams /\ late[snap] = 0 BY <1>0, <2>1 DEF U!CalledWhileThere
  <2>3. /\ late' \in [Players \cup Streams -> Nat]
        /\ late'[snap] = (IF snap \in closed THEN 1 ELSE 0)
        /\ \A x \in Players \cup Streams : x # snap => late'[x] = late[x]
    BY <1>0, <2>1, <2>2 DEF MixerTypes
  <2>4. \A r \in Players : r # snap BY <1>0, <2>2
  <2>5. U!OneLateCallback' BY <1>0, <2>3 DEF U!OneLateCallback
  <2> QED BY <1>0, <2>1, <2>2, <2>3, <2>4, <2>5 DEF MixerTypes, U!CalledWhileThere
<1>12. CASE U!Snapshot
  <2>1. uList' \in Seq(Players) BY <1>0, <1>12, SnapshotStep
  <2>2. Rest /\ Stream /\ UNCHANGED <<late, snap>> /\ need' = Block /\ mpc' = "mix"
    BY <1>12 DEF U!Snapshot, U!playerVars, U!streamVars
  <2> QED BY <1>0, <2>1, <2>2 DEF MixerTypes, U!CalledWhileThere, U!OneLateCallback
<1>13. CASE U!MixPlayer
  <2>1. uList \in Seq(Players) /\ uList # <<>> BY <1>0, <1>13 DEF MixerTypes, U!MixPlayer
  <2>2. PICK p \in Players : p = Head(uList) BY <2>1, HeadTailProperties
  <2>3. Rest /\ Stream /\ UNCHANGED <<late, snap>>
    BY <1>13 DEF U!MixPlayer, U!playerVars, U!streamVars
  <2>4. ASSUME playing[p], mpc' \in {"call", "back"}, uList' = uList
        PROVE  mpc' = "call" => uList' # <<>> /\ late'[Head(uList')] = 0
    <3>1. late[p] = 0 BY <1>0, <2>4 DEF U!CalledWhileThere
    <3> QED BY <2>1, <2>2, <2>3, <2>4, <3>1
  <2>5. Tail(uList) \in Seq(Players) BY <2>1, HeadTailProperties
  <2>6. /\ uList' \in Seq(Players) /\ mpc' # "native"
        /\ mpc' = "call" => uList' # <<>> /\ late'[Head(uList')] = 0
    <3>1. CASE U!NextPlayer BY <2>5, <3>1 DEF U!NextPlayer
    <3>2. CASE playing[p] /\ mpc' = U!AfterUnlock(p) /\ uList' = uList
      <4>1. mpc' \in {"call", "back"} BY <3>2 DEF U!AfterUnlock
      <4> QED BY <2>1, <2>4, <3>2, <4>1
    <3> QED BY <1>13, <2>2, <3>1, <3>2 DEF U!MixPlayer, U!Drain
  <2>7. need' \in Nat
    <3>1. CASE U!NextPlayer \/ need' = need BY <1>0, <3>1 DEF U!NextPlayer, MixerTypes
    <3>2. CASE playing[p] /\ U!Drain(p)
      <4>1. life[p] # "destroyed" BY <1>0, <3>2 DEF U!CalledWhileThere
      <4>2. U!InSequence(p) /\ U!TypeOK BY <4>1 DEF U!IInv, U!Numbered
      <4>3. UNCHANGED <<enq, base>> BY <1>13 DEF U!MixPlayer
      <4> QED BY <3>2, <4>2, <4>3, DrainStep
    <3> QED BY <1>13, <2>2, <3>1, <3>2 DEF U!MixPlayer
  <2> QED BY <1>0, <2>3, <2>6, <2>7 DEF MixerTypes, U!CalledWhileThere, U!OneLateCallback
<1>14. CASE U!Callback
  <2>1. mpc = "call" /\ mpc' = "back" /\ Rest /\ Stream /\ UNCHANGED <<uList, need, snap>>
    BY <1>14 DEF U!Callback, U!playerVars, U!streamVars
  <2>2. uList \in Seq(Players) /\ uList # <<>> /\ late[Head(uList)] = 0
    BY <1>0, <2>1 DEF MixerTypes, U!CalledWhileThere
  <2>3. PICK p \in Players : p = Head(uList) BY <2>2, HeadTailProperties
  <2>4. late' = [late EXCEPT ![p] = IF life[p] = "destroyed" THEN @ + 1 ELSE @]
    BY <1>14, <2>3 DEF U!Callback
  <2>5. /\ late' \in [Players \cup Streams -> Nat]
        /\ late'[p] = (IF life[p] = "destroyed" THEN 1 ELSE 0)
        /\ \A x \in Players \cup Streams : x # p => late'[x] = late[x]
    BY <1>0, <2>2, <2>3, <2>4 DEF MixerTypes
  <2>6. \A r \in Streams : r # p BY <1>0
  <2>7. U!OneLateCallback' BY <1>0, <2>5 DEF U!OneLateCallback
  <2> QED BY <1>0, <2>1, <2>5, <2>6, <2>7 DEF MixerTypes, U!CalledWhileThere
<1>15. ASSUME NEW p \in Players, U!PlayerCall(p) PROVE Sound
  <2>1. CASE \E n \in FrameSizes : U!Enqueue(p, n) BY <1>1, <2>1
  <2>2. CASE U!Clear(p)
    <3>1. Rest /\ Mix /\ Stream /\ late' = late
      BY <2>2 DEF U!Clear, U!playerVars, U!streamVars, U!mixVars
    <3> QED BY <1>0, <3>1 DEF MixerTypes, U!CalledWhileThere, U!OneLateCallback
  <2> QED BY <1>2, <1>3, <1>4, <1>15, <2>1, <2>2 DEF U!PlayerCall
<1> QED BY <1>5, <1>6, <1>7, <1>8, <1>9, <1>10, <1>11, <1>12, <1>13, <1>14, <1>15
        DEF U!Next, U!EngineCall, U!Mixer

(* Every step preserves the invariant. *)
LEMMA AudioStepInvariant == ASSUME U!AudioConstants, U!IInv, U!Next PROVE U!IInv'
BY QueueStep, CallStep, AudioParts

(* A part at rest changes nothing its invariant is about. *)
LEMMA AudioStutterInvariant == U!IInv /\ UNCHANGED audioVars => U!IInv'
<1> SUFFICES ASSUME U!IInv, UNCHANGED audioVars PROVE U!IInv' OBVIOUS
<1>1. U!TypeOK' /\ U!CalledWhileThere' /\ U!OneLateCallback'
  BY DEF audioVars, U!IInv, U!TypeOK, U!CalledWhileThere, U!OneLateCallback
<1>2. ASSUME NEW p \in Players PROVE U!InSequence(p) => U!InSequence(p)'
  BY DEF audioVars, U!InSequence, U!Draining
<1>3. U!Numbered' BY <1>2 DEF audioVars, U!IInv, U!Numbered
<1> QED BY <1>1, <1>3 DEF U!IInv

(* The invariant holds in every reachable state. *)
THEOREM AudioInvariantHolds == Spec => []U!IInv
<1>1. U!AudioConstants BY ServiceConstants
<1>2. Init => U!IInv BY <1>1, AudioInitInvariant DEF Init
<1>3. U!IInv /\ [Next]_vars => U!IInv'
  BY <1>1, OnePart, AudioStepInvariant, AudioStutterInvariant
<1> QED BY <1>2, <1>3, PTL DEF Spec

(* What is consumed, drained and waiting, put end to end, counts up from    *)
(* the last clear.                                                          *)
LEMMA InsideFacts ==
  ASSUME U!IInv, NEW p \in Players, U!Live(p)
  PROVE  /\ U!Inside(p) = [i \in 1 .. enq[p] - base[p] |-> base[p] + i]
         /\ uIndex[p] + (Len(q[p]) + U!Draining(p)) = enq[p] - base[p]
<1> DEFINE d == Len(done[p])
           m == Len(q[p])
           h == U!Draining(p)
           mid == IF cur[p] = NoOne THEN <<>> ELSE <<cur[p].id>>
           tail == [i \in 1 .. m |-> q[p][i].id]
           b == base[p]
<1>1. /\ q[p] \in Seq(U!Buffers) /\ cur[p] \in U!Buffers \cup {NoOne} /\ done[p] \in Seq(Nat)
      /\ b \in Nat /\ enq[p] \in Nat /\ d \in Nat /\ m \in Nat /\ h \in {0, 1}
  BY DEF U!IInv, U!TypeOK, U!Draining
<1>2. /\ uIndex[p] = d /\ b + d + h + m = enq[p]
      /\ \A i \in 1 .. d : done[p][i] = b + i
      /\ cur[p] # NoOne => cur[p].id = b + d + 1
      /\ \A i \in 1 .. m : q[p][i].id = b + d + h + i
  BY DEF U!IInv, U!Numbered, U!InSequence, U!Live
<1>3. mid \in Seq(Nat) /\ Len(mid) = h /\ (h = 1 => mid[1] = b + d + 1)
  <2>1. CASE cur[p] = NoOne BY <2>1 DEF U!Draining
  <2>2. CASE cur[p] # NoOne
    <3>1. cur[p].id \in Nat BY <1>1, <2>2 DEF U!Buffers
    <3>2. <<cur[p].id>> \in Seq(Nat) /\ Len(<<cur[p].id>>) = 1 /\ <<cur[p].id>>[1] = cur[p].id BY <3>1
    <3> QED BY <1>2, <2>2, <3>2 DEF U!Draining
  <2> QED BY <2>1, <2>2
<1>4. tail \in Seq(Nat) /\ Len(tail) = m /\ \A i \in 1 .. m : tail[i] = b + d + h + i
  <2>1. \A i \in 1 .. m : q[p][i].id \in Nat
    <3>1. \A i \in 1 .. m : q[p][i] \in U!Buffers BY <1>1
    <3> QED BY <3>1 DEF U!Buffers
  <2>2. tail \in [1 .. m -> Nat] BY <2>1
  <2>3. tail \in Seq(Nat) BY <1>1, <2>2, SeqDef
  <2> QED BY <1>1, <1>2, <2>2, <2>3, LenProperties
<1>5. b + d + h + m = enq[p] => enq[p] - b = d + h + m
  <2>1. \A x, y, z, w \in Nat : (x + y + z + w) - x = y + z + w OBVIOUS
  <2>2. h \in Nat BY <1>1
  <2> HIDE DEF b, d, h, m
  <2>3. b \in Nat /\ d \in Nat /\ m \in Nat BY <1>1
  <2>4. (b + d + h + m) - b = d + h + m BY <2>1, <2>2, <2>3
  <2> QED BY <2>4
<1> DEFINE front == done[p] \o mid
<1> HIDE DEF d, m, h, mid, tail, b
<1>6. /\ front \in Seq(Nat) /\ Len(front) = d + h
      /\ \A i \in 1 .. d : front[i] = done[p][i]
      /\ h = 1 => front[d + 1] = mid[1]
  <2>1. d = Len(done[p]) /\ d \in Nat /\ done[p] \in Seq(Nat) BY <1>1 DEF d
  <2>2. mid \in Seq(Nat) /\ Len(mid) = h BY <1>3
  <2> DEFINE s == done[p]
  <2>3. s \in Seq(Nat) /\ mid \in Seq(Nat) /\ front = s \o mid BY <2>1, <2>2
  <2> HIDE DEF s, front
  <2>4. /\ s \o mid \in Seq(Nat) /\ Len(s \o mid) = Len(s) + Len(mid)
        /\ \A i \in 1 .. Len(s) : (s \o mid)[i] = s[i]
        /\ \A i \in 1 .. Len(mid) : (s \o mid)[Len(s) + i] = mid[i]
    BY <2>3, ConcatEntries
  <2>5. h = 1 => 1 \in 1 .. h OBVIOUS
  <2> QED BY <2>1, <2>2, <2>3, <2>4, <2>5 DEF s
<1>7. \A i \in 1 .. d + h : front[i] = b + i
  <2> SUFFICES ASSUME NEW i \in 1 .. d + h PROVE front[i] = b + i OBVIOUS
  <2>1. i \in 1 .. d \/ (h = 1 /\ i = d + 1) BY <1>1
  <2>2. CASE i \in 1 .. d BY <1>2, <1>6, <2>2
  <2>3. CASE h = 1 /\ i = d + 1
    <3>1. front[i] = b + d + 1 BY <1>3, <1>6, <2>3
    <3>2. b + d + 1 = b + i BY <1>1, <2>3
    <3> QED BY <3>1, <3>2
  <2> QED BY <2>1, <2>2, <2>3
<1> HIDE DEF front
<1>8. /\ front \o tail \in Seq(Nat) /\ Len(front \o tail) = d + h + m
      /\ \A i \in 1 .. d + h : (front \o tail)[i] = front[i]
      /\ \A i \in 1 .. m : (front \o tail)[d + h + i] = tail[i]
  <2>1. front \in Seq(Nat) /\ tail \in Seq(Nat) BY <1>4, <1>6
  <2>2. /\ front \o tail \in Seq(Nat) /\ Len(front \o tail) = Len(front) + Len(tail)
        /\ \A i \in 1 .. Len(front) : (front \o tail)[i] = front[i]
        /\ \A i \in 1 .. Len(tail) : (front \o tail)[Len(front) + i] = tail[i]
    BY <2>1, ConcatEntries
  <2> QED BY <1>4, <1>6, <2>2
<1>9. \A i \in 1 .. d + h + m : (front \o tail)[i] = b + i
  <2> SUFFICES ASSUME NEW i \in 1 .. d + h + m PROVE (front \o tail)[i] = b + i OBVIOUS
  <2>1. i \in 1 .. d + h \/ \E j \in 1 .. m : i = d + h + j
    <3>1. i \in 1 .. d + h \/ i - (d + h) \in 1 .. m BY <1>1
    <3>2. i = d + h + (i - (d + h)) BY <1>1
    <3> QED BY <3>1, <3>2
  <2>2. CASE i \in 1 .. d + h BY <1>7, <1>8, <2>2
  <2>3. ASSUME NEW j \in 1 .. m, i = d + h + j PROVE (front \o tail)[i] = b + i
    <3>1. (front \o tail)[i] = b + d + h + j BY <1>4, <1>8, <2>3
    <3>2. \A x, y, z, w \in Nat : x + y + z + w = x + (y + z + w) OBVIOUS
    <3>3. b \in Nat /\ d \in Nat /\ h \in Nat /\ j \in Nat BY <1>1
    <3>4. b + d + h + j = b + (d + h + j) BY <3>2, <3>3
    <3> QED BY <2>3, <3>1, <3>4
  <2> QED BY <2>1, <2>2, <2>3
<1> DEFINE whole == front \o tail
           range == d + h + m
<1>10. whole \in [1 .. range -> Nat] BY <1>8, LenProperties
<1>11. whole = [i \in 1 .. range |-> b + i]
  <2>1. \A i \in 1 .. range : whole[i] = b + i BY <1>9
  <2> HIDE DEF whole, range
  <2> QED BY <1>10, <2>1
<1>12. U!Inside(p) = whole BY DEF U!Inside, front, mid, tail, m
<1>13. enq[p] - b = range BY <1>2, <1>5
<1>14. uIndex[p] + (m + h) = range BY <1>1, <1>2
<1>15. enq[p] - base[p] = range BY <1>13 DEF b
<1>16. uIndex[p] + (Len(q[p]) + U!Draining(p)) = range BY <1>14 DEF m, h
<1> HIDE DEF whole, range
<1>17. [i \in 1 .. enq[p] - base[p] |-> base[p] + i] = [i \in 1 .. range |-> b + i] BY <1>15 DEF b
<1> QED BY <1>11, <1>12, <1>15, <1>16, <1>17

(* Between two clears every accepted buffer of a live player is consumed    *)
(* once and in order, and who is gone is called at most once more.          *)
THEOREM SoundInOrder == Spec => []AudioSound
<1>1. ResampleStep \in Nat BY ServiceConstants DEF U!AudioConstants
<1>2. U!IInv => U!BuffersInOrder
  <2> SUFFICES ASSUME U!IInv, NEW p \in Players, U!Live(p)
               PROVE  /\ U!Inside(p) = [i \in 1 .. enq[p] - base[p] |-> base[p] + i]
                      /\ U!State(p).index + U!State(p).count = enq[p] - base[p]
                      /\ cur[p] = NoOne => pos[p] < ResampleStep
    BY DEF U!BuffersInOrder
  <2>1. U!State(p).index = uIndex[p] /\ U!State(p).count = Len(q[p]) + U!Draining(p)
    BY DEF U!State, U!Draining
  <2>2. U!InSequence(p) /\ pos[p] \in Nat BY DEF U!IInv, U!Numbered, U!TypeOK, U!Live
  <2>3. cur[p] = NoOne => pos[p] < ResampleStep BY <1>1, <2>2 DEF U!InSequence
  <2> QED BY <2>1, <2>3, InsideFacts
<1>3. U!IInv => AudioSound BY <1>2 DEF U!IInv, AudioSound
<1> QED BY <1>3, AudioInvariantHolds, PTL
==============================================================================
