------------------------------ MODULE ObbArchive ------------------------------
(***************************************************************************)
(* source/obb.c while the game runs: the name index that is built on first *)
(* use, and the cache of recently read assets that any thread may read.    *)
(* The cache is touched under g_lock, the index is built under             *)
(* g_index_lock, and the card is read under neither.                       *)
(***************************************************************************)
EXTENDS Naturals, FiniteSets, FiniteSetsExt, Positions

CONSTANTS
  Readers,     \* threads that call obb_read
  Keys,        \* canonical names the game asks for
  Entries,     \* the archive's streams
  Entry,       \* find_entry: the stream a key names, also by its aliases, or Nil
  Embedded,    \* the key that is cut out of another stream
  Package,     \* ... the key of that stream
  Size,        \* decoded size of each stream
  HotSlots, HotBytes, HotAsset,  \* OBB_HOT_CACHE_SLOTS, _MAX_BYTES, _MAX_ASSET
  MaxReads,    \* bound on the reads of a thread
  Nil

ObbConstants ==
  /\ Entry \in [Keys -> Entries \cup {Nil}] /\ Size \in [Entries -> Nat]
  /\ Package \in Keys /\ Entry[Package] # Nil
  /\ HotSlots \in Nat \ {0} /\ HotBytes \in Nat /\ HotAsset \in Nat /\ MaxReads \in Nat
  /\ Nil \notin Keys \cup Entries \cup Readers

VARIABLES
  open, ready, allowed,  \* g_file, g_index_ready, g_runtime_index_build_allowed
  indexLock,             \* the holder of g_index_lock
  hot, hotBytes, clock,  \* g_hot_assets, g_hot_asset_bytes, g_hot_asset_stamp
  rpc, key, cut,         \* each reader: where it is, its key, Embedded asked for
  answer,                \* ... and the stream it returned, or Nil
  reads,                 \* reads begun (bound)
  scans, early           \* ghost: scans finished, a scan before it was allowed

obbVars == <<open, ready, allowed, indexLock, hot, hotBytes, clock, rpc, key, cut, answer, reads,
             scans, early>>

Unused == [key |-> Nil, data |-> Nil, stamp |-> 0]
Slots == 1..HotSlots

(* obb_open: the index comes with the archive when its cache file still     *)
(* fits; otherwise it is left for later.                                    *)
Init ==
  /\ open = TRUE /\ ready \in BOOLEAN /\ allowed = FALSE /\ indexLock = Nil
  /\ hot = [s \in Slots |-> Unused] /\ hotBytes = 0 /\ clock = 0
  /\ rpc = [t \in Readers |-> "idle"] /\ key = [t \in Readers |-> Nil]
  /\ cut = [t \in Readers |-> FALSE] /\ answer = [t \in Readers |-> Nil]
  /\ reads = [t \in Readers |-> 0]
  /\ scans = 0 /\ early = FALSE

hotVars == <<hot, hotBytes, clock>>
indexVars == <<open, ready, allowed, indexLock, scans, early>>

Goto(t, l) == rpc' = [rpc EXCEPT ![t] = l]
Return(t, a) == Goto(t, "idle") /\ answer' = [answer EXCEPT ![t] = a]

Call(t) ==
  /\ rpc[t] = "idle" /\ reads[t] < MaxReads
  /\ key' \in {[key EXCEPT ![t] = k] : k \in Keys}
  /\ cut' = [cut EXCEPT ![t] = FALSE] /\ answer' = [answer EXCEPT ![t] = Nil]
  /\ reads' = [reads EXCEPT ![t] = @ + 1]
  /\ Goto(t, "start")
  /\ UNCHANGED <<indexVars, hotVars>>

(* Before the title is done a missing index means a missing asset. *)
CheckIndex(t) ==
  /\ rpc[t] = "start"
  /\ IF ~open \/ (~ready /\ ~allowed) THEN Return(t, Nil)
     ELSE Goto(t, IF ready THEN "lookup" ELSE "ensure") /\ UNCHANGED answer
  /\ UNCHANGED <<indexVars, hotVars, key, cut, reads>>

LockIndex(t) ==
  /\ rpc[t] = "ensure" /\ indexLock = Nil
  /\ indexLock' = t
  /\ Goto(t, "build")
  /\ UNCHANGED <<open, ready, allowed, hotVars, key, cut, answer, reads, scans, early>>

(* obb_build_index_locked: nothing to do for whoever waited; a scan that    *)
(* fails leaves no index, and the next lookup scans again.                  *)
BuildIndex(t) ==
  /\ rpc[t] = "build"
  /\ indexLock' = Nil
  /\ \/ ready /\ Goto(t, "lookup") /\ UNCHANGED <<answer, ready, scans, early>>
     \/ /\ ~ready /\ open
        /\ ready' = TRUE /\ scans' = scans + 1 /\ early' = (early \/ ~allowed)
        /\ Goto(t, "lookup") /\ UNCHANGED answer
     \/ ~ready /\ Return(t, Nil) /\ UNCHANGED <<ready, scans, early>>
  /\ UNCHANGED <<open, allowed, hotVars, key, cut, reads>>

SlotOf(k) == {s \in Slots : hot[s].key = k}
Held(h) == {s \in Slots : h[s] # Unused}

(* Under g_lock: a copy of a cached asset, or the fields of its index entry.*)
(* Without memory for the copy the archive is read instead.                 *)
Lookup(t) ==
  /\ rpc[t] = "lookup"
  /\ LET k == key[t] IN
     \/ \E s \in SlotOf(k) :
          /\ clock' = clock + 1 /\ hot' = [hot EXCEPT ![s].stamp = clock + 1]
          /\ Return(t, hot[s].data) /\ UNCHANGED <<hotBytes, key, cut>>
     \/ /\ UNCHANGED hotVars
        /\ IF ready /\ Entry[k] # Nil THEN Goto(t, "load") /\ UNCHANGED <<key, cut, answer>>
           ELSE IF k = Embedded
           THEN /\ key' = [key EXCEPT ![t] = Package] /\ cut' = [cut EXCEPT ![t] = TRUE]
                /\ Goto(t, "start") /\ UNCHANGED answer
           ELSE Return(t, Nil) /\ UNCHANGED <<key, cut>>
  /\ UNCHANGED <<indexVars, reads>>

(* The stream is read and decoded without a lock; either may fail. *)
Load(t) ==
  /\ rpc[t] = "load"
  /\ \/ open /\ Goto(t, "store") /\ UNCHANGED answer
     \/ Return(t, Nil)
  /\ UNCHANGED <<indexVars, hotVars, key, cut, reads>>

(* The slot for a key: its own, which is emptied, the first free, or the    *)
(* least recently used.                                                     *)
Choice(k) ==
  IF SlotOf(k) # {} THEN CHOOSE s \in SlotOf(k) : TRUE
  ELSE IF SlotOf(Nil) # {} THEN Min(SlotOf(Nil))
  ELSE CHOOSE s \in Slots : \A u \in Slots : hot[s].stamp <= hot[u].stamp

SizeAt(s) == IF hot[s] = Unused THEN 0 ELSE Size[hot[s].data]
Older(s, among) == {u \in among : hot[u].stamp < hot[s].stamp}
Total(S) == Volume([s \in Slots |-> SizeAt(s)], S)

(* Mutant: the chosen slot is overwritten without being emptied. *)
Store_NoEvict(t) ==
  /\ rpc[t] = "store"
  /\ LET k == key[t]
         e == Entry[k]
         s == Choice(k) IN
     IF Size[e] > HotAsset \/ Size[e] > HotBytes THEN UNCHANGED hotVars
     ELSE /\ hot' = [hot EXCEPT ![s] = [key |-> k, data |-> e, stamp |-> clock + 1]]
          /\ hotBytes' = hotBytes + Size[e] /\ clock' = clock + 1
  /\ Return(t, Entry[key[t]])
  /\ UNCHANGED <<indexVars, key, cut, reads>>

(* hot_cache_store_locked: the oldest assets go until the new one fits;     *)
(* without memory for a copy the evictions stay.                            *)
Store(t) ==
  /\ rpc[t] = "store"
  /\ LET k == key[t]
         e == Entry[k]
         s == Choice(k)
         rest == {u \in Slots : u # s /\ hot[u] # Unused}
         had == hotBytes - SizeAt(s)
         kept == {u \in rest : had - Total(Older(u, rest)) <= HotBytes - Size[e]}
         bytes == had - Total(rest \ kept)
         evicted == [u \in Slots |-> IF u \in kept THEN hot[u] ELSE Unused] IN
     IF Size[e] > HotAsset \/ Size[e] > HotBytes THEN UNCHANGED hotVars
     ELSE \/ /\ hot' = [evicted EXCEPT ![s] = [key |-> k, data |-> e, stamp |-> clock + 1]]
             /\ hotBytes' = bytes + Size[e] /\ clock' = clock + 1
          \/ hot' = evicted /\ hotBytes' = bytes /\ UNCHANGED clock
  /\ Return(t, Entry[key[t]])
  /\ UNCHANGED <<indexVars, key, cut, reads>>

(* obb_allow_runtime_index_build, once the title has finished. *)
Allow ==
  /\ open /\ ~allowed /\ allowed' = TRUE
  /\ UNCHANGED <<open, ready, indexLock, scans, early, hotVars, rpc, key, cut, answer, reads>>

(* obb_close at the end of the process, under g_lock: readers between two   *)
(* steps find the archive gone.  It does not take g_index_lock: closing     *)
(* under a scan is left out, for the scan would go on in freed memory.      *)
Close ==
  /\ open /\ \A t \in Readers : rpc[t] # "build"
  /\ open' = FALSE /\ ready' = FALSE /\ allowed' = FALSE
  /\ hot' = [s \in Slots |-> Unused] /\ hotBytes' = 0 /\ clock' = 0
  /\ UNCHANGED <<indexLock, scans, early, rpc, key, cut, answer, reads>>

Read(t) == CheckIndex(t) \/ LockIndex(t) \/ BuildIndex(t) \/ Lookup(t) \/ Load(t) \/ Store(t)

Next == (\E t \in Readers : Call(t) \/ Read(t)) \/ Allow \/ Close

Spec == Init /\ [][Next]_obbVars

-----------------------------------------------------------------------------
(* Properties *)

(* Whatever the order of racing reads, repeated stores and evictions, a     *)
(* caller gets the stream its key names, or the package the embedded asset  *)
(* is cut from, or nothing: never another asset's bytes.                    *)
ReadsTheirAsset ==
  \A t \in Readers : answer[t] # Nil =>
    /\ answer[t] = Entry[key[t]]
    /\ cut[t] => key[t] = Package

(* The cache never outgrows its budget, counts exactly what it holds, and   *)
(* holds a key once, although the second of two readers that missed the     *)
(* same key stores it again; the archive is scanned at most once, and never *)
(* before the title released it.                                            *)
HotCacheSound ==
  /\ hotBytes = Total(Slots) /\ hotBytes <= HotBytes
  /\ \A s, u \in Slots : hot[s].key = hot[u].key /\ hot[s].key # Nil => s = u
  /\ \A s \in Slots : hot[s].stamp <= clock /\ (hot[s] # Unused => hot[s].data = Entry[hot[s].key])
  /\ scans <= 1 /\ ~early

-----------------------------------------------------------------------------
(* The inductive invariant *)

TypeOK ==
  /\ open \in BOOLEAN /\ ready \in BOOLEAN /\ allowed \in BOOLEAN
  /\ hot \in [Slots -> [key : Keys \cup {Nil}, data : Entries \cup {Nil}, stamp : Nat]]
  /\ hotBytes \in Nat /\ clock \in Nat /\ scans \in Nat
  /\ rpc \in [Readers -> {"idle", "start", "ensure", "build", "lookup", "load", "store"}]
  /\ key \in [Readers -> Keys \cup {Nil}] /\ cut \in [Readers -> BOOLEAN]
  /\ answer \in [Readers -> Entries \cup {Nil}]

(* A slot is empty or has a stream of the archive under the name it has.    *)
Filled == \A s \in Slots : hot[s] # Unused => hot[s].key # Nil /\ hot[s].data # Nil

(* A reader on its way asks for a name, has no answer yet, and reads the    *)
(* card only for a stream that is there.                                    *)
Asking(t) ==
  /\ rpc[t] # "idle" => key[t] # Nil /\ answer[t] = Nil
  /\ rpc[t] \in {"load", "store"} => Entry[key[t]] # Nil
  /\ cut[t] => key[t] = Package

(* Whoever is on the way to a scan was let through, and an open archive     *)
(* that has been scanned is not scanned again.                              *)
ScanAllowed(t) == rpc[t] \in {"ensure", "build"} /\ open => allowed
ScannedOnce == open /\ scans > 0 => ready

IInv ==
  /\ TypeOK /\ HotCacheSound /\ ReadsTheirAsset /\ Filled /\ ScannedOnce
  /\ \A t \in Readers : Asking(t) /\ ScanAllowed(t)
=============================================================================
