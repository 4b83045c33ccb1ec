---------------------------- MODULE GuestServices ----------------------------
(***************************************************************************)
(* What the port provides to the Android libraries and the player: the     *)
(* loader, the heap, mmap, the fake JavaVM, broadcasts, sound, the roots   *)
(* of TLS, the game's files and the controls.  These parts have no state   *)
(* in common, so a behaviour exercises one of them, chosen at the start,   *)
(* while the others rest: every behaviour of each is covered.              *)
(* Names that two parts use have the part's letter in front.               *)
(***************************************************************************)
EXTENDS Naturals

CONSTANTS
  Services,    \* the parts a run exercises
  Threads,     \* threads of the game
  NoOne,       \* no object, stream, thread or file
  Partial,     \* a file that is still being written
  Modules, Names, Hashes, InitSlots, Registrar, Capacity,
  HeapPlaces, Bytes, MaxOps,
  Blocks, MmapCalls,
  Classes, Members, MaxClasses, MaxMethods, MaxAsks,
  Receivers, Actions, NetworkChange, MaxReceivers, QueueSize, DirectSize, MaxSends,
  Players, Streams, OutBufs, MaxPlayers, BufferSlots, Block, FrameSizes, ResampleStep,
  MaxEnqueues,
  Texts, Copies, Values, Iterators, MaxPuts,
  NumCerts, Statuses, Workers, MaxContexts,
  AssetKeys, Entries, Entry, Embedded, Package, Size, HotSlots, HotBytes, HotAsset, MaxReads,
  Layouts, Assets, Cards, MaxCuts,
  Packages, MaxGeneration, MaxBoots,
  TagCalls, MaxFaults,
  HotNames, MaxChanges,
  AssetSlots, ByteCounts, AssetCalls,
  PadButtons, Cells, Packets, MaxHeld, PadEvents,
  Choosers, Boards, Grace, NavEvents

VARIABLES
  part,          \* what the run exercises
  symbols, compat, lHash, lList, lGot, lMapped, ran, deferred, vm, lEarly, lpc,
  lAsked,
  hBlock, magic, header, kept, configured, hActive, tried, call, crossed,
  hLost, ops,
  table, inited, mHolders, free, mMapped, mPc, mBlock, mIndex, mLost, mCalls,
  classes, methods, lock, jpc, want, seen, told, asks,
  receivers, queue, direct, pump, action, matches, dStarted, netPending, owed,
  dGot, dAsked, answered, full, sends,
  registry, life, playing, hasCb, q, cur, pos, uIndex, enq, base, done, uAsked,
  late, dev, worker, stop, over, sink, uActive, uStarted, sstate, closed, mpc,
  uList, need, snap, stopping,
  pairs, kind, cIndex, cVisited, entry, fresh, cAnswer, cHash, puts,
  status, usable, hook, configLoads, rand, csrngReady, csrngOpen, provider,
  count, sReady, spc, sWpc, next, begun, roots, contexts,
  open, oReady, allowed, indexLock, hot, hotBytes, clock, rpc, key, cut,
  oAnswer, reads, scans, oEarly,
  xapk, file, iCache, ipc, step, layout, iIndex, mayFail, cuts, installed,
  generation, backing, reading, tWpc, android, refused, boots,
  dir, version, gCache, gHolders, gPc, todo, gGot, disturbed, gCalls, faults,
  files, state, builder, xVisited, build, xIndex, loading, probe, xAnswer,
  xHeld, changes,
  mounted, modRoot, modState, disk, asset, memory, returned, touched, aCalls,
  pHeld, pad, switched,
  chooser, board, object, visible, rock, latched, edge, known, age, mode, fpc,
  probes, entered, committed, events

L == INSTANCE ModuleLoader WITH
       Slots <- InitSlots, hash <- lHash, list <- lList, got <- lGot,
       mapped <- lMapped, early <- lEarly, asked <- lAsked
H == INSTANCE HeapSwitch WITH
       Users <- Threads, Places <- HeapPlaces, block <- hBlock, active <- hActive,
       lost <- hLost
M == INSTANCE MmapTable WITH
       MaxCalls <- MmapCalls, FirstCallAlone <- TRUE, holders <- mHolders,
       mapped <- mMapped, pc <- mPc, block <- mBlock, index <- mIndex,
       lost <- mLost, calls <- mCalls
J == INSTANCE JniRegistry WITH
       Callers <- Threads, Nobody <- NoOne
D == INSTANCE NimbleBroadcast WITH
       Nobody <- NoOne, started <- dStarted, got <- dGot, asked <- dAsked
U == INSTANCE AudioMixer WITH
       Slots <- BufferSlots, Sizes <- FrameSizes, Step <- ResampleStep, index <- uIndex, asked <- uAsked,
       active <- uActive, started <- uStarted, list <- uList
C == INSTANCE JavaCollections WITH
       Absent <- NoOne, index <- cIndex, visited <- cVisited, answer <- cAnswer,
       hash <- cHash
S == INSTANCE SslTrust WITH
       ready <- sReady, wpc <- sWpc
O == INSTANCE ObbArchive WITH
       Keys <- AssetKeys, Readers <- Threads, Nil <- NoOne, ready <- oReady,
       answer <- oAnswer, early <- oEarly
I == INSTANCE Installer WITH
       cache <- iCache, index <- iIndex
T == INSTANCE CdnTar WITH
       Absent <- NoOne, wpc <- tWpc
G == INSTANCE TagsNamespace WITH
       MaxCalls <- TagCalls, cache <- gCache, holders <- gHolders, pc <- gPc,
       got <- gGot, calls <- gCalls
X == INSTANCE StartupIndex WITH
       Names <- HotNames, visited <- xVisited, index <- xIndex,
       answer <- xAnswer, held <- xHeld
A == INSTANCE AssetHandles WITH
       Handles <- AssetSlots, Sizes <- ByteCounts, MaxCalls <- AssetCalls, calls <- aCalls
P == INSTANCE ControllerInput WITH
       Buttons <- PadButtons, MaxEvents <- PadEvents, held <- pHeld
N == INSTANCE NavContext WITH
       None <- NoOne, MaxEvents <- NavEvents

(* What the parts assume of their constants. *)
ASSUME ServiceConstants ==
  /\ L!LoaderConstants /\ H!HeapConstants /\ M!MapConstants /\ J!JniConstants
  /\ D!BroadcastConstants /\ U!AudioConstants /\ C!MapConstants
  /\ S!SslConstants /\ O!ObbConstants /\ I!InstallConstants /\ T!TarConstants
  /\ G!TagConstants /\ X!IndexConstants /\ A!AssetConstants
  /\ P!InputConstants /\ N!NavConstants

loaderVars == <<symbols, compat, lHash, lList, lGot, lMapped, ran, deferred, vm,
               lEarly, lpc, lAsked>>
heapVars == <<hBlock, magic, header, kept, configured, hActive, tried, call,
             crossed, hLost, ops>>
mmapVars == <<table, inited, mHolders, free, mMapped, mPc, mBlock, mIndex,
             mLost, mCalls>>
jniVars == <<classes, methods, lock, jpc, want, seen, told, asks>>
deliveryVars == <<receivers, queue, direct, pump, action, matches, dStarted,
                 netPending, owed, dGot, dAsked, answered, full, sends>>
audioVars == <<registry, life, playing, hasCb, q, cur, pos, uIndex, enq, base,
              done, uAsked, late, dev, worker, stop, over, sink, uActive,
              uStarted, sstate, closed, mpc, uList, need, snap, stopping>>
mapsVars == <<pairs, kind, cIndex, cVisited, entry, fresh, cAnswer, cHash, puts>>
sslVars == <<status, usable, hook, configLoads, rand, csrngReady, csrngOpen,
            provider, count, sReady, spc, sWpc, next, begun, roots, contexts>>
obbVars == <<open, oReady, allowed, indexLock, hot, hotBytes, clock, rpc, key,
            cut, oAnswer, reads, scans, oEarly>>
installVars == <<xapk, file, iCache, ipc, step, layout, iIndex, mayFail, cuts,
                installed>>
tarVars == <<generation, backing, reading, tWpc, android, refused, boots>>
tagsVars == <<dir, version, gCache, gHolders, gPc, todo, gGot, disturbed,
             gCalls, faults>>
indexVars == <<files, state, builder, xVisited, build, xIndex, loading, probe,
              xAnswer, xHeld, changes>>
assetsVars == <<mounted, modRoot, modState, disk, asset, memory, returned,
               touched, aCalls>>
inputVars == <<pHeld, pad, switched>>
navVars == <<chooser, board, object, visible, rock, latched, edge, known, age,
            mode, fpc, probes, entered, committed, events>>
vars == <<part, loaderVars, heapVars, mmapVars, jniVars, deliveryVars,
          audioVars, mapsVars, sslVars, obbVars, installVars, tarVars, tagsVars,
          indexVars, assetsVars, inputVars, navVars>>

Init ==
  /\ part \in Services
  /\ L!Init /\ H!Init /\ M!Init /\ J!Init
  /\ D!Init /\ U!Init /\ C!Init /\ S!Init
  /\ O!Init /\ I!Init /\ T!Init /\ G!Init
  /\ X!Init /\ A!Init /\ P!Init /\ N!Init

LoaderNext ==
  /\ part = "loader" /\ L!Next
  /\ UNCHANGED <<part, heapVars, mmapVars, jniVars, deliveryVars, audioVars,
                 mapsVars, sslVars, obbVars, installVars, tarVars, tagsVars,
                 indexVars, assetsVars, inputVars, navVars>>
HeapNext ==
  /\ part = "heap" /\ H!Next
  /\ UNCHANGED <<part, loaderVars, mmapVars, jniVars, deliveryVars, audioVars,
                 mapsVars, sslVars, obbVars, installVars, tarVars, tagsVars,
                 indexVars, assetsVars, inputVars, navVars>>
MmapNext ==
  /\ part = "mmap" /\ M!Next
  /\ UNCHANGED <<part, loaderVars, heapVars, jniVars, deliveryVars, audioVars,
                 mapsVars, sslVars, obbVars, installVars, tarVars, tagsVars,
                 indexVars, assetsVars, inputVars, navVars>>
JniNext ==
  /\ part = "jni" /\ J!Next
  /\ UNCHANGED <<part, loaderVars, heapVars, mmapVars, deliveryVars, audioVars,
                 mapsVars, sslVars, obbVars, installVars, tarVars, tagsVars,
                 indexVars, assetsVars, inputVars, navVars>>
DeliveryNext ==
  /\ part = "delivery" /\ D!Next
  /\ UNCHANGED <<part, loaderVars, heapVars, mmapVars, jniVars, audioVars,
                 mapsVars, sslVars, obbVars, installVars, tarVars, tagsVars,
                 indexVars, assetsVars, inputVars, navVars>>
AudioNext ==
  /\ part = "audio" /\ U!Next
  /\ UNCHANGED <<part, loaderVars, heapVars, mmapVars, jniVars, deliveryVars,
                 mapsVars, sslVars, obbVars, installVars, tarVars, tagsVars,
                 indexVars, assetsVars, inputVars, navVars>>
MapsNext ==
  /\ part = "maps" /\ C!Next
  /\ UNCHANGED <<part, loaderVars, heapVars, mmapVars, jniVars, deliveryVars,
                 audioVars, sslVars, obbVars, installVars, tarVars, tagsVars,
                 indexVars, assetsVars, inputVars, navVars>>
SslNext ==
  /\ part = "ssl" /\ S!Next
  /\ UNCHANGED <<part, loaderVars, heapVars, mmapVars, jniVars, deliveryVars,
                 audioVars, mapsVars, obbVars, installVars, tarVars, tagsVars,
                 indexVars, assetsVars, inputVars, navVars>>
ObbNext ==
  /\ part = "obb" /\ O!Next
  /\ UNCHANGED <<part, loaderVars, heapVars, mmapVars, jniVars, deliveryVars,
                 audioVars, mapsVars, sslVars, installVars, tarVars, tagsVars,
                 indexVars, assetsVars, inputVars, navVars>>
InstallNext ==
  /\ part = "install" /\ I!Next
  /\ UNCHANGED <<part, loaderVars, heapVars, mmapVars, jniVars, deliveryVars,
                 audioVars, mapsVars, sslVars, obbVars, tarVars, tagsVars,
                 indexVars, assetsVars, inputVars, navVars>>
TarNext ==
  /\ part = "tar" /\ T!Next
  /\ UNCHANGED <<part, loaderVars, heapVars, mmapVars, jniVars, deliveryVars,
                 audioVars, mapsVars, sslVars, obbVars, installVars, tagsVars,
                 indexVars, assetsVars, inputVars, navVars>>
TagsNext ==
  /\ part = "tags" /\ G!Next
  /\ UNCHANGED <<part, loaderVars, heapVars, mmapVars, jniVars, deliveryVars,
                 audioVars, mapsVars, sslVars, obbVars, installVars, tarVars,
                 indexVars, assetsVars, inputVars, navVars>>
IndexNext ==
  /\ part = "index" /\ X!Next
  /\ UNCHANGED <<part, loaderVars, heapVars, mmapVars, jniVars, deliveryVars,
                 audioVars, mapsVars, sslVars, obbVars, installVars, tarVars,
                 tagsVars, assetsVars, inputVars, navVars>>
AssetsNext ==
  /\ part = "assets" /\ A!Next
  /\ UNCHANGED <<part, loaderVars, heapVars, mmapVars, jniVars, deliveryVars,
                 audioVars, mapsVars, sslVars, obbVars, installVars, tarVars,
                 tagsVars, indexVars, inputVars, navVars>>
InputNext ==
  /\ part = "input" /\ ~ switched /\ P!Next
  /\ UNCHANGED <<part, loaderVars, heapVars, mmapVars, jniVars, deliveryVars,
                 audioVars, mapsVars, sslVars, obbVars, installVars, tarVars,
                 tagsVars, indexVars, assetsVars, navVars>>
NavNext ==
  /\ part = "nav" /\ N!Next
  /\ UNCHANGED <<part, loaderVars, heapVars, mmapVars, jniVars, deliveryVars,
                 audioVars, mapsVars, sslVars, obbVars, installVars, tarVars,
                 tagsVars, indexVars, assetsVars, inputVars>>

Next ==
  \/ LoaderNext \/ HeapNext \/ MmapNext \/ JniNext \/ DeliveryNext \/ AudioNext
  \/ MapsNext \/ SslNext \/ ObbNext \/ InstallNext \/ TarNext \/ TagsNext
  \/ IndexNext \/ AssetsNext \/ InputNext \/ NavNext

Spec == Init /\ [][Next]_vars

-----------------------------------------------------------------------------
(* Properties *)

(* Imports are bound as the linear search bound them; initialisers run once *)
(* each, in mapped code, and those that need the JavaVM after it is there.  *)
LoaderSound == L!LoaderSound

(* Blocks go back to the allocator that made them across the switch; mmap's *)
(* table remembers every mapping, and munmap frees it once.                 *)
MemorySound == H!HeapSound /\ H!HeaderHonest /\ M!MappingsRemembered

(* The same question about a class or a method has one answer for good, and *)
(* it means what was asked unless the table is full without that entry.     *)
IdsStable == J!IdsStable

(* A broadcast reaches each of its receivers once, and neither the network  *)
(* status nor a direct callback is lost on the way.                         *)
BroadcastSound == D!EachReceiverOnce /\ D!StatusGoesOut /\ D!DirectInOrder

(* Each accepted buffer is played once and in order, and nothing destroyed  *)
(* or closed is called more than once more.                                 *)
AudioSound == U!BuffersInOrder /\ U!OneLateCallback

(* The array behind java.util.HashMap answers as the HashMap would, and its *)
(* iterators give every key once.                                           *)
MapSound == C!MapSound

(* Contexts trust what the console trusts: all of it or, early, nothing.    *)
TrustSound == S!TrustSound

(* A reader gets its own asset or nothing; the hot cache keeps its budget.  *)
ObbSound == O!ReadsTheirAsset /\ O!HotCacheSound

(* No index of another archive; the archive goes only when the game can run. *)
InstallSound == I!IndexIsCurrent /\ I!SourceOrFiles

(* The renamed tar.full behaves as on Android within a process, and after a *)
(* clear app_version shows the manifest's version.                          *)
PrivateFilesSound == T!TarAsOnAndroid /\ G!VersionAfterClear

(* stat tells what was so during the scan, and what is so outside state 3.  *)
StatHonest == X!StatHonest

(* A closed asset handle touches no memory; overrides come from mods/ only. *)
ClosedStaysHarmless == A!ClosedStaysHarmless

(* The game sees one finger, no event is lost, and the seed chooser is left *)
(* after its button came up.                                                *)
PointerSound == P!OneFinger /\ P!NothingDropped /\ P!ChooserSeesRelease

(* The controls follow the chooser and the level, each entered once.        *)
NavSound == N!NavSound
=============================================================================
