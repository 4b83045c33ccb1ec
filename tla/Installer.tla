------------------------------ MODULE Installer ------------------------------
(***************************************************************************)
(* source/installer.c with the index cache of source/obb.c, over several   *)
(* launches: the game's files are unpacked from an archive that is then    *)
(* deleted, and the name index of the big file is built ahead of time.     *)
(* The console may be switched off between any two steps, the card may     *)
(* fail, and a rename does not replace an existing file.                   *)
(***************************************************************************)
EXTENDS Naturals, Sequences, SequencesExt

CONSTANTS
  Layouts,     \* the orders of the parts of pvz2.xapk, as zip_visit meets them
  Assets,      \* the parts that are assets; "obb", "lib" and "apk" are the others
  Cards,       \* whether the card may refuse or lose a write: subset of BOOLEAN
  MaxCuts      \* bound on the times the console is switched off at work

Parts == {"obb", "lib", "apk"} \cup Assets
Required == {"obb", "lib"}

InstallConstants ==
  /\ Layouts \subseteq Seq(Parts \cup {"endapk"}) /\ Layouts # {}
  /\ \A l \in Layouts : IsInjective(l) /\ Parts \subseteq Range(l)
  /\ Assets \cap {"obb", "lib", "apk", "endapk"} = {}
  /\ Cards \subseteq BOOLEAN /\ Cards # {} /\ MaxCuts \in Nat

VARIABLES
  xapk,        \* pvz2.xapk is on the card
  file,        \* each target: absent, whole or torn
  cache,       \* obb_index_v1.bin: none, stale (of another archive) or good
  ipc, step,   \* where the launch is, the next part of the archive
  layout,
  index,       \* the index the game was started with: none or which cache
  mayFail,     \* the card in use may fail
  cuts,        \* times the console was switched off at work
  installed    \* ghost: this launch did the installation

vars == <<xapk, file, cache, ipc, step, layout, index, mayFail, cuts, installed>>

(* A copied archive, an older release's index cache at most. *)
Init ==
  /\ xapk = TRUE /\ file = [e \in Parts |-> "absent"]
  /\ cache \in {"none", "stale"}
  /\ ipc = "off" /\ step = 1 /\ layout \in Layouts /\ mayFail \in Cards /\ index = "none"
  /\ cuts = 0 /\ installed = FALSE

RequiredPresent == \A e \in Required : file[e] # "absent"

(* remove_install_archive: a failure is only logged. *)
RemoveArchive == xapk' = FALSE \/ (mayFail /\ UNCHANGED xapk)

(* Start of installer_prepare_game_files. *)
Launch ==
  /\ ipc = "off" /\ installed' = FALSE /\ index' = "none"
  /\ IF RequiredPresent
     THEN RemoveArchive /\ ipc' = "open" /\ UNCHANGED step
     ELSE xapk /\ ipc' = "extract" /\ step' = 1 /\ UNCHANGED xapk
  /\ UNCHANGED <<file, cache, layout, mayFail, cuts>>

Part == layout[step]
(* install_xapk_entry removes the nested package when its visit fails too. *)
InApk == \E i \in 1..(step - 1) : layout[i] = "apk" /\ \A j \in i..(step - 1) : layout[j] # "endapk"
Abort ==
  /\ ipc' = "off" /\ UNCHANGED step
  /\ file' = IF InApk THEN [file EXCEPT !["apk"] = "absent"] ELSE file

(* extract_entry: unpacked to a temporary file, whose close is not checked, *)
(* and renamed; a target that is already there refuses the rename.          *)
Extract ==
  /\ ipc = "extract" /\ step <= Len(layout) /\ Part # "endapk"
  /\ \/ /\ file[Part] = "absent"
        /\ file' \in {[file EXCEPT ![Part] = w] : w \in {"whole"} \cup (IF mayFail THEN {"torn"} ELSE {})}
        /\ step' = step + 1 /\ UNCHANGED ipc
     \/ (mayFail \/ file[Part] # "absent") /\ Abort
  /\ UNCHANGED <<xapk, cache, layout, index, mayFail, cuts, installed>>

(* install_xapk_entry: the nested package is removed after its visit. *)
EndApk ==
  /\ ipc = "extract" /\ step <= Len(layout) /\ Part = "endapk"
  /\ file' = [file EXCEPT !["apk"] = "absent"]
  /\ step' = step + 1
  /\ UNCHANGED <<xapk, cache, ipc, layout, index, mayFail, cuts, installed>>

(* The visit is over: the required files must be there. *)
Visited ==
  /\ ipc = "extract" /\ step > Len(layout)
  /\ ipc' = IF RequiredPresent THEN "index" ELSE "off"
  /\ UNCHANGED <<xapk, file, cache, step, layout, index, mayFail, cuts, installed>>

(* Mutant: any well-formed cache is taken. *)
CacheFits_Unchecked == cache # "none"

(* obb_cache_load compares size, table and header fingerprint of the        *)
(* archive with those the cache was made for.                               *)
CacheFits == cache = "good"

(* obb_cache_save: written beside and renamed, which fails over an older    *)
(* cache; nobody hears of it.                                               *)
SaveCache ==
  \/ cache = "none" /\ cache' = "good"
  \/ (cache # "none" \/ mayFail) /\ UNCHANGED cache

(* obb_prepare_index: built unless the cache fits; a failed scan aborts. *)
PrepareIndex ==
  /\ ipc = "index"
  /\ \/ /\ IF CacheFits THEN UNCHANGED cache ELSE SaveCache
        /\ RemoveArchive
        /\ ipc' = "open" /\ installed' = TRUE
     \/ /\ mayFail \/ file["obb"] = "torn"
        /\ ipc' = "off" /\ UNCHANGED <<xapk, cache, installed>>
  /\ UNCHANGED <<file, step, layout, index, mayFail, cuts>>

(* obb_open: with a cache that fits the index is ready at once. *)
Open ==
  /\ ipc = "open"
  /\ index' = IF CacheFits THEN cache ELSE "none"
  /\ ipc' = "play"
  /\ UNCHANGED <<xapk, file, cache, step, layout, mayFail, cuts, installed>>

(* The first read of an asset that only the archive holds, once the title   *)
(* is over: the scan of obb_ensure_index.                                   *)
RuntimeIndex ==
  /\ ipc = "play" /\ index = "none" /\ file["obb"] = "whole"
  /\ SaveCache /\ index' = "good"
  /\ UNCHANGED <<xapk, file, ipc, step, layout, mayFail, cuts, installed>>

Quit ==
  /\ ipc = "play" /\ ipc' = "off" /\ index' = "none"
  /\ UNCHANGED <<xapk, file, cache, step, layout, mayFail, cuts, installed>>

(* The console is switched off. *)
PowerOff ==
  /\ ipc \notin {"off", "play"} /\ cuts < MaxCuts
  /\ cuts' = cuts + 1 /\ ipc' = "off" /\ index' = "none"
  /\ UNCHANGED <<xapk, file, cache, step, layout, mayFail, installed>>

Next == Launch \/ Extract \/ EndApk \/ Visited \/ PrepareIndex \/ Open \/ RuntimeIndex \/ Quit
        \/ PowerOff

Spec == Init /\ [][Next]_vars

-----------------------------------------------------------------------------
(* Properties *)

Whole(e) == file[e] = "whole"

(* The game is never run with an index that was made for another archive.   *)
IndexIsCurrent == index \in {"none", "good"}

(* With an honest card and no cut, nothing is missing when the game runs;   *)
(* and whatever happens, the archive is deleted only when the files the     *)
(* game cannot start without are there, so that the installer can go on.    *)
SourceOrFiles ==
  /\ ~mayFail /\ cuts = 0 /\ ipc = "play" => \A e \in Parts \ {"apk"} : Whole(e)
  /\ ~xapk => RequiredPresent

(* The comment above remove_install_archive: the archive is removed "after  *)
(* the required game files are present ... without risking a partial        *)
(* install": once it is gone, every file it held is on the card.            *)
NoPartialInstall == ~xapk => \A e \in Parts \ {"apk"} : Whole(e)

(* The comment in installer_prepare_game_files: the index is built during   *)
(* the installation, "even if a stale cache file happens to be left in      *)
(* No_Backup": the launch that installed starts with it.                    *)
InstallPrebuilds == ipc = "play" /\ installed => index = "good"

-----------------------------------------------------------------------------
(* The inductive invariant *)

TypeOK ==
  /\ xapk \in BOOLEAN /\ mayFail \in BOOLEAN /\ cuts \in Nat
  /\ file \in [Parts -> {"absent", "whole", "torn"}]
  /\ cache \in {"none", "stale", "good"}
  /\ ipc \in {"off", "extract", "index", "open", "play"}
  /\ layout \in Layouts /\ step \in 1 .. Len(layout) + 1

AllWhole == \A e \in Parts \ {"apk"} : Whole(e)

(* On an honest card what zip_visit has passed is unpacked, what is still   *)
(* to come is not there, and a launch that ends leaves all or nothing.      *)
HonestCard ==
  ~mayFail /\ cuts = 0 =>
    /\ ipc = "off" => AllWhole \/ \A e \in Parts : file[e] = "absent"
    /\ ipc = "extract" =>
         \A i \in 1 .. Len(layout) : layout[i] \in Parts =>
           IF i < step THEN layout[i] # "apk" => Whole(layout[i])
                       ELSE file[layout[i]] = "absent"
    /\ ipc \in {"index", "open", "play"} => AllWhole

IInv ==
  /\ TypeOK /\ IndexIsCurrent /\ HonestCard
  /\ ipc \in {"index", "open", "play"} \/ ~xapk => RequiredPresent
=============================================================================
