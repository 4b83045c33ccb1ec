------------------------------ MODULE CdnTar ------------------------------
(***************************************************************************)
(* The one file of the port with Linux unlink semantics, tar.full of the   *)
(* CDN downloader (libc_shim.c).  The stock worker writes a package under  *)
(* that name, opens it again with libtar, removes the name while libtar    *)
(* still reads, and writes the next package under the same name.  Horizon  *)
(* neither deletes nor truncates an open file, so the name is mapped onto  *)
(* a numbered backing file and every logical remove moves to the next      *)
(* number.                                                                 *)
(*                                                                         *)
(* android is what the same calls leave under the name on Android: the     *)
(* specification the numbered files imitate.                               *)
(***************************************************************************)
EXTENDS Naturals

CONSTANTS
  Packages,      \* the archives the game downloads
  MaxGeneration, \* bound: logical removes in one process
  MaxBoots,      \* bound: processes after the first
  Absent,        \* no file of that name
  Partial        \* a file that is still being written

VARIABLES
  generation,    \* g_cdn_tar_full_generation
  backing,       \* the numbered files on the SD card
  reading,       \* what an open libtar handle of a number was opened on
  wpc,           \* where the worker is: "idle", "writing", "written", "opened"
  android,       \* the name on Android
  refused,       \* an fopen("tar.full", "wb") has failed
  boots          \* restarts so far

tarVars == <<generation, backing, reading, wpc, android, refused, boots>>

Generations == 0 .. MaxGeneration

TarConstants == MaxGeneration \in Nat /\ MaxBoots \in Nat /\ Absent # Partial

Init ==
  /\ generation = 0
  /\ backing = [g \in Generations |-> Absent]
  /\ reading = [g \in Generations |-> Absent]
  /\ wpc = "idle"
  /\ android = Absent
  /\ refused = FALSE
  /\ boots = 0

-----------------------------------------------------------------------------

(* Horizon refuses to truncate or to delete a file that is open. *)
InUse(g) == reading[g] # Absent

(* fopen(tar.full, "wb") on the current number. *)
OpenWrite ==
  /\ wpc = "idle"
  /\ IF InUse(generation)
       THEN refused' = TRUE /\ UNCHANGED <<backing, wpc, android>>
       ELSE /\ backing' = [backing EXCEPT ![generation] = Partial]
            /\ android' = Partial
            /\ wpc' = "writing"
            /\ UNCHANGED refused
  /\ UNCHANGED <<generation, reading, boots>>

(* The gunzipped package is written and the file closed. *)
Write(k) ==
  /\ wpc = "writing"
  /\ backing' = [backing EXCEPT ![generation] = k]
  /\ android' = k
  /\ wpc' = "written"
  /\ UNCHANGED <<generation, reading, refused, boots>>

(* libtar opens the archive by the same name. *)
OpenRead ==
  /\ wpc = "written"
  /\ backing[generation] \in Packages
  /\ reading' = [reading EXCEPT ![generation] = backing[generation]]
  /\ wpc' = "opened"
  /\ UNCHANGED <<generation, backing, android, refused, boots>>

(* remove() of the name: the backing file goes if nothing holds it, and the *)
(* name moves on whether it went or not.                                    *)
Advance == generation + 1

Remove ==
  /\ wpc \in {"written", "opened"}
  /\ Advance <= MaxGeneration
  /\ backing' = IF InUse(generation) THEN backing
                ELSE [backing EXCEPT ![generation] = Absent]
  /\ generation' = Advance
  /\ android' = Absent
  /\ wpc' = "idle"
  /\ UNCHANGED <<reading, refused, boots>>

(* The TAR object is closed, perhaps long after. *)
CloseRead(g) ==
  /\ InUse(g) /\ ~ (wpc = "opened" /\ g = generation)
  /\ reading' = [reading EXCEPT ![g] = Absent]
  /\ UNCHANGED <<generation, backing, wpc, android, refused, boots>>

(* A new process counts from 0 again; nothing clears the numbered files.   *)
Restart ==
  /\ boots < MaxBoots
  /\ boots' = boots + 1
  /\ generation' = 0
  /\ reading' = [g \in Generations |-> Absent]
  /\ wpc' = "idle"
  /\ UNCHANGED <<backing, android, refused>>

Next ==
  \/ OpenWrite \/ OpenRead \/ Remove \/ Restart
  \/ \E k \in Packages : Write(k)
  \/ \E g \in Generations : CloseRead(g)

Spec == Init /\ [][Next]_tarVars

-----------------------------------------------------------------------------
(* In one process the name shows what it would show on Android, an archive *)
(* that is being read stays whole, and the next package is never refused.  *)
NameAsOnAndroid == boots = 0 => backing[generation] = android
ReaderUndisturbed == \A g \in Generations : InUse(g) => backing[g] = reading[g]
TarAsOnAndroid == NameAsOnAndroid /\ ReaderUndisturbed /\ ~ refused

(* The comment above the mapping: an old generation is no longer reachable *)
(* by the logical name.  A restart counts from 0 and reaches it again.     *)
OldGenerationUnreachable == backing[generation] = android

-----------------------------------------------------------------------------
(* The inductive invariant *)

TypeOK ==
  /\ generation \in Generations /\ boots \in Nat
  /\ backing \in [Generations -> Packages \cup {Absent, Partial}]
  /\ reading \in [Generations -> Packages \cup {Absent, Partial}]
  /\ wpc \in {"idle", "writing", "written", "opened"}

(* Only numbers the name has left are being read, or the present one once  *)
(* libtar has opened it; in the first process no later number has a file.  *)
NumbersInOrder ==
  \A g \in Generations :
    /\ InUse(g) => g < generation \/ (g = generation /\ wpc = "opened")
    /\ boots = 0 /\ g > generation => backing[g] = Absent

IInv == TypeOK /\ NumbersInOrder /\ TarAsOnAndroid
=============================================================================
