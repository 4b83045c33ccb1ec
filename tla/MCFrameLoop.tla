----------------------------- MODULE MCFrameLoop -----------------------------
(***************************************************************************)
(* What the frame loop of main drives, each on a small instance: the       *)
(* Synergy start-up sequence, which this module extends, and, with their   *)
(* variables renamed, the audio mixer, the life cycle of Nimble and the    *)
(* title screen.  A behaviour exercises one of them, chosen at the start,  *)
(* while the others rest.                                                  *)
(***************************************************************************)
EXTENDS SynergyBootstrap

CONSTANTS
  Parts        \* the parts a run exercises

VARIABLES
  part,          \* what the run exercises
  aRegistry, aLife, playing, hasCb, q, cur, pos, index, enq, base, aDone,
  aAsked, late, dev, aWorker, stop, over, sink, aActive, aStarted, sstate,
  closed, mpc, list, need, snap, stopping,
  ids, lStage, at, stack, setups, lRegistry, owners, held, restored, lLife,
  launchPending, resumePending,
  deferOn, onceOn, splashOn, title, phase, frames, ready, tAsked, loads,
  tWorker, jobs, logo, splash, presented, drawn, shown, requested, tracking,
  trackedNow, delivered, refreshes, notified, sub


A == INSTANCE AudioMixer WITH
       Players <- {"p1"}, Streams <- {"s1"}, OutBufs <- {"b1"}, MaxPlayers <- 1,
       Slots <- 2, Block <- 2, Sizes <- {0, 3}, Step <- 2, MaxEnqueues <- 1,
       NoOne <- Nobody, registry <- aRegistry, life <- aLife, done <- aDone,
       asked <- aAsked, worker <- aWorker, active <- aActive,
       started <- aStarted
L == INSTANCE NimbleLifecycle WITH
       Components <- {"c1", "c2"}, Objects <- {"o1"}, MaxComponents <- 2,
       Restored <- <<"c1", "c2">>, MaxLookups <- 2, stage <- lStage,
       registry <- lRegistry, life <- lLife
T == INSTANCE TitleLoading WITH
       Tables <- {"t1", "t2"}, Deferrable <- {"t1"}, Quota <- 2,
       EarlyFrames <- 1, SubSteps <- 2, Burst <- 2, MaxLate <- 1,
       MaxRefreshes <- 2, asked <- tAsked, worker <- tWorker

(* What the parts assume of their constants. *)
ASSUME FrameConstants ==
  /\ SynergyConstants
  /\ A!AudioConstants /\ L!LifeConstants
  /\ T!LoadingConstants

audioVars == <<aRegistry, aLife, playing, hasCb, q, cur, pos, index, enq, base,
              aDone, aAsked, late, dev, aWorker, stop, over, sink, aActive,
              aStarted, sstate, closed, mpc, list, need, snap, stopping>>
lifecycleVars == <<ids, lStage, at, stack, setups, lRegistry, owners, held,
                  restored, lLife, launchPending, resumePending>>
titleVars == <<deferOn, onceOn, splashOn, title, phase, frames, ready, tAsked,
              loads, tWorker, jobs, logo, splash, presented, drawn, shown,
              requested, tracking, trackedNow, delivered, refreshes, notified,
              sub>>
frameVars == <<part, synergyVars, audioVars, lifecycleVars, titleVars>>

FrameInit ==
  /\ part \in Parts
  /\ Init
  /\ part # "synergy" => online /\ ~ disk.auth
  /\ A!Init
  /\ L!Init
  /\ T!Init
  /\ part # "title" => deferOn /\ onceOn /\ splashOn

AudioNext ==
  /\ part = "audio" /\ A!Next
  /\ UNCHANGED <<part, synergyVars, lifecycleVars, titleVars>>
LifecycleNext ==
  /\ part = "lifecycle" /\ L!Next
  /\ UNCHANGED <<part, synergyVars, audioVars, titleVars>>
TitleNext ==
  /\ part = "title" /\ T!Next
  /\ UNCHANGED <<part, synergyVars, audioVars, lifecycleVars>>

SynergyNext ==
  /\ part = "synergy" /\ Next
  /\ UNCHANGED <<part, audioVars, lifecycleVars, titleVars>>

FrameNext ==
  \/ SynergyNext
  \/ AudioNext \/ LifecycleNext \/ TitleNext

(* The fairness each part assumes, for the part that runs. *)
FrameFairness ==
  /\ WF_audioVars(part = "audio" /\ A!Mixer)
  /\ SF_audioVars(part = "audio" /\ A!Take("b1"))
  /\ WF_audioVars(part = "audio" /\ A!Device("b1"))
  /\ WF_lifecycleVars(part = "lifecycle" /\ L!SetupReturns)
  /\ WF_lifecycleVars(part = "lifecycle" /\ L!SetupNext)
  /\ WF_lifecycleVars(part = "lifecycle" /\ L!LoopEnds)
  /\ WF_lifecycleVars(part = "lifecycle" /\ L!IndependentSetupFinished)
  /\ WF_lifecycleVars(part = "lifecycle" /\ L!Restore)
  /\ WF_lifecycleVars(part = "lifecycle" /\ L!PumpLifecycle)
  /\ WF_synergyVars(part = "synergy" /\ Setup)
  /\ WF_synergyVars(part = "synergy" /\ Complete)
  /\ SF_synergyVars(part = "synergy" /\ StartDirection)
  /\ WF_synergyVars(part = "synergy" /\ StartDevice)
  /\ WF_synergyVars(part = "synergy" /\ StartAnonUid)
  /\ WF_synergyVars(part = "synergy" /\ DeliverBroadcast)
  /\ WF_synergyVars(part = "synergy" /\ PumpBroadcasts)
  /\ WF_titleVars(part = "title" /\ T!Turn)

FrameSpec == FrameInit /\ [][FrameNext]_frameVars /\ FrameFairness

-----------------------------------------------------------------------------
(* Properties *)

(* The output is refilled, and a player that runs dry is asked for more.    *)
AudioFlows == A!SinkRefilled /\ A!DryIsAsked

(* Every registered component is set up and kept alive, the application's   *)
(* edges come once each and in order, and the resume comes at last.         *)
LifecycleSound == [](L!AllSetUp /\ L!CountsMatch /\ L!EdgesInOrder) /\ L!Resumed

(* The environment goes live once, complete; the id is adopted and never    *)
(* changes on disk; every update ends when the console stays online.        *)
SynergySound ==
  [](LiveIsComplete /\ FinishedOnce) /\ IdentityKept /\ LiveIsAdopted /\ UpdateEnds

(* Logos have their frames, tables are loaded behind the barrier, and the   *)
(* refresh that the title waits for is answered.                            *)
TitleSound == [](T!LogosShown /\ T!TablesLoaded) /\ T!RefreshAnswered
=============================================================================
