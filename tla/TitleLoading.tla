--------------------------- MODULE TitleLoading ---------------------------
(***************************************************************************)
(* What the hooks of main.c do around the game's loading screen: network   *)
(* tables put off from the synchronous start to the native job of state 7, *)
(* that job started early and only once, the two logos kept for a quota of *)
(* presented frames, the catalog refresh answered in state 6, and the      *)
(* sub-states of state 12 run without waiting for frames.                  *)
(*                                                                         *)
(* The screen's own machine, external code, is modelled by the states the  *)
(* hooks look at: "start" is -1, "logos" 1, the others by their number.     *)
(***************************************************************************)
EXTENDS Integers

CONSTANTS
  Tables,        \* network-table descriptors of the synchronous start
  Deferrable,    \* those with a slot, g_deferred_network_names
  Quota,         \* STARTUP_SPLASH_MIN_PRESENT_FRAMES, 45 in the code
  EarlyFrames,   \* frames in which descriptors are put off, 3 in the code
  SubSteps,      \* sub-states of state 12, 9 in the code
  Burst,         \* advances of one pump, 8 in the code
  MaxLate, MaxRefreshes  \* bounds: late loads of a table, refreshes

VARIABLES
  deferOn, onceOn, splashOn, \* hooks whose code signature matched
  title,         \* title_loading_state
  phase,         \* of the frame: "update", "draw", "present", "catalog"
  frames,        \* g_frame_count, up to EarlyFrames + 1
  ready,         \* g_deferred_network_ready
  asked, loads,  \* times a table's load was asked for and done
  worker,        \* the native job: "off", "tables", "rest", "done"
  jobs,          \* times it was started
  logo,          \* the native logo index
  splash,        \* g_splash_index, -1 before the first
  presented,     \* g_splash_presented
  drawn,         \* g_splash_drawn_index of this frame, -1 for none
  shown,         \* frames in which a logo was really on screen
  requested, tracking, trackedNow, delivered, \* catalog_refresh_requested, _loading_screen, _loading_frame, _completion_delivered
  refreshes, notified,  \* refreshes asked for; listener calls
  sub            \* the sub-state of state 12

hooks == <<deferOn, onceOn, splashOn>>
loadingVars == <<hooks, title, phase, frames, ready, asked, loads, worker, jobs, logo, splash,
                 presented, drawn, shown, requested, tracking, trackedNow, delivered,
                 refreshes, notified, sub>>
tableVars == <<ready, asked, loads>>
jobVars == <<worker, jobs>>
splashVars == <<logo, splash, presented, drawn, shown>>
catalogVars == <<requested, tracking, trackedNow, delivered, refreshes, notified>>

LoadingConstants ==
  /\ Deferrable \subseteq Tables
  /\ {Quota, EarlyFrames, SubSteps, Burst, MaxLate, MaxRefreshes} \subseteq Nat

Logos == {0, 1}
Early == {"start", "logos", "s2", "s7"}

(* Each hook goes in only where the game's code is the one it was written  *)
(* for; elsewhere the stock behaviour stays.                                 *)
InstallDefer == deferOn \in BOOLEAN
InstallOnce == onceOn \in BOOLEAN
InstallSplash == splashOn \in BOOLEAN

Init ==
  /\ InstallDefer /\ InstallOnce /\ InstallSplash
  /\ title = "start" /\ phase = "update" /\ frames = 0
  /\ ready = {} /\ asked = [t \in Tables |-> 0] /\ loads = [t \in Tables |-> 0]
  /\ worker = "off" /\ jobs = 0
  /\ logo = 0 /\ splash = -1 /\ presented = [i \in Logos |-> 0] /\ drawn = -1
  /\ shown = [i \in Logos |-> 0]
  /\ requested = FALSE /\ tracking = FALSE /\ trackedNow = FALSE /\ delivered = FALSE
  /\ refreshes = 0 /\ notified = 0 /\ sub = 0

-----------------------------------------------------------------------------
(* Network tables *)

Defers(t) == deferOn /\ t \in Deferrable /\ title = "start" /\ frames <= EarlyFrames

(* The gate at the head of the native descriptor loader. *)
LoadDescriptor(t) ==
  /\ asked' = [asked EXCEPT ![t] = @ + 1]
  /\ IF Defers(t) THEN ready' = ready \union {t} /\ UNCHANGED loads
     ELSE loads' = [loads EXCEPT ![t] = @ + 1] /\ UNCHANGED ready

(* The synchronous tranche, before the first logo. *)
SyncTable(t) ==
  /\ title = "start" /\ phase = "update" /\ asked[t] = 0
  /\ LoadDescriptor(t)
  /\ UNCHANGED <<title, phase, frames, jobVars, splashVars, catalogVars, sub>>

(* The content refresh of state 3 loads tables again. *)
LateTable(t) ==
  /\ title = "s3" /\ phase = "update" /\ asked[t] < 1 + MaxLate
  /\ LoadDescriptor(t)
  /\ UNCHANGED <<title, phase, frames, jobVars, splashVars, catalogVars, sub>>

(* The worker empties the slots, then loads the stock asynchronous tranche. *)
DrainTable(t) ==
  /\ worker = "tables" /\ t \in ready
  /\ ready' = ready \ {t}
  /\ loads' = [loads EXCEPT ![t] = @ + 1]
  /\ UNCHANGED <<title, phase, frames, asked, jobVars, splashVars, catalogVars, sub>>

WorkerStep ==
  /\ \/ worker = "tables" /\ ready = {} /\ worker' = "rest"
     \/ worker = "rest" /\ worker' = "done"
  /\ UNCHANGED <<title, phase, frames, tableVars, jobs, splashVars, catalogVars, sub>>

(* pvz2_state7_async_start_once. *)
StartOnce ==
  IF worker = "off" THEN worker' = "tables" /\ jobs' = jobs + 1 ELSE UNCHANGED jobVars

(* The job is started early only if the stock start is guarded too.        *)
StartEarly == IF onceOn THEN StartOnce ELSE UNCHANGED jobVars

-----------------------------------------------------------------------------
(* The logos.  A first sight of a logo resets its count.                   *)

Sees(i) == splash # i
CountAfter(i) == IF Sees(i) THEN [presented EXCEPT ![i] = 0] ELSE presented

(* splash_logo_gate_should_hold within updateState_DisplayingLogo; what is *)
(* released may still be held by the game.                                  *)
LogoUpdate ==
  /\ title = "logos" /\ splashOn
  /\ splash' = logo
  /\ presented' = CountAfter(logo)
  /\ IF Sees(logo) /\ logo = 1 THEN StartEarly ELSE UNCHANGED jobVars
  /\ drawn' = IF Sees(logo) THEN -1 ELSE drawn
  /\ \/ UNCHANGED <<title, logo>>
     \/ /\ presented'[logo] >= Quota
        /\ IF logo = 0 THEN logo' = 1 /\ UNCHANGED title
           ELSE title' = "s2" /\ UNCHANGED logo
  /\ UNCHANGED <<frames, tableVars, shown, catalogVars, sub>>

(* Without the gate the game's own clock decides. *)
LogoUpdateStock ==
  /\ title = "logos" /\ ~ splashOn
  /\ IF logo = 0 THEN logo' = 1 /\ UNCHANGED title ELSE title' = "s2" /\ UNCHANGED logo
  /\ UNCHANGED <<frames, tableVars, jobVars, splash, presented, drawn, shown, catalogVars, sub>>

(* The frame is drawn, perhaps without the logo. *)
Draw ==
  /\ phase = "draw" /\ phase' = "present"
  /\ \/ UNCHANGED <<splash, presented, drawn, jobVars>>
     \/ /\ title = "logos" /\ splashOn
        /\ splash' = logo
        /\ presented' = CountAfter(logo)
        /\ drawn' = logo
        /\ IF Sees(logo) /\ logo = 1 THEN StartEarly ELSE UNCHANGED jobVars
  /\ UNCHANGED <<title, frames, tableVars, logo, shown, catalogVars, sub>>

Counted == drawn \in Logos /\ drawn = splash

(* splash_logo_after_present counts a frame the logo was drawn in. *)
AfterPresent ==
  /\ phase = "present" /\ phase' = "catalog"
  /\ drawn' = -1
  /\ shown' = IF drawn \in Logos THEN [shown EXCEPT ![drawn] = IF @ < Quota THEN @ + 1 ELSE @]
              ELSE shown
  /\ IF Counted /\ presented[splash] < Quota
       THEN /\ presented' = [presented EXCEPT ![splash] = @ + 1]
            /\ IF splash = 1 \/ presented'[0] = 1 THEN StartEarly ELSE UNCHANGED jobVars
       ELSE UNCHANGED <<presented, jobVars>>
  /\ UNCHANGED <<title, frames, tableVars, logo, splash, catalogVars, sub>>

-----------------------------------------------------------------------------
(* The other states of the screen *)

(* Sub-states that are done in a burst; a wait ends it. *)
PumpSubstates ==
  sub' \in sub .. (IF sub + Burst > SubSteps THEN SubSteps ELSE sub + Burst)

NativeUpdate ==
  \/ /\ title = "start" /\ \A t \in Tables : asked[t] > 0
     /\ title' = "logos" /\ UNCHANGED <<jobVars, sub, requested, tracking, trackedNow, delivered>>
  \/ /\ title = "s2" /\ title' = "s7"
     /\ UNCHANGED <<jobVars, sub, requested, tracking, trackedNow, delivered>>
  \/ /\ title = "s7" /\ worker # "done" /\ StartOnce
     /\ UNCHANGED <<title, sub, requested, tracking, trackedNow, delivered>>
  \/ /\ title = "s7" /\ worker = "done" /\ title' = "s3"
     /\ UNCHANGED <<jobVars, sub, requested, tracking, trackedNow, delivered>>
  \/ /\ title = "s3" /\ title' = "s6" /\ UNCHANGED <<jobVars, sub>>
     /\ IF requested
          THEN requested' = FALSE /\ tracking' = TRUE /\ trackedNow' = TRUE /\ delivered' = FALSE
          ELSE UNCHANGED <<requested, tracking, trackedNow, delivered>>
  \/ /\ title = "s6" /\ notified > 0 /\ title' = "s12"
     /\ UNCHANGED <<jobVars, sub, requested, tracking, trackedNow, delivered>>
  \/ /\ title = "s12" /\ sub < SubSteps /\ PumpSubstates
     /\ UNCHANGED <<title, jobVars, requested, tracking, trackedNow, delivered>>
  \/ /\ title = "s12" /\ sub = SubSteps /\ title' = "s15"
     /\ UNCHANGED <<jobVars, sub, requested, tracking, trackedNow, delivered>>

(* One update of the screen per frame; a state that waits for something    *)
(* leaves everything as it is.                                              *)
Update ==
  /\ phase = "update" /\ title # "s15"
  /\ phase' = "draw"
  /\ \/ LogoUpdate
     \/ LogoUpdateStock
     \/ /\ NativeUpdate
        /\ UNCHANGED <<frames, tableVars, splashVars, refreshes, notified>>
     \/ UNCHANGED <<title, frames, tableVars, jobVars, splashVars, catalogVars, sub>>

(* The game asks for the catalog: it is there at once, and the listener is *)
(* owed a notification.                                                     *)
RefreshRequested ==
  /\ refreshes < MaxRefreshes /\ title \in {"s3", "s6"} /\ phase = "update"
  /\ requested' = TRUE /\ refreshes' = refreshes + 1
  /\ UNCHANGED <<title, phase, frames, tableVars, jobVars, splashVars, tracking, trackedNow,
                 delivered, notified, sub>>

Retracks_Never == FALSE
Retracks == ~ tracking /\ title = "s6" /\ requested

(* complete_local_catalog_refresh, and the end of the frame. *)
CompleteCatalog ==
  /\ phase = "catalog" /\ phase' = "update"
  /\ frames' = IF frames <= EarlyFrames THEN frames + 1 ELSE frames
  /\ requested' = (requested /\ ~ Retracks)
  /\ LET track == tracking \/ Retracks
         now == trackedNow \/ Retracks
         done == delivered /\ ~ Retracks
     IN IF ~ track \/ now
          THEN tracking' = track /\ delivered' = done /\ trackedNow' = FALSE /\ UNCHANGED notified
          ELSE IF title # "s6" \/ done
          THEN tracking' = FALSE /\ UNCHANGED <<delivered, trackedNow, notified>>
          ELSE /\ notified' = notified + 1 /\ delivered' = TRUE
               /\ UNCHANGED <<tracking, trackedNow>>
  /\ UNCHANGED <<title, tableVars, jobVars, splashVars, refreshes, sub>>

Steps ==
  \/ Update \/ Draw \/ AfterPresent \/ CompleteCatalog \/ RefreshRequested \/ WorkerStep
  \/ \E t \in Tables : SyncTable(t) \/ LateTable(t) \/ DrainTable(t)

Next == Steps /\ UNCHANGED hooks

(* The frame loop runs; nothing is assumed of the job's thread. *)
Turn == (Update \/ Draw \/ AfterPresent \/ CompleteCatalog) /\ UNCHANGED hooks

Fairness == WF_loadingVars(Turn)

Spec == Init /\ [][Next]_loadingVars /\ Fairness

-----------------------------------------------------------------------------
(* Each logo has been on screen for its quota of frames before the screen  *)
(* moves on, however long the updates took.                                 *)
LogosShown ==
  splashOn =>
  /\ logo = 1 \/ title \notin {"start", "logos"} => shown[0] >= Quota
  /\ title \notin {"start", "logos"} => shown[1] >= Quota

(* State 7 is the barrier for every table: beyond it each has been loaded  *)
(* as often as it was asked for, and the job has run once.                  *)
TablesLoaded ==
  /\ jobs <= 1
  /\ title \notin Early => asked = loads

(* A refresh asked for in state 6, or before it, reaches the listener whose *)
(* notification lets the screen leave that state.                            *)
RefreshAnswered == (title = "s6" /\ refreshes > 0) ~> notified > 0
=============================================================================
