------------------------- MODULE SynergyBootstrap -------------------------
(***************************************************************************)
(* EA's Synergy start-up sequence and the Synergy id manager (pvz2.c):     *)
(* getDirection, getDeviceID and getAnonUid in turn, each started by the   *)
(* frame loop's pump and finished by an HTTP completion, then the          *)
(* promotion of the environment and the broadcast on which the id manager  *)
(* adopts and saves the anonymous id.  Composed with NimbleBroadcast,      *)
(* whose queue the broadcasts go through.  The process may end at any time *)
(* and start again with what was saved.                                    *)
(***************************************************************************)
EXTENDS Naturals, Sequences

CONSTANTS
  Uids,           \* the anonymous ids the server hands out
  NoId,           \* no id
  BroadcastRoom,  \* capacity of the broadcast queue, 32 in the code
  MaxBoots,       \* bound: processes after the first
  Nobody

VARIABLES
  pending, flight, done,   \* of the three requests: synergy_*_pending, _in_flight, _ready/_done
  session,        \* synergy_session_id is set
  direction,      \* synergy_direction_json, hwId and user URL are set
  deviceId,       \* synergy_ea_device_id is set
  anonId,         \* synergy_anonymous_id
  idAnon, idCurrent, \* synergy_id_manager_anonymous_id, synergy_current_id
  auth,           \* synergy_authenticator is set
  inProgress,     \* synergy_update_in_progress
  live,           \* synergy_environment_live: 0, 1 or 2, finished but not active
  active,         \* synergy_main_application_active
  stage,          \* "boot", "setup" done, "woken", "restored"
  cacheReady,     \* synergy_bootstrap_cache_ready
  online,         \* the console has a connection
  disk,           \* what the property store has saved
  finishes,       \* startup_requests_finished queued by this process
  adopted,        \* and delivered
  boots,
  receivers, queue, direct, pump, action, matches, started, netPending, owed, got,
  asked, answered, full, sends

requestVars == <<pending, flight, done, session, direction, deviceId, anonId>>
idVars == <<idAnon, idCurrent, auth>>
stateVars == <<inProgress, live, active, stage, cacheReady>>
envVars == <<online, boots>>
broadcastVars == <<receivers, queue, direct, pump, action, matches, started, netPending,
                   owed, got, asked, answered, full, sends>>
restOfBroadcast == <<receivers, direct, pump, action, matches, started, netPending,
                     owed, got, asked, answered, full, sends>>
synergyVars == <<requestVars, idVars, stateVars, envVars, disk, finishes, adopted,
                 broadcastVars>>

Steps == {"direction", "device", "anon"}
Broadcasts == {"started", "changed", "finished", "anonIdChanged", "idChanged", "net"}

B == INSTANCE NimbleBroadcast WITH
       Receivers <- {}, Actions <- Broadcasts, NetworkChange <- "net", MaxReceivers <- 1,
       QueueSize <- BroadcastRoom, DirectSize <- 1, MaxSends <- 0

SynergyConstants ==
  NoId \notin Uids /\ MaxBoots \in Nat /\ BroadcastRoom \in Nat \ {0}

Init ==
  /\ pending = {} /\ flight = {} /\ done = {}
  /\ session = FALSE /\ direction = FALSE /\ deviceId = FALSE /\ anonId = NoId
  /\ idAnon = NoId /\ idCurrent = NoId /\ auth = FALSE
  /\ inProgress = FALSE /\ live = 0 /\ active = FALSE /\ stage = "boot" /\ cacheReady = FALSE
  /\ finishes = 0 /\ adopted = FALSE /\ boots = 0
  /\ online \in BOOLEAN
  /\ disk \in [cache: {FALSE}, anon: {NoId}, current: {NoId}, auth: BOOLEAN]
  /\ B!Init

-----------------------------------------------------------------------------
(* The id manager.  New ids go to the store, whose save may fail. *)

CurrentAfter(anon) == IF auth /\ idCurrent # NoId THEN idCurrent ELSE anon

Saved(anon, current) ==
  \E ok \in BOOLEAN :
     disk' = IF ok THEN [disk EXCEPT !.anon = anon, !.current = current, !.auth = auth]
             ELSE disk

(* synergy_id_manager_on_startup_finished, set_anonymous and set_current:  *)
(* the anonymous id becomes current unless an authenticator owns that.      *)
Adopt ==
  IF live = 0 \/ anonId = NoId
    THEN B!Begin(<<>>) /\ UNCHANGED <<idVars, disk>>
    ELSE LET current == CurrentAfter(anonId)
         IN /\ idAnon' = anonId
            /\ idCurrent' = current
            /\ UNCHANGED auth
            /\ Saved(anonId, current)
            /\ B!Begin((IF anonId # idAnon THEN <<"anonIdChanged">> ELSE <<>>) \o
                       (IF current # idCurrent THEN <<"idChanged">> ELSE <<>>))

(* The broadcast pump, once per frame. *)
DeliverBroadcast ==
  /\ IF pump = "broadcasts" /\ queue # <<>> /\ Head(queue) = "finished"
       THEN Adopt /\ adopted' = TRUE
       ELSE B!Begin(<<>>) /\ UNCHANGED <<idVars, disk, adopted>>
  /\ UNCHANGED <<requestVars, stateVars, envVars, finishes>>

PumpBroadcasts ==
  /\ stage = "restored" /\ active
  /\ B!Pump
  /\ UNCHANGED <<requestVars, idVars, stateVars, envVars, disk, finishes, adopted>>

-----------------------------------------------------------------------------
(* setupNimble: setup, then wakeup, then restore *)

(* synergy_java_setup: a session id, and the bootstrap cache if it is of   *)
(* this version and locale and at most a week old.                          *)
JavaSetup ==
  /\ stage = "boot" /\ stage' = "setup"
  /\ session' \in BOOLEAN
  /\ \E fresh \in BOOLEAN :
       LET hit == disk.cache /\ fresh
       IN /\ cacheReady' = hit /\ direction' = hit /\ deviceId' = hit
          /\ done' = IF hit THEN {"direction", "device"} ELSE {}
  /\ UNCHANGED <<pending, flight, anonId, idVars, inProgress, live, active, envVars, disk,
                 finishes, adopted, broadcastVars>>

Wakeup ==
  /\ stage = "setup" /\ stage' = "woken"
  /\ idAnon' = disk.anon /\ auth' = disk.auth
  /\ idCurrent' = IF disk.current = NoId THEN disk.anon ELSE disk.current
  /\ IF disk.current = NoId /\ disk.anon # NoId
       THEN /\ queue' = B!Queued(queue, "idChanged")
            /\ \E ok \in BOOLEAN :
                 disk' = IF ok THEN [disk EXCEPT !.current = disk.anon] ELSE disk
       ELSE UNCHANGED <<queue, disk>>
  /\ UNCHANGED <<requestVars, inProgress, live, active, cacheReady, envVars, finishes, adopted,
                 restOfBroadcast>>

(* queue_startup_finished: at once when the application is active, else    *)
(* noted in live.                                                           *)
Promote(q) ==
  IF active
    THEN /\ queue' = B!Queued(B!Queued(q, "changed"), "finished")
         /\ live' = 1 /\ finishes' = finishes + 1
    ELSE /\ queue' = B!Queued(q, "changed")
         /\ live' = 2 /\ UNCHANGED finishes

(* The persisted anonymous id makes the third request unnecessary. *)
FastPath_Never == FALSE
FastPath == idAnon # NoId

(* getAnonUid, with the update in progress and broadcasts q queued. *)
StartAnon(q) ==
  IF ~ session
    THEN /\ pending' = pending \ {"anon"} /\ inProgress' = FALSE
         /\ queue' = q
         /\ UNCHANGED <<flight, done, anonId, live, finishes>>
    ELSE IF FastPath
    THEN /\ anonId' = idAnon
         /\ pending' = pending \ {"anon"} /\ done' = done \union {"anon"}
         /\ inProgress' = FALSE
         /\ Promote(q)
         /\ UNCHANGED flight
    ELSE /\ pending' = pending \ {"anon"} /\ flight' = flight \union {"anon"}
         /\ queue' = q /\ inProgress' = TRUE
         /\ UNCHANGED <<done, anonId, live, finishes>>

(* synergy_java_restore announces the update and takes its first step.     *)
JavaRestore ==
  /\ stage = "woken" /\ stage' = "restored"
  /\ LET q == B!Queued(queue, "started")
     IN IF cacheReady
          THEN \/ session /\ StartAnon(q) /\ UNCHANGED <<session, cacheReady>>
               \/ (* it cannot be started; neither can a direction that is there *)
                  /\ ~ (session /\ FastPath)
                  /\ pending' = {"direction"} \union (IF session THEN {"anon"} ELSE {})
                  /\ inProgress' = session
                  /\ cacheReady' = FALSE /\ queue' = q
                  /\ UNCHANGED <<flight, done, session, anonId, live, finishes>>
          ELSE /\ inProgress' = TRUE /\ queue' = q
               /\ \/ /\ online
                     /\ flight' = {"direction"} /\ pending' = {} /\ session' = TRUE
                  \/ pending' = {"direction"} /\ session' \in {session, TRUE} /\ UNCHANGED flight
               /\ UNCHANGED <<done, anonId, live, finishes, cacheReady>>
  /\ UNCHANGED <<direction, deviceId, idVars, active, envVars, disk, adopted,
                 restOfBroadcast>>

-----------------------------------------------------------------------------
(* The HTTP pump.  A request that cannot be started stays pending.         *)

Ready(s) == active /\ s \in pending /\ s \notin flight \union done

Started(s) ==
  /\ pending' = pending \ {s} /\ flight' = flight \union {s}

StartDirection ==
  /\ Ready("direction") /\ online
  /\ Started("direction") /\ session' = TRUE
  /\ UNCHANGED <<done, direction, deviceId, anonId, idVars, stateVars, envVars, disk,
                 finishes, adopted, broadcastVars>>

StartDevice ==
  /\ Ready("device") /\ Started("device")
  /\ UNCHANGED <<done, session, direction, deviceId, anonId, idVars, stateVars, envVars, disk,
                 finishes, adopted, broadcastVars>>

StartAnonUid ==
  /\ Ready("anon") /\ StartAnon(queue)
  /\ UNCHANGED <<session, direction, deviceId, idVars, active, stage, cacheReady, envVars,
                 disk, adopted, restOfBroadcast>>

(* synergy_direction_complete; ok includes that the response parses. *)
DirectionComplete(ok) ==
  /\ active /\ "direction" \in flight
  /\ flight' = flight \ {"direction"} /\ done' = done \union {"direction"}
  /\ direction' = ok
  /\ IF ok THEN pending' = pending \union {"device"} /\ UNCHANGED inProgress
     ELSE inProgress' = FALSE /\ UNCHANGED pending
  /\ UNCHANGED <<session, deviceId, anonId, idVars, live, active, stage, cacheReady, envVars,
                 disk, finishes, adopted, broadcastVars>>

(* synergy_device_id_complete saves the bootstrap cache. *)
DeviceComplete(ok) ==
  /\ active /\ "device" \in flight
  /\ flight' = flight \ {"device"} /\ done' = done \union {"device"}
  /\ deviceId' = ok
  /\ IF ok
       THEN /\ pending' = pending \union {"anon"}
            /\ \E saved \in BOOLEAN :
                 disk' = IF saved THEN [disk EXCEPT !.cache = TRUE] ELSE disk
            /\ UNCHANGED inProgress
       ELSE inProgress' = FALSE /\ UNCHANGED <<pending, disk>>
  /\ UNCHANGED <<session, direction, anonId, idVars, live, active, stage, cacheReady, envVars,
                 finishes, adopted, broadcastVars>>

(* synergy_anon_complete. *)
AnonComplete(uid) ==
  /\ active /\ "anon" \in flight
  /\ flight' = flight \ {"anon"} /\ done' = done \union {"anon"}
  /\ anonId' = uid
  /\ inProgress' = FALSE
  /\ IF uid # NoId THEN Promote(queue) ELSE UNCHANGED <<queue, live, finishes>>
  /\ UNCHANGED <<pending, session, direction, deviceId, idVars, active, stage, cacheReady,
                 envVars, disk, adopted, restOfBroadcast>>

(* pvz2_nimble_set_main_application_active(1), once setupNimble is through: *)
(* a success noted while inactive is broadcast now.                         *)
SetActive ==
  /\ stage = "restored" /\ ~ active
  /\ active' = TRUE
  /\ IF live = 2
       THEN live' = 1 /\ queue' = B!Queued(queue, "finished") /\ finishes' = finishes + 1
       ELSE UNCHANGED <<live, queue, finishes>>
  /\ UNCHANGED <<requestVars, idVars, inProgress, stage, cacheReady, envVars, disk, adopted,
                 restOfBroadcast>>

Connection ==
  /\ online' = ~ online
  /\ UNCHANGED <<requestVars, idVars, stateVars, boots, disk, finishes, adopted, broadcastVars>>

(* The process ends; only the store survives. *)
Reboot ==
  /\ boots < MaxBoots
  /\ boots' = boots + 1
  /\ pending' = {} /\ flight' = {} /\ done' = {}
  /\ session' = FALSE /\ direction' = FALSE /\ deviceId' = FALSE /\ anonId' = NoId
  /\ idAnon' = NoId /\ idCurrent' = NoId /\ auth' = FALSE
  /\ inProgress' = FALSE /\ live' = 0 /\ active' = FALSE /\ stage' = "boot"
  /\ cacheReady' = FALSE /\ finishes' = 0 /\ adopted' = FALSE
  /\ queue' = <<>> /\ pump' = "idle" /\ action' = Nobody
  /\ UNCHANGED <<receivers, direct, matches, started, netPending, owed, got, asked, answered,
                 full, sends>>
  /\ UNCHANGED <<online, disk>>

Setup == JavaSetup \/ Wakeup \/ JavaRestore \/ SetActive
Complete ==
  \/ \E ok \in BOOLEAN : DirectionComplete(ok) \/ DeviceComplete(ok)
  \/ \E uid \in Uids \union {NoId} : AnonComplete(uid)

Next ==
  \/ Setup \/ Complete \/ StartDirection \/ StartDevice \/ StartAnonUid
  \/ DeliverBroadcast \/ PumpBroadcasts \/ Connection \/ Reboot

(* setupNimble is sequential code; the frame loop pumps requests and        *)
(* broadcasts; every HTTP request ends, by its time-out of 30 s at the       *)
(* latest; a request retried each frame starts at last.                      *)
Fairness ==
  /\ WF_synergyVars(Setup) /\ WF_synergyVars(Complete)
  /\ SF_synergyVars(StartDirection) /\ WF_synergyVars(StartDevice)
  /\ WF_synergyVars(StartAnonUid)
  /\ WF_synergyVars(DeliverBroadcast) /\ WF_synergyVars(PumpBroadcasts)

Spec == Init /\ [][Next]_synergyVars /\ Fairness

-----------------------------------------------------------------------------
(* The environment is live only when all three requests have delivered, and *)
(* its success is announced at most once.                                    *)
LiveIsComplete == live # 0 => direction /\ deviceId /\ anonId # NoId
FinishedOnce == finishes <= 1 /\ (finishes = 1 => live = 1)

(* An anonymous id that was saved is the player's for good: no later start *)
(* replaces it by another one of the server.                                *)
IdentityKept == [][disk.anon # NoId => disk'.anon = disk.anon]_synergyVars

(* A live environment is adopted by the id manager, and no update stays in *)
(* progress for ever when the console is online again and again.            *)
LiveIsAdopted == live # 0 ~> (adopted \/ live = 0)
UpdateEnds == []<>online => (inProgress ~> ~ inProgress)
=============================================================================
