------------------------------ MODULE EventPump ------------------------------
(***************************************************************************)
(* How source/pvz2.c answers the game asynchronously: the queue of pending *)
(* Java callbacks, the Handler-style timers, and the HTTP requests that a  *)
(* curl multi handle drives from the frame loop.                           *)
(*                                                                         *)
(* The main thread runs frames: http_pump completes requests, then the     *)
(* native draw calls process_events, which moves due timers to the queue   *)
(* and delivers a copy of it, one native call after another.  Native code  *)
(* makes upcalls while it draws and inside each callback; other threads of *)
(* the game schedule timers and queue callbacks at any moment.  Both       *)
(* tables are under their own Mutex, so each access is one step.           *)
(***************************************************************************)
EXTENDS Naturals, Sequences, FiniteSets, SequencesExt, Positions

CONSTANTS
  Android, Glu, Downloads,   \* the requests the game makes, by kind
  SaveDelta,     \* those of Android that is_player_savedelta_sync recognises
  Timers,        \* the events it schedules
  Prompts,       \* the string callbacks other calls queue (showConsent, ...)
  Unregistered,  \* callback names the game registered no native for
  MayRunOut,     \* ids whose payload copy may fail
  Delay,         \* the delay each timer is scheduled with, in clock units
  StartupWaits,  \* the timers whose delay is 9 to 11 s
  NoOne,
  MaxQueue,      \* MAX_PENDING_JAVA_CALLBACKS
  MaxTimers,     \* MAX_SCHEDULED_JAVA_TIMERS
  MaxRequests,   \* MAX_HTTP_REQUESTS
  MaxTime        \* bound on the clock

Requests == Android \cup Glu \cup Downloads
Ids == Requests \cup Timers \cup Prompts

ASSUME IdsDistinct ==
  /\ Android \cap (Glu \cup Downloads) = {} /\ Glu \cap Downloads = {}
  /\ Requests \cap (Timers \cup Prompts) = {} /\ Timers \cap Prompts = {}
  /\ SaveDelta \subseteq Android /\ NoOne \notin Ids
ASSUME LimitsPositive ==
  /\ MaxQueue \in Nat \ {0} /\ MaxTimers \in Nat \ {0} /\ MaxRequests \in Nat \ {0}
  /\ MaxTime \in Nat /\ Delay \in [Timers -> 0..MaxTime]
  /\ StartupWaits \subseteq Timers

VARIABLES
  pc,            \* where the main thread is
  queue, batch,  \* pending_callbacks, and the copy being dispatched
  slots, fires,  \* scheduled_java_timers: a timer per slot, its due tick
  dueList,       \* the copies pump_java_timers took out
  attempted,     \* pvz2_release_startup_wait_timer ran
  now,           \* the tick counter
  table,         \* http_requests
  completing, script,  \* the request http_complete runs for, what it still queues
  cleaned,       \* transactions with http_cleanup_taken
  live,          \* ids whose payload copy is allocated
  reply,         \* ghost: how each request ended
  asked,         \* ghost: the tick each timer was asked for, once it was
  got,           \* ghost: the callbacks delivered about each id
  released,      \* ghost: the timers released early
  lost, nomem    \* ghost: ids with a callback dropped for room, for memory

mainVars == <<pc, batch>>
queueVars == <<queue, live, lost, nomem>>
timerVars == <<slots, fires, dueList, attempted, asked, released>>
httpVars == <<table, completing, script, reply, cleaned>>
vars == <<mainVars, queueVars, timerVars, httpVars, now, got>>

Never == MaxTime + 1
Empty == [s \in 1..MaxTimers |-> NoOne]

Init ==
  /\ pc = "http" /\ queue = <<>> /\ batch = <<>>
  /\ slots = Empty /\ fires = [t \in Timers |-> Never] /\ dueList = <<>>
  /\ attempted = FALSE /\ now = 0
  /\ table = {} /\ completing = NoOne /\ script = <<>>
  /\ cleaned = {} /\ live = {}
  /\ reply = [r \in Requests |-> "none"]
  /\ asked = [t \in Timers |-> Never]
  /\ got = [i \in Ids |-> <<>>]
  /\ released = {} /\ lost = {} /\ nomem = {}

-----------------------------------------------------------------------------
(* enqueue_pending_callback and the queue_java_* functions *)

Callback(n, i, d) == [name |-> n, id |-> i, data |-> d]

(* Mutant: the newest callback is kept at the expense of the oldest. *)
Enqueue_DropsOldest(c) ==
  /\ queue' = IF Len(queue) < MaxQueue THEN Append(queue, c) ELSE Append(Tail(queue), c)
  /\ live' = IF c.data THEN live \cup {c.id} ELSE live
  /\ UNCHANGED <<lost, nomem>>

(* A full queue drops the callback, and its copy is freed. *)
Enqueue(c) ==
  /\ IF Len(queue) < MaxQueue
     THEN /\ queue' = Append(queue, c)
          /\ live' = IF c.data THEN live \cup {c.id} ELSE live
          /\ UNCHANGED lost
     ELSE lost' = lost \cup {c.id} /\ UNCHANGED <<queue, live>>
  /\ UNCHANGED nomem

(* The payload is copied first; without memory nothing is queued. *)
QueueCallback(c) ==
  \/ Enqueue(c)
  \/ /\ c.data /\ c.id \in MayRunOut
     /\ nomem' = nomem \cup {c.id}
     /\ UNCHANGED <<queue, live, lost>>

-----------------------------------------------------------------------------
(* The upcalls.  The main thread makes them from the draw and from inside a *)
(* callback.                                                                *)

InNative == pc \in {"draw", "native"}

(* schedule_java_timer, from any thread: the first free slot. *)
Schedule(t) ==
  /\ asked[t] = Never /\ now + Delay[t] <= MaxTime
  /\ asked' = [asked EXCEPT ![t] = now + Delay[t]]
  /\ LET free == {s \in 1..MaxTimers : slots[s] = NoOne} IN
     IF free # {}
     THEN /\ slots' = [slots EXCEPT ![CHOOSE s \in free : \A u \in free : s <= u] = t]
          /\ fires' = [fires EXCEPT ![t] = now + Delay[t]]
          /\ UNCHANGED lost
     ELSE lost' = lost \cup {t} /\ UNCHANGED <<slots, fires>>
  /\ UNCHANGED <<mainVars, queue, live, nomem, dueList, attempted, released,
                 httpVars, now, got>>

(* showConsent and the like, from any thread. *)
Prompt(p) ==
  /\ got[p] = <<>> /\ p \notin live \cup lost \cup nomem
  /\ QueueCallback(Callback("onShowConsentComplete", p, TRUE))
  /\ UNCHANGED <<mainVars, timerVars, httpVars, now, got>>

(* What http_complete queues for a request that ended so. *)
Script(r, how) ==
  CASE how = "data" -> <<Callback("HttpReceivedResponse", r, FALSE),
                         Callback("HttpReceivedData", r, TRUE),
                         Callback("HttpTransactionComplete", r, FALSE)>>
    [] how = "empty" -> <<Callback("HttpReceivedResponse", r, FALSE),
                          Callback("HttpTransactionComplete", r, FALSE)>>
    [] how = "error" -> <<Callback("HttpTransactionError", r, FALSE)>>
    [] how = "body" -> <<Callback("onHTTPResponse", r, TRUE)>>
    [] how = "nobody" -> <<Callback("onHTTPResponse", r, FALSE)>>
    [] how = "file" -> <<Callback("onDownloadResponse", r, TRUE)>>

(* A save-delta transaction is always reported as a transport failure.      *)
Endings(r) == IF r \in SaveDelta THEN {"error"}
              ELSE IF r \in Android THEN {"data", "empty", "error"}
              ELSE IF r \in Glu THEN {"body", "nobody"} ELSE {"file"}

(* How a request that could not start is reported. *)
Refusal(r) == IF r \in Android THEN "error" ELSE IF r \in Glu THEN "nobody" ELSE "file"

(* start_http_transaction, start_glu_http, start_glu_download.  A start     *)
(* fails when the table is full, and for want of memory, a URL or a handle. *)
Start(r) ==
  /\ InNative /\ reply[r] = "none" /\ r \notin table
  /\ \/ /\ Cardinality(table) < MaxRequests
        /\ table' = table \cup {r}
        /\ UNCHANGED <<queueVars, reply>>
     \/ /\ QueueCallback(Head(Script(r, Refusal(r))))
        /\ reply' = [reply EXCEPT ![r] = Refusal(r)]
        /\ UNCHANGED table
  /\ UNCHANGED <<mainVars, timerVars, completing, script, cleaned, now, got>>

Terminals == {"HttpTransactionComplete", "HttpTransactionError",
              "onHTTPResponse", "onDownloadResponse", "onTimerEvent"}
Terminated(i) == \E k \in DOMAIN got[i] : got[i][k] \in Terminals

(* Release and Cleanup, once the game has seen the end of the transaction;  *)
(* only the first of the two calls queues the callback.                     *)
ReleaseTransaction(r) ==
  /\ InNative /\ Terminated(r)
  /\ r \notin cleaned /\ cleaned' = cleaned \cup {r}
  /\ Enqueue(Callback("HttpTransactionCleanup", r, FALSE))
  /\ UNCHANGED <<mainVars, timerVars, table, completing, script, reply, now, got>>

-----------------------------------------------------------------------------
(* http_pump *)

Complete(r) ==
  /\ pc = "http" /\ completing = NoOne /\ r \in table
  /\ completing' = r
  /\ \E how \in Endings(r) : /\ reply' = [reply EXCEPT ![r] = how]
                             /\ script' = Script(r, how)
  /\ UNCHANGED <<mainVars, queueVars, timerVars, table, cleaned, now, got>>

QueueNext ==
  /\ pc = "http" /\ script # <<>>
  /\ QueueCallback(Head(script))
  /\ script' = Tail(script)
  /\ UNCHANGED <<mainVars, timerVars, table, completing, reply, cleaned, now, got>>

(* The request leaves the table and is freed. *)
Retire ==
  /\ pc = "http" /\ completing # NoOne /\ script = <<>>
  /\ table' = table \ {completing} /\ completing' = NoOne
  /\ UNCHANGED <<mainVars, queueVars, timerVars, script, reply, cleaned, now, got>>

HttpDone ==
  /\ pc = "http" /\ completing = NoOne
  /\ pc' = "draw"
  /\ UNCHANGED <<batch, queueVars, timerVars, httpVars, now, got>>

EndFrame ==
  /\ pc = "draw"
  /\ pc' = "http"
  /\ UNCHANGED <<batch, queueVars, timerVars, httpVars, now, got>>

(* Mutant: the selected timer is cleared instead of being made due. *)
ReleaseStartupWait_Clears ==
  /\ pc = "draw" /\ ~attempted
  /\ attempted' = TRUE
  /\ \E s \in 1..MaxTimers :
       /\ slots[s] \in StartupWaits /\ fires[slots[s]] > now
       /\ slots' = [slots EXCEPT ![s] = NoOne]
  /\ UNCHANGED <<mainVars, queueVars, fires, dueList, asked, released, httpVars, now, got>>

(* pvz2_release_startup_wait_timer: once, the earliest of the startup waits *)
(* still running becomes due.                                               *)
ReleaseStartupWait ==
  /\ pc = "draw" /\ ~attempted
  /\ attempted' = TRUE
  /\ LET waits == {s \in 1..MaxTimers :
                     slots[s] \in StartupWaits /\ fires[slots[s]] > now}
         first(s) == \A u \in waits : \/ fires[slots[s]] < fires[slots[u]]
                                      \/ fires[slots[s]] = fires[slots[u]] /\ s <= u
     IN IF waits = {} THEN UNCHANGED <<fires, released>>
        ELSE \E s \in waits : /\ first(s)
                              /\ fires' = [fires EXCEPT ![slots[s]] = now]
                              /\ released' = released \cup {slots[s]}
  /\ UNCHANGED <<mainVars, queueVars, slots, dueList, asked, httpVars, now, got>>

-----------------------------------------------------------------------------
(* process_events *)

Due(s) == slots[s] # NoOne /\ fires[slots[s]] <= now

(* Mutant: the copies are taken, the slots stay active. *)
CollectDue_KeepsSlots ==
  /\ pc = "draw"
  /\ dueList' = Selected(slots, {s \in 1..MaxTimers : Due(s)})
  /\ pc' = "due"
  /\ UNCHANGED <<batch, queueVars, slots, fires, attempted, asked, released,
                 httpVars, now, got>>

(* pump_java_timers: the due timers leave their slots, in slot order ...    *)
CollectDue ==
  /\ pc = "draw"
  /\ dueList' = Selected(slots, {s \in 1..MaxTimers : Due(s)})
  /\ slots' = [s \in 1..MaxTimers |-> IF Due(s) THEN NoOne ELSE slots[s]]
  /\ pc' = "due"
  /\ UNCHANGED <<batch, queueVars, fires, attempted, asked, released, httpVars, now, got>>

(* ... and are queued after the lock is given back. *)
QueueDue ==
  /\ pc = "due" /\ dueList # <<>>
  /\ Enqueue(Callback("onTimerEvent", Head(dueList), FALSE))
  /\ dueList' = Tail(dueList)
  /\ UNCHANGED <<mainVars, slots, fires, attempted, asked, released, httpVars, now, got>>

(* dispatch_java_callbacks: the whole queue is copied and emptied. *)
TakeBatch ==
  /\ pc = "due" /\ dueList = <<>>
  /\ batch' = queue /\ queue' = <<>>
  /\ pc' = "run"
  /\ UNCHANGED <<live, lost, nomem, timerVars, httpVars, now, got>>

FreePayload(c) == live' = IF c.data THEN live \ {c.id} ELSE live

CallNative ==
  /\ pc = "run" /\ batch # <<>> /\ Head(batch).name \notin Unregistered
  /\ got' = [got EXCEPT ![Head(batch).id] = Append(@, Head(batch).name)]
  /\ pc' = "native"
  /\ UNCHANGED <<batch, queueVars, timerVars, httpVars, now>>

NativeReturns ==
  /\ pc = "native"
  /\ FreePayload(Head(batch)) /\ batch' = Tail(batch)
  /\ pc' = "run"
  /\ UNCHANGED <<queue, lost, nomem, timerVars, httpVars, now, got>>

(* Mutant: the early continue forgets the payload. *)
SkipCallback_Leaks ==
  /\ pc = "run" /\ batch # <<>> /\ Head(batch).name \in Unregistered
  /\ batch' = Tail(batch)
  /\ lost' = lost \cup {Head(batch).id}
  /\ UNCHANGED <<pc, queue, live, nomem, timerVars, httpVars, now, got>>

(* The game registered no native of that name. *)
SkipCallback ==
  /\ pc = "run" /\ batch # <<>> /\ Head(batch).name \in Unregistered
  /\ FreePayload(Head(batch)) /\ batch' = Tail(batch)
  /\ lost' = lost \cup {Head(batch).id}
  /\ UNCHANGED <<pc, queue, nomem, timerVars, httpVars, now, got>>

DispatchDone ==
  /\ pc = "run" /\ batch = <<>>
  /\ pc' = "draw"
  /\ UNCHANGED <<batch, queueVars, timerVars, httpVars, now, got>>

Tick ==
  /\ now < MaxTime /\ now' = now + 1
  /\ UNCHANGED <<mainVars, queueVars, timerVars, httpVars, got>>

-----------------------------------------------------------------------------
Frame ==
  \/ \E r \in Requests : Complete(r)
  \/ QueueNext \/ Retire \/ HttpDone \/ EndFrame
  \/ ReleaseStartupWait \/ CollectDue \/ QueueDue \/ TakeBatch
  \/ CallNative \/ NativeReturns \/ SkipCallback \/ DispatchDone

Upcall ==
  \/ \E r \in Requests : Start(r)
  \/ \E r \in Android : ReleaseTransaction(r)
  \/ \E t \in Timers : Schedule(t)
  \/ \E p \in Prompts : Prompt(p)

Next == Frame \/ Upcall \/ Tick

Spec == Init /\ [][Next]_vars

(* The frame loop goes on, time passes, curl's timeouts end every request,  *)
(* and a draw keeps calling UI_ProcessEvents and returns.                   *)
Fairness ==
  /\ WF_vars(Frame) /\ WF_vars(Tick) /\ SF_vars(CollectDue) /\ SF_vars(EndFrame)
  /\ \A r \in Requests : SF_vars(Complete(r))

FairSpec == Spec /\ Fairness

-----------------------------------------------------------------------------
(* Properties *)

CallbackNames == Terminals \cup {"HttpReceivedResponse", "HttpReceivedData",
                                 "HttpTransactionCleanup", "onShowConsentComplete"}
Callbacks == [name : CallbackNames, id : Ids, data : BOOLEAN]
Hows == {"none", "data", "empty", "error", "body", "nobody", "file"}

(* Every variable stays in its domain, and the tables within their limits.  *)
TypeOK ==
  /\ pc \in {"http", "draw", "due", "run", "native"}
  /\ queue \in Seq(Callbacks) /\ Len(queue) <= MaxQueue
  /\ batch \in Seq(Callbacks) /\ Len(batch) <= MaxQueue
  /\ slots \in [1..MaxTimers -> Timers \cup {NoOne}]
  /\ fires \in [Timers -> 0..Never] /\ asked \in [Timers -> 0..Never]
  /\ dueList \in Seq(Timers) /\ attempted \in BOOLEAN /\ now \in 0..MaxTime
  /\ table \in SUBSET Requests /\ Cardinality(table) <= MaxRequests
  /\ completing \in table \cup {NoOne} /\ script \in Seq(Callbacks)
  /\ cleaned \in SUBSET Android /\ live \in SUBSET Ids
  /\ reply \in [Requests -> Hows]
  /\ released \in SUBSET Timers /\ lost \in SUBSET Ids /\ nomem \in SUBSET Ids

(* The order in which an Android transaction may hear of its end. *)
Stage(n) == CASE n = "HttpReceivedResponse" -> 1
              [] n = "HttpReceivedData" -> 2
              [] n \in Terminals -> 3
              [] n = "HttpTransactionCleanup" -> 4

Names(cs) == [k \in DOMAIN cs |-> cs[k].name]

(* A transaction hears response, data, completion and cleanup in that order *)
(* and each once, or one error and cleanup, whatever is dropped on the way; *)
(* and exactly that sequence when nothing is.                               *)
ScriptOrder ==
  \A r \in Android :
    /\ \A i, j \in DOMAIN got[r] : i < j => Stage(got[r][i]) < Stage(got[r][j])
    /\ got[r] # <<>> /\ r \notin lost \cup nomem =>
         IsPrefix(got[r], Names(Script(r, reply[r])) \o <<"HttpTransactionCleanup">>)

(* The copies of payloads on the heap are those of the callbacks that wait  *)
(* in the queue or in the batch, one each: none leaks, none is freed twice. *)
Waiting(i) == {k \in DOMAIN (queue \o batch) :
                 (queue \o batch)[k].id = i /\ (queue \o batch)[k].data}
PayloadsOwned ==
  \A i \in Ids : Cardinality(Waiting(i)) = IF i \in live THEN 1 ELSE 0

(* A scheduled event is in exactly one place: its slot, the copies taken    *)
(* out, the queue, the batch, the game's hands, or dropped by a full table. *)
Places(t) ==
  Cardinality({s \in 1..MaxTimers : slots[s] = t})
  + Cardinality({k \in DOMAIN dueList : dueList[k] = t})
  + Cardinality({k \in DOMAIN queue : queue[k].id = t})
  + Cardinality({k \in DOMAIN batch : batch[k].id = t /\ ~(k = 1 /\ pc = "native")})
  + Len(got[t])
  + (IF t \in lost THEN 1 ELSE 0)
TimersAccounted ==
  \A t \in Timers : Places(t) = IF asked[t] = Never THEN 0 ELSE 1

(* No event reaches the game before its delay has passed, except one        *)
(* startup wait that is released early.                                     *)
TimerNotEarly ==
  \E t \in StartupWaits \cup {NoOne} : \A u \in Timers \ {t} :
    got[u] # <<>> => now >= asked[u]

(* Every request the game starts is answered, unless a full queue or a      *)
(* failed copy swallowed the answer.                                        *)
Unanswerable(r) == r \in lost \/ r \in nomem \ Android
Answered ==
  \A r \in Requests :
    r \in table \/ reply[r] # "none" ~> Terminated(r) \/ Unanswerable(r)

(* Every scheduled event fires, unless a full table swallowed it. *)
TimersFire ==
  \A t \in Timers : asked[t] # Never ~> Terminated(t) \/ t \in lost

(* Every timer is in one place and fires no earlier than asked.             *)
TimersSound == TypeOK /\ TimersAccounted /\ TimerNotEarly

(* Nothing the game asked for is forgotten.                                 *)
Served == Answered /\ TimersFire

-----------------------------------------------------------------------------
(* The inductive invariant *)

(* The callback whose native runs is still in the batch. *)
Uncalled(k) == ~(k = 1 /\ pc = "native")

(* The main thread leaves no script, no copies and no batch behind. *)
Control ==
  /\ completing # NoOne => pc = "http"
  /\ script # <<>> => completing # NoOne
  /\ dueList # <<>> => pc = "due"
  /\ batch # <<>> => pc \in {"run", "native"}
  /\ pc = "native" => batch # <<>>

(* What may be said of a request that ended so. *)
Story(r) == {Script(r, reply[r])[k].name : k \in DOMAIN Script(r, reply[r])}

(* Nothing is said of a request before its end, no request still waits that *)
(* has ended, and an Android transaction hears what its end calls for.      *)
Fits(c) ==
  /\ c.id \in Timers => ~ c.data
  /\ c.id \in Requests => reply[c.id] # "none"
  /\ c.id \in Android => c.name \in Story(c.id) \cup {"HttpTransactionCleanup"}
  /\ c.id \in Android /\ c.name = "HttpTransactionCleanup" => c.id \in cleaned
Fitting ==
  /\ \A k \in DOMAIN queue : Fits(queue[k])
  /\ \A k \in DOMAIN batch : Fits(batch[k])
  /\ \A k \in DOMAIN script : Fits(script[k]) /\ script[k].id = completing
  /\ \A r \in Android : \A k \in DOMAIN got[r] :
       /\ reply[r] # "none" /\ got[r][k] \in Story(r) \cup {"HttpTransactionCleanup"}
       /\ got[r][k] = "HttpTransactionCleanup" => r \in cleaned
  /\ \A r \in Requests : reply[r] \in Endings(r) \cup {"none", Refusal(r)}
  /\ \A r \in table : reply[r] = "none" <=> r # completing

(* Along what a transaction has heard, the rest of the batch, the queue and *)
(* the script its stages rise.                                              *)
Rising(cs) ==
  \A j, k \in DOMAIN cs :
    j < k /\ cs[j].id = cs[k].id /\ cs[j].id \in Android => Stage(cs[j].name) < Stage(cs[k].name)
Precede(cs, ds) ==
  \A j \in DOMAIN cs, k \in DOMAIN ds :
    cs[j].id = ds[k].id /\ cs[j].id \in Android => Stage(cs[j].name) < Stage(ds[k].name)
Follows(c) ==
  c.id \in Android => \A k \in DOMAIN got[c.id] : Stage(got[c.id][k]) < Stage(c.name)
InOrder ==
  /\ \A r \in Android : \A j, k \in DOMAIN got[r] : j < k => Stage(got[r][j]) < Stage(got[r][k])
  /\ Rising(batch) /\ Rising(queue) /\ Rising(script)
  /\ Precede(batch, queue) /\ Precede(batch, script) /\ Precede(queue, script)
  /\ \A k \in DOMAIN batch : Uncalled(k) => Follows(batch[k])
  /\ \A k \in DOMAIN queue : Follows(queue[k])
  /\ \A k \in DOMAIN script : Follows(script[k])

(* Unless something was dropped, all of its story is there. *)
Said(r, n) ==
  \/ \E k \in DOMAIN got[r] : got[r][k] = n
  \/ \E k \in DOMAIN batch : Uncalled(k) /\ batch[k].id = r /\ batch[k].name = n
  \/ \E k \in DOMAIN queue : queue[k].id = r /\ queue[k].name = n
  \/ \E k \in DOMAIN script : script[k].id = r /\ script[k].name = n
AllSaid(r) == reply[r] # "none" => \A n \in Story(r) : Said(r, n)
Whole == \A r \in Android \ (lost \cup nomem) : AllSaid(r)

(* A callback with a payload owns it alone; the script's are not yet copied.*)
Alone(cs) ==
  \A j, k \in DOMAIN cs : cs[j].id = cs[k].id /\ cs[j].data /\ cs[k].data => j = k
Owned ==
  /\ Alone(queue) /\ Alone(batch) /\ Alone(script)
  /\ \A j \in DOMAIN queue, k \in DOMAIN batch :
       queue[j].data /\ batch[k].data => queue[j].id # batch[k].id
  /\ \A k \in DOMAIN queue : queue[k].data => queue[k].id \in live
  /\ \A k \in DOMAIN batch : batch[k].data => batch[k].id \in live
  /\ \A k \in DOMAIN script : script[k].data => script[k].id \notin live
  /\ \A i \in live : \/ \E k \in DOMAIN queue : queue[k].id = i /\ queue[k].data
                     \/ \E k \in DOMAIN batch : batch[k].id = i /\ batch[k].data

(* Where an event can be. *)
InSlot(t) == \E s \in 1 .. MaxTimers : slots[s] = t
InDue(t) == \E k \in DOMAIN dueList : dueList[k] = t
InQueue(t) == \E k \in DOMAIN queue : queue[k].id = t
InBatch(t) == \E k \in DOMAIN batch : Uncalled(k) /\ batch[k].id = t
Reached(t) == got[t] # <<>>

(* An event is in one place, there once, from when it was asked for.        *)
OnePlace(t) ==
  /\ \A s, u \in 1 .. MaxTimers : slots[s] = t /\ slots[u] = t => s = u
  /\ \A j, k \in DOMAIN dueList : dueList[j] = t /\ dueList[k] = t => j = k
  /\ \A j, k \in DOMAIN queue : queue[j].id = t /\ queue[k].id = t => j = k
  /\ \A j, k \in DOMAIN batch : batch[j].id = t /\ batch[k].id = t => j = k
  /\ Len(got[t]) <= 1
  /\ InSlot(t) => ~ (InDue(t) \/ InQueue(t) \/ InBatch(t) \/ Reached(t) \/ t \in lost)
  /\ InDue(t) => ~ (InQueue(t) \/ InBatch(t) \/ Reached(t) \/ t \in lost)
  /\ InQueue(t) => ~ (InBatch(t) \/ Reached(t) \/ t \in lost)
  /\ InBatch(t) => ~ (Reached(t) \/ t \in lost)
  /\ Reached(t) => t \notin lost
  /\ asked[t] = Never <=>
       ~ (InSlot(t) \/ InDue(t) \/ InQueue(t) \/ InBatch(t) \/ Reached(t) \/ t \in lost)

(* It is under way only from its time on, unless it is the one released.    *)
InTime(t) ==
  t \notin released =>
    /\ InSlot(t) => fires[t] = asked[t]
    /\ InDue(t) \/ InQueue(t) \/ InBatch(t) \/ Reached(t) => now >= asked[t]
OneReleased ==
  /\ released \subseteq StartupWaits /\ (~ attempted => released = {})
  /\ \A t, u \in released : t = u

IInv ==
  /\ TypeOK /\ got \in [Ids -> Seq(CallbackNames)] /\ IsFiniteSet(table)
  /\ Control /\ Fitting /\ InOrder /\ Whole /\ Owned /\ OneReleased
  /\ \A t \in Timers : OnePlace(t) /\ InTime(t)
=============================================================================
