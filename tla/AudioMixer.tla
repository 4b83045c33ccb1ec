------------------------------ MODULE AudioMixer ------------------------------
(***************************************************************************)
(* source/opensles.c: the OpenSL players and the AAudio stream that the    *)
(* game's sound engine feeds, and the one thread that mixes them into the  *)
(* buffers of the console's audio output.                                  *)
(*                                                                         *)
(* Every region under a player's lock is one step.  The engine's callbacks *)
(* run without a lock: between the snapshot of a callback and its return   *)
(* any other operation may happen, and what the callback itself does (it   *)
(* enqueues) is one of those operations.                                   *)
(***************************************************************************)
EXTENDS Naturals, Sequences, FiniteSets, Positions

CONSTANTS
  Players,      \* the players the engine may create
  Streams,      \* the AAudio streams it may open
  OutBufs,      \* g_out: the buffers of the audio output
  MaxPlayers,   \* MAX_PLAYERS
  Slots,        \* BQ_SLOTS; one slot of the ring stays empty
  Block,        \* OUT_FRAMES
  Sizes,        \* lengths, in frames, of the buffers the engine enqueues
  Step,         \* source frames per output frame
  MaxEnqueues,  \* bound on the buffers enqueued for a player
  NoOne

Buffers == [id : Nat, frames : Sizes]   \* a buffer and when it was enqueued

AudioConstants ==
  /\ MaxPlayers \in Nat \ {0} /\ Slots \in Nat \ {0, 1} /\ Block \in Nat \ {0}
  /\ Step \in Nat \ {0} /\ Sizes \subseteq Nat /\ MaxEnqueues \in Nat
  /\ Players \cap Streams = {}
  /\ NoOne \notin Players \cup Streams \cup OutBufs \cup Buffers

VARIABLES
  registry,                \* g_players: a player per slot
  life,                    \* in_use, and whether the handle was handed out
  playing, hasCb,
  q, cur, pos, index,      \* the ring, the buffer being drained, queue_index
  enq, base, done,         \* ghost: buffers accepted, those before the last clear, consumed since
  asked,                   \* ghost: the callback ran since the last enqueue
  late,                    \* ghost: callbacks that began after Destroy or close
  dev, worker, stop, over, \* g_dev, g_audio_thread_created, g_audio_thread_stop
  sink,                    \* where each output buffer is
  active, started, sstate, \* g_aaudio_active and the fields of the streams
  closed,                  \* ghost: streams the engine has closed
  mpc, list, need, snap, stopping \* the thread that mixes

playerVars == <<registry, life, playing, hasCb>>
queueVars == <<q, cur, pos, index, enq, base, done>>
streamVars == <<active, started, sstate, closed>>
deviceVars == <<dev, worker, stop, over>>
mixVars == <<mpc, list, need, snap, stopping>>
vars == <<playerVars, queueVars, asked, late, deviceVars, sink, streamVars, mixVars>>

Init ==
  /\ registry = [i \in 1..MaxPlayers |-> NoOne]
  /\ life = [p \in Players |-> "none"]
  /\ playing = [p \in Players |-> FALSE] /\ hasCb = [p \in Players |-> FALSE]
  /\ q = [p \in Players |-> <<>>] /\ cur = [p \in Players |-> NoOne]
  /\ pos = [p \in Players |-> 0] /\ index = [p \in Players |-> 0]
  /\ enq = [p \in Players |-> 0] /\ base = [p \in Players |-> 0]
  /\ done = [p \in Players |-> <<>>]
  /\ asked = [p \in Players |-> FALSE]
  /\ late = [x \in Players \cup Streams |-> 0]
  /\ dev = FALSE /\ worker = FALSE /\ stop = FALSE /\ over = FALSE
  /\ sink = [b \in OutBufs |-> "none"]
  /\ active = NoOne /\ started = [s \in Streams |-> FALSE]
  /\ sstate = [s \in Streams |-> "none"] /\ closed = {}
  /\ mpc = "idle" /\ list = <<>> /\ need = 0 /\ snap = NoOne /\ stopping = FALSE

Dry(p) == cur[p] = NoOne /\ q[p] = <<>>
Live(p) == life[p] = "live"

-----------------------------------------------------------------------------
(* The buffer queue, and play interfaces, called by any thread of   *)
(* the engine.  A destroyed handle stays allocated and may still be fed.    *)

(* A full ring refuses the buffer, and nothing changes. *)
Enqueue(p, n) ==
  /\ life[p] # "none" /\ enq[p] < MaxEnqueues /\ Len(q[p]) < Slots - 1
  /\ q' = [q EXCEPT ![p] = Append(@, [id |-> enq[p] + 1, frames |-> n])]
  /\ enq' = [enq EXCEPT ![p] = @ + 1]
  /\ asked' = [asked EXCEPT ![p] = FALSE]
  /\ UNCHANGED <<playerVars, cur, pos, index, base, done, late, deviceVars, sink, streamVars, mixVars>>

(* Mutant: Clear drops the buffer being drained and keeps the ring. *)
Clear_KeepsRing(p) ==
  /\ Live(p)
  /\ cur' = [cur EXCEPT ![p] = NoOne]
  /\ pos' = [pos EXCEPT ![p] = 0] /\ index' = [index EXCEPT ![p] = 0]
  /\ base' = [base EXCEPT ![p] = enq[p]] /\ done' = [done EXCEPT ![p] = <<>>]
  /\ UNCHANGED <<playerVars, q, enq, asked, late, deviceVars, sink, streamVars, mixVars>>

Clear(p) ==
  /\ Live(p)
  /\ q' = [q EXCEPT ![p] = <<>>] /\ cur' = [cur EXCEPT ![p] = NoOne]
  /\ pos' = [pos EXCEPT ![p] = 0] /\ index' = [index EXCEPT ![p] = 0]
  /\ base' = [base EXCEPT ![p] = enq[p]] /\ done' = [done EXCEPT ![p] = <<>>]
  /\ UNCHANGED <<playerVars, enq, asked, late, deviceVars, sink, streamVars, mixVars>>

(* What bq_GetState reports. *)
State(p) == [count |-> Len(q[p]) + (IF cur[p] = NoOne THEN 0 ELSE 1), index |-> index[p]]

(* A call that finds the player playing and dry runs the callback itself,   *)
(* once it has left the lock.                                               *)
Kick(p, nowPlaying, cb) ==
  asked' = IF nowPlaying /\ cb /\ Dry(p) THEN [asked EXCEPT ![p] = TRUE] ELSE asked

RegisterCallback(p, cb) ==
  /\ Live(p)
  /\ hasCb' = [hasCb EXCEPT ![p] = cb]
  /\ Kick(p, playing[p], cb)
  /\ UNCHANGED <<registry, life, playing, queueVars, late, deviceVars, sink,
                 streamVars, mixVars>>

SetPlayState(p, on) ==
  /\ Live(p)
  /\ playing' = [playing EXCEPT ![p] = on]
  /\ Kick(p, on, hasCb[p])
  /\ UNCHANGED <<registry, life, hasCb, queueVars, late, deviceVars, sink,
                 streamVars, mixVars>>

(* player_Destroy, under the registry lock and the player's: the handle is  *)
(* kept, for other threads may still enqueue.                               *)
Destroy(p) ==
  /\ Live(p)
  /\ life' = [life EXCEPT ![p] = "destroyed"]
  /\ registry' = [i \in 1..MaxPlayers |-> IF registry[i] = p THEN NoOne ELSE registry[i]]
  /\ playing' = [playing EXCEPT ![p] = FALSE] /\ hasCb' = [hasCb EXCEPT ![p] = FALSE]
  /\ q' = [q EXCEPT ![p] = <<>>] /\ cur' = [cur EXCEPT ![p] = NoOne]
  /\ UNCHANGED <<pos, index, enq, base, done, asked, late, deviceVars, sink,
                 streamVars, mixVars>>

-----------------------------------------------------------------------------
(* ensure_device and audio_worker_start: every failure leaves no device and *)
(* is retried by the next caller.  The results of the first appends are not *)
(* looked at.  Without a worker the frame loop services the output.         *)
EnsureDevice ==
  \/ UNCHANGED <<dev, worker, sink>>
  \/ /\ ~dev /\ dev' = TRUE
     /\ worker' \in BOOLEAN
     /\ sink' \in [OutBufs -> {"queued", "lost"}]

FreeSlots == {i \in 1..MaxPlayers : registry[i] = NoOne}

(* eng_CreateAudioPlayer: with every slot taken the player is freed again.  *)
CreateAudioPlayer(p) ==
  /\ life[p] = "none" /\ FreeSlots # {}
  /\ EnsureDevice
  /\ life' = [life EXCEPT ![p] = "live"]
  /\ registry' = [registry EXCEPT ![CHOOSE i \in FreeSlots : \A j \in FreeSlots : i <= j] = p]
  /\ UNCHANGED <<playing, hasCb, queueVars, asked, late, stop, over,
                 streamVars, mixVars>>

OpenStream(s) ==
  /\ sstate[s] = "none"
  /\ sstate' = [sstate EXCEPT ![s] = "OPEN"]
  /\ UNCHANGED <<playerVars, queueVars, asked, late, deviceVars, sink, active, started, closed, mixVars>>

(* AAudioStream_requestStart fails without a device.  The mixer reads the   *)
(* active stream first and it is stored last: the stores are one step.      *)
RequestStart(s) ==
  /\ sstate[s] # "none" /\ s \notin closed
  /\ EnsureDevice
  /\ IF dev'
     THEN /\ started' = [started EXCEPT ![s] = TRUE]
          /\ sstate' = [sstate EXCEPT ![s] = "STARTED"]
          /\ active' = s /\ UNCHANGED closed
     ELSE UNCHANGED streamVars
  /\ UNCHANGED <<playerVars, queueVars, asked, late, stop, over, mixVars>>

Close(s) ==
  /\ sstate[s] # "none" /\ s \notin closed /\ closed' = closed \cup {s}
  /\ started' = [started EXCEPT ![s] = FALSE]
  /\ active' = IF active = s THEN NoOne ELSE active
  /\ sstate' = [sstate EXCEPT ![s] = "CLOSED"]
  /\ UNCHANGED <<playerVars, queueVars, asked, late, deviceVars, sink, mixVars>>

-----------------------------------------------------------------------------
(* service_released_audio_once on the worker, or the loop of opensles_pump  *)
(* on the frame thread when the worker could not be created.                *)

Device(b) ==
  /\ dev /\ ~over /\ sink[b] = "queued"
  /\ sink' = [sink EXCEPT ![b] = "released"]
  /\ UNCHANGED <<playerVars, queueVars, asked, late, deviceVars, streamVars, mixVars>>

(* The frame loop's fallback mixes the players only. *)
Take(b) ==
  /\ mpc = "idle" /\ dev /\ ~over /\ (worker => ~stop) /\ sink[b] = "released"
  /\ sink' = [sink EXCEPT ![b] = "held"]
  /\ snap' = IF worker THEN active ELSE NoOne
  /\ mpc' = "check"
  /\ UNCHANGED <<playerVars, queueVars, asked, late, deviceVars, streamVars, list, need, stopping>>

(* fill_horizon_audio_buffer reads `started` after it read the stream. *)
CheckStarted ==
  /\ mpc = "check"
  /\ mpc' = IF snap # NoOne /\ started[snap] THEN "native" ELSE "snapshot"
  /\ UNCHANGED <<playerVars, queueVars, asked, late, deviceVars, sink, streamVars, list, need, snap,
                 stopping>>

(* The data callback, and its answer. *)
NativeCallback ==
  /\ mpc = "native"
  /\ late' = [late EXCEPT ![snap] = IF snap \in closed THEN @ + 1 ELSE @]
  /\ stopping' \in BOOLEAN
  /\ mpc' = "snapshot"
  /\ UNCHANGED <<playerVars, queueVars, asked, deviceVars, sink, streamVars, list, need, snap>>

(* The registry is copied under its lock and mixed without it. *)
Snapshot ==
  /\ mpc = "snapshot"
  /\ list' = Selected(registry, {i \in 1..MaxPlayers : registry[i] # NoOne})
  /\ need' = Block
  /\ mpc' = "mix"
  /\ UNCHANGED <<playerVars, queueVars, asked, late, deviceVars, sink, streamVars, snap, stopping>>

(* The callback is copied under the lock. *)
AfterUnlock(p) == IF hasCb[p] THEN "call" ELSE "back"

NextPlayer == list' = Tail(list) /\ need' = Block /\ mpc' = "mix"

(* The frames of output that `c` still gives from position x. *)
Left(c, x) == IF x >= c.frames THEN 0 ELSE (c.frames - x + Step - 1) \div Step

(* One turn of mix_player's loop, up to where it leaves the lock: the block *)
(* is full, the ring is empty, or a buffer was used up and its remainder is *)
(* carried over.  A buffer that ends with the block is dropped by the next. *)
Drain(p) ==
  /\ q' = [q EXCEPT ![p] = IF cur[p] = NoOne /\ @ # <<>> THEN Tail(@) ELSE @]
  /\ LET c == IF cur[p] # NoOne THEN cur[p] ELSE IF q[p] # <<>> THEN Head(q[p]) ELSE NoOne IN
     IF c = NoOne
     THEN NextPlayer /\ UNCHANGED <<cur, pos, index, done>>
     ELSE IF Left(c, pos[p]) >= need
     THEN /\ cur' = [cur EXCEPT ![p] = c] /\ pos' = [pos EXCEPT ![p] = @ + need * Step]
          /\ NextPlayer /\ UNCHANGED <<index, done>>
     ELSE /\ cur' = [cur EXCEPT ![p] = NoOne]
          /\ pos' = [pos EXCEPT ![p] = @ + Left(c, @) * Step - c.frames]
          /\ index' = [index EXCEPT ![p] = @ + 1]
          /\ done' = [done EXCEPT ![p] = Append(@, c.id)]
          /\ need' = need - Left(c, pos[p])
          /\ mpc' = AfterUnlock(p) /\ UNCHANGED list

(* Mutant: a dry player is passed over. *)
MixPlayer_NeverAsks ==
  /\ mpc \in {"mix", "back"} /\ list # <<>>
  /\ LET p == Head(list) IN
     IF ~playing[p]
     THEN NextPlayer /\ UNCHANGED <<q, cur, pos, index, done, snap>>
     ELSE Drain(p) /\ UNCHANGED snap
  /\ UNCHANGED <<playerVars, enq, base, asked, late, deviceVars, sink, streamVars, stopping>>

(* mix_player enters, or comes back from a callback: a player stopped       *)
(* meanwhile is left; a dry one is asked once, then rests silent.           *)
MixPlayer ==
  /\ mpc \in {"mix", "back"} /\ list # <<>>
  /\ LET p == Head(list) IN
     IF ~playing[p]
     THEN NextPlayer /\ UNCHANGED <<q, cur, pos, index, done>>
     ELSE IF mpc = "mix" /\ Dry(p)
     THEN mpc' = AfterUnlock(p) /\ UNCHANGED <<list, need, q, cur, pos, index, done>>
     ELSE Drain(p)
  /\ UNCHANGED <<playerVars, enq, base, asked, late, deviceVars, sink, streamVars, snap,
                 stopping>>

(* The copy is called without the lock. *)
Callback ==
  /\ mpc = "call"
  /\ LET p == Head(list) IN
     /\ asked' = [asked EXCEPT ![p] = TRUE]
     /\ late' = [late EXCEPT ![p] = IF life[p] = "destroyed" THEN @ + 1 ELSE @]
  /\ mpc' = "back"
  /\ UNCHANGED <<playerVars, queueVars, deviceVars, sink, streamVars, list, need, snap, stopping>>

(* The mixed buffer goes back to the output; a failed append loses it.  A   *)
(* callback that answered "stop" stops its stream, closed meanwhile or not. *)
Append_(b) ==
  /\ mpc = "mix" /\ list = <<>> /\ sink[b] = "held"
  /\ sink' \in {[sink EXCEPT ![b] = w] : w \in {"queued", "lost"}}
  /\ IF stopping
     THEN /\ started' = [started EXCEPT ![snap] = FALSE]
          /\ sstate' = [sstate EXCEPT ![snap] = "STOPPED"]
     ELSE UNCHANGED <<started, sstate>>
  /\ stopping' = FALSE /\ snap' = NoOne /\ mpc' = "idle"
  /\ UNCHANGED <<playerVars, queueVars, asked, late, deviceVars, active, closed, list, need>>

(* opensles_shutdown on the frame thread: the worker is told and joined,    *)
(* then the output goes.                                                    *)
RequestStop ==
  /\ dev /\ ~stop /\ mpc = (IF worker THEN mpc ELSE "idle")
  /\ stop' = TRUE
  /\ UNCHANGED <<playerVars, queueVars, asked, late, dev, worker, over, sink, streamVars, mixVars>>

Shutdown ==
  /\ stop /\ ~over /\ mpc = "idle"
  /\ over' = TRUE /\ dev' = FALSE /\ worker' = FALSE /\ active' = NoOne
  /\ sink' = [b \in OutBufs |-> "none"]
  /\ UNCHANGED <<playerVars, queueVars, asked, late, stop, started, sstate, closed, mixVars>>

Mixer == (\E b \in OutBufs : Take(b) \/ Append_(b)) \/ CheckStarted \/ NativeCallback
         \/ Snapshot \/ MixPlayer \/ Callback

PlayerCall(p) ==
  \/ \E n \in Sizes : Enqueue(p, n)
  \/ Clear(p) \/ Destroy(p) \/ CreateAudioPlayer(p)
  \/ \E on \in BOOLEAN : RegisterCallback(p, on) \/ SetPlayState(p, on)

EngineCall ==
  /\ ~over
  /\ \/ \E p \in Players : PlayerCall(p)
     \/ \E s \in Streams : OpenStream(s) \/ RequestStart(s) \/ Close(s)

Next == EngineCall \/ Mixer \/ (\E b \in OutBufs : Device(b)) \/ RequestStop \/ Shutdown

(* The worker polls for ever, or the frame loop calls the pump every frame; *)
(* the output plays what it holds and returns it in order.                  *)
Fairness ==
  /\ WF_vars(Mixer)
  /\ \A b \in OutBufs : SF_vars(Take(b)) /\ WF_vars(Device(b))

Spec == Init /\ [][Next]_vars /\ Fairness

-----------------------------------------------------------------------------
(* Properties *)

(* The buffers of p since the last clear: consumed, being drained, waiting. *)
Inside(p) == done[p] \o (IF cur[p] = NoOne THEN <<>> ELSE <<cur[p].id>>)
             \o [i \in 1..Len(q[p]) |-> q[p][i].id]

(* Between two clears every accepted buffer of a live player is consumed    *)
(* once, in the order it was enqueued, however enqueues, clears and the     *)
(* mixer interleave: what bq_GetState reports always adds up to what the    *)
(* engine gave it, and less than one step is carried over.                  *)
BuffersInOrder ==
  \A p \in Players : Live(p) =>
    /\ Inside(p) = [i \in 1..enq[p] - base[p] |-> base[p] + i]
    /\ State(p).index + State(p).count = enq[p] - base[p]
    /\ cur[p] = NoOne => pos[p] < Step

(* A destroyed player or a closed stream hears at most the one callback the *)
(* mixer had already decided on.                                            *)
OneLateCallback == \A x \in Players \cup Streams : late[x] <= 1

(* A buffer the output gave back is mixed and appended again, or its append *)
(* failed, whatever the engine does: the loop through its callbacks ends.   *)
SinkRefilled ==
  \A b \in OutBufs : sink[b] = "released" ~> (sink[b] \in {"queued", "lost"} \/ stop)

(* A playing player that runs dry is asked for more, as long as it has a    *)
(* callback and not every output buffer was lost to a failed append.        *)
DryIsAsked ==
  \A p \in Players :
    (Live(p) /\ playing[p] /\ hasCb[p] /\ Dry(p) /\ ~asked[p])
      ~> \/ asked[p] \/ stop \/ ~dev \/ ~playing[p] \/ ~hasCb[p] \/ ~Dry(p)
         \/ \A b \in OutBufs : sink[b] = "lost"

-----------------------------------------------------------------------------
(* The inductive invariant *)

TypeOK ==
  /\ registry \in [1..MaxPlayers -> Players \cup {NoOne}]
  /\ life \in [Players -> {"none", "live", "destroyed"}]
  /\ playing \in [Players -> BOOLEAN] /\ hasCb \in [Players -> BOOLEAN]
  /\ q \in [Players -> Seq(Buffers)] /\ cur \in [Players -> Buffers \cup {NoOne}]
  /\ pos \in [Players -> Nat] /\ index \in [Players -> Nat]
  /\ enq \in [Players -> Nat] /\ base \in [Players -> Nat] /\ done \in [Players -> Seq(Nat)]
  /\ late \in [Players \cup Streams -> Nat]
  /\ active \in Streams \cup {NoOne} /\ started \in [Streams -> BOOLEAN] /\ closed \subseteq Streams
  /\ snap \in Streams \cup {NoOne} /\ list \in Seq(Players) /\ need \in Nat

(* Consumed, being drained and waiting buffers follow one another, and what *)
(* was drained beyond the end of a buffer is less than one step.            *)
Draining(p) == IF cur[p] = NoOne THEN 0 ELSE 1
InSequence(p) ==
  /\ index[p] = Len(done[p])
  /\ base[p] + Len(done[p]) + Draining(p) + Len(q[p]) = enq[p]
  /\ \A i \in 1..Len(done[p]) : done[p][i] = base[p] + i
  /\ cur[p] # NoOne => cur[p].id = base[p] + Len(done[p]) + 1
  /\ \A i \in 1..Len(q[p]) : q[p][i].id = base[p] + Len(done[p]) + Draining(p) + i
  /\ pos[p] < Step + (IF cur[p] = NoOne THEN 0 ELSE cur[p].frames)
Numbered == \A p \in Players : life[p] # "destroyed" => InSequence(p)

(* Whoever is gone neither plays nor has a callback, and was not called     *)
(* before; nor was whoever the mixer has just decided to call.              *)
CalledWhileThere ==
  /\ \A p \in Players : life[p] = "destroyed" => ~playing[p] /\ ~hasCb[p]
  /\ \A s \in closed : ~started[s]
  /\ \A p \in Players : life[p] # "destroyed" => late[p] = 0
  /\ \A s \in Streams \ closed : late[s] = 0
  /\ mpc = "call" => list # <<>> /\ late[Head(list)] = 0
  /\ mpc = "native" => snap \in Streams /\ late[snap] = 0

IInv == TypeOK /\ Numbered /\ CalledWhileThere /\ OneLateCallback
=============================================================================
