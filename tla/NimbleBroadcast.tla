-------------------------- MODULE NimbleBroadcast --------------------------
(***************************************************************************)
(* Java broadcasts and worker-thread callbacks towards the game's native   *)
(* Nimble code (pvz2.c): a bounded queue of broadcasts of which the frame  *)
(* loop delivers one per frame to a snapshot of the matching receivers, a  *)
(* bounded queue of direct callbacks, and the network status held back     *)
(* until Nimble has been set up.                                           *)
(*                                                                         *)
(* Everything runs on the frame thread; the callbacks of a delivery may    *)
(* register, unregister and send, so these are enabled between the steps   *)
(* of a delivery too.                                                      *)
(***************************************************************************)
EXTENDS Naturals, Sequences, FiniteSets, SequencesExt, Positions

CONSTANTS
  Receivers,       \* objects the game registers as receivers
  Actions,         \* the names of the broadcasts
  NetworkChange,   \* the action nimble.notification.networkStatusChange
  MaxReceivers,    \* NIMBLE_RECEIVER_CAPACITY, 64 in the code
  QueueSize,       \* NIMBLE_BROADCAST_QUEUE_CAPACITY, 32 in the code
  DirectSize,      \* NIMBLE_DIRECT_CALLBACK_CAPACITY, 8 in the code
  MaxSends,        \* bound: calls that queue something
  Nobody           \* no action is being delivered

VARIABLES
  receivers,       \* nimble_receivers: registrations in order
  queue,           \* nimble_broadcast_queue
  direct,          \* nimble_direct_callback_queue
  pump,            \* where the pump is: "idle", "broadcasts", "delivering"
  action,          \* the broadcast that is being delivered
  matches,         \* receivers of the snapshot not called yet
  started,         \* nimble_java_setup_started
  netPending,      \* nimble_network_status_pending
  owed, got,       \* who was registered when the delivery began; who was called
  asked, answered, \* direct callbacks accepted and delivered
  full, sends      \* the network status met a full queue; calls so far

broadcastVars == <<receivers, queue, direct, pump, action, matches, started,
                   netPending, owed, got, asked, answered, full, sends>>

BroadcastConstants ==
  /\ MaxReceivers \in Nat /\ QueueSize \in Nat /\ DirectSize \in Nat /\ MaxSends \in Nat
  /\ NetworkChange \in Actions /\ Nobody \notin Actions

Init ==
  /\ receivers = <<>> /\ queue = <<>> /\ direct = <<>>
  /\ pump = "idle" /\ action = Nobody /\ matches = <<>>
  /\ started = FALSE /\ netPending = FALSE
  /\ owed = {} /\ got = <<>> /\ asked = <<>> /\ answered = <<>>
  /\ full = FALSE /\ sends = 0

delivery == <<pump, action, matches, owed, got>>
callbacks == <<direct, asked, answered>>

(* A broadcast is appended unless the queue is full, which drops it. *)
Queued(q, a) == IF Len(q) < QueueSize THEN Append(q, a) ELSE q

Call == sends < MaxSends /\ sends' = sends + 1

-----------------------------------------------------------------------------
(* What the game and its Java classes call *)

Register(r, a) ==
  /\ Call
  /\ receivers' = IF \/ \E i \in DOMAIN receivers : receivers[i] = [who |-> r, for |-> a]
                     \/ Len(receivers) >= MaxReceivers
                  THEN receivers
                  ELSE Append(receivers, [who |-> r, for |-> a])
  /\ UNCHANGED <<queue, started, netPending, full, delivery, callbacks>>

Unregister(r) ==
  /\ Call
  /\ receivers' = Selected(receivers, {i \in DOMAIN receivers : receivers[i].who # r})
  /\ UNCHANGED <<queue, started, netPending, full, delivery, callbacks>>

Send(a) ==
  /\ Call
  /\ queue' = Queued(queue, a)
  /\ UNCHANGED <<receivers, started, netPending, full, delivery, callbacks>>

(* The Play Integrity fallback; the error object may not be allocated. *)
RequestIntegrity(r) ==
  /\ Call
  /\ IF Len(direct) < DirectSize
       THEN /\ direct' = Append(direct, r)
            /\ asked' = Append(asked, r)
       ELSE UNCHANGED <<direct, asked>>
  /\ UNCHANGED <<receivers, queue, started, netPending, full, answered, delivery>>

(* The pending status goes out once Nimble is set up, and stays pending if *)
(* the queue has no room.                                                   *)
QueueStatus(pending) ==
  LET room == Len(queue) < QueueSize
  IN IF pending /\ started'
       THEN /\ queue' = Queued(queue, NetworkChange)
            /\ netPending' = ~ room
            /\ full' = (full \/ ~ room)
       ELSE netPending' = pending /\ UNCHANGED <<queue, full>>

StatusChanged ==
  /\ Call
  /\ UNCHANGED started
  /\ QueueStatus(TRUE)
  /\ UNCHANGED <<receivers, delivery, callbacks>>

(* setupNimble ends with the status that came before it. *)
Setup ==
  /\ ~ started /\ started' = TRUE
  /\ QueueStatus(netPending)
  /\ UNCHANGED <<receivers, sends, delivery, callbacks>>

-----------------------------------------------------------------------------
(* The pump, once per frame *)

PumpDirect ==
  /\ pump = "idle"
  /\ pump' = "broadcasts"
  /\ IF direct = <<>> THEN UNCHANGED <<direct, answered>>
     ELSE /\ direct' = Tail(direct)
          /\ answered' = Append(answered, Head(direct))
  /\ UNCHANGED <<receivers, queue, action, matches, started, netPending, owed, got, asked,
                 full, sends>>

Matching(a) == Selected(receivers, {i \in DOMAIN receivers : receivers[i].for = a})

(* The next broadcast is taken off the queue and its receivers noted; what *)
(* the shim itself does on its behalf may queue more first.                 *)
Begin(more) ==
  /\ pump = "broadcasts" /\ queue # <<>>
  /\ LET a == Head(queue)
         all == Matching(a)
     IN /\ queue' = FoldSeq(LAMBDA b, q : Queued(q, b), Tail(queue), more)
        /\ pump' = "delivering"
        /\ action' = a
        /\ matches' = all
        /\ owed' = {all[i].who : i \in DOMAIN all}
        /\ got' = <<>>
  /\ UNCHANGED <<receivers, started, netPending, full, sends, callbacks>>

NothingQueued ==
  /\ pump = "broadcasts" /\ queue = <<>>
  /\ pump' = "idle"
  /\ UNCHANGED <<receivers, queue, action, matches, started, netPending, owed, got, full,
                 sends, callbacks>>

(* The registry itself walked by position while the receivers change it. *)
Remaining_Live ==
  LET all == Matching(action)
  IN IF Len(got) + 1 > Len(all) THEN <<>> ELSE SubSeq(all, Len(got) + 1, Len(all))

Remaining == matches

(* One receiver's nativeCallback. *)
Deliver ==
  /\ pump = "delivering" /\ Remaining # <<>>
  /\ matches' = Tail(Remaining)
  /\ got' = Append(got, Head(Remaining).who)
  /\ UNCHANGED <<receivers, queue, pump, action, started, netPending, owed, full, sends,
                 callbacks>>

End ==
  /\ pump = "delivering" /\ Remaining = <<>>
  /\ pump' = "idle"
  /\ UNCHANGED <<receivers, queue, action, matches, started, netPending, owed, got, full,
                 sends, callbacks>>

Pump == PumpDirect \/ NothingQueued \/ Deliver \/ End

Game ==
  \/ StatusChanged \/ Setup
  \/ \E r \in Receivers : Unregister(r) \/ RequestIntegrity(r)
  \/ \E r \in Receivers, a \in Actions : Register(r, a)
  \/ \E a \in Actions : Send(a)

Next == Pump \/ Begin(<<>>) \/ Game

Spec == Init /\ [][Next]_broadcastVars

-----------------------------------------------------------------------------
(* Whoever was registered when the delivery began is called exactly once,  *)
(* whatever the callbacks do to the registry.                               *)
EachReceiverOnce ==
  /\ IsInjective(got)
  /\ Range(got) \subseteq owed
  /\ pump = "idle" => Range(got) = owed

(* A network change seen before Nimble was set up reaches the queue with   *)
(* the setup, unless the queue was full.                                    *)
StatusGoesOut == started /\ netPending => full

(* Direct callbacks come back in the order they were asked for. *)
DirectInOrder == asked = answered \o direct

-----------------------------------------------------------------------------
(* The inductive invariant *)

Registrations == [who : Receivers, for : Actions]

TypeOK ==
  /\ receivers \in Seq(Registrations) /\ matches \in Seq(Registrations)
  /\ direct \in Seq(Receivers) /\ asked \in Seq(Receivers) /\ answered \in Seq(Receivers)
  /\ got \in Seq(Receivers)
  /\ pump \in {"idle", "broadcasts", "delivering"}

(* Nobody is registered twice for an action. *)
RegisteredOnce == IsInjective(receivers)

(* Who is owed the broadcast has been called or is still to be called, and  *)
(* nobody twice; between deliveries nobody is left.                         *)
Accounted ==
  /\ owed = Range(got) \cup {matches[i].who : i \in DOMAIN matches}
  /\ IsInjective(got)
  /\ \A i, j \in DOMAIN matches : matches[i].who = matches[j].who => i = j
  /\ \A i \in DOMAIN got, j \in DOMAIN matches : got[i] # matches[j].who
  /\ pump # "delivering" => matches = <<>>

IInv ==
  /\ TypeOK /\ RegisteredOnce /\ Accounted /\ StatusGoesOut /\ DirectInOrder
=============================================================================
