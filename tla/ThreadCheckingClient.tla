------------------------ MODULE ThreadCheckingClient ------------------------
(***************************************************************************)
(* thread_checking_client (src/src/rtm_client.cpp 737-823): publish,      *)
(* subscribe_channel and unsubscribe made on the io thread go straight to  *)
(* the wrapped client; made on another thread they are posted to the       *)
(* io_service and return at once.  start and stop CHECK the io thread.     *)
(*                                                                         *)
(* The wrapped secure_client is reduced to its state and registry; a       *)
(* subscribe counts as confirmed when it runs (the unconfirmed window is   *)
(* RtmSession's), an unsubscribe marks the entry PendingUnsubscribe until  *)
(* the server's reply erases it.  stop() closes the socket; the aborted    *)
(* read it causes is a completion queued behind the closures posted before *)
(* it, so it is an entry of the same queue.                                *)
(* Data messages reach a Current entry's callbacks (received counts them). *)
(***************************************************************************)
EXTENDS Naturals, Sequences, SequencesExt, FiniteSets

CONSTANTS
    Handles,      \* subscription objects of the caller
    Channels,
    NoSub,        \* no registry entry for a channel
    NoChannel,    \* a handle that holds no channel
    Uses,         \* the (thread, handle, channel) the caller's code uses
    MaxQueue,     \* bound on closures waiting in the io_service
    MaxData       \* bound on the data messages each handle receives

Threads == {"io", "worker"}

ASSUME /\ Uses \subseteq [thread : Threads, sub : Handles, channel : Channels]
       /\ MaxQueue \in Nat
       /\ MaxData \in Nat

VARIABLES
    sess,        \* _client_state of the wrapped client
    queue,       \* closures posted to the io_service, in order
    registry,    \* its _subscriptions: channel -> [sub, status]
    held,        \* the caller: the channel each handle is subscribed to
    used,        \* handles the caller has subscribed (once each)
    crash,       \* a CHECK or ABORT fired
    received     \* the on_data callbacks each handle's callbacks have had

vars == <<sess, queue, registry, held, used, crash, received>>

Call == [op : {"subscribe", "unsubscribe"}, sub : Handles, channel : Channels]
        \cup [op : {"publish"}, channel : Channels]
ReadAborted == [op |-> "read_aborted"]
Entry == [sub : Handles, status : {"Current", "PendingUnsubscribe"}]

TypeOK ==
    /\ sess \in {"Stopped", "Running", "PendingStopped"}
    /\ queue \in Seq(Call \cup {ReadAborted})
    /\ registry \in [Channels -> Entry \cup {NoSub}]
    /\ held \in [Handles -> Channels \cup {NoChannel}]
    /\ used \subseteq Handles
    /\ crash \in BOOLEAN
    /\ received \in [Handles -> 0..MaxData]

check(cond) == crash' = (crash \/ ~cond)

-----------------------------------------------------------------------------
(* The wrapped secure_client.                                              *)

\* publish: ignored when PendingStopped, CHECK Running.
session_publish(c) ==
    /\ check(sess # "Stopped")
    /\ UNCHANGED <<sess, registry>>

\* subscribe_channel: ignored when PendingStopped, CHECK Running, emplace;
\* a channel whose entry still exists gets a reply that finds no entry.
session_subscribe(c, h) ==
    /\ check(sess # "Stopped" /\ (sess = "Running" => registry[c] = NoSub))
    /\ registry' = IF sess = "Running" /\ registry[c] = NoSub
                   THEN [registry EXCEPT ![c] = [sub |-> h, status |-> "Current"]]
                   ELSE registry
    /\ UNCHANGED sess

\* Mutant: the loop does not skip the entries of other handles.
session_unsubscribe_all(h) ==
    /\ check(sess # "Stopped")
    /\ registry' = IF sess = "Running"
                   THEN [c \in Channels |->
                           IF registry[c] # NoSub
                           THEN [registry[c] EXCEPT !.status = "PendingUnsubscribe"]
                           ELSE registry[c]]
                   ELSE registry
    /\ UNCHANGED sess

\* unsubscribe: ignored when PendingStopped, CHECK Running, ABORT unless an
\* entry has the handle.
session_unsubscribe(h) ==
    LET own == {c \in Channels : registry[c] # NoSub /\ registry[c].sub = h}
    IN  /\ check(sess # "Stopped" /\ (sess = "Running" => own # {}))
        /\ registry' = IF sess = "Running" /\ own # {}
                       THEN [c \in Channels |->
                               IF c = CHOOSE x \in own : TRUE
                               THEN [registry[c] EXCEPT !.status = "PendingUnsubscribe"]
                               ELSE registry[c]]
                       ELSE registry
        /\ UNCHANGED sess

\* The async_read handler with operation_aborted: CHECK PendingStopped,
\* Stopped, clear the subscriptions.
read_aborted ==
    /\ check(sess = "PendingStopped")
    /\ sess' = "Stopped"
    /\ registry' = [c \in Channels |-> NoSub]

\* What a closure or a direct call runs on the io thread.
Execute(call) ==
    CASE call.op = "publish"   -> session_publish(call.channel)
      [] call.op = "subscribe" -> session_subscribe(call.channel, call.sub)
      [] call.op = "unsubscribe" -> session_unsubscribe(call.sub)
      [] OTHER                 -> read_aborted

\* The three forwarding methods: on the io thread run the call now,
\* elsewhere _io.post it.
forward(t, call) ==
    \/ /\ t = "io"
       /\ Execute(call)
       /\ UNCHANGED queue
    \/ /\ t # "io" /\ Len(queue) < MaxQueue
       /\ queue' = Append(queue, call)
       /\ UNCHANGED <<sess, registry, crash, received>>

-----------------------------------------------------------------------------

Init ==
    /\ sess = "Stopped"
    /\ queue = <<>>
    /\ registry = [c \in Channels |-> NoSub]
    /\ held = [h \in Handles |-> NoChannel]
    /\ used = {}
    /\ crash = FALSE
    /\ received = [h \in Handles |-> 0]

Alive == ~crash

\* start() on the io thread, once: the wrapped start succeeds.  (A failed
\* start leaves every variable as it is.)
tc_start ==
    /\ Alive /\ sess = "Stopped" /\ used = {}
    /\ sess' = "Running"
    /\ UNCHANGED <<queue, registry, held, used, crash, received>>

\* stop() on the io thread: PendingStopped, and closing the socket queues
\* the aborted read.
tc_stop ==
    /\ Alive /\ sess = "Running"
    /\ sess' = "PendingStopped"
    /\ queue' = Append(queue, ReadAborted)
    /\ UNCHANGED <<registry, held, used, crash, received>>

\* The caller calls while the client runs, each handle once, from the
\* threads Uses allows.
tc_publish(t, c) ==
    /\ Alive /\ sess = "Running"
    /\ \E u \in Uses : u.thread = t /\ u.channel = c
    /\ forward(t, [op |-> "publish", channel |-> c])
    /\ UNCHANGED <<held, used, received>>

tc_subscribe(t, c, h) ==
    /\ Alive /\ sess = "Running"
    /\ [thread |-> t, sub |-> h, channel |-> c] \in Uses
    /\ h \notin used
    /\ forward(t, [op |-> "subscribe", sub |-> h, channel |-> c])
    /\ held' = [held EXCEPT ![h] = c]
    /\ used' = used \cup {h}
    /\ UNCHANGED received

tc_unsubscribe(t, h) ==
    /\ Alive /\ sess = "Running"
    /\ held[h] # NoChannel
    /\ [thread |-> t, sub |-> h, channel |-> held[h]] \in Uses
    /\ forward(t, [op |-> "unsubscribe", sub |-> h, channel |-> held[h]])
    /\ held' = [held EXCEPT ![h] = NoChannel]
    /\ UNCHANGED <<used, received>>

\* Mutant: the io_service is run by several threads, so any waiting
\* closure may run next.
run_posted_any ==
    /\ Alive /\ queue # <<>>
    /\ \E i \in 1..Len(queue) :
          /\ Execute(queue[i])
          /\ queue' = SubSeq(queue, 1, i - 1) \o SubSeq(queue, i + 1, Len(queue))
    /\ UNCHANGED <<held, used, received>>

\* The io thread runs the oldest posted closure or completion.
run_posted ==
    /\ Alive /\ queue # <<>>
    /\ Execute(Head(queue))
    /\ queue' = Tail(queue)
    /\ UNCHANGED <<held, used, received>>

\* rtm/unsubscribe/ok: the entry is erased.
unsubscribe_ok(c) ==
    /\ Alive /\ sess # "Stopped"
    /\ registry[c] # NoSub /\ registry[c].status = "PendingUnsubscribe"
    /\ registry' = [registry EXCEPT ![c] = NoSub]
    /\ UNCHANGED <<sess, queue, held, used, crash, received>>

\* Mutant: data for an entry PendingUnsubscribe is delivered as well.
subscription_data_pending(c) ==
    /\ Alive /\ sess # "Stopped" /\ registry[c] # NoSub
    /\ received[registry[c].sub] < MaxData
    /\ received' = [received EXCEPT ![registry[c].sub] = @ + 1]
    /\ UNCHANGED <<sess, queue, registry, held, used, crash>>

\* rtm/subscription/data, read before the aborted read has cleared the
\* registry: the read handler runs process_input in any state, so data read
\* before stop() is still processed in PendingStopped.  The server sends it
\* only for subscriptions it holds, so the entry exists; an entry
\* PendingUnsubscribe returns early, a Current one calls on_data on the
\* callbacks the caller gave subscribe_channel.
subscription_data(c) ==
    /\ Alive /\ sess # "Stopped" /\ registry[c] # NoSub
    /\ registry[c].status = "Current"
    /\ received[registry[c].sub] < MaxData
    /\ received' = [received EXCEPT ![registry[c].sub] = @ + 1]
    /\ UNCHANGED <<sess, queue, registry, held, used, crash>>

Next ==
    \/ tc_start
    \/ tc_stop
    \/ \E t \in Threads, c \in Channels : tc_publish(t, c)
    \/ \E t \in Threads, c \in Channels, h \in Handles : tc_subscribe(t, c, h)
    \/ \E t \in Threads, h \in Handles : tc_unsubscribe(t, h)
    \/ run_posted
    \/ \E c \in Channels : unsubscribe_ok(c)
    \/ \E c \in Channels : subscription_data(c)

Spec == Init /\ [][Next]_vars

-----------------------------------------------------------------------------
(* Properties.                                                             *)

\* No CHECK or ABORT of the wrapped client: in particular no unsubscribe
\* that runs before the subscribe it undoes, and no closure that runs after
\* the aborted read has stopped the client.
NoCheckFailure == ~crash

\* The registry a caller's calls leave once every waiting closure has run.
Drained(reg, q) ==
    LET apply(r, call) ==
          CASE call.op = "subscribe" ->
                 IF r[call.channel] = NoSub
                 THEN [r EXCEPT ![call.channel] = [sub |-> call.sub, status |-> "Current"]]
                 ELSE r
            [] call.op = "unsubscribe" ->
                 [c \in Channels |->
                    IF r[c] # NoSub /\ r[c].sub = call.sub
                    THEN [r[c] EXCEPT !.status = "PendingUnsubscribe"] ELSE r[c]]
            [] call.op = "publish" -> r
            [] OTHER -> [c \in Channels |-> NoSub]
    IN  FoldLeft(apply, reg, q)

\* The refinement mapping: the registry the wrapped client holds once every
\* waiting closure has run, and the client as Running or not.
Direct == INSTANCE DirectClient
              WITH registry <- Drained(registry, queue),
                   phase <- IF sess = "Running" THEN "Running" ELSE "Stopped"

\* thread_checking_client keeps the promise that a forwarded call acts as if
\* made on the io thread when the caller made it: every step, a call from
\* either thread, a posted closure running, the server's reply or stop(),
\* is a step of the direct client or leaves its registry unchanged.  In
\* particular a handle the caller holds is Current on its channel and an
\* unsubscribe marks that entry only.
DirectRefined == Direct!Spec

\* Once unsubscribe has returned to the caller, who may then release the
\* callbacks it passed, on_data still reaches them only while the posted
\* unsubscribe closure waits in the io_service, or once stop() has been
\* called: a closure run in PendingStopped returns early and leaves the
\* entry Current, and data read before the close is still processed.  While
\* the client runs, the closure marks the entry PendingUnsubscribe and
\* process_input drops the data.
LateDataOnlyWhileQueued ==
    [][\A h \in Handles :
          /\ received'[h] > received[h]
          /\ h \in used /\ held[h] = NoChannel
          => \/ \E i \in 1..Len(queue) :
                   queue[i].op = "unsubscribe" /\ queue[i].sub = h
             \/ sess = "PendingStopped"]_vars

====
