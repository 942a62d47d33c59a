--------------------------- MODULE ResilientClient ---------------------------
(***************************************************************************)
(* resilient_client (src/src/rtm_client.cpp 621-735) keeps the list of    *)
(* subscriptions made through it (_subscriptions) and, when the client it  *)
(* wraps reports an error, replaces that client by a new one from          *)
(* _factory, starts it and subscribes the list again.                      *)
(*                                                                         *)
(* The wrapped secure_client is reduced to what resilient_client depends   *)
(* on: its _client_state, its registry (a std::map from channel name to    *)
(* subscription handle, with the entries still PendingSubscribe in        *)
(* unacked) and whether asio handlers of it are still queued when it is    *)
(* destroyed.  The request/reply protocol is RtmSession's: here an         *)
(* unsubscribe takes effect at once, and a subscribe whose reply will find *)
(* no entry (RtmSession, session_contract_abort) is taken to ABORT.        *)
(***************************************************************************)
EXTENDS Naturals, Sequences, SequencesExt, FiniteSets, TLC

CONSTANTS
    Handles,        \* subscription objects of the caller, compared by address
    Channels,       \* channel names, as positive numbers ordered like the names
    NoSub,          \* no registry entry for a channel
    NoChannel,      \* a handle that holds no channel
    MaxGen,         \* bound on the clients _factory makes
    MaxFaults,      \* bound on link failures and failed starts
    MaxReplay       \* bound on the length of _subscriptions (it never shrinks)

ASSUME /\ Channels \subseteq Nat \ {0}
       /\ MaxGen \in Nat /\ MaxFaults \in Nat /\ MaxReplay \in Nat

\* The empty std::string, which sorts before every other name: the channel a
\* moved-from subscription_info is left with.
Empty == 0
ChannelNames == {Empty} \cup Channels

VARIABLES
    client,        \* generation of the secure_client _client owns; 0 = null
    started,       \* _started
    replay,        \* _subscriptions: Seq of subscription_info
    sess,          \* _client_state of *_client
    registry,      \* _subscriptions of *_client: channel name -> handle
    unacked,       \* its entries still PendingSubscribe
    outstanding,   \* destroyed clients whose read or timer handlers are queued
    freed_access,  \* a handler has run on a destroyed secure_client
    crash,         \* "none", "check_failed" (CHECK/ABORT) or "app_abort"
    held,          \* the caller: the channel each handle is subscribed to
    faults

vars == <<client, started, replay, sess, registry, unacked, outstanding,
          freed_access, crash, held, faults>>

SubscriptionInfo == [channel : ChannelNames, sub : Handles]

TypeOK ==
    /\ client \in 0..MaxGen
    /\ started \in BOOLEAN
    /\ replay \in Seq(SubscriptionInfo)
    /\ sess \in {"Stopped", "Running", "PendingStopped"}
    /\ registry \in [ChannelNames -> Handles \cup {NoSub}]
    /\ unacked \subseteq ChannelNames
    /\ outstanding \subseteq 1..MaxGen
    /\ freed_access \in BOOLEAN
    /\ crash \in {"none", "check_failed", "app_abort"}
    /\ held \in [Handles -> Channels \cup {NoChannel}]
    /\ faults \in 0..MaxFaults

-----------------------------------------------------------------------------
(* std::remove_if over _subscriptions, as resilient_client::unsubscribe     *)
(* calls it: the returned end is discarded, nothing is erased.              *)

\* Mutant: the move also clears the subscription pointer.
MovedFrom_null(e) == [e EXCEPT !.channel = Empty, !.sub = NoSub]

\* Move-assigning a subscription_info copies its pointers and leaves the
\* source string empty (libstdc++ clears a moved-from string).
MovedFrom(e) == [e EXCEPT !.channel = Empty]

RECURSIVE compact(_, _, _, _)

\* The loop after find_if: every element i to keep is moved to position
\* first, which then advances.
compact(s, h, first, i) ==
    IF i > Len(s) THEN s
    ELSE IF s[i].sub = h THEN compact(s, h, first, i + 1)
    ELSE compact([s EXCEPT ![first] = s[i], ![i] = MovedFrom(s[i])],
                 h, first + 1, i + 1)

remove_if(s, h) ==
    LET first == SelectInSeq(s, LAMBDA e : e.sub = h)
    IN  IF first = 0 THEN s ELSE compact(s, h, first, first + 1)

-----------------------------------------------------------------------------
(* The wrapped secure_client, as resilient_client sees it.                  *)

EmptyRegistry == [c \in ChannelNames |-> NoSub]

Alive == crash = "none"

check(cond) == crash' = IF cond THEN crash ELSE "check_failed"

\* The registry entry unsubscribe() finds: the first in key order whose sub
\* is the handle.
FirstOf(h) ==
    LET cs == {c \in ChannelNames : registry[c] = h}
    IN  IF cs = {} THEN NoChannel ELSE Min(cs)

\* Mutant: the restore loop subscribes nothing.
Replayed_none(r) == EmptyRegistry

\* The registry of a new client after restart() has called
\* subscribe_channel for every entry of r in order: emplace keeps the first.
Replayed(r) ==
    [c \in ChannelNames |->
        LET i == SelectInSeq(r, LAMBDA e : e.channel = c)
        IN  IF i = 0 THEN NoSub ELSE r[i].sub]

\* Two entries for one channel: the second subscribe's reply finds no entry.
DuplicateFree(r) ==
    \A i, j \in DOMAIN r : i # j => r[i].channel # r[j].channel

\* secure_client::subscribe_channel: ignored when PendingStopped, CHECK
\* Running, emplace.
session_subscribe(c, h) ==
    /\ check(sess # "Stopped" /\ (sess = "Running" => registry[c] = NoSub))
    /\ registry' = IF sess = "Running" /\ registry[c] = NoSub
                   THEN [registry EXCEPT ![c] = h] ELSE registry
    /\ unacked' = IF sess = "Running" THEN unacked \cup {c} ELSE unacked

\* secure_client::unsubscribe: ignored when PendingStopped, CHECK Running,
\* ABORT when no entry has the handle.
session_unsubscribe(h) ==
    /\ check(sess # "Stopped" /\ (sess = "Running" => FirstOf(h) # NoChannel))
    /\ registry' = IF sess = "Running" /\ FirstOf(h) # NoChannel
                   THEN [registry EXCEPT ![FirstOf(h)] = NoSub] ELSE registry
    /\ UNCHANGED unacked

-----------------------------------------------------------------------------
(* resilient_client.                                                       *)

Init ==
    /\ client = 0
    /\ started = FALSE
    /\ replay = <<>>
    /\ sess = "Stopped"
    /\ registry = EmptyRegistry
    /\ unacked = {}
    /\ outstanding = {}
    /\ freed_access = FALSE
    /\ crash = "none"
    /\ held = [h \in Handles |-> NoChannel]
    /\ faults = 0

\* restart(): _client = _factory(*this) destroys the old client (its queued
\* read and timer handlers still run later); a new client is started only
\* if _started, and then every entry of _subscriptions is subscribed again.
\* A failed start goes to _error_callbacks, which bot_environment::on_error
\* turns into an ABORT.  left: the handlers of older clients still queued.
restart(left) ==
    /\ client < MaxGen
    /\ client' = client + 1
    /\ outstanding' = IF sess \in {"Running", "PendingStopped"}
                      THEN left \cup {client} ELSE left
    /\ \/ /\ ~started
          /\ sess' = "Stopped"
          /\ registry' = EmptyRegistry
          /\ unacked' = {}
          /\ crash' = crash
       \/ /\ started
          /\ sess' = "Running"
          /\ registry' = Replayed(replay)
          /\ unacked' = {replay[i].channel : i \in DOMAIN replay}
          /\ check(DuplicateFree(replay))
       \/ /\ started
          /\ sess' = "Stopped"
          /\ registry' = EmptyRegistry
          /\ unacked' = {}
          /\ crash' = "app_abort"

\* start(): the first call makes the client; a failed start is an ABORT in
\* bot_environment.
rc_start ==
    /\ Alive
    /\ client = 0
    /\ client' = 1
    /\ started' = TRUE
    /\ \/ /\ sess' = "Running"
          /\ UNCHANGED <<crash, faults>>
       \/ /\ faults < MaxFaults
          /\ faults' = faults + 1
          /\ crash' = "app_abort"
          /\ UNCHANGED sess
    /\ UNCHANGED <<replay, registry, unacked, outstanding, freed_access, held>>

\* stop(): _started = false, then secure_client::stop (CHECK Running).
rc_stop ==
    /\ Alive
    /\ started
    /\ started' = FALSE
    /\ check(sess = "Running")
    /\ sess' = IF sess = "Running" THEN "PendingStopped" ELSE sess
    /\ UNCHANGED <<client, replay, registry, unacked, outstanding,
                   freed_access, held, faults>>

\* publish(): forwarded; secure_client::publish CHECKs Running unless
\* PendingStopped.
rc_publish ==
    /\ Alive
    /\ started
    /\ check(sess # "Stopped")
    /\ UNCHANGED <<client, started, replay, sess, registry, unacked,
                   outstanding, freed_access, held, faults>>

\* subscribe_channel(): push_back on _subscriptions, then forward.  The
\* caller subscribes a free handle to a channel no handle holds.
rc_subscribe(c, h) ==
    /\ Alive
    /\ started
    /\ held[h] = NoChannel
    /\ \A g \in Handles : held[g] # c
    /\ Len(replay) < MaxReplay
    /\ held' = [held EXCEPT ![h] = c]
    /\ replay' = Append(replay, [channel |-> c, sub |-> h])
    /\ session_subscribe(c, h)
    /\ UNCHANGED <<client, started, sess, outstanding, freed_access, faults>>

\* unsubscribe(): forward, then std::remove_if on _subscriptions.  The
\* caller unsubscribes a handle whose subscribe it has seen confirmed.
rc_unsubscribe(h) ==
    /\ Alive
    /\ started
    /\ held[h] # NoChannel
    /\ held[h] \notin unacked
    /\ held' = [held EXCEPT ![h] = NoChannel]
    /\ session_unsubscribe(h)
    /\ replay' = remove_if(replay, h)
    /\ UNCHANGED <<client, started, sess, outstanding, freed_access, faults>>

-----------------------------------------------------------------------------
(* Handlers of the current client that reach resilient_client::on_error,   *)
(* which calls restart() from inside them.                                 *)

\* The read handler of a Running client fails: on_error(AsioError), then the
\* handler returns.
LinkFails ==
    /\ Alive
    /\ sess = "Running"
    /\ faults < MaxFaults
    /\ faults' = faults + 1
    /\ restart(outstanding)
    /\ UNCHANGED <<started, replay, freed_access, held>>

\* The server refuses a subscribe (the empty channel name always, any other
\* at its discretion): process_input calls on_error(SubscribeError), which restarts, and
\* then erases the entry of the client restart has just destroyed.
SubscribeRefused(c) ==
    /\ Alive
    /\ sess = "Running"
    /\ c \in unacked
    /\ restart(outstanding)
    /\ freed_access' = TRUE
    /\ UNCHANGED <<started, replay, held, faults>>

\* The server confirms a subscribe.
SubscribeConfirmed(c) ==
    /\ Alive
    /\ sess = "Running"
    /\ c \in unacked
    /\ unacked' = unacked \ {c}
    /\ UNCHANGED <<client, started, replay, sess, registry, outstanding,
                   freed_access, crash, held, faults>>

\* After stop(), the read handler sees operation_aborted: Stopped, registry
\* cleared.
ReadAborted ==
    /\ Alive
    /\ sess = "PendingStopped"
    /\ sess' = "Stopped"
    /\ registry' = EmptyRegistry
    /\ unacked' = {}
    /\ UNCHANGED <<client, started, replay, outstanding, freed_access, crash,
                   held, faults>>

\* A read or timer handler of a destroyed client runs with a dangling this.
\* What it reads of _client_state is undefined: it may find Running and call
\* on_error, restarting again.
StaleHandlerRuns(g) ==
    /\ Alive
    /\ g \in outstanding
    /\ freed_access' = TRUE
    /\ \/ /\ outstanding' = outstanding \ {g}
          /\ UNCHANGED <<client, sess, registry, unacked, crash>>
       \/ restart(outstanding \ {g})
    /\ UNCHANGED <<started, replay, held, faults>>

-----------------------------------------------------------------------------

CallerStep ==
    \/ rc_start
    \/ rc_stop
    \/ rc_publish
    \/ \E c \in Channels, h \in Handles : rc_subscribe(c, h)
    \/ \E h \in Handles : rc_unsubscribe(h)

HandlerStep ==
    \/ LinkFails
    \/ \E c \in ChannelNames : SubscribeRefused(c)
    \/ \E c \in ChannelNames : SubscribeConfirmed(c)
    \/ ReadAborted
    \/ \E g \in 1..MaxGen : StaleHandlerRuns(g)

Next == CallerStep \/ HandlerStep

Spec == Init /\ [][Next]_vars

-----------------------------------------------------------------------------
(* Properties.                                                             *)

\* The channel each handle the caller holds is subscribed to.
HeldRegistry ==
    [c \in ChannelNames |->
        IF \E h \in Handles : held[h] = c
        THEN CHOOSE h \in Handles : held[h] = c ELSE NoSub]

\* What resilient_client promises across restarts: while it is started and
\* its client Running, that client's registry is exactly what the caller
\* holds, no released subscription restored and no held one lost.
RegistryMatchesHeld ==
    Alive /\ started /\ sess = "Running" => registry = HeldRegistry

\* The weaker half of that promise: a restart never loses a subscription
\* the caller holds.
HeldKept ==
    Alive /\ started /\ sess = "Running" =>
        \A h \in Handles : held[h] # NoChannel => registry[held[h]] = h

\* No handler ever runs on a secure_client that restart() has destroyed.
NoFreedAccess == ~freed_access

====
