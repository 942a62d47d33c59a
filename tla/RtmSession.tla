----------------------------- MODULE RtmSession -----------------------------
(***************************************************************************)
(* The transport session of the RTM client: class secure_client in         *)
(* src/src/rtm_client.cpp.  One instance owns one websocket connection,    *)
(* its subscription registry (std::map channel -> subscription_impl), the  *)
(* request-id counter, the read loop (ask_for_read) and the keepalive      *)
(* (arm_ping_timer).  Everything runs on one asio io_service thread, so    *)
(* each public call and each completion handler is one atomic step; the    *)
(* steps of the network (a read or ping completing, the timer expiring,    *)
(* the connection breaking) are separate steps, which is what lets a       *)
(* completion be queued before stop() and its handler run after it.       *)
(*                                                                         *)
(* The environment is a conforming RTM server that answers requests in     *)
(* order (one TCP stream each way) and a caller that keeps the contract    *)
(* chosen by the constant Discipline.                                      *)
(***************************************************************************)
EXTENDS Naturals, Sequences, FiniteSets, TLC

CONSTANTS
    Channels,       \* channel names (model values)
    Handles,        \* caller-owned subscription objects (model values)
    NoSub,          \* "no entry for this channel" in the registry
    NoId,           \* pending_request_id when none (UINT64_MAX in the code)
    NoChannel,      \* a handle the caller does not currently hold
    NoFrame,        \* read buffer holds no completed frame
    MaxRequestId,   \* bound on _request_id (caps subscribe/unsubscribe calls)
    MaxFaults,      \* bound on environment faults (broken link, bad frame,
                    \* subscription/error, failed start)
    MaxData,        \* bound on rtm/subscription/data frames the server sends
    MaxWire,        \* bound on requests buffered on the wire
    Discipline      \* "Contract": the caller keeps only the contract spec.md
                    \* states; "Registry": it also never subscribes a channel
                    \* that still has a registry entry and only unsubscribes
                    \* a confirmed subscription

ASSUME /\ MaxRequestId \in Nat /\ MaxFaults \in Nat /\ MaxData \in Nat
       /\ MaxWire \in Nat \ {0}
       /\ Discipline \in {"Contract", "Registry"}

VARIABLES
    client_state,   \* _client_state
    subscriptions,  \* _subscriptions: Channels -> subscription_impl or NoSub
    request_id,     \* _request_id
    conn,           \* the websocket: "Init" "Open" "Broken" "Closed" "Failed"
    read_op,        \* the async_read: "Idle" "Pending" or completed "Ok" "Err" "Aborted"
    read_frame,     \* the frame an "Ok" read completed with
    ping_timer,     \* _ping_timer: "Idle" "Armed" or completed "Fired" "Cancelled"
    ping_op,        \* the async_ping: "Idle" "Pending" "Ok" "Err" "Aborted"
    to_server,      \* requests written and not yet read by the server
    from_server,    \* frames the server sent and the client has not read
    server_subs,    \* channels the server has subscribed on this connection
    errors,         \* client_error values passed to _callbacks.on_error
    crash,          \* "none", "check_failed" (CHECK/ABORT) or "exception"
    held,           \* the caller's view: Handles -> channel it subscribed
    received,       \* on_data calls per handle
    faults,         \* environment faults used so far
    data_sent       \* data frames the server sent so far

vars == <<client_state, subscriptions, request_id, conn, read_op, read_frame,
          ping_timer, ping_op, to_server, from_server, server_subs, errors,
          crash, held, received, faults, data_sent>>

Status == {"PendingSubscribe", "Current", "PendingUnsubscribe"}

SubscriptionImpl ==
    [sub : Handles, status : Status, pending : (1..MaxRequestId) \cup {NoId}]

Request ==
    [action : {"rtm/subscribe", "rtm/unsubscribe"}, id : 1..MaxRequestId,
     channel : Channels]
    \cup [action : {"rtm/publish"}, id : {NoId}, channel : Channels]

Frame ==
    [action : {"rtm/subscribe/ok", "rtm/subscribe/error",
               "rtm/unsubscribe/ok", "rtm/unsubscribe/error"},
     id : 1..MaxRequestId, channel : Channels]
    \cup [action : {"rtm/subscription/data", "rtm/subscription/error",
                    "malformed"},
          id : {NoId}, channel : Channels]

ClientError == {"AsioError", "InvalidMessage", "SubscribeError",
                "UnsubscribeError", "SubscriptionError"}

TypeOK ==
    /\ client_state \in {"Stopped", "Running", "PendingStopped"}
    /\ subscriptions \in [Channels -> SubscriptionImpl \cup {NoSub}]
    /\ request_id \in 0..MaxRequestId
    /\ conn \in {"Init", "Open", "Broken", "Closed", "Failed"}
    /\ read_op \in {"Idle", "Pending", "Ok", "Err", "Aborted"}
    /\ read_frame \in Frame \cup {NoFrame}
    /\ ping_timer \in {"Idle", "Armed", "Fired", "Cancelled"}
    /\ ping_op \in {"Idle", "Pending", "Ok", "Err", "Aborted"}
    /\ to_server \in Seq(Request)
    /\ from_server \in Seq(Frame)
    /\ server_subs \subseteq Channels
    /\ errors \in Seq(ClientError)
    /\ crash \in {"none", "check_failed", "exception"}
    /\ held \in [Handles -> Channels \cup {NoChannel}]
    /\ received \in [Handles -> 0..MaxData]
    /\ faults \in 0..MaxFaults
    /\ data_sent \in 0..MaxData

-----------------------------------------------------------------------------
(* Helpers shared by the operations.                                       *)

\* _ws.write is the blocking, throwing overload: on a live link the request
\* reaches the wire; on a broken one it is lost or system_error is thrown,
\* which nothing in the repository catches.
write(req) ==
    \/ /\ conn = "Open"
       /\ to_server' = Append(to_server, req)
       /\ crash' = crash
    \/ /\ conn = "Broken"
       /\ to_server' = to_server
       /\ crash' \in {crash, "exception"}

\* CHECK(cond) inside an action: a failed check ends the process.
check(cond) == crash' = IF cond THEN crash ELSE "check_failed"

\* The registry entries whose pending_request_id is id (process_input scans
\* the std::map for the first such entry).
PendingOwner(id) ==
    {c \in Channels : subscriptions[c] # NoSub /\ subscriptions[c].pending = id}

\* The registry entries whose sub is the handle h (unsubscribe scans for
\* the first such entry by address).
HandleOwner(h) ==
    {c \in Channels : subscriptions[c] # NoSub /\ subscriptions[c].sub = h}

\* The caller's side of the contract.
CallerMaySubscribe(c, h) ==
    /\ held[h] = NoChannel
    /\ \A g \in Handles : held[g] # c
    /\ Discipline = "Registry" => subscriptions[c] = NoSub

CallerMayUnsubscribe(h) ==
    /\ held[h] # NoChannel
    /\ Discipline = "Registry" /\ client_state = "Running" =>
           \E c \in HandleOwner(h) : subscriptions[c].status = "Current"

-----------------------------------------------------------------------------
(* Public operations of secure_client.  Every step requires a live process *)
(* (Alive); a failed CHECK or an uncaught exception ends all behaviour.    *)

Alive == crash = "none"

Init ==
    /\ client_state = "Stopped"
    /\ subscriptions = [c \in Channels |-> NoSub]
    /\ request_id = 0
    /\ conn = "Init"
    /\ read_op = "Idle"
    /\ read_frame = NoFrame
    /\ ping_timer = "Idle"
    /\ ping_op = "Idle"
    /\ to_server = <<>>
    /\ from_server = <<>>
    /\ server_subs = {}
    /\ errors = <<>>
    /\ crash = "none"
    /\ held = [h \in Handles |-> NoChannel]
    /\ received = [h \in Handles |-> 0]
    /\ faults = 0
    /\ data_sent = 0

\* start(): resolve, connect, TLS handshake, websocket upgrade, arm the ping
\* timer, become Running and issue the first read.  A resolve, connect or
\* upgrade failure returns AsioError and leaves the session Stopped; the
\* TLS handshake uses the throwing overload.  A session is started once.
start ==
    \/ /\ Alive
       /\ client_state = "Stopped"
       /\ conn = "Init"
       /\ conn' = "Open"
       /\ ping_timer' = "Armed"
       /\ client_state' = "Running"
       /\ read_op' = "Pending"
       /\ UNCHANGED <<subscriptions, request_id, read_frame, ping_op, to_server,
                      from_server, server_subs, errors, crash, held, received,
                      faults, data_sent>>
    \/ /\ Alive
       /\ client_state = "Stopped"
       /\ conn = "Init"
       /\ faults < MaxFaults
       /\ faults' = faults + 1
       /\ conn' = "Failed"
       /\ crash' \in {"none", "exception"}
       /\ UNCHANGED <<client_state, subscriptions, request_id, read_op,
                      read_frame, ping_timer, ping_op, to_server, from_server,
                      server_subs, errors, held, received, data_sent>>

\* stop(): PendingStopped, cancel the ping timer, close the TCP socket.  A
\* pending read or ping completes with operation_aborted; a completion that
\* was already queued keeps its result.
stop ==
    /\ Alive
    /\ client_state = "Running"
    /\ client_state' = "PendingStopped"
    /\ ping_timer' = IF ping_timer = "Armed" THEN "Cancelled" ELSE ping_timer
    /\ conn' = "Closed"
    /\ read_op' = IF read_op = "Pending" THEN "Aborted" ELSE read_op
    /\ ping_op' = IF ping_op = "Pending" THEN "Aborted" ELSE ping_op
    /\ to_server' = <<>>
    /\ from_server' = <<>>
    /\ server_subs' = {}
    /\ UNCHANGED <<subscriptions, request_id, read_frame, errors, crash, held,
                   received, faults, data_sent>>

\* publish(): in PendingStopped it returns without effect (a stuttering
\* step); when Running it writes an rtm/publish request, which has no id
\* and gets no answer.
publish(c) ==
    /\ Alive
    /\ client_state = "Running"
    /\ Len(to_server) < MaxWire
    /\ write([action |-> "rtm/publish", id |-> NoId, channel |-> c])
    /\ UNCHANGED <<client_state, subscriptions, request_id, conn, read_op,
                   read_frame, ping_timer, ping_op, from_server, server_subs,
                   errors, held, received, faults, data_sent>>

\* Mutant: the entry records _request_id before it is incremented.
new_subscription_postinc(h) ==
    [sub |-> h, status |-> "PendingSubscribe", pending |-> request_id]

\* The entry subscribe_channel() emplaces: PendingSubscribe under the id
\* ++_request_id is about to take.
new_subscription(h) ==
    [sub |-> h, status |-> "PendingSubscribe", pending |-> request_id + 1]

\* subscribe_channel(): ignored in PendingStopped; otherwise emplace an
\* entry in PendingSubscribe under ++_request_id (std::map::emplace keeps
\* an existing entry for the channel) and write rtm/subscribe.
subscribe_channel(c, h) ==
    \/ /\ Alive
       /\ CallerMaySubscribe(c, h)
       /\ client_state = "PendingStopped"
       /\ held' = [held EXCEPT ![h] = c]
       /\ UNCHANGED <<client_state, subscriptions, request_id, conn, read_op,
                      read_frame, ping_timer, ping_op, to_server, from_server,
                      server_subs, errors, crash, received, faults, data_sent>>
    \/ /\ Alive
       /\ CallerMaySubscribe(c, h)
       /\ client_state = "Running"
       /\ request_id < MaxRequestId
       /\ Len(to_server) < MaxWire
       /\ held' = [held EXCEPT ![h] = c]
       /\ request_id' = request_id + 1
       /\ subscriptions' =
             IF subscriptions[c] = NoSub
             THEN [subscriptions EXCEPT ![c] = new_subscription(h)]
             ELSE subscriptions
       /\ write([action |-> "rtm/subscribe", id |-> request_id + 1,
                 channel |-> c])
       /\ UNCHANGED <<client_state, conn, read_op, read_frame, ping_timer,
                      ping_op, from_server, server_subs, errors, received,
                      faults, data_sent>>

\* Mutant: the new request id is not stored in the entry.
pending_unsubscribe_keeps_id(r, id) == [r EXCEPT !.status = "PendingUnsubscribe"]

\* unsubscribe() marks the entry it found.
pending_unsubscribe(r, id) ==
    [r EXCEPT !.pending = id, !.status = "PendingUnsubscribe"]

\* unsubscribe(): ignored in PendingStopped; otherwise find the entry whose
\* sub is h (ABORT if none), write rtm/unsubscribe under ++_request_id and
\* mark the entry PendingUnsubscribe with that id.
unsubscribe(h) ==
    \/ /\ Alive
       /\ CallerMayUnsubscribe(h)
       /\ client_state = "PendingStopped"
       /\ held' = [held EXCEPT ![h] = NoChannel]
       /\ UNCHANGED <<client_state, subscriptions, request_id, conn, read_op,
                      read_frame, ping_timer, ping_op, to_server, from_server,
                      server_subs, errors, crash, received, faults, data_sent>>
    \/ /\ Alive
       /\ CallerMayUnsubscribe(h)
       /\ client_state = "Running"
       /\ request_id < MaxRequestId
       /\ Len(to_server) < MaxWire
       /\ held' = [held EXCEPT ![h] = NoChannel]
       /\ IF HandleOwner(h) = {}
          THEN /\ crash' = "check_failed"
               /\ UNCHANGED <<subscriptions, request_id, to_server>>
          ELSE LET c == CHOOSE x \in HandleOwner(h) : TRUE IN
               /\ request_id' = request_id + 1
               /\ write([action |-> "rtm/unsubscribe", id |-> request_id + 1,
                         channel |-> c])
               /\ subscriptions' =
                     [subscriptions EXCEPT ![c] = pending_unsubscribe(@, request_id + 1)]
       /\ UNCHANGED <<client_state, conn, read_op, read_frame, ping_timer,
                      ping_op, from_server, server_subs, errors, received,
                      faults, data_sent>>

-----------------------------------------------------------------------------
(* Completion handlers, run one at a time by the io_service.               *)

on_error(e) == errors' = Append(errors, e)

\* The status a response finds its record in, and the error it reports.
ExpectedStatus ==
    [a \in {"rtm/subscribe/ok", "rtm/subscribe/error",
            "rtm/unsubscribe/ok", "rtm/unsubscribe/error"} |->
        IF a \in {"rtm/subscribe/ok", "rtm/subscribe/error"}
        THEN "PendingSubscribe" ELSE "PendingUnsubscribe"]

ReportedError ==
    ("rtm/subscribe/error" :> "SubscribeError")
        @@ ("rtm/unsubscribe/error" :> "UnsubscribeError")

\* process_input() on rtm/subscription/data: the record is found by channel
\* and must be confirmed; data for a record pending unsubscribe is dropped.
process_subscription_data(f) ==
    /\ f.action = "rtm/subscription/data"
    /\ check(/\ subscriptions[f.channel] # NoSub
             /\ subscriptions[f.channel].status # "PendingSubscribe")
    /\ received' =
          IF /\ subscriptions[f.channel] # NoSub
             /\ subscriptions[f.channel].status = "Current"
          THEN [received EXCEPT ![subscriptions[f.channel].sub] = @ + 1]
          ELSE received
    /\ UNCHANGED <<subscriptions, errors>>

\* Mutant: the id is reset to 0 instead of the UINT64_MAX sentinel.
confirmed_zero(r) == [r EXCEPT !.pending = 0, !.status = "Current"]

\* Mutant: the status is left PendingSubscribe.
confirmed_keeps_status(r) == [r EXCEPT !.pending = NoId]

\* rtm/subscribe/ok confirms the entry.
confirmed(r) == [r EXCEPT !.pending = NoId, !.status = "Current"]

\* process_input() on a response: find the record whose pending_request_id
\* is the response id (ABORT if none), CHECK its status, then confirm it
\* (subscribe/ok) or erase it, reporting the two error responses.
process_response(f) ==
    /\ f.action \in DOMAIN ExpectedStatus
    /\ LET owner == PendingOwner(f.id)
           c == CHOOSE x \in owner : TRUE
       IN /\ check(owner # {} /\ subscriptions[c].status = ExpectedStatus[f.action])
          /\ subscriptions' =
                IF owner = {} THEN subscriptions
                ELSE [subscriptions EXCEPT ![c] =
                        IF f.action = "rtm/subscribe/ok"
                        THEN confirmed(@)
                        ELSE NoSub]
          /\ errors' = IF f.action \in DOMAIN ReportedError
                       THEN Append(errors, ReportedError[f.action])
                       ELSE errors
    /\ UNCHANGED received

\* process_input() on rtm/subscription/error: reported, no record touched.
process_subscription_error(f) ==
    /\ f.action = "rtm/subscription/error"
    /\ on_error("SubscriptionError")
    /\ UNCHANGED <<subscriptions, crash, received>>

process_input(f) ==
    \/ process_subscription_data(f)
    \/ process_response(f)
    \/ process_subscription_error(f)

\* Mutant: the aborted read does not clear _subscriptions.
on_read_aborted_keeps_subs ==
    /\ Alive
    /\ read_op = "Aborted"
    /\ check(client_state = "PendingStopped")
    /\ client_state' = "Stopped"
    /\ read_op' = "Idle"
    /\ UNCHANGED <<subscriptions, request_id, conn, read_frame, ping_timer,
                   ping_op, to_server, from_server, server_subs, errors, held,
                   received, faults, data_sent>>

\* The async_read completion handler of ask_for_read(), one operator per
\* outcome.  operation_aborted ends the loop (CHECK PendingStopped) and
\* clears the registry.
on_read_aborted ==
    /\ Alive
    /\ read_op = "Aborted"
    /\ check(client_state = "PendingStopped")
    /\ client_state' = "Stopped"
    /\ subscriptions' = [c \in Channels |-> NoSub]
    /\ read_op' = "Idle"
    /\ UNCHANGED <<request_id, conn, read_frame, ping_timer, ping_op, to_server,
                   from_server, server_subs, errors, held, received, faults,
                   data_sent>>

\* A transport error is reported to the owner only while Running; in any
\* other state it is logged and ignored (read and ping handlers alike).
report_asio_error ==
    errors' = IF client_state = "Running" THEN Append(errors, "AsioError")
              ELSE errors

\* Another error is reported only while Running, and ends the loop.
on_read_error ==
    /\ Alive
    /\ read_op = "Err"
    /\ report_asio_error
    /\ read_op' = "Idle"
    /\ UNCHANGED <<client_state, subscriptions, request_id, conn, read_frame,
                   ping_timer, ping_op, to_server, from_server, server_subs,
                   crash, held, received, faults, data_sent>>

\* Mutant: a parse failure ends the loop without reporting it.
on_read_unparsable_silent ==
    /\ Alive
    /\ read_op = "Ok"
    /\ read_frame.action = "malformed"
    /\ read_op' = "Idle"
    /\ read_frame' = NoFrame
    /\ UNCHANGED <<client_state, subscriptions, request_id, conn, ping_timer,
                   ping_op, to_server, from_server, server_subs, crash, errors,
                   held, received, faults, data_sent>>

\* A frame that does not parse reports InvalidMessage and ends the loop.
on_read_unparsable ==
    /\ Alive
    /\ read_op = "Ok"
    /\ read_frame.action = "malformed"
    /\ on_error("InvalidMessage")
    /\ read_op' = "Idle"
    /\ read_frame' = NoFrame
    /\ UNCHANGED <<client_state, subscriptions, request_id, conn, ping_timer,
                   ping_op, to_server, from_server, server_subs, crash, held,
                   received, faults, data_sent>>

\* A frame is processed and the next read issued; on a closed or broken
\* socket that read fails at once with an error other than
\* operation_aborted.
on_read_frame ==
    /\ Alive
    /\ read_op = "Ok"
    /\ read_frame.action # "malformed"
    /\ process_input(read_frame)
    /\ read_op' = IF conn = "Open" THEN "Pending" ELSE "Err"
    /\ read_frame' = NoFrame
    /\ UNCHANGED <<client_state, request_id, conn, ping_timer, ping_op,
                   to_server, from_server, server_subs, held, faults, data_sent>>

async_read_handler ==
    \/ on_read_aborted
    \/ on_read_error
    \/ on_read_unparsable
    \/ on_read_frame

\* The _ping_timer handler of arm_ping_timer(): it ignores its error code,
\* so a cancelled timer pings too; async_ping on a closed or broken socket
\* fails at once.
timer_handler ==
    /\ Alive
    /\ ping_timer \in {"Fired", "Cancelled"}
    /\ ping_timer' = "Idle"
    /\ ping_op' = IF conn = "Open" THEN "Pending" ELSE "Err"
    /\ UNCHANGED <<client_state, subscriptions, request_id, conn, read_op,
                   read_frame, to_server, from_server, server_subs, errors,
                   crash, held, received, faults, data_sent>>

\* The async_ping handler: operation_aborted is ignored, another error is
\* reported while Running, success re-arms the timer.
ping_write_handler ==
    \/ /\ Alive
       /\ ping_op = "Aborted"
       /\ ping_op' = "Idle"
       /\ UNCHANGED <<client_state, subscriptions, request_id, conn, read_op,
                      read_frame, ping_timer, to_server, from_server,
                      server_subs, errors, crash, held, received, faults,
                      data_sent>>
    \/ /\ Alive
       /\ ping_op = "Err"
       /\ report_asio_error
       /\ ping_op' = "Idle"
       /\ UNCHANGED <<client_state, subscriptions, request_id, conn, read_op,
                      read_frame, ping_timer, to_server, from_server,
                      server_subs, crash, held, received, faults, data_sent>>
    \/ /\ Alive
       /\ ping_op = "Ok"
       /\ ping_timer' = "Armed"
       /\ ping_op' = "Idle"
       /\ UNCHANGED <<client_state, subscriptions, request_id, conn, read_op,
                      read_frame, to_server, from_server, server_subs, errors,
                      crash, held, received, faults, data_sent>>

-----------------------------------------------------------------------------
(* The network, the clock and a conforming RTM server.                     *)

\* A frame from the server completes the pending read.
ReadCompletes ==
    /\ Alive
    /\ read_op = "Pending"
    /\ conn = "Open"
    /\ from_server # <<>>
    /\ read_op' = "Ok"
    /\ read_frame' = Head(from_server)
    /\ from_server' = Tail(from_server)
    /\ UNCHANGED <<client_state, subscriptions, request_id, conn, ping_timer,
                   ping_op, to_server, server_subs, errors, crash, held,
                   received, faults, data_sent>>

\* WS_PING_INTERVAL elapses.
TimerExpires ==
    /\ Alive
    /\ ping_timer = "Armed"
    /\ ping_timer' = "Fired"
    /\ UNCHANGED <<client_state, subscriptions, request_id, conn, read_op,
                   read_frame, ping_op, to_server, from_server, server_subs,
                   errors, crash, held, received, faults, data_sent>>

\* The ping frame is written.
PingCompletes ==
    /\ Alive
    /\ ping_op = "Pending"
    /\ conn = "Open"
    /\ ping_op' = "Ok"
    /\ UNCHANGED <<client_state, subscriptions, request_id, conn, read_op,
                   read_frame, ping_timer, to_server, from_server, server_subs,
                   errors, crash, held, received, faults, data_sent>>

\* The server handles the oldest request and answers under its id.
ServerReads(r, a, subs) ==
    /\ Alive
    /\ conn = "Open"
    /\ to_server # <<>>
    /\ r = Head(to_server)
    /\ to_server' = Tail(to_server)
    /\ from_server' =
          IF a = "none" THEN from_server
          ELSE Append(from_server, [action |-> a, id |-> r.id, channel |-> r.channel])
    /\ server_subs' = subs
    /\ UNCHANGED <<client_state, subscriptions, request_id, conn, read_op,
                   read_frame, ping_timer, ping_op, errors, crash, held,
                   received, faults, data_sent>>

\* The oldest request on the wire is of the given kind.
NextRequestIs(kind) == to_server # <<>> /\ Head(to_server).action = kind

\* A subscribe is confirmed or refused; an unsubscribe is confirmed when the
\* channel is subscribed and refused otherwise; a publish gets no answer.
ServerReceives ==
    LET r == Head(to_server) IN
    \/ /\ NextRequestIs("rtm/subscribe")
       /\ ServerReads(r, "rtm/subscribe/ok", server_subs \cup {r.channel})
    \/ /\ NextRequestIs("rtm/subscribe")
       /\ ServerReads(r, "rtm/subscribe/error", server_subs)
    \/ /\ NextRequestIs("rtm/unsubscribe")
       /\ r.channel \in server_subs
       /\ ServerReads(r, "rtm/unsubscribe/ok", server_subs \ {r.channel})
    \/ /\ NextRequestIs("rtm/unsubscribe")
       /\ r.channel \notin server_subs
       /\ ServerReads(r, "rtm/unsubscribe/error", server_subs)
    \/ /\ NextRequestIs("rtm/publish")
       /\ ServerReads(r, "none", server_subs)

\* The server pushes a batch of messages for a channel it has subscribed.
ServerSendsData(c) ==
    /\ Alive
    /\ conn = "Open"
    /\ c \in server_subs
    /\ data_sent < MaxData
    /\ data_sent' = data_sent + 1
    /\ from_server' = Append(from_server,
                         [action |-> "rtm/subscription/data", id |-> NoId, channel |-> c])
    /\ UNCHANGED <<client_state, subscriptions, request_id, conn, read_op,
                   read_frame, ping_timer, ping_op, to_server, server_subs,
                   errors, crash, held, received, faults>>

\* Faults, each taken from the budget MaxFaults: the server drops a
\* subscription with rtm/subscription/error, a frame that does not parse
\* arrives, or the link breaks (both directions lose what is in flight and
\* the pending read and ping fail).
ServerDropsSubscription(c) ==
    /\ Alive
    /\ conn = "Open"
    /\ c \in server_subs
    /\ faults < MaxFaults
    /\ faults' = faults + 1
    /\ server_subs' = server_subs \ {c}
    /\ from_server' = Append(from_server,
                         [action |-> "rtm/subscription/error", id |-> NoId, channel |-> c])
    /\ UNCHANGED <<client_state, subscriptions, request_id, conn, read_op,
                   read_frame, ping_timer, ping_op, to_server, errors, crash,
                   held, received, data_sent>>

MalformedFrameArrives(c) ==
    /\ Alive
    /\ conn = "Open"
    /\ faults < MaxFaults
    /\ faults' = faults + 1
    /\ from_server' = Append(from_server,
                         [action |-> "malformed", id |-> NoId, channel |-> c])
    /\ UNCHANGED <<client_state, subscriptions, request_id, conn, read_op,
                   read_frame, ping_timer, ping_op, to_server, server_subs,
                   errors, crash, held, received, data_sent>>

LinkBreaks ==
    /\ Alive
    /\ conn = "Open"
    /\ faults < MaxFaults
    /\ faults' = faults + 1
    /\ conn' = "Broken"
    /\ read_op' = IF read_op = "Pending" THEN "Err" ELSE read_op
    /\ ping_op' = IF ping_op = "Pending" THEN "Err" ELSE ping_op
    /\ to_server' = <<>>
    /\ from_server' = <<>>
    /\ server_subs' = {}
    /\ UNCHANGED <<client_state, subscriptions, request_id, read_frame,
                   ping_timer, errors, crash, held, received, data_sent>>

-----------------------------------------------------------------------------

\* The caller's calls.
CallerStep ==
    \/ start
    \/ stop
    \/ \E c \in Channels : publish(c)
    \/ \E c \in Channels, h \in Handles : subscribe_channel(c, h)
    \/ \E h \in Handles : unsubscribe(h)

\* The io_service running a queued completion handler.
HandlerStep == async_read_handler \/ timer_handler \/ ping_write_handler

\* The network, the clock and the server.
EnvironmentStep ==
    \/ ReadCompletes
    \/ TimerExpires
    \/ PingCompletes
    \/ ServerReceives
    \/ \E c \in Channels : ServerSendsData(c)
    \/ \E c \in Channels : ServerDropsSubscription(c)
    \/ \E c \in Channels : MalformedFrameArrives(c)
    \/ LinkBreaks

Next == CallerStep \/ HandlerStep \/ EnvironmentStep

Spec == Init /\ [][Next]_vars

\* io_service::run() runs every queued handler; the network delivers what
\* a live link carries, the timer expires, and the server answers every
\* request.  The caller, the data pushes and the faults get no fairness.
Fairness ==
    /\ WF_vars(async_read_handler)
    /\ WF_vars(timer_handler)
    /\ WF_vars(ping_write_handler)
    /\ WF_vars(ReadCompletes)
    /\ WF_vars(TimerExpires)
    /\ WF_vars(PingCompletes)
    /\ WF_vars(ServerReceives)

FairSpec == Spec /\ Fairness

-----------------------------------------------------------------------------
(* Properties.                                                             *)

\* What is in transit on this connection, oldest first: requests the server
\* has not read, frames the client has not read, the frame a completed read
\* holds.
Transit ==
    to_server \o from_server
        \o (IF read_op = "Ok" THEN <<read_frame>> ELSE <<>>)

RequestActions ==
    [s \in {"PendingSubscribe", "PendingUnsubscribe"} |->
        IF s = "PendingSubscribe"
        THEN {"rtm/subscribe", "rtm/subscribe/ok", "rtm/subscribe/error"}
        ELSE {"rtm/unsubscribe", "rtm/unsubscribe/ok", "rtm/unsubscribe/error"}]

\* No CHECK or ABORT of secure_client fires: no response without a record
\* waiting for it, no record in the wrong status, no data for an
\* unconfirmed subscription, no unsubscribe of an unknown handle.
NoContractAbort == crash # "check_failed"

\* No exception escapes secure_client.  spec.md says a handshake failure
\* makes start() return TransportError and a write in flight when the
\* socket goes fails silently; the code uses the throwing overloads of the
\* TLS handshake and of _ws.write, and nothing in the repository catches
\* their system_error.
NoUncaughtException == crash # "exception"

\* While the connection is up, request ids correlate one to one: every
\* registry entry that waits for an answer has exactly one request or
\* response of its own kind in transit under its pending_request_id, and
\* every request or response in transit belongs to such an entry.  This is
\* what process_input's lookups by id rely on, across the caller's writes,
\* the server's answers and the read loop.
ResponsesCorrelate ==
    conn = "Open" =>
        /\ \A c \in Channels :
              subscriptions[c] # NoSub /\ subscriptions[c].pending # NoId =>
                 LET mine == {i \in DOMAIN Transit :
                                 Transit[i].id = subscriptions[c].pending}
                 IN /\ Cardinality(mine) = 1
                    /\ \A i \in mine :
                          Transit[i].action
                             \in RequestActions[subscriptions[c].status]
        /\ \A i \in DOMAIN Transit :
              Transit[i].id # NoId => PendingOwner(Transit[i].id) # {}

\* A Running session whose read loop has ended has told its owner why
\* (read error, unparsable frame): it never goes silently deaf.
HaltIsReported ==
    client_state = "Running" /\ read_op = "Idle" => errors # <<>>

\* Every subscribe is eventually settled in the registry (confirmed or
\* refused) unless the link goes down, the read loop ends on a reported
\* fatal error (see HaltIsReported), or the process dies.
SubscribeResolves ==
    \A c \in Channels :
        (subscriptions[c] # NoSub /\ subscriptions[c].status = "PendingSubscribe")
            ~> \/ subscriptions[c] = NoSub
               \/ subscriptions[c].status # "PendingSubscribe"
               \/ conn # "Open"
               \/ read_op = "Idle"
               \/ crash # "none"

\* stop() finishes: a session in PendingStopped eventually reaches Stopped
\* with its registry cleared (spec.md, "stop" and TESTABLE PROPERTIES).
StopCompletes ==
    client_state = "PendingStopped"
        ~> (client_state = "Stopped" \/ crash # "none")

\* on_data is only called for a handle the caller still holds: once the
\* caller has unsubscribed a handle its callbacks get no more data.
DataOnlyToHolder ==
    [][\A h \in Handles : received'[h] # received[h] => held[h] # NoChannel]_vars

\* The refinement mapping onto the abstract lifecycle: an entry without its
\* pending_request_id, and _client_state as the session's phase.
AbstractRegistry ==
    [c \in Channels |->
        IF subscriptions[c] = NoSub THEN NoSub
        ELSE [sub |-> subscriptions[c].sub, status |-> subscriptions[c].status]]

AbstractPhase ==
    CASE client_state = "Stopped" -> "Closed"
      [] client_state = "Running" -> "Open"
      [] OTHER -> "Closing"

Lifecycle == INSTANCE SubscriptionRegistry
                 WITH registry <- AbstractRegistry, phase <- AbstractPhase

\* secure_client implements the subscription lifecycle: every step of the
\* session, caller, handlers and server alike, is a lifecycle step or
\* leaves registry and phase unchanged.
LifecycleRefined == Lifecycle!Spec

=============================================================================
