---------------------------- MODULE DirectClient ----------------------------
(***************************************************************************)
(* The client as a caller of thread_checking_client is promised to see it: *)
(* every publish, subscribe_channel and unsubscribe takes effect on the    *)
(* wrapped secure_client at the moment the caller makes it, as a call on   *)
(* the io thread does.  A subscribe is taken as confirmed at once and an   *)
(* unsubscribe leaves the entry PendingUnsubscribe until the server's      *)
(* reply, as in ThreadCheckingClient; stop() ends with no subscription.    *)
(* ThreadCheckingClient implements this under the mapping given there.     *)
(***************************************************************************)
CONSTANTS Handles, Channels, NoSub, NoChannel

VARIABLES
    registry,   \* channel -> NoSub or [sub, status]
    phase,      \* "Stopped" or "Running"
    held,       \* the caller: the channel each handle is subscribed to
    used        \* handles the caller has subscribed

vars == <<registry, phase, held, used>>

Entry == [sub : Handles, status : {"Current", "PendingUnsubscribe"}]

Init ==
    /\ registry = [c \in Channels |-> NoSub]
    /\ phase = "Stopped"
    /\ held = [h \in Handles |-> NoChannel]
    /\ used = {}

Start ==
    /\ phase = "Stopped" /\ used = {}
    /\ phase' = "Running"
    /\ UNCHANGED <<registry, held, used>>

\* stop() and the aborted read it leads to: no subscription is left.
Stop ==
    /\ phase = "Running"
    /\ phase' = "Stopped"
    /\ registry' = [c \in Channels |-> NoSub]
    /\ UNCHANGED <<held, used>>

\* A handle subscribes a channel that has no entry.
Subscribe(c, h) ==
    /\ phase = "Running" /\ h \notin used /\ registry[c] = NoSub
    /\ registry' = [registry EXCEPT ![c] = [sub |-> h, status |-> "Current"]]
    /\ held' = [held EXCEPT ![h] = c]
    /\ used' = used \cup {h}
    /\ UNCHANGED phase

\* A handle unsubscribes: the entry it holds, and only that one, is marked.
Unsubscribe(h) ==
    /\ phase = "Running" /\ held[h] # NoChannel
    /\ registry[held[h]] = [sub |-> h, status |-> "Current"]
    /\ registry' = [registry EXCEPT ![held[h]].status = "PendingUnsubscribe"]
    /\ held' = [held EXCEPT ![h] = NoChannel]
    /\ UNCHANGED <<phase, used>>

\* The server confirms an unsubscribe: the entry goes.
Unsubscribed(c) ==
    /\ phase = "Running"
    /\ registry[c] # NoSub /\ registry[c].status = "PendingUnsubscribe"
    /\ registry' = [registry EXCEPT ![c] = NoSub]
    /\ UNCHANGED <<phase, held, used>>

Next ==
    \/ Start \/ Stop
    \/ \E c \in Channels, h \in Handles : Subscribe(c, h)
    \/ \E h \in Handles : Unsubscribe(h)
    \/ \E c \in Channels : Unsubscribed(c)

Spec == Init /\ [][Next]_vars

====
