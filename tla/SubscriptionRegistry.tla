------------------------ MODULE SubscriptionRegistry ------------------------
(***************************************************************************)
(* The subscription lifecycle a session promises, per channel: a subscribe *)
(* is pending until the server confirms or refuses it, only a confirmed    *)
(* subscription is unsubscribed, an unsubscribe is pending until the       *)
(* server answers, and a session that stops ends with no subscription.     *)
(* Request ids, the wire and the handlers are left out; RtmSession         *)
(* implements this under the refinement mapping given there.              *)
(***************************************************************************)
CONSTANTS Channels, Handles, NoSub

VARIABLES
    registry,   \* channel -> NoSub or [sub, status]
    phase       \* "Closed", "Open" (Running) or "Closing" (PendingStopped)

vars == <<registry, phase>>

Entry == [sub : Handles,
          status : {"PendingSubscribe", "Current", "PendingUnsubscribe"}]

TypeOK ==
    /\ registry \in [Channels -> Entry \cup {NoSub}]
    /\ phase \in {"Closed", "Open", "Closing"}

Init ==
    /\ registry = [c \in Channels |-> NoSub]
    /\ phase = "Closed"

Open == phase = "Closed" /\ phase' = "Open" /\ UNCHANGED registry

Close == phase = "Open" /\ phase' = "Closing" /\ UNCHANGED registry

\* A handle subscribes a channel that has no entry.
Subscribe(c, h) ==
    /\ phase = "Open" /\ registry[c] = NoSub
    /\ registry' = [registry EXCEPT ![c] = [sub |-> h, status |-> "PendingSubscribe"]]
    /\ UNCHANGED phase

\* The server answers a pending subscribe, while the socket is still read.
Confirm(c) ==
    /\ phase # "Closed"
    /\ registry[c] # NoSub /\ registry[c].status = "PendingSubscribe"
    /\ registry' = [registry EXCEPT ![c].status = "Current"]
    /\ UNCHANGED phase

Refuse(c) ==
    /\ phase # "Closed"
    /\ registry[c] # NoSub /\ registry[c].status = "PendingSubscribe"
    /\ registry' = [registry EXCEPT ![c] = NoSub]
    /\ UNCHANGED phase

\* A confirmed subscription is unsubscribed.
Unsubscribe(c) ==
    /\ phase = "Open"
    /\ registry[c] # NoSub /\ registry[c].status = "Current"
    /\ registry' = [registry EXCEPT ![c].status = "PendingUnsubscribe"]
    /\ UNCHANGED phase

\* The server answers a pending unsubscribe (ok or error: the entry goes).
Unsubscribed(c) ==
    /\ phase # "Closed"
    /\ registry[c] # NoSub /\ registry[c].status = "PendingUnsubscribe"
    /\ registry' = [registry EXCEPT ![c] = NoSub]
    /\ UNCHANGED phase

\* A closing session ends and forgets every subscription.
Closed ==
    /\ phase = "Closing"
    /\ phase' = "Closed"
    /\ registry' = [c \in Channels |-> NoSub]

Next ==
    \/ Open \/ Close \/ Closed
    \/ \E c \in Channels, h \in Handles : Subscribe(c, h)
    \/ \E c \in Channels :
          Confirm(c) \/ Refuse(c) \/ Unsubscribe(c) \/ Unsubscribed(c)

Spec == Init /\ [][Next]_vars

====
