------------------------------ MODULE LaneQueue ------------------------------
(***************************************************************************)
(* What the online lane of one account promises, without tables, locks,    *)
(* leases or workers: updates leave the queue oldest first, an update is   *)
(* sent for the first time only while nothing older is still queued, and   *)
(* an update that leaves the queue was sent, has nothing to send, was      *)
(* given up as poison, or lies in the prefix every device confirmed.       *)
(* Duplicates are allowed: a late sender may repeat an update that already *)
(* left the queue.  DispatchOutbox implements this specification.          *)
(***************************************************************************)
EXTENDS Naturals

CONSTANTS
  MaxPts,   \* the largest pts a behaviour uses
  Silent    \* the pts whose event is a no-op: nothing is sent for it

VARIABLES
  queue,    \* updates whose online delivery is still owed
  newest,   \* the account's pts: every update up to it exists
  sent,     \* updates sent at least once
  dropped,  \* updates given up: their task ended without a successful send
  trimmed   \* every update up to it is confirmed by all devices and forgotten

queueVars == <<queue, newest, sent, dropped, trimmed>>

Updates == 1..MaxPts

QInit ==
  /\ queue = {}
  /\ newest = 0
  /\ sent = {}
  /\ dropped = {}
  /\ trimmed = 0

Oldest(u) == u \in queue /\ \A v \in queue : u <= v

\* A new update gets the next pts; it is queued unless it asks for no delivery.
Enqueue ==
  /\ newest < MaxPts
  /\ newest' = newest + 1
  /\ queue' \in {queue, queue \cup {newest + 1}}
  /\ UNCHANGED <<sent, dropped, trimmed>>

\* Only the oldest queued update is sent; an update that left the queue may be
\* repeated.
Send(u) ==
  /\ Oldest(u) \/ (u <= newest /\ u \notin queue)
  /\ sent' = sent \cup {u}
  /\ UNCHANGED <<queue, newest, dropped, trimmed>>

Settle(u) ==
  /\ Oldest(u)
  /\ u \in sent \cup Silent
  /\ queue' = queue \ {u}
  /\ UNCHANGED <<newest, sent, dropped, trimmed>>

GiveUp(u) ==
  /\ Oldest(u)
  /\ queue' = queue \ {u}
  /\ dropped' = dropped \cup {u}
  /\ UNCHANGED <<newest, sent, trimmed>>

Trim(u) ==
  /\ trimmed < u /\ u <= newest
  /\ trimmed' = u
  /\ queue' = {v \in queue : v > u}
  /\ UNCHANGED <<newest, sent, dropped>>

QNext ==
  \/ Enqueue
  \/ \E u \in Updates : Send(u) \/ Settle(u) \/ GiveUp(u) \/ Trim(u)

QSpec == QInit /\ [][QNext]_queueVars
=============================================================================
