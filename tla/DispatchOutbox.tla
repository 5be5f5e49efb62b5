--------------------------- MODULE DispatchOutbox ---------------------------
(***************************************************************************)
(* The transactional outbox of one account: producers append an event and  *)
(* its online-delivery task in one PostgreSQL transaction, dispatcher      *)
(* workers lease the head of the account's lane, push it and delete it,    *)
(* and two janitors remove poison heads and confirmed prefixes.            *)
(*                                                                         *)
(* dispatch_outbox rows are keyed by pts: the row ids of one account grow  *)
(* with its pts because the watermark row serialises its producers.  A     *)
(* transaction's writes become visible at its commit, so the actions below *)
(* are the points where a transaction takes a lock another may wait for,   *)
(* reads what it later relies on, or commits.                              *)
(***************************************************************************)
EXTENDS Naturals, FiniteSets

CONSTANTS
  Producers,     \* transactions that append an update for the account
  Workers,       \* dispatcher workers that may claim the lane
  None,          \* no lock owner
  Cleaner,       \* the poison cleanup, as a lock owner
  Pruner,        \* the retention prune, as a lock owner
  MaxPts,        \* bound: the largest pts a behaviour reserves
  AttemptLimit,  \* attempts at which a failure is terminal (5 in the code)
  FaultKinds,    \* which faults happen: "crash", "defer", "overrun"
  MaxFaults,     \* bound: how many of them happen
  Silent         \* the pts whose event is domain.UpdateEventNoop

ASSUME BoundsAssumption ==
  /\ MaxPts \in Nat
  /\ AttemptLimit \in Nat \ {0}
  /\ MaxFaults \in Nat
  /\ FaultKinds \subseteq {"crash", "defer", "overrun"}
ASSUME OwnersAssumption ==
  /\ None \notin Producers \cup Workers \cup {Cleaner, Pruner}
  /\ Producers \cap Workers = {}
  /\ Cleaner \notin Producers \cup Workers
  /\ Pruner \notin Producers \cup Workers
  /\ Cleaner # Pruner
ASSUME SilentAssumption == Silent \subseteq 1..MaxPts

VARIABLES
  wm,         \* user_update_watermarks.contiguous_pts, committed
  wmOwner,    \* who holds the row lock on it
  events,     \* committed user_update_events, by pts
  floor,      \* user_update_retention.retained_through_pts
  row,        \* dispatch_outbox, by pts; status "none" is an absent row
  head,       \* dispatch_outbox_user_heads: the pts and status of the lane head
  shared,     \* holders of the shared lane fence
  excl,       \* holder of the exclusive lane fence, or None
  prod,       \* each producer's transaction
  work,       \* each worker's position and the item it claimed
  cleaner,    \* the poison cleanup's position
  pruner,     \* the prune's position and the prefix it will delete
  faults,     \* faults used so far
  enqueued,   \* history: pts committed with a task
  pushed,     \* history: pts pushed to the account's sessions at least once
  abandoned   \* history: pts whose task was deleted as poison

dbVars == <<wm, events, floor, row, head>>
lockVars == <<wmOwner, shared, excl>>
procVars == <<prod, work, cleaner, pruner, faults>>
histVars == <<enqueued, pushed, abandoned>>
vars == <<dbVars, lockVars, procVars, histVars>>

-----------------------------------------------------------------------------
Pts == 1..MaxPts

\* A row: its status, attempts column, whether its timer ran out (a pending
\* row is due, a lease expired, a quarantine ended), and how often
\* MarkDispatchFailed was recorded on it (history).
Absent  == [status |-> "none", attempts |-> 0, due |-> FALSE, marks |-> 0]
Pending == [status |-> "pending", attempts |-> 0, due |-> TRUE, marks |-> 0]

NoHead == [pts |-> 0, status |-> "none"]

LiveIn(rows) == {p \in Pts : rows[p].status # "none"}
Live == LiveIn(row)

\* The lane head the delete trigger installs: the row with the least pts.
FirstOf(rows) ==
  IF LiveIn(rows) = {} THEN NoHead
  ELSE LET p == CHOOSE q \in LiveIn(rows) : \A r \in LiveIn(rows) : q <= r
       IN  [pts |-> p, status |-> rows[p].status]

\* DELETE of rows S: the row trigger moves the head only when the head went.
DeleteRows(S) ==
  LET rows == [p \in Pts |-> IF p \in S THEN Absent ELSE row[p]]
  IN  /\ row' = rows
      /\ head' = IF head.pts \in S THEN FirstOf(rows) ELSE head

\* UPDATE of row p: the trigger mirrors the status into the head row of p.
UpdateRow(p, r) ==
  /\ row' = [row EXCEPT ![p] = r]
  /\ head' = IF head.pts = p THEN [head EXCEPT !.status = r.status] ELSE head

Idle == [at |-> "idle", pts |-> 0, token |-> 0]
NoTx == [at |-> "idle", pts |-> 0, dispatch |-> FALSE, needHead |-> FALSE]

Init ==
  /\ wm = 0 /\ wmOwner = None
  /\ events = {} /\ floor = 0
  /\ row = [p \in Pts |-> Absent]
  /\ head = NoHead
  /\ shared = {} /\ excl = None
  /\ prod = [p \in Producers |-> NoTx]
  /\ work = [w \in Workers |-> Idle]
  /\ cleaner = "idle"
  /\ pruner = [at |-> "idle", cut |-> 0]
  /\ faults = 0
  /\ enqueued = {} /\ pushed = {} /\ abandoned = {}

-----------------------------------------------------------------------------
(* Producers: UpdateEventStore.append and every business transaction that  *)
(* reserves pts and enqueues the update's task.                            *)

ReservePts(p, d, n) ==
  /\ prod[p].at = "idle"
  /\ n <= MaxPts
  /\ wmOwner' = p
  /\ prod' = [prod EXCEPT ![p] =
       [at |-> "reserved", pts |-> n, dispatch |-> d, needHead |-> FALSE]]
  /\ UNCHANGED <<dbVars, shared, excl, work, cleaner, pruner, faults, histVars>>

\* Mutated: pts come from a counter that does not lock the watermark row.
ReserveUnlocked(p, d) ==
  \E n \in 1..MaxPts :
    /\ n > wm /\ \A q \in Producers : n > prod[q].pts
    /\ \A m \in 1..(n - 1) : m <= wm \/ \E q \in Producers : prod[q].pts = m
    /\ ReservePts(p, d, n)

\* The watermark upsert: the row lock is held until the transaction ends.
Reserve(p, d) == wmOwner = None /\ ReservePts(p, d, wm + 1)

InsertTaskHolding(p, fence) ==
  /\ prod[p].at = "reserved" /\ prod[p].dispatch
  /\ fence # {} => excl = None
  /\ shared' = shared \cup fence
  /\ prod' = [prod EXCEPT ![p] =
       [@ EXCEPT !.at = "inserted", !.needHead = (head = NoHead)]]
  /\ UNCHANGED <<dbVars, wmOwner, excl, work, cleaner, pruner, faults, histVars>>

\* Mutated: the trigger looks for the head without the lane fence.
InsertTaskUnfenced(p) == InsertTaskHolding(p, {})

\* The statement trigger of the task's insert: it takes the shared fence and
\* then, in a new snapshot, looks whether the lane already has a head.
InsertTask(p) == InsertTaskHolding(p, {p})

\* Ready to commit: a transaction without a task never runs the trigger.
Complete(p) ==
  \/ prod[p].at = "inserted"
  \/ prod[p].at = "reserved" /\ ~prod[p].dispatch

EndTx(p) ==
  /\ prod' = [prod EXCEPT ![p] = NoTx]
  /\ wmOwner' = IF wmOwner = p THEN None ELSE wmOwner
  /\ shared' = shared \ {p}

CommitTx(p) ==
  LET n == prod[p].pts
      d == prod[p].dispatch
  IN  /\ Complete(p)
      /\ wm' = n
      /\ events' = events \cup {n}
      /\ row' = IF d THEN [row EXCEPT ![n] = Pending] ELSE row
      /\ head' = IF d /\ prod[p].needHead /\ head = NoHead
                 THEN [pts |-> n, status |-> "pending"] ELSE head
      /\ enqueued' = IF d THEN enqueued \cup {n} ELSE enqueued
      /\ EndTx(p)
      /\ UNCHANGED <<floor, excl, work, cleaner, pruner, faults, pushed, abandoned>>

\* Mutated: the abort gives the pts back although the rollback already did.
AbortTxTwice(p) ==
  /\ prod[p].at # "idle"
  /\ EndTx(p)
  /\ wm' = wm - 1
  /\ UNCHANGED <<events, floor, row, head, excl, work, cleaner, pruner, faults,
                 histVars>>

\* Rollback: the reserved pts is reserved again by the next producer.
AbortTx(p) ==
  /\ prod[p].at # "idle"
  /\ EndTx(p)
  /\ UNCHANGED <<dbVars, excl, work, cleaner, pruner, faults, histVars>>

-----------------------------------------------------------------------------
(* Workers: OutboxDispatcher.dispatchBatch / dispatchItem over one item.   *)

\* The worker's turn is over; its loop begins the next.
Retry(w) == work' = [work EXCEPT ![w] = Idle]

Goto(w, at) == work' = [work EXCEPT ![w].at = at]

\* Mutated: an expired lease does not make the head claimable.
ClaimablePending == head.status = "pending" /\ row[head.pts].due

\* A head is claimable when it is pending and due, or its lease expired.
Claimable == head.status \in {"pending", "dispatching"} /\ row[head.pts].due

Claim(w) ==
  LET r == row[head.pts]
  IN  /\ work[w].at = "idle"
      /\ Claimable
      /\ UpdateRow(head.pts, [status |-> "dispatching", attempts |-> r.attempts + 1,
                               due |-> FALSE, marks |-> r.marks])
      /\ work' = [work EXCEPT ![w] =
           [at |-> "claimed", pts |-> head.pts, token |-> r.attempts + 1]]
      /\ UNCHANGED <<wm, events, floor, lockVars, prod, cleaner, pruner, faults,
                     histVars>>

LoadElse(w, otherwise) ==
  /\ work[w].at = "claimed"
  /\ \/ work[w].pts \in events /\ Goto(w, "loaded")
     \/ Goto(w, otherwise)
  /\ UNCHANGED <<dbVars, lockVars, prod, cleaner, pruner, faults, histVars>>

\* Mutated: an update that was not built counts as a no-op's.
LoadEmptyIsNoop(w) == LoadElse(w, "sent")

\* Load the event and build its update.  A missing event, a load error, a build
\* error or an empty update of an event that is no no-op ends in MarkFailed.
Load(w) == LoadElse(w, "failing")

\* Push to the account's sessions.  A no-op event has no update to push.
Push(w) ==
  /\ work[w].at = "loaded"
  /\ Goto(w, "sent")
  /\ pushed' = IF work[w].pts \in Silent THEN pushed ELSE pushed \cup {work[w].pts}
  /\ UNCHANGED <<dbVars, lockVars, prod, cleaner, pruner, faults, enqueued, abandoned>>

PushFails(w) ==
  /\ work[w].at = "loaded"
  /\ work[w].pts \notin Silent
  /\ Goto(w, "failing")
  /\ UNCHANGED <<dbVars, lockVars, prod, cleaner, pruner, faults, histVars>>

\* An interrupted push is retriable: the row stays dispatching until its lease
\* expires and nothing is marked.
PushDeferred(w) ==
  /\ work[w].at = "loaded"
  /\ work[w].pts \notin Silent
  /\ "defer" \in FaultKinds /\ faults < MaxFaults
  /\ faults' = faults + 1
  /\ Retry(w)
  /\ UNCHANGED <<dbVars, lockVars, prod, cleaner, pruner, histVars>>

\* Mutated: the attempts token is not compared.
LeasedByAnyone(w) ==
  /\ head # NoHead
  /\ row[work[w].pts].status = "dispatching"

\* The row is still leased under the token this worker was given.
Leased(w) == LeasedByAnyone(w) /\ row[work[w].pts].attempts = work[w].token

FenceDelivered(w) ==
  /\ work[w].at = "sent"
  /\ excl = None /\ shared = {}
  /\ excl' = w
  /\ Goto(w, "fenced")
  /\ UNCHANGED <<dbVars, wmOwner, shared, prod, cleaner, pruner, faults, histVars>>

EndDelivered(w, holds, gone, owner) ==
  /\ work[w].at = "fenced"
  /\ IF holds THEN DeleteRows(gone) ELSE UNCHANGED <<row, head>>
  /\ excl' = owner
  /\ Retry(w)
  /\ UNCHANGED <<wm, events, floor, wmOwner, shared, prod, cleaner, pruner, faults,
                 histVars>>

\* Mutated: whatever row heads the lane is deleted.
MarkHeadDelivered(w) == EndDelivered(w, head # NoHead, {head.pts}, None)

\* Mutated: a lost lease returns early with the transaction still open.
MarkDeliveredLeaking(w) ==
  EndDelivered(w, Leased(w), {work[w].pts}, IF Leased(w) THEN None ELSE excl)

\* Delete the row, unless the lease was lost; the transaction ends either way.
MarkDelivered(w) == EndDelivered(w, Leased(w), {work[w].pts}, None)

\* The row's next attempt is scheduled, or the row becomes poison; either way
\* its timer starts again.
MarkFailed(w) ==
  LET r == row[work[w].pts]
      s == IF r.attempts >= AttemptLimit THEN "failed" ELSE "pending"
  IN  /\ work[w].at = "failing"
      /\ IF Leased(w)
         THEN UpdateRow(work[w].pts, [status |-> s, attempts |-> r.attempts,
                                        due |-> FALSE, marks |-> r.marks + 1])
         ELSE UNCHANGED <<row, head>>
      /\ Retry(w)
      /\ UNCHANGED <<wm, events, floor, lockVars, prod, cleaner, pruner, faults,
                     histVars>>

\* The worker's process stops, or its database call fails: its transaction is
\* rolled back and what it claimed stays leased.
Crash(w) ==
  /\ work[w].at # "idle"
  /\ "crash" \in FaultKinds /\ faults < MaxFaults
  /\ faults' = faults + 1
  /\ Retry(w)
  /\ excl' = IF excl = w THEN None ELSE excl
  /\ UNCHANGED <<dbVars, wmOwner, shared, prod, cleaner, pruner, histVars>>

-----------------------------------------------------------------------------
(* Time: backoffs, leases and quarantines end.                             *)

\* A worker whose token the row still bears would have its mark accepted.
WorkedOn(p) ==
  \E w \in Workers : work[w].at # "idle" /\ work[w].pts = p
                     /\ work[w].token = row[p].attempts

\* A lease that expires under a worker still at work on it counts as a fault.
TimerEnds(p) ==
  /\ row[p].status # "none" /\ ~row[p].due
  /\ row' = [row EXCEPT ![p].due = TRUE]
  /\ IF row[p].status = "dispatching" /\ WorkedOn(p)
     THEN "overrun" \in FaultKinds /\ faults < MaxFaults /\ faults' = faults + 1
     ELSE UNCHANGED faults
  /\ UNCHANGED <<wm, events, floor, head, lockVars, prod, work, cleaner, pruner,
                 histVars>>

-----------------------------------------------------------------------------
(* The poison cleanup: DispatchOutboxStore.DeleteFailed.                   *)

PoisonReady == head.status = "failed" /\ row[head.pts].due

ListPoison ==
  /\ cleaner = "idle" /\ PoisonReady
  /\ cleaner' = "listed"
  /\ UNCHANGED <<dbVars, lockVars, prod, work, pruner, faults, histVars>>

FencePoison ==
  /\ cleaner = "listed"
  /\ excl = None /\ shared = {}
  /\ excl' = Cleaner
  /\ cleaner' = "fenced"
  /\ UNCHANGED <<dbVars, wmOwner, shared, prod, work, pruner, faults, histVars>>

\* The listing is checked again under the fence.
DeletePoison ==
  /\ cleaner = "fenced"
  /\ IF PoisonReady
     THEN DeleteRows({head.pts}) /\ abandoned' = abandoned \cup {head.pts}
     ELSE UNCHANGED <<row, head, abandoned>>
  /\ excl' = None
  /\ cleaner' = "idle"
  /\ UNCHANGED <<wm, events, floor, wmOwner, shared, prod, work, pruner, faults,
                 enqueued, pushed>>

\* The cleanup stops or a statement of it fails: its transaction rolls back.
AbortPoison ==
  /\ cleaner # "idle"
  /\ "crash" \in FaultKinds /\ faults < MaxFaults
  /\ faults' = faults + 1
  /\ cleaner' = "idle"
  /\ excl' = IF excl = Cleaner THEN None ELSE excl
  /\ UNCHANGED <<dbVars, wmOwner, shared, prod, work, pruner, histVars>>

-----------------------------------------------------------------------------
(* Retention: pruneConfirmedUserPrefixTx.  Which prefix every device has   *)
(* confirmed is AccountUpdates' concern: here it is any prefix.            *)

LockPrune(c) ==
  /\ pruner.at = "idle"
  /\ wmOwner = None
  /\ floor < c /\ c <= wm
  /\ wmOwner' = Pruner
  /\ pruner' = [at |-> "locked", cut |-> c]
  /\ UNCHANGED <<dbVars, shared, excl, prod, work, cleaner, faults, histVars>>

FencePrune ==
  /\ pruner.at = "locked"
  /\ excl = None /\ shared = {}
  /\ excl' = Pruner
  /\ pruner' = [pruner EXCEPT !.at = "fenced"]
  /\ UNCHANGED <<dbVars, wmOwner, shared, prod, work, cleaner, faults, histVars>>

DeletePrefixAnd(tasks) ==
  LET gone == {p \in Pts : floor < p /\ p <= pruner.cut}
  IN  /\ pruner.at = "fenced"
      /\ DeleteRows(gone \cap tasks)
      /\ events' = events \ gone
      /\ floor' = pruner.cut
      /\ wmOwner' = None
      /\ excl' = None
      /\ pruner' = [at |-> "idle", cut |-> 0]
      /\ UNCHANGED <<wm, shared, prod, work, cleaner, faults, histVars>>

\* Mutated: only tasks nobody claimed go with their events.
DeletePrefixUnclaimed == DeletePrefixAnd({p \in Pts : row[p].status = "pending"})

\* The tasks of the prefix go first, in the same transaction as its events.
DeletePrefix == DeletePrefixAnd(Pts)

AbortPrune ==
  /\ pruner.at # "idle"
  /\ "crash" \in FaultKinds /\ faults < MaxFaults
  /\ faults' = faults + 1
  /\ pruner' = [at |-> "idle", cut |-> 0]
  /\ wmOwner' = None
  /\ excl' = IF excl = Pruner THEN None ELSE excl
  /\ UNCHANGED <<dbVars, shared, prod, work, cleaner, histVars>>

-----------------------------------------------------------------------------
ProducerStep(p) ==
  \/ \E d \in BOOLEAN : Reserve(p, d)
  \/ InsertTask(p) \/ CommitTx(p) \/ AbortTx(p)

WorkerStep(w) ==
  \/ Claim(w) \/ Load(w) \/ Push(w) \/ PushFails(w) \/ PushDeferred(w)
  \/ FenceDelivered(w) \/ MarkDelivered(w) \/ MarkFailed(w) \/ Crash(w)

CleanerStep == ListPoison \/ FencePoison \/ DeletePoison \/ AbortPoison

PrunerStep == (\E c \in Pts : LockPrune(c)) \/ FencePrune \/ DeletePrefix \/ AbortPrune

Next ==
  \/ \E p \in Producers : ProducerStep(p)
  \/ \E w \in Workers : WorkerStep(w)
  \/ \E p \in Pts : TimerEnds(p)
  \/ CleanerStep
  \/ PrunerStep

Spec == Init /\ [][Next]_vars

(***************************************************************************)
(* Fairness: runWorker and RetentionWorker.Run loop until shutdown, a      *)
(* transaction that began ends, time passes.  No push is assumed to        *)
(* succeed, and no producer to start.                                      *)
(***************************************************************************)
Fairness ==
  /\ \A p \in Producers : SF_vars(InsertTask(p)) /\ WF_vars(CommitTx(p))
  /\ \A w \in Workers :
       /\ WF_vars(Claim(w)) /\ WF_vars(Load(w)) /\ WF_vars(Push(w) \/ PushFails(w))
       /\ SF_vars(FenceDelivered(w)) /\ WF_vars(MarkDelivered(w))
       /\ WF_vars(MarkFailed(w))
  /\ \A p \in Pts : WF_vars(TimerEnds(p))
  /\ WF_vars(ListPoison) /\ SF_vars(FencePoison) /\ WF_vars(DeletePoison)
  /\ SF_vars(FencePrune) /\ WF_vars(DeletePrefix)

FairSpec == Spec /\ Fairness

-----------------------------------------------------------------------------
\* The variables range over what the tables and processes can hold.
TypeOK ==
  /\ wm \in 0..MaxPts /\ floor \in 0..MaxPts
  /\ wmOwner \in Producers \cup {Pruner, None}
  /\ events \subseteq Pts
  /\ row \in [Pts -> [status : {"none", "pending", "dispatching", "failed"},
                      attempts : Nat, due : BOOLEAN, marks : Nat]]
  /\ head \in [pts : 0..MaxPts,
               status : {"none", "pending", "dispatching", "failed"}]
  /\ shared \subseteq Producers
  /\ excl \in Workers \cup {Cleaner, Pruner, None}
  /\ prod \in [Producers -> [at : {"idle", "reserved", "inserted"},
                             pts : 0..MaxPts, dispatch : BOOLEAN,
                             needHead : BOOLEAN]]
  /\ work \in [Workers -> [at : {"idle", "claimed", "loaded", "sent", "fenced",
                                 "failing"},
                           pts : 0..MaxPts, token : Nat]]
  /\ cleaner \in {"idle", "listed", "fenced"}
  /\ pruner \in [at : {"idle", "locked", "fenced"}, cut : 0..MaxPts]
  /\ faults \in 0..MaxFaults
  /\ enqueued \subseteq Pts /\ pushed \subseteq Pts /\ abandoned \subseteq Pts

\* A lane with rows always has its oldest row as head, with that row's status,
\* and an empty lane has none: Claim looks only at heads, so a row without one
\* would never be delivered (migration 0186: an append racing the removal of
\* the last row).
LaneDiscoverable == head = FirstOf(row)

\* An update whose task left the outbox was pushed, had nothing to push, was
\* given up as poison, or is in the confirmed prefix: no crash, lost lease or
\* stale mark loses one.
NothingLost ==
  \A p \in enqueued :
    p \in Live \cup pushed \cup Silent \cup abandoned \/ p <= floor

\* No update is pushed while an older one is still queued, whatever the
\* interleaving of workers, retries and late commits.
PushOrder == \A q \in pushed : \A p \in Live : q <= p

\* Every task has its durable event, and the durable log has no gap above the
\* retained floor: a client that misses the push recovers by difference.
DurableBacking == Live \subseteq events /\ events = (floor + 1)..wm

\* While a lease runs, only its holder changes the row: a worker whose lease
\* expired cannot mark the row another worker claimed.  Retention may delete it.
LeaseRuns(w) ==
  work[w].at # "idle" /\ Leased(w) /\ ~row[work[w].pts].due
LeaseProtected ==
  [][\A w \in Workers :
       LeaseRuns(w) /\ work'[w] = work[w] =>
         \/ row'[work[w].pts] = [row[work[w].pts] EXCEPT !.due = row'[work[w].pts].due]
         \/ work[w].pts <= floor']_vars

\* Every task that is queued is eventually delivered, given up or pruned, even
\* when every push of it fails.
EveryTaskSettles == \A p \in Pts : p \in Live ~> p \notin Live

\* Every transaction that took a lock ends: no two wait for each other.
TransactionsEnd ==
  /\ \A p \in Producers : prod[p].at # "idle" ~> prod[p].at = "idle"
  /\ \A w \in Workers : excl = w ~> excl # w
  /\ pruner.at # "idle" ~> pruner.at = "idle"
  /\ cleaner # "idle" ~> cleaner = "idle"

\* "A deferred push does not count toward the attempts escalation":
\* (outbox_dispatcher.go:373, :441): a row becomes poison only after as many
\* recorded failures as the limit.
DeferralsDoNotEscalate ==
  \A p \in Live : row[p].status = "failed" => row[p].marks >= AttemptLimit

-----------------------------------------------------------------------------
(* The inductive invariant behind the safety properties.                   *)

\* Who holds which lock follows from where each transaction stands.
LockInv ==
  /\ \A p \in Producers : prod[p].at # "idle" <=> wmOwner = p
  /\ pruner.at # "idle" <=> wmOwner = Pruner
  /\ \A p \in Producers : p \in shared <=> prod[p].at = "inserted"
  /\ \A w \in Workers : excl = w <=> work[w].at = "fenced"
  /\ excl = Cleaner <=> cleaner = "fenced"
  /\ excl = Pruner <=> pruner.at = "fenced"
  /\ excl # None => shared = {}

\* What a transaction computed under its locks still holds at its commit.
TxInv ==
  /\ \A p \in Producers : prod[p].at # "idle" => prod[p].pts = wm + 1 /\ wm < MaxPts
  /\ \A p \in Producers : prod[p].at = "inserted" => prod[p].needHead = (head = NoHead)
  /\ pruner.at # "idle" => floor < pruner.cut /\ pruner.cut <= wm

\* The log is the interval above the floor, and tasks lie in it.
LogInv ==
  /\ floor <= wm
  /\ events = (floor + 1)..wm
  /\ \A p \in Live : floor < p /\ p <= wm

\* The head is the oldest row and mirrors its status.
HeadInv ==
  /\ Live = {} => head = NoHead
  /\ Live # {} => /\ head.pts \in Live
                  /\ head.status = row[head.pts].status
                  /\ \A q \in Live : head.pts <= q

\* What a worker claimed was the head, so no queued row is older.
ItemInv ==
  /\ \A w \in Workers : work[w].at # "idle" =>
       /\ work[w].pts \in 1..wm
       /\ \A p \in Live : work[w].pts <= p
       /\ work[w].at \in {"sent", "fenced"} => work[w].pts \in pushed \cup Silent
  /\ pushed \subseteq 1..wm
  /\ enqueued \subseteq 1..wm

IInv ==
  /\ TypeOK /\ LockInv /\ TxInv /\ LogInv /\ HeadInv /\ ItemInv
  /\ PushOrder /\ NothingLost

\* Behind LeaseProtected: no two workers hold the same token for a queued row.
TokenInv ==
  \A w \in Workers : work[w].at # "idle" /\ work[w].pts \in Live =>
    /\ work[w].token <= row[work[w].pts].attempts
    /\ \A v \in Workers \ {w} :
         work[v].at # "idle" /\ work[v].pts = work[w].pts =>
           work[v].token # work[w].token

\* The lane implements the queue of LaneQueue.
Lane == INSTANCE LaneQueue WITH
  queue <- Live, newest <- wm, sent <- pushed, dropped <- abandoned, trimmed <- floor
LaneSpec == Lane!QSpec
=============================================================================
