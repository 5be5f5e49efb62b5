--------------------------- MODULE ChannelFanout ---------------------------
(***************************************************************************)
(* The channel fan-out dispatcher.  A sender's request commits a channel   *)
(* update and hands it to the dispatcher, which pushes it to the online    *)
(* members in the background.                                              *)
(*                                                                         *)
(* Memory is bounded at every level, and no level may block the request or *)
(* forget that members missed an update: a payload that finds no room in   *)
(* its shard becomes one entry per channel with the highest lost pts, the  *)
(* entry becomes a nudge (updateChannelTooLong) in a shared queue, and     *)
(* when even the entries are exhausted a generation counter asks one       *)
(* recovery actor to rebuild them from the durable pts of every online     *)
(* channel.                                                                *)
(*                                                                         *)
(* The byte budget counts like the job budget and is left out.             *)
(***************************************************************************)
EXTENDS Naturals, Sequences, FiniteSets

CONSTANTS
  Channels,      \* the channels, by id (positive numbers)
  Shards,        \* the shards and their workers
  NudgeWorkers,  \* the pool that sends nudges
  None,          \* no job, no entry, no channel
  Buffer,        \* the jobs a shard's FIFO holds (64 in the code)
  MaxJobs,       \* maxQueuedJobs: the jobs accepted and not yet run, all shards
  OverflowLimit, \* the entries of a shard's overflow mailbox (256)
  NudgeLimit,    \* the channels waiting for a nudge worker (4096)
  PageSize,      \* the channels whose durable pts one recovery query reads (256)
  MaxUpdates,    \* bound: the updates committed, all channels
  MaxFaults      \* bound: nudges cut off, failed queries and disconnections

ASSUME ChannelsAssumption == Channels \subseteq Nat \ {0} /\ IsFiniteSet(Channels)
ASSUME FanoutBoundsAssumption ==
  /\ Buffer \in Nat \ {0} /\ MaxJobs \in Nat \ {0} /\ OverflowLimit \in Nat \ {0}
  /\ NudgeLimit \in Nat \ {0} /\ PageSize \in Nat \ {0}
  /\ MaxUpdates \in Nat /\ MaxFaults \in Nat
  /\ None \notin Nat /\ Shards # {} /\ NudgeWorkers # {}
  /\ None \notin [chan : Channels, pts : Nat, seq : Nat]
  /\ None \notin [pts : Nat, barrier : Nat] \cup [pts : Nat, behind : Nat]

VARIABLES
  shardOf,    \* channelID % len(shards): fixed by the ids
  phase,      \* of Run: "new", "up", "cancelled" (ctx), "stopped", "ended"
  pts,        \* channels.pts, durable
  senders,    \* the requests between their commit and the end of Enqueue
  queued,     \* queuedJobs
  jobs,       \* each shard's FIFO
  seqs,       \* each shard's nextSeq and processedSeq
  worker,     \* each shard's worker: where it stands and the job it runs
  wake,       \* overflowWake holds its token
  retry,      \* the shard's retry timer is armed
  overflow,   \* each channel's entry: the highest lost pts and its barrier
  order,      \* overflowOrder of each shard
  pending,    \* nudgePending, with the barrier its pts waited for (history)
  nudgeJobs,  \* the channels queued for the nudge workers
  nudger,     \* each nudge worker: where it stands and what it sends
  recovery,   \* recoveryGeneration, recoveryCompleted, recoveryWake
  sweep,      \* the recovery actor
  online,     \* the channels with a member or subscriber online
  owed,       \* history: the highest lost pts the online members may not know
  faults

recoveryVars == <<recovery, sweep>>
shardVars == <<jobs, seqs, worker, wake, retry, overflow, order>>
nudgeVars == <<pending, nudgeJobs, nudger>>
runVars == <<shardOf, phase>>
vars == <<runVars, pts, senders, queued, shardVars, nudgeVars, recoveryVars,
          online, owed, faults>>

-----------------------------------------------------------------------------
Larger(a, b) == IF a >= b THEN a ELSE b
Pts == 1..MaxUpdates
Committed == UNION {{c} \X (1..pts[c]) : c \in Channels}
Running == phase \in {"up", "cancelled", "stopped"}
Entries(s) == {c \in Channels : shardOf[c] = s /\ overflow[c] # None}
Waiting == {c \in Channels : pending[c] # None}

Init ==
  /\ shardOf \in [Channels -> Shards]
  /\ phase = "new"
  /\ pts = [c \in Channels |-> 0]
  /\ senders = {}
  /\ queued = 0
  /\ jobs = [s \in Shards |-> <<>>]
  /\ seqs = [s \in Shards |-> [next |-> 0, processed |-> 0]]
  /\ worker = [s \in Shards |-> [at |-> "select", job |-> None]]
  /\ wake = [s \in Shards |-> FALSE]
  /\ retry = [s \in Shards |-> FALSE]
  /\ overflow = [c \in Channels |-> None]
  /\ order = [s \in Shards |-> <<>>]
  /\ pending = [c \in Channels |-> None]
  /\ nudgeJobs = <<>>
  /\ nudger = [n \in NudgeWorkers |-> [at |-> "idle", chan |-> None, pts |-> 0, behind |-> 0]]
  /\ recovery = [generation |-> 0, completed |-> 0, wake |-> FALSE]
  /\ sweep = [at |-> "check", target |-> 0, todo |-> {}, page |-> {}, space |-> FALSE]
  /\ online = Channels
  /\ owed = [c \in Channels |-> 0]
  /\ faults = 0

-----------------------------------------------------------------------------
(* The overflow mailbox and the nudge mailbox: what runs under one lock.   *)

CanAdd(c) == overflow[c] # None \/ Cardinality(Entries(shardOf[c])) < OverflowLimit
AddAnd(c, p, signalled) ==
  LET s == shardOf[c]
  IN  /\ overflow' = [overflow EXCEPT ![c] =
           IF @ = None THEN [pts |-> p, barrier |-> seqs[s].next]
           ELSE [pts |-> Larger(@.pts, p), barrier |-> @.barrier]]
      /\ order' = IF overflow[c] = None THEN [order EXCEPT ![s] = Append(@, c)]
                  ELSE order
      /\ wake' = [wake EXCEPT ![s] = @ \/ signalled]

\* Mutated: the entry waits for the worker's next payload.
AddUnsignalled(c, p) == AddAnd(c, p, FALSE)

\* addOverflowLocked and signalOverflow: a new entry takes the barrier of the
\* payloads accepted so far; a later loss only raises its pts.
AddOverflow(c, p) == AddAnd(c, p, TRUE)

\* Mutated: a waiter is only told of the release by its own timer.
FreeSpaceSilently(s) == UNCHANGED sweep

\* signalOverflowSpaceLocked: close-and-replace wakes whoever waits.  The recovery actor
\* waits for the shard of one entry of its page; here any entry's shard wakes it.
FreeSpace(s) ==
  sweep' = IF sweep.at = "waiting" /\ (\E e \in sweep.page : shardOf[e[1]] = s)
           THEN [sweep EXCEPT !.space = TRUE] ELSE sweep

RequestRecovery ==
  recovery' = [recovery EXCEPT !.generation = @ + 1, !.wake = TRUE]

\* offerNudge
CanOffer(c) == pending[c] # None \/ Cardinality(Waiting) < NudgeLimit
Offer(c, e) ==
  IF pending[c] = None
  THEN /\ pending' = [pending EXCEPT ![c] = [pts |-> e.pts, behind |-> e.barrier]]
       /\ nudgeJobs' = Append(nudgeJobs, c)
  ELSE /\ pending' = [pending EXCEPT ![c] =
            [pts |-> Larger(@.pts, e.pts), behind |-> Larger(@.behind, e.barrier)]]
       /\ UNCHANGED nudgeJobs

-----------------------------------------------------------------------------
(* Requests.  The commits of a channel are ordered by its pts; nothing     *)
(* orders the calls of Enqueue that follow them.                           *)

Publish(c) ==
  /\ phase # "ended" /\ Cardinality(Committed) < MaxUpdates
  /\ pts' = [pts EXCEPT ![c] = @ + 1]
  /\ senders' = senders \cup {[chan |-> c, pts |-> pts[c] + 1, at |-> "committed"]}
  /\ UNCHANGED <<runVars, queued, shardVars, nudgeVars, recoveryVars, online, owed, faults>>

Advance(x, at) == senders' = (senders \ {x}) \cup {[x EXCEPT !.at = at]}
Leave(x) == senders' = senders \ {x}

\* The payload will not be pushed: from here its online members are owed it.
Owe(x) ==
  owed' = IF phase = "up" /\ x.chan \in online THEN [owed EXCEPT ![x.chan] = Larger(@, x.pts)] ELSE owed

\* Enqueue up to reserveQueuedJob.  Before Run the request pushes the payload
\* itself; after the stop nothing is accepted.
Reserve(x) ==
  /\ x.at = "committed"
  /\ IF phase \in {"new", "stopped", "ended"}
     THEN Leave(x) /\ UNCHANGED <<queued, owed>>
     ELSE IF queued < MaxJobs
     THEN Advance(x, "reserved") /\ queued' = queued + 1 /\ UNCHANGED owed
     ELSE Advance(x, "spilled") /\ Owe(x) /\ UNCHANGED queued
  /\ UNCHANGED <<runVars, pts, shardVars, nudgeVars, recoveryVars, online, faults>>

PutInto(x, bound, released) ==
  LET s == shardOf[x.chan]
  IN  /\ x.at = "reserved"
      /\ IF Len(jobs[s]) < bound
         THEN /\ jobs' = [jobs EXCEPT ![s] =
                   Append(@, [chan |-> x.chan, pts |-> x.pts, seq |-> seqs[s].next + 1])]
              /\ seqs' = [seqs EXCEPT ![s].next = @ + 1]
              /\ Leave(x)
              /\ UNCHANGED <<queued, owed>>
         ELSE /\ queued' = queued - released
              /\ Advance(x, "spilled") /\ Owe(x)
              /\ UNCHANGED <<jobs, seqs>>
      /\ UNCHANGED <<runVars, pts, worker, wake, retry, overflow, order, nudgeVars,
                     recoveryVars, online, faults>>

\* Mutated: the FIFO takes one job too many.
PutOneMore(x) == PutInto(x, Buffer + 1, 1)

\* Mutated: the reservation of a payload that found no room is kept.
PutLeaking(x) == PutInto(x, Buffer, 0)

\* shard.enqueue, and the release of the reservation when the FIFO is full.
Put(x) == PutInto(x, Buffer, 1)

\* enqueueOverflow, or a generation when no entry is free.
Spill(x) ==
  /\ x.at = "spilled"
  /\ Leave(x)
  /\ IF CanAdd(x.chan)
     THEN AddOverflow(x.chan, x.pts) /\ UNCHANGED recovery
     ELSE RequestRecovery /\ UNCHANGED <<overflow, order, wake>>
  /\ UNCHANGED <<runVars, pts, queued, jobs, seqs, worker, retry, nudgeVars, sweep,
                 online, owed, faults>>

-----------------------------------------------------------------------------
(* A shard's worker.                                                       *)

At(s, at) == worker' = [worker EXCEPT ![s] = [@ EXCEPT !.at = at]]

\* The worker takes a job and pushes it to the recipients.
RunJob(s) ==
  /\ Running
  /\ worker[s].at = "select" /\ jobs[s] # <<>>
  /\ worker' = [worker EXCEPT ![s] = [at |-> "running", job |-> Head(jobs[s])]]
  /\ jobs' = [jobs EXCEPT ![s] = Tail(@)]
  /\ UNCHANGED <<runVars, pts, senders, queued, seqs, wake, retry, overflow, order,
                 nudgeVars, recoveryVars, online, owed, faults>>

\* releaseQueuedJob, markProcessed
FinishJob(s) ==
  /\ worker[s].at = "running"
  /\ queued' = queued - 1
  /\ seqs' = [seqs EXCEPT ![s].processed = Larger(@, worker[s].job.seq)]
  /\ worker' = [worker EXCEPT ![s] = [at |-> "drain", job |-> None]]
  /\ UNCHANGED <<runVars, pts, senders, jobs, wake, retry, overflow, order, nudgeVars,
                 recoveryVars, online, owed, faults>>

TakeWake(s) ==
  /\ Running
  /\ worker[s].at = "select" /\ wake[s]
  /\ wake' = [wake EXCEPT ![s] = FALSE]
  /\ At(s, "drain")
  /\ UNCHANGED <<runVars, pts, senders, queued, jobs, seqs, retry, overflow, order,
                 nudgeVars, recoveryVars, online, owed, faults>>

RetryFires(s) ==
  /\ Running
  /\ worker[s].at = "select" /\ retry[s]
  /\ retry' = [retry EXCEPT ![s] = FALSE]
  /\ At(s, "drain")
  /\ UNCHANGED <<runVars, pts, senders, queued, jobs, seqs, wake, overflow, order,
                 nudgeVars, recoveryVars, online, owed, faults>>

\* Mutated: an entry may go while the last payload before it is still pushed.
EligibleEarly(c) ==
  overflow[c] # None /\ overflow[c].barrier <= seqs[shardOf[c]].processed + 1

\* Every payload accepted before the entry's first loss has been pushed.
Eligible(c) == overflow[c] # None /\ overflow[c].barrier <= seqs[shardOf[c]].processed

\* Where tryQueueOverflow finds an entry that may go, and the list without it.
Ready(s) == {i \in DOMAIN order[s] : Eligible(order[s][i])}
Without(q, i) == [j \in 1..Len(q) - 1 |-> IF j < i THEN q[j] ELSE q[j + 1]]

\* drain: the first eligible entry moves to the nudge queue, which may be full.
\* signalEligibleOverflow follows under the lock again; the entries it looks for
\* leave only through this worker, and a new entry sets the token itself.
Drain(s) ==
  /\ worker[s].at = "drain"
  /\ IF retry[s] \/ Ready(s) = {}
     THEN UNCHANGED <<wake, retry, overflow, order, nudgeVars, sweep>>
     ELSE \E i \in Ready(s) :
            LET c == order[s][i]
            IN  /\ \A j \in Ready(s) : i <= j
                /\ IF CanOffer(c)
                   THEN /\ Offer(c, overflow[c])
                        /\ overflow' = [overflow EXCEPT ![c] = None]
                        /\ order' = [order EXCEPT ![s] = Without(@, i)]
                        /\ FreeSpace(s)
                        /\ wake' = [wake EXCEPT ![s] = @ \/ Ready(s) # {i}]
                        /\ UNCHANGED <<retry, nudger>>
                   ELSE /\ retry' = [retry EXCEPT ![s] = TRUE]
                        /\ UNCHANGED <<wake, overflow, order, nudgeVars, sweep>>
  /\ At(s, "select")
  /\ UNCHANGED <<runVars, pts, senders, queued, jobs, seqs, recovery, online, owed, faults>>

-----------------------------------------------------------------------------
(* A nudge worker.                                                         *)

NoNudge == [at |-> "idle", chan |-> None, pts |-> 0, behind |-> 0]

Receive(n) ==
  /\ Running
  /\ nudger[n].at = "idle" /\ nudgeJobs # <<>>
  /\ nudger' = [nudger EXCEPT ![n] = [@ EXCEPT !.at = "got", !.chan = Head(nudgeJobs)]]
  /\ nudgeJobs' = Tail(nudgeJobs)
  /\ UNCHANGED <<runVars, pts, senders, queued, shardVars, pending, recoveryVars, online,
                 owed, faults>>

TakeNudge(n) ==
  LET c == nudger[n].chan
  IN  /\ nudger[n].at = "got"
      /\ nudger' = [nudger EXCEPT ![n] =
           [at |-> "sending", chan |-> c, pts |-> pending[c].pts, behind |-> pending[c].behind]]
      /\ pending' = [pending EXCEPT ![c] = None]
      /\ UNCHANGED <<runVars, pts, senders, queued, shardVars, nudgeJobs, recoveryVars,
                     online, owed, faults>>

\* runChannelFanoutOverflowNudge reached every online member.
Nudged(n) ==
  LET c == nudger[n].chan
  IN  /\ nudger[n].at = "sending"
      /\ nudger' = [nudger EXCEPT ![n] = NoNudge]
      /\ owed' = [owed EXCEPT ![c] = IF nudger[n].pts >= @ THEN 0 ELSE @]
      /\ UNCHANGED <<runVars, pts, senders, queued, shardVars, pending, nudgeJobs,
                     recoveryVars, online, faults>>

\* The deadline or the audience query cut the nudge off: the whole channel is
\* left to a recovery sweep, unless the dispatcher is stopping.
CutOff(n) ==
  /\ nudger[n].at = "sending" /\ faults < MaxFaults
  /\ faults' = faults + 1
  /\ nudger' = [nudger EXCEPT ![n] = NoNudge]
  /\ IF phase = "up" THEN RequestRecovery ELSE UNCHANGED recovery
  /\ UNCHANGED <<runVars, pts, senders, queued, shardVars, pending, nudgeJobs, sweep,
                 online, owed>>

-----------------------------------------------------------------------------
(* The recovery actor.  A cancelled context fails its queries and ends its *)
(* waits, so that it does nothing more once Run is cancelled.              *)

Idle == [at |-> "check", target |-> 0, todo |-> {}, page |-> {}, space |-> FALSE]
SweepUnchanged ==
  UNCHANGED <<runVars, pts, senders, queued, shardVars, nudgeVars, online, owed>>

\* runRecoverySweeps: a new generation, or sleep until one is announced.
CheckGeneration ==
  /\ phase = "up" /\ sweep.at = "check"
  /\ sweep' = IF recovery.generation > recovery.completed
              THEN [sweep EXCEPT !.at = "snapshot", !.target = recovery.generation]
              ELSE [sweep EXCEPT !.at = "asleep"]
  /\ UNCHANGED recovery /\ UNCHANGED faults /\ SweepUnchanged

TakeRecoveryWake ==
  /\ phase = "up" /\ sweep.at = "asleep" /\ recovery.wake
  /\ recovery' = [recovery EXCEPT !.wake = FALSE]
  /\ sweep' = [sweep EXCEPT !.at = "check"]
  /\ UNCHANGED faults /\ SweepUnchanged

\* OnlineChannelIDsSnapshot
Snapshot ==
  /\ phase = "up" /\ sweep.at = "snapshot"
  /\ sweep' = [sweep EXCEPT !.at = "page", !.todo = online]
  /\ UNCHANGED recovery /\ UNCHANGED faults /\ SweepUnchanged

\* MaxChannelPtsBatch of the next page, in ascending order of the ids.
NextPage ==
  {c \in sweep.todo : Cardinality({d \in sweep.todo : d < c}) < PageSize}
ReadPage ==
  /\ phase = "up" /\ sweep.at = "page" /\ sweep.page = {} /\ sweep.todo # {}
  /\ sweep' = [sweep EXCEPT !.todo = @ \ NextPage,
                            !.page = {<<c, pts[c]>> : c \in {d \in NextPage : pts[d] > 0}}]
  /\ UNCHANGED recovery /\ UNCHANGED faults /\ SweepUnchanged

\* A query fails: the generation stays, the sweep starts over after a backoff.
SweepFails ==
  /\ phase = "up" /\ sweep.at = "page" /\ sweep.page = {} /\ sweep.todo # {}
  /\ faults < MaxFaults
  /\ faults' = faults + 1
  /\ sweep' = [Idle EXCEPT !.at = "backoff"]
  /\ UNCHANGED recovery /\ SweepUnchanged

BackoffEnds ==
  /\ phase = "up" /\ sweep.at = "backoff"
  /\ sweep' = Idle
  /\ UNCHANGED recovery /\ UNCHANGED faults /\ SweepUnchanged

\* enqueueOverflowWait: try, and subscribe to the next release under the same
\* lock; a waiter that is woken tries again.
Admit ==
  LET e == CHOOSE x \in sweep.page : \A y \in sweep.page : x[1] <= y[1]
  IN  /\ phase = "up" /\ sweep.page # {}
      /\ sweep.at = "page" \/ (sweep.at = "waiting" /\ sweep.space)
      /\ IF CanAdd(e[1])
         THEN /\ AddOverflow(e[1], e[2])
              /\ sweep' = [sweep EXCEPT !.at = "page", !.page = @ \ {e}, !.space = FALSE]
         ELSE /\ sweep' = [sweep EXCEPT !.at = "waiting", !.space = FALSE]
              /\ UNCHANGED <<overflow, order, wake>>
      /\ UNCHANGED <<runVars, pts, senders, queued, jobs, seqs, worker, retry, nudgeVars,
                     recovery, online, owed, faults>>

Complete(generation) ==
  /\ phase = "up" /\ sweep.at = "page" /\ sweep.page = {} /\ sweep.todo = {}
  /\ recovery' = [recovery EXCEPT !.completed = generation]
  /\ sweep' = Idle
  /\ UNCHANGED faults /\ SweepUnchanged

\* Mutated: completed takes the generation of the end of the sweep.
CompleteLatest == Complete(recovery.generation)

\* Every channel of the snapshot has an entry: the generation read before the
\* snapshot is complete, a later one is not.
CompleteSweep == Complete(sweep.target)

-----------------------------------------------------------------------------
(* Members, and the life of Run.                                           *)

\* A client that comes online loads the difference itself.
Connect(c) ==
  /\ c \notin online
  /\ online' = online \cup {c}
  /\ UNCHANGED <<runVars, pts, senders, queued, shardVars, nudgeVars, recoveryVars, owed,
                 faults>>

Disconnect(c) ==
  /\ c \in online /\ faults < MaxFaults
  /\ faults' = faults + 1
  /\ online' = online \ {c}
  /\ owed' = [owed EXCEPT ![c] = 0]
  /\ UNCHANGED <<runVars, pts, senders, queued, shardVars, nudgeVars, recoveryVars>>

Phase(from, to) == phase = from /\ phase' = to
Dispatcher == <<pts, senders, shardVars, nudgeVars, recoveryVars, online, faults>>

Start == Phase("new", "up") /\ UNCHANGED <<shardOf, queued, owed, Dispatcher>>

\* The process stops: its clients reconnect and load the difference.
Cancel ==
  /\ Phase("up", "cancelled")
  /\ owed' = [c \in Channels |-> 0]
  /\ UNCHANGED <<shardOf, queued, Dispatcher>>

\* enqueueMu: no Enqueue is between its check and its end.
StopEnqueues ==
  /\ Phase("cancelled", "stopped")
  /\ \A x \in senders : x.at = "committed"
  /\ UNCHANGED <<shardOf, queued, owed, Dispatcher>>

\* The end of Run, after wg.Wait: what is still buffered is released.  A
\* goroutine returns where it waits; one that has returned takes no more steps,
\* like one that is not scheduled.
End ==
  /\ Phase("stopped", "ended")
  /\ \A s \in Shards : worker[s].at = "select"
  /\ \A n \in NudgeWorkers : nudger[n].at = "idle"
  /\ queued' = queued - Cardinality({p \in Shards \X (1..Buffer) : p[2] <= Len(jobs[p[1]])})
  /\ jobs' = [s \in Shards |-> <<>>]
  /\ overflow' = [c \in Channels |-> None]
  /\ order' = [s \in Shards |-> <<>>]
  /\ pending' = [c \in Channels |-> None]
  /\ UNCHANGED <<shardOf, pts, senders, seqs, worker, wake, retry, nudgeJobs, nudger,
                 recoveryVars, online, owed, faults>>

-----------------------------------------------------------------------------
Request == (\E c \in Channels : Publish(c)) \/ \E x \in senders : Reserve(x) \/ Put(x) \/ Spill(x)
Shard(s) ==
  RunJob(s) \/ FinishJob(s) \/ TakeWake(s) \/ RetryFires(s) \/ Drain(s)
Nudger(n) == Receive(n) \/ TakeNudge(n) \/ Nudged(n)
Recovery ==
  CheckGeneration \/ TakeRecoveryWake \/ Snapshot \/ ReadPage \/ BackoffEnds \/ Admit
    \/ CompleteSweep

Next ==
  \/ Request
  \/ \E s \in Shards : Shard(s)
  \/ \E n \in NudgeWorkers : Nudger(n) \/ CutOff(n)
  \/ Recovery \/ SweepFails
  \/ \E c \in Channels : Connect(c) \/ Disconnect(c)
  \/ Start \/ Cancel \/ StopEnqueues \/ End

Spec == Init /\ [][Next]_vars

(***************************************************************************)
(* Fairness: while Run is up its goroutines are scheduled, and a request    *)
(* that has committed goes on to the end of Enqueue.                       *)
(***************************************************************************)
Fairness ==
  /\ WF_vars(\E x \in senders : Reserve(x) \/ Put(x) \/ Spill(x))
  /\ \A s \in Shards : WF_vars(phase = "up" /\ Shard(s))
  /\ \A n \in NudgeWorkers : WF_vars(phase = "up" /\ Nudger(n))
  /\ WF_vars(Recovery)

FairSpec == Spec /\ Fairness

-----------------------------------------------------------------------------
Accepted(s) ==
  {jobs[s][i] : i \in DOMAIN jobs[s]} \cup (IF worker[s].job = None THEN {} ELSE {worker[s].job})

\* The queues keep their bounds and hold what their owners may put there; the
\* maps and the lists beside them name the same channels, each once.
TypeOK ==
  /\ shardOf \in [Channels -> Shards]
  /\ phase \in {"new", "up", "cancelled", "stopped", "ended"}
  /\ pts \in [Channels -> 0..MaxUpdates] /\ owed \in [Channels -> 0..MaxUpdates]
  /\ senders \subseteq [chan : Channels, pts : Pts, at : {"committed", "reserved", "spilled"}]
  /\ queued \in 0..MaxJobs
  /\ online \subseteq Channels
  /\ \A s \in Shards :
       /\ Len(jobs[s]) <= Buffer
       /\ worker[s].at \in {"select", "running", "drain"}
       /\ {order[s][i] : i \in DOMAIN order[s]} = Entries(s)
       /\ Len(order[s]) = Cardinality(Entries(s)) /\ Len(order[s]) <= OverflowLimit
  /\ Len(nudgeJobs) <= Cardinality(Waiting) \/ phase = "ended"
  /\ Cardinality(Waiting) <= NudgeLimit
  /\ \A n \in NudgeWorkers : nudger[n].at = "got" => pending[nudger[n].chan] # None

\* Every accepted job holds exactly one reservation until it has run, whichever
\* way it leaves; a stopped dispatcher holds none (releaseQueuedJob panics below
\* zero).
BudgetExact ==
  queued = Cardinality({x \in senders : x.at = "reserved"})
           + Cardinality({p \in Shards \X (0..Buffer) :
               IF p[2] = 0 THEN worker[p[1]].job # None ELSE p[2] <= Len(jobs[p[1]])})

\* What members may not know of is remembered somewhere: by the request, an
\* entry, a queued nudge or one being sent, with pts at least as high, or by a
\* sweep that has yet to read the channel.
Remembered(c) ==
  \/ \E x \in senders : x.at = "spilled" /\ x.chan = c /\ x.pts >= owed[c]
  \/ overflow[c] # None /\ overflow[c].pts >= owed[c]
  \/ pending[c] # None /\ pending[c].pts >= owed[c]
  \/ \E n \in NudgeWorkers :
       nudger[n].at = "sending" /\ nudger[n].chan = c /\ nudger[n].pts >= owed[c]
  \/ recovery.generation > IF sweep.target > 0 THEN sweep.target ELSE recovery.completed
  \/ sweep.at = "snapshot" \/ c \in sweep.todo
  \/ \E e \in sweep.page : e[1] = c /\ e[2] >= owed[c]
NothingForgotten == phase = "up" => \A c \in Channels : owed[c] > 0 => Remembered(c)

\* A nudge never overtakes a payload of its channel that was accepted before the
\* first of the losses it reports.
NudgeBehindPayloads ==
  \A c \in Channels :
    \A j \in Accepted(shardOf[c]) : j.chan = c =>
      /\ pending[c] # None => pending[c].behind < j.seq
      /\ \A n \in NudgeWorkers :
           nudger[n].at = "sending" /\ nudger[n].chan = c => nudger[n].behind < j.seq

\* The recovery actor sleeps on a mailbox only while that mailbox is full: no
\* release slips between its failed try and its subscription.
SleepsOnlyWhenFull ==
  sweep.at = "waiting" /\ ~sweep.space /\ phase # "ended" =>
    \E e \in sweep.page : Cardinality(Entries(shardOf[e[1]])) = OverflowLimit

\* Members that missed a payload are nudged, however many layers were full when
\* it was lost, unless they leave or the dispatcher stops.
LostIsNudged ==
  \A c \in Channels : owed[c] > 0 ~> owed[c] = 0 \/ phase # "up"
=============================================================================
