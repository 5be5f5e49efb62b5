------------------------ MODULE ChannelFanoutProofs ------------------------
(***************************************************************************)
(* What holds of the fan-out dispatcher for any number of channels, shards *)
(* and workers and mailboxes of any size: reservations are exact, nudges   *)
(* stay behind the payloads before them, no loss is forgotten, and nobody  *)
(* sleeps on a mailbox that has room.                                      *)
(***************************************************************************)
EXTENDS ChannelFanout, FiniteSetTheorems, SequenceTheorems, NaturalsInduction,
        WellFoundedInduction, TLAPS

Requests == [chan : Channels, pts : Pts, at : {"committed", "reserved", "spilled"}]
JobSet == [chan : Channels, pts : Nat, seq : Nat]
EntrySet == [pts : Nat, barrier : Nat]
NudgeSet == [pts : Nat, behind : Nat]
Workers == [at : {"select", "running", "drain"}, job : JobSet \cup {None}]
Nudgers == [at : {"idle", "got", "sending"}, chan : Channels \cup {None}, pts : Nat, behind : Nat]
Counters == [next : Nat, processed : Nat]
Generations == [generation : Nat, completed : Nat, wake : BOOLEAN]
Sweeps == [at : {"check", "asleep", "backoff", "snapshot", "page", "waiting"}, target : Nat,
           todo : SUBSET Channels, page : SUBSET (Channels \X Nat), space : BOOLEAN]

ShardsTyped ==
  /\ jobs \in [Shards -> Seq(JobSet)] /\ seqs \in [Shards -> Counters]
  /\ worker \in [Shards -> Workers]
  /\ wake \in [Shards -> BOOLEAN] /\ retry \in [Shards -> BOOLEAN]
  /\ overflow \in [Channels -> EntrySet \cup {None}] /\ order \in [Shards -> Seq(Channels)]
NudgesTyped ==
  /\ pending \in [Channels -> NudgeSet \cup {None}] /\ nudgeJobs \in Seq(Channels)
  /\ nudger \in [NudgeWorkers -> Nudgers]
  /\ \A n \in NudgeWorkers : nudger[n].at # "idle" => nudger[n].chan \in Channels
RestTyped ==
  /\ shardOf \in [Channels -> Shards]
  /\ phase \in {"new", "up", "cancelled", "stopped", "ended"}
  /\ pts \in [Channels -> 0..MaxUpdates] /\ owed \in [Channels -> 0..MaxUpdates]
  /\ senders \subseteq Requests
  /\ recovery \in Generations /\ sweep \in Sweeps
  /\ online \subseteq Channels
Typed == ShardsTyped /\ NudgesTyped /\ RestTyped

\* The jobs q of a shard, its worker w and its counters e: numbers grow along the queue,
\* from the job that is running, and none was processed.
InLine(q, w, e) ==
  /\ Len(q) <= Buffer /\ e.processed <= e.next
  /\ \A i \in DOMAIN q : e.processed < q[i].seq /\ q[i].seq <= e.next
  /\ \A i, j \in DOMAIN q : i < j => q[i].seq < q[j].seq
  /\ w.at = "running" <=> w.job # None
  /\ w.job # None =>
       /\ e.processed < w.job.seq /\ w.job.seq <= e.next
       /\ \A i \in DOMAIN q : w.job.seq < q[i].seq
Lanes == \A s \in Shards : InLine(jobs[s], worker[s], seqs[s])

\* What a nudge waited for has been processed.
Waited ==
  /\ \A c \in Channels :
       pending[c] # None => pending[c].behind <= seqs[shardOf[c]].processed
  /\ \A n \in NudgeWorkers :
       nudger[n].at = "sending" =>
         nudger[n].behind <= seqs[shardOf[nudger[n].chan]].processed

\* A channel that is queued for a nudge worker, or received by one, is pending, and so
\* only once.
Queued ==
  /\ phase # "ended" =>
       \A i \in DOMAIN nudgeJobs :
         /\ pending[nudgeJobs[i]] # None
         /\ \A j \in DOMAIN nudgeJobs : i # j => nudgeJobs[i] # nudgeJobs[j]
         /\ \A n \in NudgeWorkers : nudger[n].at = "got" => nudger[n].chan # nudgeJobs[i]
  /\ \A n \in NudgeWorkers :
       nudger[n].at = "got" =>
         /\ pending[nudger[n].chan] # None
         /\ \A m \in NudgeWorkers :
              nudger[m].at = "got" /\ m # n => nudger[m].chan # nudger[n].chan
  /\ Cardinality(Waiting) <= NudgeLimit

\* The list q names the members of E, each once.
Lists(q, E) ==
  /\ \A i \in DOMAIN q : q[i] \in E
  /\ \A i, j \in DOMAIN q : q[i] = q[j] => i = j
  /\ \A c \in E : \E i \in DOMAIN q : q[i] = c

\* A shard's list names the channels that have an entry.
Listed(s) == Lists(order[s], Entries(s)) /\ Cardinality(Entries(s)) <= OverflowLimit
Mailboxes == \A s \in Shards : Listed(s)

\* Each update is handed over by one request, and a dispatcher that has stopped holds
\* no reservation.
OneSender ==
  /\ \A x, y \in senders : x.chan = y.chan /\ x.pts = y.pts => x = y
  /\ \A x \in senders : x.pts <= pts[x.chan]
Over ==
  /\ phase \in {"stopped", "ended"} => \A x \in senders : x.at = "committed"
  /\ phase = "ended" =>
       /\ \A s \in Shards : worker[s].at = "select" /\ jobs[s] = <<>>
       /\ \A n \in NudgeWorkers : nudger[n].at = "idle"
       /\ \A c \in Channels : overflow[c] = None /\ pending[c] = None

Reserved == {x \in senders : x.at = "reserved"}
Slot(j, w, s, i) == IF i = 0 THEN w[s].job # None ELSE i <= Len(j[s])
HeldOf(j, w) == {p \in Shards \X (0..Buffer) : Slot(j, w, p[1], p[2])}
Held == HeldOf(jobs, worker)
Budget ==
  /\ IsFiniteSet(Reserved) /\ IsFiniteSet(Held)
  /\ queued = Cardinality(Reserved) + Cardinality(Held)
  /\ queued <= MaxJobs

\* A sweep works for a generation that was announced and is not complete.
Sweeping ==
  /\ recovery.completed <= recovery.generation
  /\ sweep.at \in {"check", "asleep", "backoff"} =>
       sweep.target = 0 /\ sweep.todo = {} /\ sweep.page = {}
  /\ sweep.at \in {"snapshot", "page", "waiting"} =>
       recovery.completed < sweep.target /\ sweep.target <= recovery.generation
  /\ sweep.at = "snapshot" => sweep.todo = {} /\ sweep.page = {}

\* Whoever is owed something is online, and what is owed was committed and is remembered.
Owing ==
  \A c \in Channels :
    owed[c] > 0 => phase = "up" /\ c \in online /\ owed[c] <= pts[c] /\ Remembered(c)

IInv ==
  /\ Typed /\ Lanes /\ Waited /\ Queued /\ Mailboxes /\ OneSender /\ Over /\ Budget
  /\ Sweeping /\ Owing /\ SleepsOnlyWhenFull

-----------------------------------------------------------------------------
(* Types.                                                                  *)

\* A commit below the bound of all commits is below the bound of its channel.
LEMMA RoomForOne ==
  ASSUME RestTyped, NEW c \in Channels, Cardinality(Committed) < MaxUpdates
  PROVE  pts[c] < MaxUpdates
<1>1. MaxUpdates \in Nat /\ IsFiniteSet(Channels) /\ pts[c] \in 0..MaxUpdates
  BY ChannelsAssumption, FanoutBoundsAssumption DEF RestTyped
<1>2. Committed \in SUBSET (Channels \X (1..MaxUpdates))
  BY <1>1 DEF Committed, RestTyped
<1>3. IsFiniteSet(1..MaxUpdates)
  BY <1>1, FS_Interval
<1>4. IsFiniteSet(Channels \X (1..MaxUpdates))
  BY <1>1, <1>3, FS_Product
<1>5. IsFiniteSet(Committed)
  BY <1>2, <1>4, FS_Subset
<1>6. {c} \X (1..pts[c]) \in SUBSET Committed
  BY DEF Committed
<1>7. IsFiniteSet({c}) /\ Cardinality({c}) = 1
  BY FS_Singleton, Zenon
<1>8. IsFiniteSet(1..pts[c]) /\ Cardinality(1..pts[c]) = pts[c]
  <2>1. pts[c] \in Int /\ 1 \in Int /\ pts[c] >= 0
    BY <1>1
  <2>2. /\ IsFiniteSet(1..pts[c])
        /\ Cardinality(1..pts[c]) = IF 1 > pts[c] THEN 0 ELSE pts[c] - 1 + 1
    BY <2>1, FS_Interval
  <2> QED
    BY <2>1, <2>2
<1>9. Cardinality({c} \X (1..pts[c])) = pts[c]
  <2>1. Cardinality({c} \X (1..pts[c])) = Cardinality({c}) * Cardinality(1..pts[c])
    BY <1>7, <1>8, FS_Product
  <2>2. 1 * pts[c] = pts[c]
    BY <1>1
  <2> QED
    BY <1>7, <1>8, <2>1, <2>2
<1>10. Cardinality({c} \X (1..pts[c])) <= Cardinality(Committed)
  BY <1>5, <1>6, FS_Subset
<1>11. Cardinality(Committed) \in Nat
  BY <1>5, FS_CardinalityType
<1> QED
  BY <1>1, <1>9, <1>10, <1>11

\* An entry that is added or raised.
Raised(c, p) ==
  [overflow EXCEPT ![c] =
     IF overflow[c] = None THEN [pts |-> p, barrier |-> seqs[shardOf[c]].next]
     ELSE [pts |-> Larger(overflow[c].pts, p), barrier |-> overflow[c].barrier]]

\* addOverflowLocked leaves a well-formed mailbox.
LEMMA AddTyped ==
  ASSUME ShardsTyped, RestTyped, NEW c \in Channels, NEW p \in Nat, AddOverflow(c, p)
  PROVE  /\ overflow' = Raised(c, p)
         /\ overflow' \in [Channels -> EntrySet \cup {None}]
         /\ order' \in [Shards -> Seq(Channels)]
         /\ wake' \in [Shards -> BOOLEAN]
<1> DEFINE s == shardOf[c]
           e == IF overflow[c] = None THEN [pts |-> p, barrier |-> seqs[s].next]
                ELSE [pts |-> Larger(overflow[c].pts, p), barrier |-> overflow[c].barrier]
<1>1. s \in Shards
  BY DEF RestTyped
<1>2. e \in EntrySet
  BY <1>1 DEF ShardsTyped, EntrySet, Counters, Larger
<1>3. overflow' = Raised(c, p)
  BY DEF AddOverflow, AddAnd, Raised
<1>4. order' = order \/ order' = [order EXCEPT ![s] = Append(order[s], c)]
  BY DEF AddOverflow, AddAnd
<1>5. order' \in [Shards -> Seq(Channels)]
  <2>1. Append(order[s], c) \in Seq(Channels)
    BY <1>1 DEF ShardsTyped
  <2> QED
    BY <1>1, <1>4, <2>1 DEF ShardsTyped
<1>6. wake' = [wake EXCEPT ![s] = wake[s] \/ TRUE]
  BY DEF AddOverflow, AddAnd
<1>7. overflow' = [overflow EXCEPT ![c] = e]
  BY <1>3 DEF Raised
<1> HIDE DEF e
<1> QED
  BY <1>1, <1>2, <1>3, <1>5, <1>6, <1>7 DEF ShardsTyped

\* What is owed stays below the bound of all commits.
LEMMA OwedTyped ==
  ASSUME RestTyped, NEW x, x \in Requests, Owe(x)
  PROVE  owed' \in [Channels -> 0..MaxUpdates]
<1>1. x.chan \in Channels /\ x.pts \in 0..MaxUpdates /\ owed[x.chan] \in 0..MaxUpdates
  BY FanoutBoundsAssumption DEF RestTyped, Requests, Pts
<1>2. Larger(owed[x.chan], x.pts) \in 0..MaxUpdates
  BY <1>1 DEF Larger
<1>3. owed' = owed \/ owed' = [owed EXCEPT ![x.chan] = Larger(owed[x.chan], x.pts)]
  BY DEF Owe
<1> QED
  BY <1>2, <1>3 DEF RestTyped

\* A generation is announced.
LEMMA AnnouncedTyped ==
  ASSUME RestTyped, RequestRecovery
  PROVE  /\ recovery' \in Generations
         /\ recovery'.generation = recovery.generation + 1
         /\ recovery'.completed = recovery.completed
<1>1. recovery \in Generations /\ recovery.generation + 1 \in Nat
  BY DEF RestTyped, Generations
<1>2. recovery' = [recovery EXCEPT !.generation = recovery.generation + 1, !.wake = TRUE]
  BY DEF RequestRecovery
<1> QED
  BY <1>1, <1>2 DEF Generations

\* A request's step.
LEMMA RequestTyped ==
  ASSUME Typed, Request
  PROVE  Typed'
<1>1. ShardsTyped /\ NudgesTyped /\ RestTyped /\ MaxUpdates \in Nat
  BY FanoutBoundsAssumption DEF Typed
<1>2. ASSUME NEW c \in Channels, Publish(c)
      PROVE  Typed'
  <2>1. /\ Cardinality(Committed) < MaxUpdates
        /\ pts' = [pts EXCEPT ![c] = pts[c] + 1]
        /\ senders' = senders \cup {[chan |-> c, pts |-> pts[c] + 1, at |-> "committed"]}
        /\ UNCHANGED <<runVars, shardVars, nudgeVars, recoveryVars, online, owed>>
    BY <1>2 DEF Publish
  <2>2. pts[c] < MaxUpdates /\ pts[c] \in 0..MaxUpdates
    BY <1>1, <2>1, RoomForOne DEF RestTyped
  <2>3. RestTyped'
    BY <1>1, <2>1, <2>2 DEF RestTyped, runVars, recoveryVars, Requests, Pts
  <2> QED
    BY <1>1, <2>1, <2>3 DEF Typed, ShardsTyped, NudgesTyped, shardVars, nudgeVars
<1>3. ASSUME NEW x \in senders, Reserve(x)
      PROVE  Typed'
  <2>1. x.chan \in Channels /\ x.pts \in Pts /\ x \in Requests
    BY <1>1 DEF RestTyped, Requests
  <2>2. /\ UNCHANGED <<runVars, pts, shardVars, nudgeVars, recoveryVars, online>>
        /\ Leave(x) \/ Advance(x, "reserved") \/ Advance(x, "spilled")
        /\ owed' = owed \/ Owe(x)
    BY <1>3 DEF Reserve
  <2>3. senders' \subseteq Requests
    BY <1>1, <2>1, <2>2 DEF RestTyped, Leave, Advance, Requests
  <2>4. owed' \in [Channels -> 0..MaxUpdates]
    BY <1>1, <2>1, <2>2, OwedTyped DEF RestTyped
  <2> QED
    BY <1>1, <2>2, <2>3, <2>4 DEF Typed, ShardsTyped, NudgesTyped, RestTyped, runVars,
                                  shardVars, nudgeVars, recoveryVars
<1>4. ASSUME NEW x \in senders, Put(x)
      PROVE  Typed'
  <2> DEFINE s == shardOf[x.chan]
  <2>1. x.chan \in Channels /\ x.pts \in Pts /\ x \in Requests /\ s \in Shards
    BY <1>1 DEF RestTyped, Requests
  <2>2. /\ UNCHANGED <<runVars, pts, worker, wake, retry, overflow, order, nudgeVars,
                       recoveryVars, online>>
        /\ Leave(x) \/ Advance(x, "spilled")
        /\ owed' = owed \/ Owe(x)
        /\ \/ UNCHANGED <<jobs, seqs>>
           \/ /\ jobs' = [jobs EXCEPT ![s] =
                   Append(jobs[s], [chan |-> x.chan, pts |-> x.pts, seq |-> seqs[s].next + 1])]
              /\ seqs' = [seqs EXCEPT ![s].next = seqs[s].next + 1]
    BY <1>4 DEF Put, PutInto
  <2>3. senders' \subseteq Requests
    BY <1>1, <2>1, <2>2 DEF RestTyped, Leave, Advance, Requests
  <2>4. owed' \in [Channels -> 0..MaxUpdates]
    BY <1>1, <2>1, <2>2, OwedTyped DEF RestTyped
  <2>5. jobs' \in [Shards -> Seq(JobSet)] /\ seqs' \in [Shards -> Counters]
    <3>1. [chan |-> x.chan, pts |-> x.pts, seq |-> seqs[s].next + 1] \in JobSet
      BY <1>1, <2>1 DEF ShardsTyped, Counters, JobSet, Pts
    <3>2. Append(jobs[s], [chan |-> x.chan, pts |-> x.pts, seq |-> seqs[s].next + 1]) \in Seq(JobSet)
      BY <1>1, <2>1, <3>1 DEF ShardsTyped
    <3>3. seqs[s] \in Counters /\ seqs[s].next + 1 \in Nat
      BY <1>1, <2>1 DEF ShardsTyped, Counters
    <3>4. [seqs EXCEPT ![s].next = seqs[s].next + 1] \in [Shards -> Counters]
      BY <1>1, <2>1, <3>3 DEF ShardsTyped, Counters
    <3> QED
      BY <1>1, <2>1, <2>2, <3>2, <3>4 DEF ShardsTyped
  <2> QED
    BY <1>1, <2>2, <2>3, <2>4, <2>5 DEF Typed, ShardsTyped, NudgesTyped, RestTyped, runVars,
                                       nudgeVars, recoveryVars
<1>5. ASSUME NEW x \in senders, Spill(x)
      PROVE  Typed'
  <2>1. x.chan \in Channels /\ x.pts \in Nat /\ x \in Requests
    BY <1>1 DEF RestTyped, Requests, Pts
  <2>2. /\ UNCHANGED <<runVars, pts, jobs, seqs, worker, retry, nudgeVars, sweep, online, owed>>
        /\ Leave(x)
        /\ \/ AddOverflow(x.chan, x.pts) /\ UNCHANGED recovery
           \/ RequestRecovery /\ UNCHANGED <<overflow, order, wake>>
    BY <1>5 DEF Spill
  <2>3. /\ overflow' \in [Channels -> EntrySet \cup {None}]
        /\ order' \in [Shards -> Seq(Channels)]
        /\ wake' \in [Shards -> BOOLEAN]
    BY <1>1, <2>1, <2>2, AddTyped DEF ShardsTyped
  <2>4. recovery' \in Generations
    BY <1>1, <2>2, AnnouncedTyped DEF RestTyped
  <2>5. senders' \subseteq Requests
    BY <1>1, <2>2 DEF RestTyped, Leave
  <2> QED
    BY <1>1, <2>2, <2>3, <2>4, <2>5 DEF Typed, ShardsTyped, NudgesTyped, RestTyped, runVars,
                                       nudgeVars
<1> QED
  BY <1>2, <1>3, <1>4, <1>5 DEF Request

\* A list without its i-th member.
LEMMA WithoutOne ==
  ASSUME NEW T, NEW q \in Seq(T), NEW i \in DOMAIN q
  PROVE  /\ Without(q, i) \in Seq(T)
         /\ DOMAIN Without(q, i) = 1..Len(q) - 1
         /\ \A j \in 1..Len(q) - 1 : Without(q, i)[j] = IF j < i THEN q[j] ELSE q[j + 1]
<1> DEFINE n == Len(q) - 1
<1>1. n \in Nat /\ DOMAIN q = 1..n + 1 /\ \A j \in 1..n + 1 : q[j] \in T
  <2>1. Len(q) \in Nat /\ DOMAIN q = 1..Len(q) /\ \A j \in 1..Len(q) : q[j] \in T
    OBVIOUS
  <2>2. Len(q) >= 1
    BY <2>1
  <2> QED
    BY <2>1, <2>2
<1>2. \A j \in 1..n : j \in 1..n + 1 /\ j + 1 \in 1..n + 1
  BY <1>1
<1>3. Without(q, i) \in [1..n -> T]
  BY <1>1, <1>2 DEF Without
<1>4. Without(q, i) \in Seq(T)
  BY <1>1, <1>3, SeqDef
<1> QED
  BY <1>1, <1>3, <1>4 DEF Without

\* What tryQueueOverflow does to an entry that may go.
Goes(s, i) ==
  /\ i \in Ready(s) /\ CanOffer(order[s][i]) /\ Offer(order[s][i], overflow[order[s][i]])
  /\ overflow' = [overflow EXCEPT ![order[s][i]] = None]
  /\ order' = [order EXCEPT ![s] = Without(order[s], i)]
  /\ FreeSpace(s)
  /\ UNCHANGED nudger

\* The worker's drain moves one entry or none.
LEMMA DrainSteps ==
  ASSUME ShardsTyped, NEW s \in Shards, Drain(s)
  PROVE  /\ worker[s].at = "drain" /\ At(s, "select")
         /\ UNCHANGED <<runVars, pts, senders, queued, jobs, seqs, recovery, online, owed>>
         /\ wake' \in [Shards -> BOOLEAN] /\ retry' \in [Shards -> BOOLEAN]
         /\ \/ UNCHANGED <<overflow, order, nudgeVars, sweep>>
            \/ \E i \in Ready(s) : Goes(s, i)
<1>1. /\ worker[s].at = "drain" /\ At(s, "select")
      /\ UNCHANGED <<runVars, pts, senders, queued, jobs, seqs, recovery, online, owed>>
  BY DEF Drain
<1>2. CASE retry[s] \/ Ready(s) = {}
  BY <1>1, <1>2 DEF Drain, ShardsTyped
<1>3. CASE ~ (retry[s] \/ Ready(s) = {})
  <2>1. PICK i \in Ready(s) :
          IF CanOffer(order[s][i])
          THEN /\ Offer(order[s][i], overflow[order[s][i]])
               /\ overflow' = [overflow EXCEPT ![order[s][i]] = None]
               /\ order' = [order EXCEPT ![s] = Without(@, i)]
               /\ FreeSpace(s)
               /\ wake' = [wake EXCEPT ![s] = @ \/ Ready(s) # {i}]
               /\ UNCHANGED <<retry, nudger>>
          ELSE /\ retry' = [retry EXCEPT ![s] = TRUE]
               /\ UNCHANGED <<wake, overflow, order, nudgeVars, sweep>>
    BY <1>3 DEF Drain
  <2>2. CASE CanOffer(order[s][i])
    <3>1. wake' \in [Shards -> BOOLEAN] /\ retry' \in [Shards -> BOOLEAN]
      BY <2>1, <2>2 DEF ShardsTyped
    <3>2. Goes(s, i)
      BY <2>1, <2>2 DEF Goes
    <3> QED
      BY <1>1, <3>1, <3>2
  <2>3. CASE ~ CanOffer(order[s][i])
    BY <1>1, <2>1, <2>3 DEF ShardsTyped
  <2> QED
    BY <2>2, <2>3
<1> QED
  BY <1>2, <1>3

\* A ready entry.
LEMMA ReadyEntry ==
  ASSUME Typed, NEW s \in Shards, NEW i \in Ready(s)
  PROVE  /\ i \in DOMAIN order[s] /\ order[s][i] \in Channels
         /\ overflow[order[s][i]] \in EntrySet
         /\ overflow[order[s][i]].barrier <= seqs[shardOf[order[s][i]]].processed
<1>1. i \in DOMAIN order[s] /\ order[s] \in Seq(Channels)
  BY DEF Ready, Typed, ShardsTyped
<1>2. order[s][i] \in Channels
  BY <1>1
<1> QED
  BY <1>1, <1>2 DEF Ready, Eligible, Typed, ShardsTyped

\* What the nudge queue gets.
Merged(c, e) ==
  [pending EXCEPT ![c] =
     IF pending[c] = None THEN [pts |-> e.pts, behind |-> e.barrier]
     ELSE [pts |-> Larger(pending[c].pts, e.pts), behind |-> Larger(pending[c].behind, e.barrier)]]

\* offerNudge leaves a well-formed queue.
LEMMA OfferTyped ==
  ASSUME NudgesTyped, NEW c \in Channels, NEW e, e \in EntrySet, Offer(c, e)
  PROVE  /\ pending' = Merged(c, e)
         /\ pending' \in [Channels -> NudgeSet \cup {None}]
         /\ nudgeJobs' \in Seq(Channels)
<1> DEFINE m == IF pending[c] = None THEN [pts |-> e.pts, behind |-> e.barrier]
                ELSE [pts |-> Larger(pending[c].pts, e.pts),
                      behind |-> Larger(pending[c].behind, e.barrier)]
<1>1. m \in NudgeSet
  BY DEF NudgesTyped, EntrySet, NudgeSet, Larger
<1>2. pending' = Merged(c, e)
  <2>1. CASE pending[c] = None
    BY <2>1 DEF Offer, Merged
  <2>2. CASE pending[c] # None
    BY <2>2 DEF Offer, Merged
  <2> QED
    BY <2>1, <2>2
<1>3. pending' = [pending EXCEPT ![c] = m]
  BY <1>2 DEF Merged
<1> HIDE DEF m
<1>4. nudgeJobs' = nudgeJobs \/ nudgeJobs' = Append(nudgeJobs, c)
  BY DEF Offer
<1> QED
  BY <1>1, <1>2, <1>3, <1>4 DEF NudgesTyped

\* A step of a shard's worker.
LEMMA ShardTyped ==
  ASSUME Typed, Lanes, NEW s \in Shards, Shard(s)
  PROVE  Typed'
<1>1. ShardsTyped /\ NudgesTyped /\ RestTyped
  BY DEF Typed
<1>2. worker[s] \in Workers /\ seqs[s] \in Counters /\ jobs[s] \in Seq(JobSet)
  BY <1>1 DEF ShardsTyped
<1>3. CASE RunJob(s)
  <2>1. /\ worker' = [worker EXCEPT ![s] = [at |-> "running", job |-> Head(jobs[s])]]
        /\ jobs' = [jobs EXCEPT ![s] = Tail(jobs[s])] /\ jobs[s] # <<>>
        /\ UNCHANGED <<runVars, pts, senders, seqs, wake, retry, overflow, order,
                       nudgeVars, recoveryVars, online, owed>>
    BY <1>3 DEF RunJob
  <2>2. Head(jobs[s]) \in JobSet /\ Tail(jobs[s]) \in Seq(JobSet)
    BY <1>2, <2>1
  <2>3. [at |-> "running", job |-> Head(jobs[s])] \in Workers
    BY <2>2 DEF Workers
  <2>4. ShardsTyped'
    BY <1>1, <2>1, <2>2, <2>3 DEF ShardsTyped
  <2> QED
    BY <1>1, <2>1, <2>4 DEF Typed, NudgesTyped, RestTyped, runVars, nudgeVars, recoveryVars
<1>4. CASE FinishJob(s)
  <2>1. /\ seqs' = [seqs EXCEPT ![s].processed = Larger(seqs[s].processed, worker[s].job.seq)]
        /\ worker' = [worker EXCEPT ![s] = [at |-> "drain", job |-> None]]
        /\ worker[s].at = "running"
        /\ UNCHANGED <<runVars, pts, senders, jobs, wake, retry, overflow, order,
                       nudgeVars, recoveryVars, online, owed>>
    BY <1>4 DEF FinishJob
  <2>2. worker[s].job \in JobSet
    BY <1>2, <2>1 DEF Lanes, InLine, Workers
  <2>3. Larger(seqs[s].processed, worker[s].job.seq) \in Nat
    BY <1>2, <2>2 DEF Larger, Counters, JobSet
  <2>4. seqs' \in [Shards -> Counters]
    BY <1>1, <2>1, <2>3 DEF ShardsTyped, Counters
  <2>5. [at |-> "drain", job |-> None] \in Workers
    BY DEF Workers
  <2>6. ShardsTyped'
    BY <1>1, <2>1, <2>4, <2>5 DEF ShardsTyped
  <2> QED
    BY <1>1, <2>1, <2>6 DEF Typed, NudgesTyped, RestTyped, runVars, nudgeVars, recoveryVars
<1>5. ASSUME NEW at \in {"select", "running", "drain"}, At(s, at)
      PROVE  worker' \in [Shards -> Workers]
  BY <1>1, <1>2, <1>5 DEF At, ShardsTyped, Workers
<1>6. CASE TakeWake(s) \/ RetryFires(s)
  <2>1. /\ At(s, "drain")
        /\ wake' \in [Shards -> BOOLEAN] /\ retry' \in [Shards -> BOOLEAN]
        /\ UNCHANGED <<runVars, pts, senders, jobs, seqs, overflow, order,
                       nudgeVars, recoveryVars, online, owed>>
    BY <1>1, <1>6 DEF TakeWake, RetryFires, ShardsTyped
  <2>2. ShardsTyped'
    BY <1>1, <1>5, <2>1 DEF ShardsTyped
  <2> QED
    BY <1>1, <2>1, <2>2 DEF Typed, NudgesTyped, RestTyped, runVars, nudgeVars, recoveryVars
<1>7. CASE Drain(s)
  <2>1. /\ At(s, "select")
        /\ UNCHANGED <<runVars, pts, senders, jobs, seqs, recovery, online, owed>>
        /\ wake' \in [Shards -> BOOLEAN] /\ retry' \in [Shards -> BOOLEAN]
    BY <1>1, <1>7, DrainSteps
  <2>2. worker' \in [Shards -> Workers]
    BY <1>5, <2>1
  <2>3. CASE UNCHANGED <<overflow, order, nudgeVars, sweep>>
    BY <1>1, <2>1, <2>2, <2>3 DEF Typed, ShardsTyped, NudgesTyped, RestTyped, runVars, nudgeVars
  <2>4. ASSUME NEW i \in Ready(s), Goes(s, i)
        PROVE  Typed'
    <3>1. i \in DOMAIN order[s] /\ order[s][i] \in Channels /\ overflow[order[s][i]] \in EntrySet
      BY ReadyEntry
    <3>2. overflow' \in [Channels -> EntrySet \cup {None}]
      BY <1>1, <2>4, <3>1 DEF Goes, ShardsTyped
    <3>3. order' \in [Shards -> Seq(Channels)]
      BY <1>1, <2>4, <3>1, WithoutOne DEF Goes, ShardsTyped
    <3>4. sweep' \in Sweeps
      BY <1>1, <2>4 DEF Goes, FreeSpace, RestTyped, Sweeps
    <3>5. NudgesTyped'
      BY <1>1, <2>4, <3>1, OfferTyped DEF Goes, NudgesTyped
    <3> QED
      BY <1>1, <2>1, <2>2, <3>2, <3>3, <3>4, <3>5 DEF Typed, ShardsTyped, RestTyped, runVars
  <2> QED
    BY <1>1, <1>7, <2>3, <2>4, DrainSteps
<1> QED
  BY <1>3, <1>4, <1>6, <1>7 DEF Shard

\* A step of a nudge worker.
LEMMA NudgerTyped ==
  ASSUME Typed, Queued, NEW n \in NudgeWorkers, Nudger(n) \/ CutOff(n)
  PROVE  Typed'
<1>1. ShardsTyped /\ NudgesTyped /\ RestTyped /\ nudger[n] \in Nudgers
  BY DEF Typed, NudgesTyped
<1>2. CASE Receive(n)
  <2>1. /\ nudgeJobs # <<>> /\ nudgeJobs' = Tail(nudgeJobs)
        /\ nudger' = [nudger EXCEPT ![n] = [nudger[n] EXCEPT !.at = "got", !.chan = Head(nudgeJobs)]]
        /\ UNCHANGED <<runVars, pts, senders, shardVars, pending, recoveryVars, online, owed>>
    BY <1>2 DEF Receive
  <2>2. Head(nudgeJobs) \in Channels /\ Tail(nudgeJobs) \in Seq(Channels)
    BY <1>1, <2>1 DEF NudgesTyped
  <2> DEFINE w == [nudger[n] EXCEPT !.at = "got", !.chan = Head(nudgeJobs)]
  <2>3. w \in Nudgers /\ w.chan \in Channels
    BY <1>1, <2>2 DEF Nudgers
  <2> HIDE DEF w
  <2>4. nudger' = [nudger EXCEPT ![n] = w]
    BY <2>1 DEF w
  <2>5. NudgesTyped'
    BY <1>1, <2>1, <2>2, <2>3, <2>4 DEF NudgesTyped
  <2> QED
    BY <1>1, <2>1, <2>5 DEF Typed, ShardsTyped, RestTyped, shardVars, runVars, recoveryVars
<1>3. CASE TakeNudge(n)
  <2> DEFINE c == nudger[n].chan
             w == [at |-> "sending", chan |-> c, pts |-> pending[c].pts, behind |-> pending[c].behind]
  <2>1. /\ nudger[n].at = "got" /\ nudger' = [nudger EXCEPT ![n] = w]
        /\ pending' = [pending EXCEPT ![c] = None]
        /\ UNCHANGED <<runVars, pts, senders, shardVars, nudgeJobs, recoveryVars, online, owed>>
    BY <1>3 DEF TakeNudge
  <2>2. c \in Channels /\ pending[c] \in NudgeSet
    BY <1>1, <2>1 DEF NudgesTyped, Queued
  <2>3. w \in Nudgers /\ w.chan \in Channels
    BY <2>2 DEF Nudgers, NudgeSet
  <2> HIDE DEF w
  <2>4. NudgesTyped'
    BY <1>1, <2>1, <2>2, <2>3 DEF NudgesTyped
  <2> QED
    BY <1>1, <2>1, <2>4 DEF Typed, ShardsTyped, RestTyped, shardVars, runVars, recoveryVars
<1>4. CASE Nudged(n) \/ CutOff(n)
  <2>1. /\ nudger' = [nudger EXCEPT ![n] = NoNudge]
        /\ UNCHANGED <<runVars, pts, senders, shardVars, pending, nudgeJobs, sweep, online>>
        /\ nudger[n].at = "sending"
    BY <1>4 DEF Nudged, CutOff, recoveryVars
  <2>2. NoNudge \in Nudgers /\ NoNudge.at = "idle"
    BY DEF NoNudge, Nudgers
  <2>3. NudgesTyped'
    BY <1>1, <2>1, <2>2 DEF NudgesTyped
  <2>4. recovery' \in Generations
    BY <1>1, <1>4, AnnouncedTyped DEF Nudged, CutOff, RestTyped, recoveryVars
  <2>5. owed' \in [Channels -> 0..MaxUpdates]
    BY <1>1, <1>4, FanoutBoundsAssumption DEF Nudged, CutOff, RestTyped
  <2> QED
    BY <1>1, <2>1, <2>3, <2>4, <2>5 DEF Typed, ShardsTyped, RestTyped, shardVars, runVars
<1> QED
  BY <1>2, <1>3, <1>4 DEF Nudger

\* A nonempty set of numbers has a least member.
LEMMA LeastExists ==
  ASSUME NEW S \in SUBSET Nat, S # {}
  PROVE  \E m \in S : \A n \in S : m <= n
<1>1. IsWellFoundedOn(OpToRel(<, Nat), Nat)
  BY NatLessThanWellFounded
<1>2. PICK m \in S : \A n \in S : ~ (<<n, m>> \in OpToRel(<, Nat))
  BY <1>1, WFMin, Zenon
<1>3. \A n \in S : ~ (n < m)
  BY <1>2 DEF OpToRel
<1> QED
  BY <1>3

\* Which pair of its page the recovery actor looks at.
First == CHOOSE x \in sweep.page : \A y \in sweep.page : x[1] <= y[1]

\* It is a pair of the page.
LEMMA FirstOfPage ==
  ASSUME RestTyped, sweep.page # {}
  PROVE  First \in sweep.page /\ First[1] \in Channels /\ First[2] \in Nat
<1>1. sweep.page \subseteq Channels \X Nat /\ Channels \subseteq Nat
  BY ChannelsAssumption DEF RestTyped, Sweeps
<1> DEFINE S == {x[1] : x \in sweep.page}
<1>2. S \in SUBSET Nat /\ S # {}
  BY <1>1
<1>3. PICK m \in S : \A k \in S : m <= k
  BY <1>2, LeastExists
<1>4. PICK e \in sweep.page : e[1] = m
  BY <1>3
<1>5. \A y \in sweep.page : e[1] <= y[1]
  BY <1>3, <1>4
<1>6. First \in sweep.page
  BY <1>5 DEF First
<1> QED
  BY <1>1, <1>6

\* A step of the recovery actor.
LEMMA RecoveryTyped ==
  ASSUME Typed, Recovery \/ SweepFails
  PROVE  Typed'
<1>1. ShardsTyped /\ NudgesTyped /\ RestTyped /\ sweep \in Sweeps
  BY DEF Typed, RestTyped
<1>2. Idle \in Sweeps /\ [Idle EXCEPT !.at = "backoff"] \in Sweeps
  BY DEF Idle, Sweeps
<1>3. ASSUME SweepUnchanged, UNCHANGED <<jobs, pts>>, sweep' \in Sweeps, recovery' \in Generations
      PROVE  Typed'
  BY <1>1, <1>3 DEF SweepUnchanged, Typed, ShardsTyped, NudgesTyped, RestTyped, shardVars,
                    nudgeVars, runVars
<1>4. CASE CheckGeneration
  <2>1. SweepUnchanged /\ UNCHANGED <<jobs, pts, recovery>>
    BY <1>4 DEF CheckGeneration, SweepUnchanged, shardVars
  <2>2. sweep' \in Sweeps
    BY <1>1, <1>4 DEF CheckGeneration, Sweeps, RestTyped, Generations
  <2> QED
    BY <1>1, <1>3, <2>1, <2>2 DEF RestTyped
<1>5. CASE TakeRecoveryWake
  <2>1. SweepUnchanged /\ UNCHANGED <<jobs, pts>>
    BY <1>5 DEF TakeRecoveryWake, SweepUnchanged, shardVars
  <2>2. sweep' \in Sweeps /\ recovery' \in Generations
    BY <1>1, <1>5 DEF TakeRecoveryWake, Sweeps, RestTyped, Generations
  <2> QED
    BY <1>3, <2>1, <2>2
<1>6. CASE Snapshot
  <2>1. SweepUnchanged /\ UNCHANGED <<jobs, pts, recovery>>
    BY <1>6 DEF Snapshot, SweepUnchanged, shardVars
  <2>2. sweep' \in Sweeps
    BY <1>1, <1>6 DEF Snapshot, Sweeps, RestTyped
  <2> QED
    BY <1>1, <1>3, <2>1, <2>2 DEF RestTyped
<1>7. CASE ReadPage
  <2> DEFINE read == {<<c, pts[c]>> : c \in {d \in NextPage : pts[d] > 0}}
  <2>1. /\ SweepUnchanged /\ UNCHANGED <<jobs, pts, recovery>>
        /\ sweep' = [sweep EXCEPT !.todo = sweep.todo \ NextPage, !.page = read]
    BY <1>7 DEF ReadPage, SweepUnchanged, shardVars
  <2>2. NextPage \subseteq Channels
    BY <1>1 DEF NextPage, Sweeps
  <2>3. read \subseteq Channels \X Nat
    BY <1>1, <2>2, FanoutBoundsAssumption DEF RestTyped
  <2> HIDE DEF read
  <2>4. sweep' \in Sweeps
    BY <1>1, <2>1, <2>3 DEF Sweeps
  <2> QED
    BY <1>1, <1>3, <2>1, <2>4 DEF RestTyped
<1>8. CASE SweepFails \/ BackoffEnds
  <2>1. SweepUnchanged /\ UNCHANGED <<jobs, pts, recovery>>
    BY <1>8 DEF SweepFails, BackoffEnds, SweepUnchanged, shardVars
  <2> QED
    BY <1>1, <1>2, <1>3, <1>8, <2>1 DEF RestTyped, SweepFails, BackoffEnds
<1>9. CASE Admit
  <2>1. /\ sweep.page # {}
        /\ \/ AddOverflow(First[1], First[2])
           \/ UNCHANGED <<overflow, order, wake>>
        /\ \/ sweep' = [sweep EXCEPT !.at = "page", !.page = sweep.page \ {First}, !.space = FALSE]
           \/ sweep' = [sweep EXCEPT !.at = "waiting", !.space = FALSE]
        /\ UNCHANGED <<runVars, pts, senders, jobs, seqs, worker, retry, nudgeVars, recovery,
                       online, owed>>
    BY <1>9 DEF Admit, First
  <2>2. First[1] \in Channels /\ First[2] \in Nat
    BY <1>1, <2>1, FirstOfPage
  <2>3. /\ overflow' \in [Channels -> EntrySet \cup {None}]
        /\ order' \in [Shards -> Seq(Channels)]
        /\ wake' \in [Shards -> BOOLEAN]
    BY <1>1, <2>1, <2>2, AddTyped DEF ShardsTyped
  <2>4. sweep' \in Sweeps
    <3> DEFINE left == sweep.page \ {First}
    <3>1. left \subseteq Channels \X Nat
      BY <1>1 DEF Sweeps
    <3>2. \/ sweep' = [sweep EXCEPT !.at = "page", !.page = left, !.space = FALSE]
          \/ sweep' = [sweep EXCEPT !.at = "waiting", !.space = FALSE]
      BY <2>1
    <3> HIDE DEF left
    <3> QED
      BY <1>1, <3>1, <3>2 DEF Sweeps
  <2> QED
    BY <1>1, <2>1, <2>3, <2>4 DEF Typed, ShardsTyped, NudgesTyped, RestTyped, runVars, nudgeVars
<1>10. CASE CompleteSweep
  <2>1. SweepUnchanged /\ UNCHANGED <<jobs, pts>> /\ sweep' = Idle
    BY <1>10 DEF CompleteSweep, Complete, SweepUnchanged, shardVars
  <2>2. recovery' \in Generations
    BY <1>1, <1>10 DEF CompleteSweep, Complete, RestTyped, Generations, Sweeps
  <2> QED
    BY <1>2, <1>3, <2>1, <2>2
<1> QED
  BY <1>4, <1>5, <1>6, <1>7, <1>8, <1>9, <1>10 DEF Recovery

\* Members that come and go, and the life of Run.
Life ==
  \/ \E c \in Channels : Connect(c) \/ Disconnect(c)
  \/ Start \/ Cancel \/ StopEnqueues \/ End

\* A step of either.
LEMMA LifeTyped ==
  ASSUME Typed, Life
  PROVE  Typed'
<1>1. ShardsTyped /\ NudgesTyped /\ RestTyped /\ MaxUpdates \in Nat
  BY FanoutBoundsAssumption DEF Typed
<1>2. ASSUME NEW c \in Channels, Connect(c) \/ Disconnect(c)
      PROVE  Typed'
  <2>1. UNCHANGED <<runVars, pts, senders, shardVars, nudgeVars, recoveryVars>>
    BY <1>2 DEF Connect, Disconnect
  <2>2. online' \subseteq Channels /\ owed' \in [Channels -> 0..MaxUpdates]
    BY <1>1, <1>2 DEF Connect, Disconnect, RestTyped
  <2> QED
    BY <1>1, <2>1, <2>2 DEF Typed, ShardsTyped, NudgesTyped, RestTyped, shardVars, nudgeVars,
                            runVars, recoveryVars
<1>3. CASE Start \/ Cancel \/ StopEnqueues
  <2>1. UNCHANGED <<shardOf, Dispatcher>>
    BY <1>3 DEF Start, Cancel, StopEnqueues
  <2>2. phase' \in {"up", "cancelled", "stopped"} /\ owed' \in [Channels -> 0..MaxUpdates]
    BY <1>1, <1>3 DEF Start, Cancel, StopEnqueues, Phase, RestTyped
  <2> QED
    BY <1>1, <2>1, <2>2 DEF Typed, ShardsTyped, NudgesTyped, RestTyped, shardVars, nudgeVars,
                            recoveryVars, Dispatcher
<1>4. CASE End
  <2>1. /\ phase' = "ended"
        /\ jobs' = [s \in Shards |-> <<>>]
        /\ overflow' = [c \in Channels |-> None]
        /\ order' = [s \in Shards |-> <<>>]
        /\ pending' = [c \in Channels |-> None]
        /\ UNCHANGED <<shardOf, pts, senders, seqs, worker, wake, retry, nudgeJobs, nudger,
                       recoveryVars, online, owed>>
    BY <1>4 DEF End, Phase
  <2>2. jobs' \in [Shards -> Seq(JobSet)] /\ order' \in [Shards -> Seq(Channels)]
    BY <2>1
  <2> QED
    BY <1>1, <2>1, <2>2 DEF Typed, ShardsTyped, NudgesTyped, RestTyped, recoveryVars
<1> QED
  BY <1>2, <1>3, <1>4 DEF Life

\* No step leaves the types.
LEMMA NextTyped ==
  ASSUME Typed, Lanes, Queued, Next
  PROVE  Typed'
BY RequestTyped, ShardTyped, NudgerTyped, RecoveryTyped, LifeTyped DEF Next, Life

\* Nor does a step that changes nothing.
LEMMA StutterKeeps ==
  ASSUME IInv, UNCHANGED vars
  PROVE  IInv'
<1>1. UNCHANGED <<shardOf, phase, pts, senders, queued, jobs, seqs, worker, wake, retry, overflow,
                  order, pending, nudgeJobs, nudger, recovery, sweep, online, owed>>
  BY DEF vars, runVars, shardVars, nudgeVars, recoveryVars
<1>2. Typed' /\ Lanes' /\ Waited'
  BY <1>1 DEF IInv, Typed, ShardsTyped, NudgesTyped, RestTyped, Lanes, Waited
<1>3. Queued' /\ Mailboxes'
  BY <1>1 DEF IInv, Queued, Waiting, Mailboxes, Listed, Lists, Entries
<1>4. OneSender' /\ Over' /\ Sweeping'
  BY <1>1 DEF IInv, OneSender, Over, Sweeping
<1>5. Budget'
  <2>1. Reserved' = Reserved /\ Held' = Held
    BY <1>1 DEF Reserved, Held, HeldOf, Slot
  <2> QED
    BY <1>1, <2>1 DEF IInv, Budget
<1>6. Owing'
  BY <1>1 DEF IInv, Owing, Remembered
<1>7. SleepsOnlyWhenFull'
  BY <1>1 DEF IInv, SleepsOnlyWhenFull, Entries
<1> QED
  BY <1>2, <1>3, <1>4, <1>5, <1>6, <1>7 DEF IInv

-----------------------------------------------------------------------------
(* Lanes: the jobs of a shard.                                             *)

\* A job that is accepted gets the next number.
LEMMA PutInLine ==
  ASSUME NEW q \in Seq(JobSet), NEW w \in Workers, NEW e \in Counters, InLine(q, w, e),
         Len(q) < Buffer, NEW j \in JobSet, j.seq = e.next + 1
  PROVE  InLine(Append(q, j), w, [e EXCEPT !.next = e.next + 1])
<1> DEFINE q2 == Append(q, j)
           e2 == [e EXCEPT !.next = e.next + 1]
<1>1. /\ e2.processed = e.processed /\ e2.next = e.next + 1
      /\ e.processed \in Nat /\ e.next \in Nat
  BY DEF Counters
<1>2. /\ Len(q2) = Len(q) + 1 /\ DOMAIN q2 = 1..Len(q) + 1 /\ DOMAIN q = 1..Len(q)
      /\ Len(q) \in Nat /\ q2[Len(q) + 1] = j
      /\ \A i \in 1..Len(q) : q2[i] = q[i] /\ q[i] \in JobSet
  OBVIOUS
<1>3. \A i \in 1..Len(q) : q[i].seq \in Nat
  BY <1>2 DEF JobSet
<1>4. Len(q2) <= Buffer /\ e2.processed <= e2.next
  BY <1>1, <1>2, FanoutBoundsAssumption DEF InLine
<1> HIDE DEF q2, e2
<1>5. \A i \in DOMAIN q2 : e2.processed < q2[i].seq /\ q2[i].seq <= e2.next
  <2> SUFFICES ASSUME NEW i \in 1..Len(q) + 1
               PROVE  e2.processed < q2[i].seq /\ q2[i].seq <= e2.next
    BY <1>2
  <2>1. CASE i = Len(q) + 1
    BY <1>1, <1>2, <2>1 DEF InLine
  <2>2. CASE i # Len(q) + 1
    <3>1. i \in 1..Len(q)
      BY <1>2, <2>2
    <3> QED
      BY <1>1, <1>2, <1>3, <3>1 DEF InLine
  <2> QED
    BY <2>1, <2>2
<1>6. \A i, k \in DOMAIN q2 : i < k => q2[i].seq < q2[k].seq
  <2> SUFFICES ASSUME NEW i \in 1..Len(q) + 1, NEW k \in 1..Len(q) + 1, i < k
               PROVE  q2[i].seq < q2[k].seq
    BY <1>2
  <2>1. i \in 1..Len(q) /\ q2[i] = q[i]
    BY <1>2
  <2>2. CASE k = Len(q) + 1
    BY <1>1, <1>2, <1>3, <2>1, <2>2 DEF InLine
  <2>3. CASE k # Len(q) + 1
    <3>1. k \in 1..Len(q)
      BY <1>2, <2>3
    <3> QED
      BY <1>2, <2>1, <3>1 DEF InLine
  <2> QED
    BY <2>2, <2>3
<1>7. w.job # None =>
        /\ e2.processed < w.job.seq /\ w.job.seq <= e2.next
        /\ \A i \in DOMAIN q2 : w.job.seq < q2[i].seq
  <2> SUFFICES ASSUME w.job # None
               PROVE  /\ e2.processed < w.job.seq /\ w.job.seq <= e2.next
                      /\ \A i \in DOMAIN q2 : w.job.seq < q2[i].seq
    OBVIOUS
  <2>1. w.job.seq \in Nat /\ e.processed < w.job.seq /\ w.job.seq <= e.next
    BY DEF Workers, JobSet, InLine
  <2>2. ASSUME NEW i \in 1..Len(q) + 1
        PROVE  w.job.seq < q2[i].seq
    <3>1. CASE i = Len(q) + 1
      BY <1>1, <1>2, <2>1, <3>1
    <3>2. CASE i # Len(q) + 1
      <4>1. i \in 1..Len(q)
        BY <1>2, <3>2
      <4> QED
        BY <1>2, <4>1 DEF InLine
    <3> QED
      BY <3>1, <3>2
  <2> QED
    BY <1>1, <1>2, <2>1, <2>2
<1>8. w.at = "running" <=> w.job # None
  BY DEF InLine
<1> QED
  BY <1>4, <1>5, <1>6, <1>7, <1>8 DEF InLine, q2, e2

\* The first job is taken.
LEMMA RunInLine ==
  ASSUME NEW q \in Seq(JobSet), NEW w \in Workers, NEW e \in Counters, InLine(q, w, e), q # <<>>
  PROVE  InLine(Tail(q), [at |-> "running", job |-> Head(q)], e)
<1> DEFINE q2 == Tail(q)
           w2 == [at |-> "running", job |-> Head(q)]
<1>1. /\ Len(q) \in Nat /\ Len(q) > 0 /\ DOMAIN q = 1..Len(q) /\ Len(q2) = Len(q) - 1
      /\ DOMAIN q2 = 1..Len(q) - 1 /\ \A i \in 1..Len(q) - 1 : q2[i] = q[i + 1]
      /\ Head(q) = q[1] /\ Head(q) \in JobSet
  BY HeadTailProperties, EmptySeq, LenProperties
<1>2. w2.at = "running" /\ w2.job = q[1] /\ w2.job # None
  BY <1>1, FanoutBoundsAssumption DEF JobSet
<1>3. \A i \in 1..Len(q) - 1 : i \in 1..Len(q) /\ i + 1 \in 1..Len(q) /\ 1 < i + 1
  BY <1>1
<1>4. 1 \in 1..Len(q)
  BY <1>1
<1>5. Len(q2) <= Buffer
  BY <1>1, FanoutBoundsAssumption DEF InLine
<1> HIDE DEF q2, w2
<1>6. \A i, j \in DOMAIN q2 : i < j => q2[i].seq < q2[j].seq
  <2> SUFFICES ASSUME NEW i \in 1..Len(q) - 1, NEW j \in 1..Len(q) - 1, i < j
               PROVE  q2[i].seq < q2[j].seq
    BY <1>1
  <2>1. i + 1 \in DOMAIN q /\ j + 1 \in DOMAIN q /\ i + 1 < j + 1
    BY <1>1, <1>3
  <2>2. q[i + 1].seq < q[j + 1].seq
    BY <2>1 DEF InLine
  <2> QED
    BY <1>1, <2>2
<1>7. \A i \in DOMAIN q2 : /\ e.processed < q2[i].seq /\ q2[i].seq <= e.next
                           /\ w2.job.seq < q2[i].seq
  BY <1>1, <1>2, <1>3, <1>4 DEF InLine
<1>8. e.processed < w2.job.seq /\ w2.job.seq <= e.next /\ e.processed <= e.next
  BY <1>1, <1>2, <1>4 DEF InLine
<1> QED
  BY <1>2, <1>5, <1>6, <1>7, <1>8 DEF InLine, q2, w2

\* The job has run.
LEMMA FinishInLine ==
  ASSUME NEW q \in Seq(JobSet), NEW w \in Workers, NEW e \in Counters, InLine(q, w, e),
         w.at = "running"
  PROVE  /\ w.job \in JobSet /\ Larger(e.processed, w.job.seq) = w.job.seq
         /\ e.processed < w.job.seq
         /\ InLine(q, [at |-> "drain", job |-> None],
                   [e EXCEPT !.processed = Larger(e.processed, w.job.seq)])
<1> DEFINE e2 == [e EXCEPT !.processed = w.job.seq]
           w2 == [at |-> "drain", job |-> None]
<1>1. w.job \in JobSet /\ e.processed \in Nat /\ w.job.seq \in Nat /\ e.processed < w.job.seq
  BY DEF Workers, InLine, JobSet, Counters
<1>2. Larger(e.processed, w.job.seq) = w.job.seq
  BY <1>1 DEF Larger
<1>3. e2.processed = w.job.seq /\ e2.next = e.next
  BY DEF Counters
<1>4. w2.at # "running" /\ w2.job = None
  OBVIOUS
<1> HIDE DEF e2, w2
<1>5. InLine(q, w2, e2)
  BY <1>1, <1>3, <1>4 DEF InLine
<1> QED
  BY <1>1, <1>2, <1>5 DEF e2, w2

\* A worker that runs no job goes elsewhere.
LEMMA TurnInLine ==
  ASSUME NEW q, NEW w \in Workers, NEW e, InLine(q, w, e), w.at # "running",
         NEW at \in {"select", "drain"}
  PROVE  InLine(q, [w EXCEPT !.at = at], e)
<1> DEFINE w2 == [w EXCEPT !.at = at]
<1>1. w2.at # "running" /\ w2.job = None
  BY DEF Workers, InLine
<1> HIDE DEF w2
<1>2. InLine(q, w2, e)
  BY <1>1 DEF InLine
<1> QED
  BY <1>2 DEF w2

\* Every other step leaves the lanes alone.
LEMMA LanesApart ==
  ASSUME Next,
         \A x \in senders : ~ Put(x), \A s \in Shards : ~ Shard(s), ~ End
  PROVE  UNCHANGED <<jobs, worker, seqs>>
<1>1. CASE Request
  BY <1>1 DEF Request, Publish, Reserve, Spill, shardVars
<1>2. CASE \E n \in NudgeWorkers : Nudger(n) \/ CutOff(n)
  BY <1>2 DEF Nudger, Receive, TakeNudge, Nudged, CutOff, shardVars
<1>3. CASE Recovery \/ SweepFails
  BY <1>3 DEF Recovery, CheckGeneration, TakeRecoveryWake, Snapshot, ReadPage, BackoffEnds, Admit,
              CompleteSweep, Complete, SweepFails, SweepUnchanged, shardVars
<1>4. CASE \E c \in Channels : Connect(c) \/ Disconnect(c)
  BY <1>4 DEF Connect, Disconnect, shardVars
<1>5. CASE Start \/ Cancel \/ StopEnqueues
  BY <1>5 DEF Start, Cancel, StopEnqueues, Dispatcher, shardVars
<1> QED
  BY <1>1, <1>2, <1>3, <1>4, <1>5 DEF Next

\* Jobs stay in line, and what was processed stays so.
LEMMA LanesNext ==
  ASSUME Typed, Lanes, Next
  PROVE  /\ Lanes'
         /\ \A s \in Shards : seqs[s].processed <= seqs'[s].processed
<1>1. ShardsTyped /\ RestTyped /\ \A s \in Shards : seqs[s].processed \in Nat
  BY DEF Typed, ShardsTyped, Counters
<1>2. ASSUME NEW t \in Shards, \A s \in Shards \ {t} : UNCHANGED <<jobs[s], worker[s], seqs[s]>>,
             InLine(jobs'[t], worker'[t], seqs'[t]), seqs[t].processed <= seqs'[t].processed
      PROVE  /\ Lanes'
             /\ \A s \in Shards : seqs[s].processed <= seqs'[s].processed
  BY <1>1, <1>2 DEF Lanes
<1>3. ASSUME NEW x \in senders, Put(x)
      PROVE  /\ Lanes'
             /\ \A s \in Shards : seqs[s].processed <= seqs'[s].processed
  <2> DEFINE s == shardOf[x.chan]
             j == [chan |-> x.chan, pts |-> x.pts, seq |-> seqs[s].next + 1]
  <2>1. CASE UNCHANGED <<jobs, seqs>>
    BY <1>1, <1>3, <2>1 DEF Put, PutInto, Lanes
  <2>2. CASE ~ UNCHANGED <<jobs, seqs>>
    <3>1. /\ Len(jobs[s]) < Buffer /\ UNCHANGED worker
          /\ jobs' = [jobs EXCEPT ![s] = Append(jobs[s], j)]
          /\ seqs' = [seqs EXCEPT ![s].next = seqs[s].next + 1]
      BY <1>3, <2>2 DEF Put, PutInto
    <3>2. x.chan \in Channels /\ x.pts \in Nat /\ s \in Shards
      BY <1>1 DEF RestTyped, Requests, Pts
    <3>3. jobs[s] \in Seq(JobSet) /\ worker[s] \in Workers /\ seqs[s] \in Counters
      BY <1>1, <3>2 DEF ShardsTyped
    <3>4. j \in JobSet /\ j.seq = seqs[s].next + 1
      BY <3>2, <3>3 DEF JobSet, Counters
    <3> HIDE DEF j
    <3>5. InLine(Append(jobs[s], j), worker[s], [seqs[s] EXCEPT !.next = seqs[s].next + 1])
      BY <3>1, <3>2, <3>3, <3>4, PutInLine DEF Lanes
    <3>6. /\ jobs'[s] = Append(jobs[s], j)
          /\ seqs'[s] = [seqs[s] EXCEPT !.next = seqs[s].next + 1]
          /\ \A r \in Shards \ {s} : jobs'[r] = jobs[r] /\ seqs'[r] = seqs[r]
      BY <1>1, <3>1, <3>2 DEF ShardsTyped
    <3>7. seqs'[s].processed = seqs[s].processed
      BY <3>3, <3>6 DEF Counters
    <3> QED
      BY <1>1, <1>2, <3>1, <3>2, <3>5, <3>6, <3>7
  <2> QED
    BY <2>1, <2>2
<1>4. ASSUME NEW s \in Shards, Shard(s)
      PROVE  /\ Lanes'
             /\ \A r \in Shards : seqs[r].processed <= seqs'[r].processed
  <2>1. jobs[s] \in Seq(JobSet) /\ worker[s] \in Workers /\ seqs[s] \in Counters
    BY <1>1 DEF ShardsTyped
  <2>2. CASE RunJob(s)
    <3>1. /\ worker' = [worker EXCEPT ![s] = [at |-> "running", job |-> Head(jobs[s])]]
          /\ jobs' = [jobs EXCEPT ![s] = Tail(jobs[s])] /\ jobs[s] # <<>>
          /\ UNCHANGED seqs
      BY <2>2 DEF RunJob
    <3>2. InLine(Tail(jobs[s]), [at |-> "running", job |-> Head(jobs[s])], seqs[s])
      BY <2>1, <3>1, RunInLine DEF Lanes
    <3>3. /\ worker'[s] = [at |-> "running", job |-> Head(jobs[s])] /\ jobs'[s] = Tail(jobs[s])
          /\ \A r \in Shards \ {s} : jobs'[r] = jobs[r] /\ worker'[r] = worker[r]
      BY <1>1, <3>1 DEF ShardsTyped
    <3> QED
      BY <1>1, <1>2, <3>1, <3>2, <3>3
  <2>3. CASE FinishJob(s)
    <3> DEFINE e == [seqs[s] EXCEPT !.processed = Larger(seqs[s].processed, worker[s].job.seq)]
    <3>1. /\ seqs' = [seqs EXCEPT ![s].processed = Larger(seqs[s].processed, worker[s].job.seq)]
          /\ worker' = [worker EXCEPT ![s] = [at |-> "drain", job |-> None]]
          /\ worker[s].at = "running" /\ UNCHANGED jobs
      BY <2>3 DEF FinishJob
    <3>2. /\ worker[s].job \in JobSet /\ seqs[s].processed < worker[s].job.seq
          /\ Larger(seqs[s].processed, worker[s].job.seq) = worker[s].job.seq
          /\ InLine(jobs[s], [at |-> "drain", job |-> None], e)
      BY <2>1, <3>1, FinishInLine DEF Lanes
    <3>3. /\ worker'[s] = [at |-> "drain", job |-> None] /\ seqs'[s] = e
          /\ \A r \in Shards \ {s} : seqs'[r] = seqs[r] /\ worker'[r] = worker[r]
      BY <1>1, <3>1 DEF ShardsTyped
    <3>4. e.processed = worker[s].job.seq /\ worker[s].job.seq \in Nat /\ seqs[s].processed \in Nat
      BY <2>1, <3>2 DEF Counters, JobSet
    <3> HIDE DEF e
    <3> QED
      BY <1>2, <3>1, <3>2, <3>3, <3>4
  <2>4. ASSUME NEW at \in {"select", "drain"}, At(s, at), worker[s].at # "running",
               UNCHANGED <<jobs, seqs>>
        PROVE  /\ Lanes'
               /\ \A r \in Shards : seqs[r].processed <= seqs'[r].processed
    <3>1. InLine(jobs[s], [worker[s] EXCEPT !.at = at], seqs[s])
      BY <2>1, <2>4, TurnInLine DEF Lanes
    <3>2. /\ worker'[s] = [worker[s] EXCEPT !.at = at]
          /\ \A r \in Shards \ {s} : worker'[r] = worker[r]
      BY <1>1, <2>4 DEF ShardsTyped, At
    <3> QED
      BY <1>1, <1>2, <2>4, <3>1, <3>2
  <2>5. CASE TakeWake(s) \/ RetryFires(s)
    BY <2>4, <2>5 DEF TakeWake, RetryFires
  <2>6. CASE Drain(s)
    BY <2>4, <2>6 DEF Drain
  <2> QED
    BY <1>4, <2>2, <2>3, <2>5, <2>6 DEF Shard
<1>5. CASE End
  <2>1. /\ jobs' = [s \in Shards |-> <<>>] /\ UNCHANGED <<seqs, worker>>
        /\ \A s \in Shards : worker[s].at = "select"
    BY <1>5 DEF End
  <2>2. ASSUME NEW s \in Shards
        PROVE  InLine(<<>>, worker[s], seqs[s])
    <3>1. Len(<<>>) = 0 /\ DOMAIN <<>> = {}
      OBVIOUS
    <3> QED
      BY <2>1, <3>1, FanoutBoundsAssumption DEF InLine, Lanes
  <2> QED
    BY <1>1, <2>1, <2>2 DEF Lanes
<1>6. CASE UNCHANGED <<jobs, worker, seqs>>
  BY <1>1, <1>6 DEF Lanes
<1> QED
  BY <1>3, <1>4, <1>5, <1>6, LanesApart

-----------------------------------------------------------------------------
(* The nudges: what is pending, what is queued and what is being sent.     *)

\* A channel stays with its shard.
LEMMA ShardsFixed ==
  ASSUME Next
  PROVE  UNCHANGED shardOf
<1>1. CASE Request
  BY <1>1 DEF Request, Publish, Reserve, Put, PutInto, Spill, runVars
<1>2. CASE \E n \in NudgeWorkers : Nudger(n) \/ CutOff(n)
  BY <1>2 DEF Nudger, Receive, TakeNudge, Nudged, CutOff, runVars
<1>3. CASE Recovery \/ SweepFails
  BY <1>3 DEF Recovery, CheckGeneration, TakeRecoveryWake, Snapshot, ReadPage, BackoffEnds, Admit,
              CompleteSweep, Complete, SweepFails, SweepUnchanged, runVars
<1>4. CASE Life
  BY <1>4 DEF Life, Connect, Disconnect, Start, Cancel, StopEnqueues, End, runVars
<1>5. CASE \E s \in Shards : Shard(s)
  BY <1>5 DEF Shard, RunJob, FinishJob, TakeWake, RetryFires, Drain, runVars
<1> QED
  BY <1>1, <1>2, <1>3, <1>4, <1>5 DEF Next, Life

\* A dispatcher that has ended stays so, one that has stopped or was cancelled never
\* starts again.
LEMMA PhaseOrder ==
  ASSUME Next
  PROVE  \/ UNCHANGED phase
         \/ phase = "new" /\ phase' = "up"
         \/ phase = "up" /\ phase' = "cancelled"
         \/ phase = "cancelled" /\ phase' = "stopped"
         \/ phase = "stopped" /\ phase' = "ended"
<1>1. CASE Request
  BY <1>1 DEF Request, Publish, Reserve, Put, PutInto, Spill, runVars
<1>2. CASE \E n \in NudgeWorkers : Nudger(n) \/ CutOff(n)
  BY <1>2 DEF Nudger, Receive, TakeNudge, Nudged, CutOff, runVars
<1>3. CASE Recovery \/ SweepFails
  BY <1>3 DEF Recovery, CheckGeneration, TakeRecoveryWake, Snapshot, ReadPage, BackoffEnds, Admit,
              CompleteSweep, Complete, SweepFails, SweepUnchanged, runVars
<1>4. CASE Life
  <2>1. CASE \E c \in Channels : Connect(c) \/ Disconnect(c)
    BY <2>1 DEF Connect, Disconnect, runVars
  <2>2. CASE Start \/ Cancel \/ StopEnqueues \/ End
    BY <2>2 DEF Start, Cancel, StopEnqueues, End, Phase
  <2> QED
    BY <1>4, <2>1, <2>2 DEF Life
<1>5. CASE \E s \in Shards : Shard(s)
  BY <1>5 DEF Shard, RunJob, FinishJob, TakeWake, RetryFires, Drain, runVars
<1> QED
  BY <1>1, <1>2, <1>3, <1>4, <1>5 DEF Next, Life

\* Only a drain, a nudge worker and the end touch the nudges.
LEMMA NudgesApart ==
  ASSUME Next,
         \A s \in Shards : ~ Drain(s), \A n \in NudgeWorkers : ~ (Nudger(n) \/ CutOff(n)), ~ End
  PROVE  UNCHANGED <<pending, nudgeJobs, nudger>>
<1>1. CASE Request
  BY <1>1 DEF Request, Publish, Reserve, Put, PutInto, Spill, nudgeVars
<1>2. CASE \E s \in Shards : Shard(s)
  BY <1>2 DEF Shard, RunJob, FinishJob, TakeWake, RetryFires, nudgeVars
<1>3. CASE Recovery \/ SweepFails
  BY <1>3 DEF Recovery, CheckGeneration, TakeRecoveryWake, Snapshot, ReadPage, BackoffEnds, Admit,
              CompleteSweep, Complete, SweepFails, SweepUnchanged, nudgeVars
<1>4. CASE \E c \in Channels : Connect(c) \/ Disconnect(c)
  BY <1>4 DEF Connect, Disconnect, nudgeVars
<1>5. CASE Start \/ Cancel \/ StopEnqueues
  BY <1>5 DEF Start, Cancel, StopEnqueues, Dispatcher, nudgeVars
<1> QED
  BY <1>1, <1>2, <1>3, <1>4, <1>5 DEF Next

\* Only a request, the recovery actor, a drain and the end touch the mailboxes.
LEMMA MailboxesApart ==
  ASSUME Next,
         \A x \in senders : ~ Spill(x), \A s \in Shards : ~ Drain(s), ~ Admit, ~ End
  PROVE  UNCHANGED <<overflow, order>>
<1>1. CASE Request
  BY <1>1 DEF Request, Publish, Reserve, Put, PutInto, shardVars
<1>2. CASE \E s \in Shards : Shard(s)
  BY <1>2 DEF Shard, RunJob, FinishJob, TakeWake, RetryFires
<1>3. CASE Recovery \/ SweepFails
  BY <1>3 DEF Recovery, CheckGeneration, TakeRecoveryWake, Snapshot, ReadPage, BackoffEnds,
              CompleteSweep, Complete, SweepFails, SweepUnchanged, shardVars
<1>4. CASE \E n \in NudgeWorkers : Nudger(n) \/ CutOff(n)
  BY <1>4 DEF Nudger, Receive, TakeNudge, Nudged, CutOff, shardVars
<1>5. CASE Life
  BY <1>5 DEF Life, Connect, Disconnect, Start, Cancel, StopEnqueues, Dispatcher, shardVars
<1> QED
  BY <1>1, <1>2, <1>3, <1>4, <1>5 DEF Next, Life

\* Only a request commits an update or moves on.
LEMMA RequestsApart ==
  ASSUME Next, ~ Request
  PROVE  UNCHANGED <<pts, senders>>
<1>1. CASE \E s \in Shards : Shard(s)
  BY <1>1 DEF Shard, RunJob, FinishJob, TakeWake, RetryFires, Drain
<1>2. CASE \E n \in NudgeWorkers : Nudger(n) \/ CutOff(n)
  BY <1>2 DEF Nudger, Receive, TakeNudge, Nudged, CutOff
<1>3. CASE Recovery \/ SweepFails
  BY <1>3 DEF Recovery, CheckGeneration, TakeRecoveryWake, Snapshot, ReadPage, BackoffEnds, Admit,
              CompleteSweep, Complete, SweepFails, SweepUnchanged
<1>4. CASE Life
  BY <1>4 DEF Life, Connect, Disconnect, Start, Cancel, StopEnqueues, End, Dispatcher
<1> QED
  BY <1>1, <1>2, <1>3, <1>4 DEF Next, Life

\* Outside the recovery actor's steps a sweep is only told of room, and a generation is
\* only announced.
LEMMA SweepApart ==
  ASSUME Next, ~ Recovery, ~ SweepFails
  PROVE  /\ sweep' = sweep \/ (sweep' = [sweep EXCEPT !.space = TRUE] /\ \E s \in Shards : Drain(s))
         /\ UNCHANGED recovery \/ RequestRecovery
<1>1. CASE Request
  BY <1>1 DEF Request, Publish, Reserve, Put, PutInto, Spill, recoveryVars
<1>2. CASE \E n \in NudgeWorkers : Nudger(n) \/ CutOff(n)
  BY <1>2 DEF Nudger, Receive, TakeNudge, Nudged, CutOff, recoveryVars
<1>3. CASE \E s \in Shards : Shard(s)
  <2>1. CASE \E s \in Shards : RunJob(s) \/ FinishJob(s) \/ TakeWake(s) \/ RetryFires(s)
    BY <2>1 DEF RunJob, FinishJob, TakeWake, RetryFires, recoveryVars
  <2>2. ASSUME NEW s \in Shards, Drain(s)
        PROVE  UNCHANGED recovery /\ (sweep' = sweep \/ sweep' = [sweep EXCEPT !.space = TRUE])
    BY <2>2 DEF Drain, FreeSpace
  <2> QED
    BY <1>3, <2>1, <2>2 DEF Shard
<1>4. CASE Life
  BY <1>4 DEF Life, Connect, Disconnect, Start, Cancel, StopEnqueues, End, Dispatcher, recoveryVars
<1> QED
  BY <1>1, <1>2, <1>3, <1>4 DEF Next, Life

\* Only StopEnqueues stops a dispatcher, and only End ends it.
LEMMA StopsHow ==
  ASSUME Next
  PROVE  /\ phase = "cancelled" /\ phase' = "stopped" => StopEnqueues
         /\ phase = "stopped" /\ phase' = "ended" => End
<1>1. CASE Request
  BY <1>1 DEF Request, Publish, Reserve, Put, PutInto, Spill, runVars
<1>2. CASE \E n \in NudgeWorkers : Nudger(n) \/ CutOff(n)
  BY <1>2 DEF Nudger, Receive, TakeNudge, Nudged, CutOff, runVars
<1>3. CASE Recovery \/ SweepFails
  BY <1>3 DEF Recovery, CheckGeneration, TakeRecoveryWake, Snapshot, ReadPage, BackoffEnds, Admit,
              CompleteSweep, Complete, SweepFails, SweepUnchanged, runVars
<1>4. CASE \E c \in Channels : Connect(c) \/ Disconnect(c)
  BY <1>4 DEF Connect, Disconnect, runVars
<1>5. CASE Start \/ Cancel \/ StopEnqueues \/ End
  <2>1. CASE Start \/ Cancel
    BY <2>1 DEF Start, Cancel, Phase
  <2>2. CASE StopEnqueues
    BY <2>2 DEF StopEnqueues, Phase
  <2>3. CASE End
    BY <2>3 DEF End, Phase
  <2> QED
    BY <1>5, <2>1, <2>2, <2>3
<1>6. CASE \E s \in Shards : Shard(s)
  BY <1>6 DEF Shard, RunJob, FinishJob, TakeWake, RetryFires, Drain, runVars
<1> QED
  BY <1>1, <1>2, <1>3, <1>4, <1>5, <1>6 DEF Next

\* What a nudge waited for was processed before it could be queued.
LEMMA WaitedNext ==
  ASSUME Typed, Lanes, Waited, Queued, Next
  PROVE  Waited'
<1>1. /\ ShardsTyped /\ NudgesTyped /\ RestTyped /\ UNCHANGED shardOf
      /\ \A c \in Channels : shardOf[c] \in Shards
  BY ShardsFixed DEF Typed, RestTyped
<1>2. /\ \A s \in Shards : seqs[s].processed <= seqs'[s].processed
      /\ \A s \in Shards : seqs[s].processed \in Nat
      /\ \A s \in Shards : seqs'[s].processed \in Nat
  BY <1>1, LanesNext, NextTyped DEF Typed, ShardsTyped, Counters
<1>3. CASE UNCHANGED <<pending, nudger>>
  <2>1. ASSUME NEW c \in Channels, pending[c] # None
        PROVE  pending[c].behind <= seqs'[shardOf[c]].processed
    <3>1. pending[c].behind \in Nat /\ pending[c].behind <= seqs[shardOf[c]].processed
      BY <1>1, <2>1 DEF NudgesTyped, NudgeSet, Waited
    <3> QED
      BY <1>1, <1>2, <3>1
  <2>2. ASSUME NEW n \in NudgeWorkers, nudger[n].at = "sending"
        PROVE  nudger[n].behind <= seqs'[shardOf[nudger[n].chan]].processed
    <3>1. /\ nudger[n].behind \in Nat /\ nudger[n].chan \in Channels
          /\ nudger[n].behind <= seqs[shardOf[nudger[n].chan]].processed
      BY <1>1, <2>2 DEF NudgesTyped, Nudgers, Waited
    <3> QED
      BY <1>1, <1>2, <3>1
  <2> QED
    BY <1>1, <1>3, <2>1, <2>2 DEF Waited
<1>4. ASSUME NEW s \in Shards, Drain(s), ~ UNCHANGED <<pending, nudger>>
      PROVE  Waited'
  <2>1. UNCHANGED seqs
    BY <1>1, <1>4, DrainSteps
  <2>2. PICK i \in Ready(s) : Goes(s, i)
    BY <1>1, <1>4, DrainSteps DEF nudgeVars
  <2> DEFINE c == order[s][i]
             e == overflow[c]
  <2>3. /\ c \in Channels /\ e \in EntrySet
        /\ e.barrier <= seqs[shardOf[c]].processed
    BY ReadyEntry
  <2>4. pending' = Merged(c, e) /\ UNCHANGED nudger
    BY <1>1, <2>2, <2>3, OfferTyped DEF Goes
  <2> HIDE DEF c, e
  <2>5. \A d \in Channels \ {c} : pending'[d] = pending[d]
    BY <1>1, <2>3, <2>4 DEF Merged, NudgesTyped
  <2>6. pending'[c].behind <= seqs[shardOf[c]].processed
    <3>1. CASE pending[c] = None
      <4>1. pending'[c] = [pts |-> e.pts, behind |-> e.barrier]
        BY <1>1, <2>3, <2>4, <3>1 DEF Merged, NudgesTyped
      <4> QED
        BY <2>3, <4>1
    <3>2. CASE pending[c] # None
      <4>1. pending'[c] = [pts |-> Larger(pending[c].pts, e.pts),
                           behind |-> Larger(pending[c].behind, e.barrier)]
        BY <1>1, <2>3, <2>4, <3>2 DEF Merged, NudgesTyped
      <4>2. pending[c].behind <= seqs[shardOf[c]].processed
        BY <2>3, <3>2 DEF Waited
      <4> QED
        BY <2>3, <4>1, <4>2 DEF Larger
    <3> QED
      BY <3>1, <3>2
  <2> QED
    BY <1>1, <2>1, <2>4, <2>5, <2>6 DEF Waited
<1>5. ASSUME NEW n \in NudgeWorkers, Receive(n) \/ Nudged(n) \/ CutOff(n)
      PROVE  Waited'
  <2>1. /\ UNCHANGED <<pending, seqs>>
        /\ \A m \in NudgeWorkers :
             nudger'[m].at = "sending" => nudger'[m] = nudger[m]
    <3> DEFINE w == [nudger[n] EXCEPT !.at = "got", !.chan = Head(nudgeJobs)]
    <3>1. w.at # "sending" /\ NoNudge.at # "sending"
      BY <1>1 DEF NudgesTyped, Nudgers, NoNudge
    <3>2. UNCHANGED <<pending, seqs>>
      BY <1>5 DEF Receive, Nudged, CutOff, shardVars
    <3>3. nudger' = [nudger EXCEPT ![n] = w] \/ nudger' = [nudger EXCEPT ![n] = NoNudge]
      BY <1>5 DEF Receive, Nudged, CutOff
    <3> HIDE DEF w
    <3> QED
      BY <1>1, <3>1, <3>2, <3>3 DEF NudgesTyped
  <2> QED
    BY <1>1, <2>1 DEF Waited
<1>6. ASSUME NEW n \in NudgeWorkers, TakeNudge(n)
      PROVE  Waited'
  <2> DEFINE c == nudger[n].chan
             w == [at |-> "sending", chan |-> c, pts |-> pending[c].pts, behind |-> pending[c].behind]
  <2>1. /\ nudger[n].at = "got" /\ nudger' = [nudger EXCEPT ![n] = w]
        /\ pending' = [pending EXCEPT ![c] = None] /\ UNCHANGED seqs
    BY <1>6 DEF TakeNudge, shardVars
  <2>2. c \in Channels /\ pending[c] # None
    BY <1>1, <2>1 DEF NudgesTyped, Queued
  <2>3. w.behind <= seqs[shardOf[w.chan]].processed
    BY <2>2 DEF Waited
  <2> HIDE DEF w
  <2>4. /\ \A m \in NudgeWorkers : nudger'[m] = w \/ nudger'[m] = nudger[m]
        /\ \A d \in Channels : pending'[d] = None \/ pending'[d] = pending[d]
    BY <1>1, <2>1 DEF NudgesTyped
  <2> QED
    BY <1>1, <2>1, <2>3, <2>4 DEF Waited
<1>7. CASE End
  BY <1>1, <1>7 DEF End, Waited
<1> QED
  BY <1>3, <1>4, <1>5, <1>6, <1>7, NudgesApart DEF Nudger

\* The channels waiting for a nudge worker are finitely many.
LEMMA WaitingFinite ==
  /\ IsFiniteSet(Waiting) /\ Cardinality(Waiting) \in Nat
<1>1. Waiting \in SUBSET Channels
  BY DEF Waiting
<1> QED
  BY <1>1, ChannelsAssumption, FS_Subset, FS_CardinalityType

\* A channel is queued once, as long as it is pending.
LEMMA QueuedNext ==
  ASSUME Typed, Queued, Next
  PROVE  Queued'
<1>1. ShardsTyped /\ NudgesTyped /\ RestTyped
  BY DEF Typed
<1>2. CASE UNCHANGED <<pending, nudgeJobs, nudger>>
  <2>1. phase = "ended" => phase' = "ended"
    BY PhaseOrder
  <2> QED
    BY <1>2, <2>1 DEF Queued, Waiting
<1>3. ASSUME NEW s \in Shards, Drain(s), ~ UNCHANGED <<pending, nudgeJobs, nudger>>
      PROVE  Queued'
  <2>1. UNCHANGED phase
    BY <1>1, <1>3, DrainSteps DEF runVars
  <2>2. PICK i \in Ready(s) : Goes(s, i)
    BY <1>1, <1>3, DrainSteps DEF nudgeVars
  <2> DEFINE c == order[s][i]
             e == overflow[c]
  <2>3. c \in Channels /\ e \in EntrySet
    BY ReadyEntry
  <2>4. pending' = Merged(c, e) /\ UNCHANGED nudger /\ Offer(c, e) /\ CanOffer(c)
    BY <1>1, <2>2, <2>3, OfferTyped DEF Goes
  <2> HIDE DEF c, e
  <2>5. /\ \A d \in Channels \ {c} : pending'[d] = pending[d]
        /\ pending'[c] \in NudgeSet /\ pending'[c] # None
    BY <1>1, <2>3, <2>4, FanoutBoundsAssumption DEF Merged, NudgesTyped, NudgeSet, EntrySet, Larger
  <2>6. \A d \in Channels : pending[d] # None => pending'[d] # None
    BY <2>5
  <2>7. Waiting' = Waiting \cup {c}
    BY <2>3, <2>5 DEF Waiting
  <2>8. CASE pending[c] # None
    <3>1. UNCHANGED nudgeJobs
      BY <2>4, <2>8 DEF Offer
    <3>2. Waiting' = Waiting
      BY <2>3, <2>7, <2>8 DEF Waiting
    <3>3. \A j \in DOMAIN nudgeJobs : nudgeJobs[j] \in Channels
      BY <1>1 DEF NudgesTyped
    <3> QED
      BY <1>1, <2>1, <2>4, <2>6, <3>1, <3>2, <3>3 DEF Queued, NudgesTyped
  <2>9. CASE pending[c] = None
    <3>1. nudgeJobs' = Append(nudgeJobs, c)
      BY <2>4, <2>9 DEF Offer
    <3>2. /\ Len(nudgeJobs) \in Nat /\ DOMAIN nudgeJobs = 1..Len(nudgeJobs)
          /\ DOMAIN nudgeJobs' = 1..Len(nudgeJobs) + 1
          /\ nudgeJobs'[Len(nudgeJobs) + 1] = c
          /\ \A j \in 1..Len(nudgeJobs) : nudgeJobs'[j] = nudgeJobs[j] /\ nudgeJobs[j] \in Channels
      BY <1>1, <2>3, <3>1 DEF NudgesTyped
    <3>3. Cardinality(Waiting) < NudgeLimit /\ c \notin Waiting
      BY <2>4, <2>9 DEF CanOffer, Waiting
    <3>4. Cardinality(Waiting') <= NudgeLimit
      <4>1. Cardinality(Waiting') = Cardinality(Waiting) + 1
        BY <2>7, <3>3, WaitingFinite, FS_AddElement
      <4> QED
        BY <3>3, <4>1, WaitingFinite, FanoutBoundsAssumption
    <3>5. \A n \in NudgeWorkers : nudger[n].at = "got" => nudger[n].chan \in Channels /\ nudger[n].chan # c
      BY <1>1, <2>9 DEF Queued, NudgesTyped
    <3>6. ASSUME phase # "ended", NEW j \in 1..Len(nudgeJobs)
          PROVE  /\ nudgeJobs[j] # c /\ pending'[nudgeJobs[j]] # None
                 /\ \A k \in 1..Len(nudgeJobs) : j # k => nudgeJobs[j] # nudgeJobs[k]
                 /\ \A n \in NudgeWorkers : nudger[n].at = "got" => nudger[n].chan # nudgeJobs[j]
      BY <2>6, <2>9, <3>2, <3>6 DEF Queued
    <3>7. ASSUME phase # "ended", NEW j \in DOMAIN nudgeJobs'
          PROVE  /\ pending'[nudgeJobs'[j]] # None
                 /\ \A k \in DOMAIN nudgeJobs' : j # k => nudgeJobs'[j] # nudgeJobs'[k]
                 /\ \A n \in NudgeWorkers : nudger[n].at = "got" => nudger[n].chan # nudgeJobs'[j]
      <4>1. \A k \in DOMAIN nudgeJobs' : k = Len(nudgeJobs) + 1 \/ k \in 1..Len(nudgeJobs)
        BY <3>2
      <4>2. CASE j = Len(nudgeJobs) + 1
        BY <2>5, <3>2, <3>5, <3>6, <3>7, <4>1, <4>2
      <4>3. CASE j \in 1..Len(nudgeJobs)
        BY <3>2, <3>6, <3>7, <4>1, <4>3
      <4> QED
        BY <4>1, <4>2, <4>3
    <3>8. \A n \in NudgeWorkers :
            nudger[n].at = "got" =>
              /\ pending'[nudger[n].chan] # None
              /\ \A m \in NudgeWorkers :
                   nudger[m].at = "got" /\ m # n => nudger[m].chan # nudger[n].chan
      BY <2>6, <3>5 DEF Queued
    <3> QED
      BY <2>1, <2>4, <3>4, <3>7, <3>8 DEF Queued
  <2> QED
    BY <2>8, <2>9
<1>4. ASSUME NEW n \in NudgeWorkers, Receive(n)
      PROVE  Queued'
  <2> DEFINE w == [nudger[n] EXCEPT !.at = "got", !.chan = Head(nudgeJobs)]
  <2>1. /\ nudgeJobs # <<>> /\ nudgeJobs' = Tail(nudgeJobs) /\ phase # "ended"
        /\ nudger' = [nudger EXCEPT ![n] = w] /\ UNCHANGED <<pending, phase>>
        /\ nudger[n].at = "idle"
    BY <1>4 DEF Receive, runVars, Running
  <2>2. w.at = "got" /\ w.chan = Head(nudgeJobs)
    BY <1>1 DEF NudgesTyped, Nudgers
  <2> HIDE DEF w
  <2>3. /\ Len(nudgeJobs) \in Nat /\ Len(nudgeJobs) > 0 /\ DOMAIN nudgeJobs = 1..Len(nudgeJobs)
        /\ DOMAIN nudgeJobs' = 1..Len(nudgeJobs) - 1
        /\ \A i \in 1..Len(nudgeJobs) - 1 : nudgeJobs'[i] = nudgeJobs[i + 1]
        /\ Head(nudgeJobs) = nudgeJobs[1]
    BY <1>1, <2>1, HeadTailProperties, EmptySeq, LenProperties DEF NudgesTyped
  <2>4. \A i \in 1..Len(nudgeJobs) - 1 : i + 1 \in 1..Len(nudgeJobs) /\ i + 1 # 1
    BY <2>3
  <2>5. 1 \in 1..Len(nudgeJobs)
    BY <2>3
  <2>6. /\ nudger'[n] = w
        /\ \A m \in NudgeWorkers : m # n => nudger'[m] = nudger[m]
    BY <1>1, <2>1 DEF NudgesTyped
  <2>7. ASSUME NEW i \in DOMAIN nudgeJobs'
        PROVE  /\ pending'[nudgeJobs'[i]] # None
               /\ \A j \in DOMAIN nudgeJobs' : i # j => nudgeJobs'[i] # nudgeJobs'[j]
               /\ \A m \in NudgeWorkers : nudger'[m].at = "got" => nudger'[m].chan # nudgeJobs'[i]
    <3>1. i \in 1..Len(nudgeJobs) - 1 /\ i + 1 \in DOMAIN nudgeJobs /\ nudgeJobs'[i] = nudgeJobs[i + 1]
      BY <2>3, <2>4
    <3>2. /\ pending[nudgeJobs[i + 1]] # None
          /\ \A j \in DOMAIN nudgeJobs : i + 1 # j => nudgeJobs[i + 1] # nudgeJobs[j]
          /\ \A m \in NudgeWorkers : nudger[m].at = "got" => nudger[m].chan # nudgeJobs[i + 1]
      BY <2>1, <3>1 DEF Queued
    <3>3. \A j \in DOMAIN nudgeJobs' : i # j => nudgeJobs'[i] # nudgeJobs'[j]
      <4> SUFFICES ASSUME NEW j \in DOMAIN nudgeJobs', i # j
                   PROVE  nudgeJobs'[i] # nudgeJobs'[j]
        OBVIOUS
      <4>1. j \in 1..Len(nudgeJobs) - 1 /\ j + 1 \in DOMAIN nudgeJobs /\ nudgeJobs'[j] = nudgeJobs[j + 1]
        BY <2>3, <2>4
      <4>2. i + 1 # j + 1
        BY <2>3, <3>1, <4>1
      <4> QED
        BY <3>1, <3>2, <4>1, <4>2
    <3>4. nudgeJobs[1] # nudgeJobs[i + 1]
      BY <2>3, <2>4, <2>5, <3>1, <3>2
    <3>5. \A m \in NudgeWorkers : nudger'[m].at = "got" => nudger'[m].chan # nudgeJobs'[i]
      BY <2>2, <2>3, <2>6, <3>1, <3>2, <3>4
    <3> QED
      BY <2>1, <3>1, <3>2, <3>3, <3>5
  <2>8. ASSUME NEW m \in NudgeWorkers, nudger'[m].at = "got"
        PROVE  /\ pending'[nudger'[m].chan] # None
               /\ \A o \in NudgeWorkers :
                    nudger'[o].at = "got" /\ o # m => nudger'[o].chan # nudger'[m].chan
    <3>1. /\ pending[nudgeJobs[1]] # None
          /\ \A o \in NudgeWorkers : nudger[o].at = "got" => nudger[o].chan # nudgeJobs[1]
      BY <2>1, <2>3, <2>5 DEF Queued
    <3>2. CASE m = n
      BY <2>1, <2>2, <2>3, <2>6, <3>1, <3>2
    <3>3. CASE m # n
      BY <2>1, <2>2, <2>3, <2>6, <2>8, <3>1, <3>3 DEF Queued
    <3> QED
      BY <3>2, <3>3
  <2>9. Waiting' = Waiting
    BY <2>1 DEF Waiting
  <2> QED
    BY <2>7, <2>8, <2>9 DEF Queued
<1>5. ASSUME NEW n \in NudgeWorkers, TakeNudge(n)
      PROVE  Queued'
  <2> DEFINE c == nudger[n].chan
             w == [at |-> "sending", chan |-> c, pts |-> pending[c].pts, behind |-> pending[c].behind]
  <2>1. /\ nudger[n].at = "got" /\ nudger' = [nudger EXCEPT ![n] = w]
        /\ pending' = [pending EXCEPT ![c] = None] /\ UNCHANGED <<nudgeJobs, phase>>
    BY <1>5 DEF TakeNudge, runVars
  <2>2. c \in Channels /\ w.at # "got"
    BY <1>1, <2>1 DEF NudgesTyped
  <2> HIDE DEF w
  <2>3. /\ \A m \in NudgeWorkers : nudger'[m].at = "got" => m # n /\ nudger'[m] = nudger[m]
        /\ \A d \in Channels : d # c => pending'[d] = pending[d]
        /\ pending'[c] = None
    BY <1>1, <2>1, <2>2 DEF NudgesTyped
  <2>4. /\ \A i \in DOMAIN nudgeJobs : nudgeJobs[i] \in Channels
        /\ \A m \in NudgeWorkers : nudger[m].at = "got" => nudger[m].chan \in Channels
    BY <1>1 DEF NudgesTyped
  <2>5. /\ \A m \in NudgeWorkers : nudger[m].at = "got" /\ m # n => nudger[m].chan # c
        /\ phase # "ended" => \A i \in DOMAIN nudgeJobs : nudgeJobs[i] # c
    BY <2>1 DEF Queued
  <2>6. Cardinality(Waiting') <= NudgeLimit
    <3>1. Waiting' \in SUBSET Waiting
      BY <2>3 DEF Waiting
    <3>2. Cardinality(Waiting') \in Nat /\ Cardinality(Waiting') <= Cardinality(Waiting)
      BY <3>1, WaitingFinite, FS_Subset, FS_CardinalityType
    <3> QED
      BY <3>2, WaitingFinite, FanoutBoundsAssumption DEF Queued
  <2> HIDE DEF c
  <2> QED
    BY <2>1, <2>3, <2>4, <2>5, <2>6 DEF Queued
<1>6. ASSUME NEW n \in NudgeWorkers, Nudged(n) \/ CutOff(n)
      PROVE  Queued'
  <2>1. /\ UNCHANGED <<pending, nudgeJobs, phase>>
        /\ nudger' = [nudger EXCEPT ![n] = NoNudge]
    BY <1>6 DEF Nudged, CutOff, runVars
  <2>2. NoNudge.at # "got"
    BY DEF NoNudge
  <2>3. \A m \in NudgeWorkers : nudger'[m].at = "got" => nudger'[m] = nudger[m]
    BY <1>1, <2>1, <2>2 DEF NudgesTyped
  <2> QED
    BY <2>1, <2>3 DEF Queued, Waiting
<1>7. CASE End
  <2>1. /\ phase' = "ended" /\ pending' = [c \in Channels |-> None]
        /\ \A n \in NudgeWorkers : nudger'[n].at = "idle"
    BY <1>7 DEF End, Phase
  <2>2. Waiting' = {}
    BY <2>1 DEF Waiting
  <2>3. Cardinality(Waiting') = 0
    BY <2>2, FS_EmptySet, Zenon
  <2> QED
    BY <2>1, <2>3, FanoutBoundsAssumption DEF Queued
<1> QED
  BY <1>2, <1>3, <1>4, <1>5, <1>6, <1>7, NudgesApart DEF Nudger

-----------------------------------------------------------------------------
(* Requests, and the end.                                                  *)

\* A request is the only one of its update.
LEMMA OneSenderNext ==
  ASSUME Typed, OneSender, Next
  PROVE  OneSender'
<1>1. /\ \A c \in Channels : pts[c] \in Nat /\ pts \in [Channels -> Nat]
      /\ \A x \in senders : x.chan \in Channels /\ x.pts \in Nat /\ x \in Requests
  BY FanoutBoundsAssumption DEF Typed, RestTyped, Requests, Pts
<1>2. ASSUME NEW c \in Channels, Publish(c)
      PROVE  OneSender'
  <2> DEFINE new == [chan |-> c, pts |-> pts[c] + 1, at |-> "committed"]
  <2>1. pts' = [pts EXCEPT ![c] = pts[c] + 1] /\ senders' = senders \cup {new}
    BY <1>2 DEF Publish
  <2>2. new.chan = c /\ new.pts = pts[c] + 1
    OBVIOUS
  <2> HIDE DEF new
  <2>3. \A x \in senders : x.chan = c => x.pts < new.pts
    BY <1>1, <2>2 DEF OneSender
  <2>4. \A x, y \in senders' : x.chan = y.chan /\ x.pts = y.pts => x = y
    BY <1>1, <2>1, <2>2, <2>3 DEF OneSender
  <2>5. \A x \in senders' : x.pts <= pts'[x.chan]
    BY <1>1, <2>1, <2>2 DEF OneSender
  <2> QED
    BY <2>4, <2>5 DEF OneSender
<1>3. ASSUME NEW x \in senders, NEW at, Advance(x, at) \/ Leave(x), UNCHANGED pts
      PROVE  OneSender'
  <2> DEFINE next == [x EXCEPT !.at = at]
  <2>1. next.chan = x.chan /\ next.pts = x.pts
    BY <1>1 DEF Requests
  <2>2. senders' \subseteq (senders \ {x}) \cup {next}
    BY <1>3 DEF Advance, Leave
  <2> HIDE DEF next
  <2>3. ASSUME NEW y \in senders'
        PROVE  /\ y.pts <= pts'[y.chan]
               /\ \A z \in senders' : y.chan = z.chan /\ y.pts = z.pts => y = z
    BY <1>3, <2>1, <2>2 DEF OneSender
  <2> QED
    BY <2>3 DEF OneSender
<1>4. CASE Request
  <2>1. CASE \E x \in senders : Reserve(x)
    BY <1>3, <2>1 DEF Reserve
  <2>2. CASE \E x \in senders : Put(x)
    BY <1>3, <2>2 DEF Put, PutInto
  <2>3. CASE \E x \in senders : Spill(x)
    BY <1>3, <2>3 DEF Spill
  <2> QED
    BY <1>2, <1>4, <2>1, <2>2, <2>3 DEF Request
<1>5. CASE UNCHANGED <<pts, senders>>
  BY <1>5 DEF OneSender
<1> QED
  BY <1>4, <1>5, RequestsApart

\* A dispatcher that has stopped takes no payload, one that has ended does nothing.
LEMMA OverNext ==
  ASSUME Typed, Over, Next
  PROVE  Over'
<1>1. ShardsTyped /\ NudgesTyped /\ RestTyped
  BY DEF Typed
<1>2. phase = "ended" => /\ \A s \in Shards : ~ Shard(s)
                         /\ \A n \in NudgeWorkers : ~ (Nudger(n) \/ CutOff(n))
                         /\ ~ Admit /\ ~ End
  <2> SUFFICES ASSUME phase = "ended"
               PROVE  /\ \A s \in Shards : ~ Shard(s)
                      /\ \A n \in NudgeWorkers : ~ (Nudger(n) \/ CutOff(n))
                      /\ ~ Admit /\ ~ End
    OBVIOUS
  <2>1. \A s \in Shards : ~ Shard(s)
    BY DEF Over, Shard, RunJob, FinishJob, TakeWake, RetryFires, Drain, Running
  <2>2. \A n \in NudgeWorkers : ~ (Nudger(n) \/ CutOff(n))
    BY DEF Over, Nudger, Receive, TakeNudge, Nudged, CutOff, Running
  <2>3. ~ Admit /\ ~ End
    BY DEF Admit, End, Phase
  <2> QED
    BY <2>1, <2>2, <2>3
<1>3. phase \in {"stopped", "ended"} => \A x \in senders : ~ Put(x) /\ ~ Spill(x)
  BY DEF Over, Put, PutInto, Spill
<1>4. phase' \in {"stopped", "ended"} => \A x \in senders' : x.at = "committed"
  <2> SUFFICES ASSUME phase' \in {"stopped", "ended"}
               PROVE  \A x \in senders' : x.at = "committed"
    OBVIOUS
  <2>1. CASE phase \in {"stopped", "ended"}
    <3>1. \A x \in senders : x.at = "committed"
      BY <2>1 DEF Over
    <3>2. CASE \E c \in Channels : Publish(c)
      BY <3>1, <3>2 DEF Publish
    <3>3. CASE \E x \in senders : Reserve(x)
      BY <2>1, <3>1, <3>3 DEF Reserve, Leave
    <3> QED
      BY <1>3, <2>1, <3>1, <3>2, <3>3, RequestsApart DEF Request
  <2>2. CASE phase \notin {"stopped", "ended"}
    <3>1. phase = "cancelled" /\ phase' = "stopped"
      BY <2>2, PhaseOrder
    <3>2. StopEnqueues
      BY <3>1, StopsHow
    <3> QED
      BY <3>2 DEF StopEnqueues, Dispatcher
  <2> QED
    BY <2>1, <2>2
<1>5. phase' = "ended" =>
        /\ \A s \in Shards : worker'[s].at = "select" /\ jobs'[s] = <<>>
        /\ \A n \in NudgeWorkers : nudger'[n].at = "idle"
        /\ \A c \in Channels : overflow'[c] = None /\ pending'[c] = None
  <2> SUFFICES ASSUME phase' = "ended"
               PROVE  /\ \A s \in Shards : worker'[s].at = "select" /\ jobs'[s] = <<>>
                      /\ \A n \in NudgeWorkers : nudger'[n].at = "idle"
                      /\ \A c \in Channels : overflow'[c] = None /\ pending'[c] = None
    OBVIOUS
  <2>1. CASE End
    BY <2>1 DEF End
  <2>2. CASE ~ End
    <3>1. phase = "ended"
      BY <2>2, PhaseOrder, StopsHow
    <3>2. UNCHANGED <<worker, jobs>>
      BY <1>2, <1>3, <3>1, LanesApart
    <3>3. UNCHANGED <<nudger, pending>>
      BY <1>2, <3>1, NudgesApart DEF Shard
    <3>4. UNCHANGED overflow
      BY <1>2, <1>3, <3>1, MailboxesApart DEF Shard
    <3> QED
      BY <3>1, <3>2, <3>3, <3>4 DEF Over
  <2> QED
    BY <2>1, <2>2
<1> QED
  BY <1>4, <1>5 DEF Over

-----------------------------------------------------------------------------
(* The overflow mailboxes and who waits for room in them.                  *)

\* A list takes a new member at its end.
LEMMA AppendLists ==
  ASSUME NEW q \in Seq(Channels), NEW E, Lists(q, E), NEW c \in Channels \ E
  PROVE  Lists(Append(q, c), E \cup {c})
<1> DEFINE q2 == Append(q, c)
<1>1. /\ Len(q) \in Nat /\ DOMAIN q = 1..Len(q) /\ DOMAIN q2 = 1..Len(q) + 1
      /\ q2[Len(q) + 1] = c
      /\ \A j \in 1..Len(q) : j \in 1..Len(q) + 1 /\ q2[j] = q[j]
      /\ \A j \in 1..Len(q) + 1 : j = Len(q) + 1 \/ j \in 1..Len(q)
  OBVIOUS
<1> HIDE DEF q2
<1>2. Len(q) + 1 \in 1..Len(q) + 1
  BY <1>1
<1>3. \A i \in DOMAIN q2 : q2[i] \in E \cup {c}
  BY <1>1 DEF Lists
<1>4. \A i, j \in DOMAIN q2 : q2[i] = q2[j] => i = j
  BY <1>1 DEF Lists
<1>5. \A d \in E \cup {c} : \E i \in DOMAIN q2 : q2[i] = d
  BY <1>1, <1>2 DEF Lists
<1> QED
  BY <1>3, <1>4, <1>5 DEF Lists, q2

\* A list without its i-th member.
LEMMA WithoutLists ==
  ASSUME NEW q \in Seq(Channels), NEW E, Lists(q, E), NEW i \in DOMAIN q
  PROVE  Lists(Without(q, i), E \ {q[i]})
<1> DEFINE q2 == Without(q, i)
<1>1. /\ DOMAIN q = 1..Len(q) /\ Len(q) \in Nat /\ DOMAIN q2 = 1..Len(q) - 1
      /\ \A j \in 1..Len(q) - 1 : q2[j] = IF j < i THEN q[j] ELSE q[j + 1]
  BY WithoutOne
<1> HIDE DEF q2
<1>2. \A j \in 1..Len(q) - 1 : j \in 1..Len(q) /\ j + 1 \in 1..Len(q)
  BY <1>1
<1>3. ASSUME NEW j \in 1..Len(q) - 1
      PROVE  q2[j] \in E \ {q[i]}
  <2>1. CASE j < i
    BY <1>1, <1>2, <2>1 DEF Lists
  <2>2. CASE ~ (j < i)
    <3>1. j + 1 # i /\ q2[j] = q[j + 1] /\ j + 1 \in 1..Len(q)
      BY <1>1, <1>2, <2>2
    <3> QED
      BY <1>1, <3>1 DEF Lists
  <2> QED
    BY <2>1, <2>2
<1>4. ASSUME NEW j \in 1..Len(q) - 1, NEW k \in 1..Len(q) - 1, q2[j] = q2[k]
      PROVE  j = k
  <2>1. PICK a \in 1..Len(q) : q2[j] = q[a] /\ a = IF j < i THEN j ELSE j + 1
    BY <1>1, <1>2
  <2>2. PICK b \in 1..Len(q) : q2[k] = q[b] /\ b = IF k < i THEN k ELSE k + 1
    BY <1>1, <1>2
  <2>3. a = b
    BY <1>1, <1>4, <2>1, <2>2 DEF Lists
  <2> QED
    BY <1>1, <2>1, <2>2, <2>3
<1>5. ASSUME NEW d \in E \ {q[i]}
      PROVE  \E j \in 1..Len(q) - 1 : q2[j] = d
  <2>1. PICK k \in 1..Len(q) : q[k] = d
    BY <1>1 DEF Lists
  <2>2. k # i /\ i \in 1..Len(q)
    BY <1>1, <2>1
  <2>3. CASE k < i
    <3>1. k \in 1..Len(q) - 1 /\ q2[k] = q[k]
      BY <1>1, <2>2, <2>3
    <3> QED
      BY <2>1, <3>1
  <2>4. CASE ~ (k < i)
    <3>1. k - 1 \in 1..Len(q) - 1 /\ ~ (k - 1 < i) /\ k - 1 + 1 = k
      BY <1>1, <2>2, <2>4
    <3>2. q2[k - 1] = q[k]
      BY <1>1, <3>1
    <3> QED
      BY <2>1, <3>1, <3>2
  <2> QED
    BY <2>3, <2>4
<1> QED
  BY <1>1, <1>3, <1>4, <1>5 DEF Lists, q2

\* The entries of a shard are finitely many.
LEMMA EntriesFinite ==
  ASSUME NEW s
  PROVE  IsFiniteSet(Entries(s)) /\ Cardinality(Entries(s)) \in Nat
<1>1. Entries(s) \in SUBSET Channels
  BY DEF Entries
<1> QED
  BY <1>1, ChannelsAssumption, FS_Subset, FS_CardinalityType

\* An entry is added, or raised where it is.
LEMMA AddListed ==
  ASSUME Typed, Mailboxes, UNCHANGED shardOf, NEW c \in Channels, NEW p \in Nat,
         CanAdd(c), AddOverflow(c, p)
  PROVE  Mailboxes' /\ \A s \in Shards : Entries(s) \subseteq Entries(s)'
<1>1. ShardsTyped /\ RestTyped /\ shardOf[c] \in Shards
  BY DEF Typed, RestTyped
<1> DEFINE t == shardOf[c]
<1>2. /\ \A d \in Channels \ {c} : overflow'[d] = overflow[d]
      /\ overflow'[c] # None
  <2>1. overflow' = Raised(c, p) /\ overflow' \in [Channels -> EntrySet \cup {None}]
    BY <1>1, AddTyped
  <2>2. \A d \in Channels \ {c} : overflow'[d] = overflow[d]
    BY <1>1, <2>1 DEF Raised, ShardsTyped
  <2>3. overflow'[c] # None
    <3> DEFINE e == IF overflow[c] = None THEN [pts |-> p, barrier |-> seqs[shardOf[c]].next]
                    ELSE [pts |-> Larger(overflow[c].pts, p), barrier |-> overflow[c].barrier]
    <3>1. e \in EntrySet
      BY <1>1 DEF ShardsTyped, EntrySet, Counters, Larger
    <3>2. overflow'[c] = e
      BY <1>1, <2>1 DEF Raised, ShardsTyped
    <3> QED
      BY <3>1, <3>2, FanoutBoundsAssumption DEF EntrySet
  <2> QED
    BY <2>2, <2>3
<1>3. /\ Entries(t)' = Entries(t) \cup {c}
      /\ \A s \in Shards \ {t} : Entries(s)' = Entries(s)
  BY <1>2 DEF Entries
<1>4. CASE overflow[c] # None
  <2>1. UNCHANGED order /\ \A s \in Shards : Entries(s)' = Entries(s)
    BY <1>3, <1>4 DEF AddOverflow, AddAnd, Entries
  <2> QED
    BY <2>1 DEF Mailboxes, Listed
<1>5. CASE overflow[c] = None
  <2>1. /\ order' = [order EXCEPT ![t] = Append(order[t], c)]
        /\ Cardinality(Entries(t)) < OverflowLimit
    BY <1>5 DEF AddOverflow, AddAnd, CanAdd
  <2>2. c \notin Entries(t)
    BY <1>5 DEF Entries
  <2>3. /\ order'[t] = Append(order[t], c)
        /\ \A s \in Shards \ {t} : order'[s] = order[s]
        /\ order[t] \in Seq(Channels)
    BY <1>1, <2>1 DEF ShardsTyped
  <2>4. Lists(order'[t], Entries(t)')
    BY <1>1, <1>3, <2>2, <2>3, AppendLists DEF Mailboxes, Listed
  <2>5. Cardinality(Entries(t)') <= OverflowLimit
    <3>1. Cardinality(Entries(t)') = Cardinality(Entries(t)) + 1
      <4>1. IsFiniteSet(Entries(t))
        BY EntriesFinite
      <4>2. Cardinality(Entries(t) \cup {c}) = Cardinality(Entries(t)) + 1
        BY <2>2, <4>1, FS_AddElement
      <4> QED
        BY <1>3, <4>2
    <3> QED
      BY <2>1, <3>1, EntriesFinite, FanoutBoundsAssumption
  <2>6. Listed(t)'
    BY <2>4, <2>5 DEF Listed
  <2>7. ASSUME NEW s \in Shards \ {t}
        PROVE  Listed(s)'
    BY <1>3, <2>3 DEF Mailboxes, Listed
  <2>8. \A s \in Shards : Entries(s) \subseteq Entries(s)'
    BY <1>3
  <2> QED
    BY <2>6, <2>7, <2>8 DEF Mailboxes
<1> QED
  BY <1>4, <1>5

\* An entry goes.
LEMMA GoneListed ==
  ASSUME Typed, Mailboxes, UNCHANGED shardOf, NEW s \in Shards, NEW i \in Ready(s), Goes(s, i)
  PROVE  /\ Mailboxes'
         /\ shardOf[order[s][i]] = s
         /\ \A t \in Shards \ {s} : Entries(t)' = Entries(t)
<1>1. ShardsTyped /\ i \in DOMAIN order[s] /\ order[s][i] \in Channels
  BY ReadyEntry DEF Typed
<1> DEFINE c == order[s][i]
<1>2. /\ overflow' = [overflow EXCEPT ![c] = None]
      /\ order' = [order EXCEPT ![s] = Without(order[s], i)]
  BY DEF Goes
<1>3. c \in Entries(s) /\ shardOf[c] = s
  BY <1>1 DEF Mailboxes, Listed, Lists, Entries
<1>4. /\ Entries(s)' = Entries(s) \ {c}
      /\ \A t \in Shards \ {s} : Entries(t)' = Entries(t)
  BY <1>1, <1>2, <1>3 DEF Entries, ShardsTyped
<1>5. /\ order'[s] = Without(order[s], i)
      /\ \A t \in Shards \ {s} : order'[t] = order[t]
      /\ order[s] \in Seq(Channels)
  BY <1>1, <1>2 DEF ShardsTyped
<1>6. Lists(order'[s], Entries(s)')
  BY <1>1, <1>4, <1>5, WithoutLists DEF Mailboxes, Listed
<1>7. Cardinality(Entries(s)') <= OverflowLimit
  <2>1. Cardinality(Entries(s)) <= OverflowLimit
    BY DEF Mailboxes, Listed
  <2>2. Cardinality(Entries(s)') = Cardinality(Entries(s)) - 1
    BY <1>3, <1>4, EntriesFinite, FS_RemoveElement
  <2> QED
    BY <2>1, <2>2, EntriesFinite, FanoutBoundsAssumption
<1>8. Listed(s)'
  BY <1>6, <1>7 DEF Listed
<1>9. ASSUME NEW t \in Shards \ {s}
      PROVE  Listed(t)'
  BY <1>4, <1>5 DEF Mailboxes, Listed
<1> QED
  BY <1>3, <1>4, <1>8, <1>9 DEF Mailboxes

\* A mailbox is a list of its entries, with no more than it may hold.
LEMMA MailboxesNext ==
  ASSUME Typed, Mailboxes, Next
  PROVE  Mailboxes'
<1>1. ShardsTyped /\ RestTyped /\ UNCHANGED shardOf
  BY ShardsFixed DEF Typed
<1>2. CASE UNCHANGED <<overflow, order>>
  BY <1>1, <1>2 DEF Mailboxes, Listed, Entries
<1>3. ASSUME NEW x \in senders, Spill(x)
      PROVE  Mailboxes'
  <2>1. x.chan \in Channels /\ x.pts \in Nat
    BY <1>1 DEF RestTyped, Requests, Pts
  <2>2. CASE CanAdd(x.chan)
    BY <1>1, <1>3, <2>1, <2>2, AddListed DEF Spill
  <2>3. CASE ~ CanAdd(x.chan)
    BY <1>2, <1>3, <2>3 DEF Spill
  <2> QED
    BY <2>2, <2>3
<1>4. CASE Admit
  <2>1. First[1] \in Channels /\ First[2] \in Nat
    BY <1>1, <1>4, FirstOfPage DEF Admit
  <2>2. CASE CanAdd(First[1])
    <3>1. AddOverflow(First[1], First[2])
      BY <1>4, <2>2 DEF Admit, First
    <3> QED
      BY <1>1, <2>1, <2>2, <3>1, AddListed
  <2>3. CASE ~ CanAdd(First[1])
    <3>1. UNCHANGED <<overflow, order>>
      BY <1>4, <2>3 DEF Admit, First
    <3> QED
      BY <1>2, <3>1
  <2> QED
    BY <2>2, <2>3
<1>5. ASSUME NEW s \in Shards, Drain(s)
      PROVE  Mailboxes'
  BY <1>1, <1>2, <1>5, DrainSteps, GoneListed
<1>6. CASE End
  <2>1. /\ overflow' = [c \in Channels |-> None]
        /\ order' = [s \in Shards |-> <<>>]
    BY <1>6 DEF End
  <2>2. ASSUME NEW s \in Shards
        PROVE  Listed(s)'
    <3>1. Entries(s)' = {}
      BY <2>1 DEF Entries
    <3>2. Cardinality(Entries(s)') = 0
      BY <3>1, FS_EmptySet, Zenon
    <3>3. order'[s] = <<>> /\ DOMAIN <<>> = {}
      BY <2>1
    <3> QED
      BY <3>1, <3>2, <3>3, FanoutBoundsAssumption DEF Listed, Lists
  <2> QED
    BY <2>2 DEF Mailboxes
<1> QED
  BY <1>2, <1>3, <1>4, <1>5, <1>6, MailboxesApart

\* A mailbox that is full and only gains entries stays full.
LEMMA StaysFull ==
  ASSUME Mailboxes', NEW s \in Shards, Entries(s) \subseteq Entries(s)',
         Cardinality(Entries(s)) = OverflowLimit
  PROVE  Cardinality(Entries(s)') = OverflowLimit
<1>1. IsFiniteSet(Entries(s)') /\ Cardinality(Entries(s)') \in Nat
  <2>1. Entries(s)' \in SUBSET Channels
    BY DEF Entries
  <2> QED
    BY <2>1, ChannelsAssumption, FS_Subset, FS_CardinalityType
<1>2. Cardinality(Entries(s)) <= Cardinality(Entries(s)')
  BY <1>1, FS_Subset
<1>3. Cardinality(Entries(s)') <= OverflowLimit
  BY DEF Mailboxes, Listed
<1> QED
  BY <1>1, <1>2, <1>3, FanoutBoundsAssumption

\* A page with a pair of a full mailbox.
LEMMA FullPage ==
  ASSUME UNCHANGED shardOf, NEW e \in sweep'.page, NEW s, s = shardOf[e[1]],
         Cardinality(Entries(s)') = OverflowLimit
  PROVE  SleepsOnlyWhenFull'
BY DEF SleepsOnlyWhenFull, Entries

\* Who sleeps on a mailbox was told that it is full, and will be told of room.
LEMMA SleepsNext ==
  ASSUME Typed, Mailboxes, SleepsOnlyWhenFull, Next
  PROVE  SleepsOnlyWhenFull'
<1>1. /\ ShardsTyped /\ RestTyped /\ UNCHANGED shardOf /\ Mailboxes' /\ sweep \in Sweeps
      /\ \A e \in sweep.page : shardOf[e[1]] \in Shards
  BY ShardsFixed, MailboxesNext DEF Typed, RestTyped, Sweeps
<1>2. phase' # "ended" => phase # "ended"
  BY PhaseOrder
<1>3. ASSUME UNCHANGED sweep, \A s \in Shards : Entries(s) \subseteq Entries(s)'
      PROVE  SleepsOnlyWhenFull'
  <2> SUFFICES ASSUME sweep.at = "waiting", ~ sweep.space, phase # "ended"
               PROVE  \E e \in sweep.page : Cardinality(Entries(shardOf[e[1]])') = OverflowLimit
    BY <1>1, <1>2, <1>3 DEF SleepsOnlyWhenFull, Entries
  <2>1. PICK e \in sweep.page : Cardinality(Entries(shardOf[e[1]])) = OverflowLimit
    BY DEF SleepsOnlyWhenFull
  <2> QED
    BY <1>1, <1>3, <2>1, StaysFull
<1>4. ASSUME UNCHANGED overflow, UNCHANGED sweep \/ sweep'.at # "waiting"
      PROVE  SleepsOnlyWhenFull'
  <2>1. \A s \in Shards : Entries(s) \subseteq Entries(s)'
    BY <1>1, <1>4 DEF Entries
  <2> QED
    BY <1>3, <1>4, <2>1 DEF SleepsOnlyWhenFull
<1>5. ASSUME NEW x \in senders, Spill(x)
      PROVE  SleepsOnlyWhenFull'
  <2>1. x.chan \in Channels /\ x.pts \in Nat /\ UNCHANGED sweep
    BY <1>1, <1>5 DEF RestTyped, Requests, Pts, Spill
  <2>2. CASE CanAdd(x.chan)
    <3>1. AddOverflow(x.chan, x.pts)
      BY <1>5, <2>2 DEF Spill
    <3> QED
      BY <1>1, <1>3, <2>1, <2>2, <3>1, AddListed
  <2>3. CASE ~ CanAdd(x.chan)
    BY <1>4, <1>5, <2>1, <2>3 DEF Spill
  <2> QED
    BY <2>2, <2>3
<1>6. CASE Admit
  <2>1. First \in sweep.page /\ First[1] \in Channels
    BY <1>1, <1>6, FirstOfPage DEF Admit
  <2>2. CASE CanAdd(First[1])
    <3>1. sweep'.at = "page"
      BY <1>1, <1>6, <2>2 DEF Admit, First, Sweeps
    <3> QED
      BY <3>1 DEF SleepsOnlyWhenFull
  <2>3. CASE ~ CanAdd(First[1])
    <3>1. sweep' = [sweep EXCEPT !.at = "waiting", !.space = FALSE] /\ UNCHANGED overflow
      BY <1>6, <2>3 DEF Admit, First
    <3>2. sweep'.page = sweep.page
      BY <1>1, <3>1 DEF Sweeps
    <3>3. PICK s \in Shards, e \in sweep.page : s = shardOf[First[1]] /\ e = First
      BY <1>1, <2>1
    <3>4. Entries(s)' = Entries(s)
      BY <1>1, <3>1 DEF Entries
    <3>5. Cardinality(Entries(s)) = OverflowLimit
      <4> DEFINE k == Cardinality(Entries(s))
      <4>1. ~ (k < OverflowLimit)
        BY <2>3, <3>3 DEF CanAdd
      <4>2. k <= OverflowLimit /\ k \in Nat
        BY <1>1, EntriesFinite DEF Mailboxes, Listed
      <4> QED
        BY <4>1, <4>2, FanoutBoundsAssumption
    <3> QED
      BY <1>1, <3>2, <3>3, <3>4, <3>5, FullPage
  <2> QED
    BY <2>2, <2>3
<1>7. ASSUME NEW s \in Shards, Drain(s)
      PROVE  SleepsOnlyWhenFull'
  <2>1. CASE UNCHANGED <<overflow, sweep>>
    BY <1>4, <2>1
  <2>2. CASE ~ UNCHANGED <<overflow, sweep>>
    <3>1. PICK i \in Ready(s) : Goes(s, i)
      BY <1>1, <1>7, <2>2, DrainSteps
    <3>2. \A t \in Shards \ {s} : Entries(t)' = Entries(t)
      BY <1>1, <3>1, GoneListed
    <3>3. FreeSpace(s)
      BY <3>1 DEF Goes
    <3>4. CASE sweep'.at = "waiting" /\ ~ sweep'.space /\ phase # "ended"
      <4>1. UNCHANGED sweep /\ \A e \in sweep.page : shardOf[e[1]] # s
        BY <1>1, <3>3, <3>4 DEF FreeSpace, Sweeps
      <4>2. PICK e \in sweep.page : Cardinality(Entries(shardOf[e[1]])) = OverflowLimit
        BY <3>4, <4>1 DEF SleepsOnlyWhenFull
      <4>3. PICK t \in Shards : t = shardOf[e[1]]
        BY <1>1
      <4>4. Cardinality(Entries(t)') = OverflowLimit
        BY <3>2, <4>1, <4>2, <4>3
      <4> QED
        BY <1>1, <4>1, <4>3, <4>4, FullPage
    <3>5. CASE ~ (sweep'.at = "waiting" /\ ~ sweep'.space /\ phase # "ended")
      BY <1>2, <3>5 DEF SleepsOnlyWhenFull
    <3> QED
      BY <3>4, <3>5
  <2> QED
    BY <2>1, <2>2
<1>8. CASE End
  BY <1>8 DEF End, Phase, SleepsOnlyWhenFull
<1>9. ASSUME \A x \in senders : ~ Spill(x), \A s \in Shards : ~ Drain(s), ~ Admit, ~ End
      PROVE  SleepsOnlyWhenFull'
  <2>1. UNCHANGED overflow
    BY <1>9, MailboxesApart
  <2>2. CASE ~ Recovery /\ ~ SweepFails
    BY <1>4, <1>9, <2>1, <2>2, SweepApart
  <2>3. CASE Recovery \/ SweepFails
    <3>1. sweep'.at # "waiting"
      <4>1. CASE CheckGeneration \/ TakeRecoveryWake \/ Snapshot
        BY <1>1, <4>1 DEF CheckGeneration, TakeRecoveryWake, Snapshot, Sweeps
      <4>2. CASE ReadPage
        BY <1>1, <4>2 DEF ReadPage, Sweeps
      <4>3. CASE BackoffEnds \/ SweepFails \/ CompleteSweep
        BY <4>3 DEF BackoffEnds, SweepFails, CompleteSweep, Complete, Idle
      <4> QED
        BY <1>9, <2>3, <4>1, <4>2, <4>3 DEF Recovery
    <3> QED
      BY <1>4, <2>1, <3>1
  <2> QED
    BY <2>2, <2>3
<1> QED
  BY <1>5, <1>6, <1>7, <1>8, <1>9

\* A sweep works for a generation that is not complete.
LEMMA SweepingNext ==
  ASSUME Typed, Sweeping, Next
  PROVE  Sweeping'
<1>1. /\ RestTyped /\ recovery \in Generations /\ sweep \in Sweeps
      /\ recovery.generation \in Nat /\ recovery.completed \in Nat /\ sweep.target \in Nat
  BY DEF Typed, RestTyped, Generations, Sweeps
<1>2. CASE ~ Recovery /\ ~ SweepFails
  <2>1. /\ sweep'.at = sweep.at /\ sweep'.target = sweep.target
        /\ sweep'.todo = sweep.todo /\ sweep'.page = sweep.page
    BY <1>1, <1>2, SweepApart DEF Sweeps
  <2>2. CASE UNCHANGED recovery
    BY <2>1, <2>2 DEF Sweeping
  <2>3. CASE RequestRecovery
    BY <1>1, <2>1, <2>3, AnnouncedTyped DEF Sweeping
  <2> QED
    BY <1>2, <2>2, <2>3, SweepApart
<1>3. CASE CheckGeneration
  <2>1. CASE recovery.generation > recovery.completed
    <3>1. /\ sweep' = [sweep EXCEPT !.at = "snapshot", !.target = recovery.generation]
          /\ UNCHANGED recovery /\ sweep.at = "check"
      BY <1>3, <2>1 DEF CheckGeneration
    <3>2. /\ sweep'.at = "snapshot" /\ sweep'.target = recovery.generation
          /\ sweep'.todo = sweep.todo /\ sweep'.page = sweep.page
      BY <1>1, <3>1 DEF Sweeps
    <3> QED
      BY <1>1, <2>1, <3>1, <3>2 DEF Sweeping
  <2>2. CASE ~ (recovery.generation > recovery.completed)
    BY <1>1, <1>3, <2>2 DEF CheckGeneration, Sweeping, Sweeps
  <2> QED
    BY <2>1, <2>2
<1>8. CASE TakeRecoveryWake
  <2>1. /\ sweep.at = "asleep" /\ sweep' = [sweep EXCEPT !.at = "check"]
        /\ recovery' = [recovery EXCEPT !.wake = FALSE]
    BY <1>8 DEF TakeRecoveryWake
  <2>2. /\ sweep'.at = "check" /\ sweep'.target = sweep.target
        /\ sweep'.todo = sweep.todo /\ sweep'.page = sweep.page
        /\ recovery'.generation = recovery.generation
        /\ recovery'.completed = recovery.completed
    BY <1>1, <2>1 DEF Sweeps, Generations
  <2> QED
    BY <2>1, <2>2 DEF Sweeping
<1>9. CASE Snapshot
  <2>1. /\ sweep.at = "snapshot" /\ sweep'.at = "page" /\ sweep'.target = sweep.target
        /\ UNCHANGED recovery
    BY <1>1, <1>9 DEF Snapshot, Sweeps
  <2> QED
    BY <2>1 DEF Sweeping
<1>4. CASE ReadPage
  <2>1. /\ sweep'.at = "page" /\ sweep.at = "page" /\ sweep'.target = sweep.target
        /\ UNCHANGED recovery
    BY <1>1, <1>4 DEF ReadPage, Sweeps
  <2> QED
    BY <2>1 DEF Sweeping
<1>5. CASE BackoffEnds \/ SweepFails
  BY <1>1, <1>5 DEF BackoffEnds, SweepFails, Idle, Sweeping
<1>6. CASE Admit
  <2>1. /\ sweep'.at \in {"page", "waiting"} /\ sweep.at \in {"page", "waiting"}
        /\ sweep'.target = sweep.target /\ UNCHANGED recovery
    BY <1>1, <1>6 DEF Admit, Sweeps
  <2> QED
    BY <2>1 DEF Sweeping
<1>7. CASE CompleteSweep
  BY <1>1, <1>7 DEF CompleteSweep, Complete, Idle, Sweeping, Generations
<1> QED
  BY <1>2, <1>3, <1>4, <1>5, <1>6, <1>7, <1>8, <1>9 DEF Recovery

-----------------------------------------------------------------------------
(* The budget: who holds a reservation.                                    *)

\* A slot is taken.
LEMMA HeldGains ==
  ASSUME NEW j, NEW w, NEW j2, NEW w2, NEW s \in Shards, NEW k \in 0..Buffer,
         \A r \in Shards, i \in 0..Buffer :
           <<r, i>> # <<s, k>> => (Slot(j, w, r, i) <=> Slot(j2, w2, r, i)),
         ~ Slot(j, w, s, k), Slot(j2, w2, s, k), IsFiniteSet(HeldOf(j, w))
  PROVE  /\ IsFiniteSet(HeldOf(j2, w2))
         /\ Cardinality(HeldOf(j2, w2)) = Cardinality(HeldOf(j, w)) + 1
<1>1. HeldOf(j2, w2) = HeldOf(j, w) \cup {<<s, k>>} /\ <<s, k>> \notin HeldOf(j, w)
  BY DEF HeldOf
<1> QED
  BY <1>1, FS_AddElement

\* A slot becomes free.
LEMMA HeldLoses ==
  ASSUME NEW j, NEW w, NEW j2, NEW w2, NEW s \in Shards, NEW k \in 0..Buffer,
         \A r \in Shards, i \in 0..Buffer :
           <<r, i>> # <<s, k>> => (Slot(j, w, r, i) <=> Slot(j2, w2, r, i)),
         Slot(j, w, s, k), ~ Slot(j2, w2, s, k), IsFiniteSet(HeldOf(j, w))
  PROVE  /\ IsFiniteSet(HeldOf(j2, w2))
         /\ Cardinality(HeldOf(j2, w2)) = Cardinality(HeldOf(j, w)) - 1
<1>1. HeldOf(j2, w2) = HeldOf(j, w) \ {<<s, k>>} /\ <<s, k>> \in HeldOf(j, w)
  BY DEF HeldOf
<1> QED
  BY <1>1, FS_RemoveElement

\* A shard's worker takes its first job out of the FIFO.
LEMMA HeldTurns ==
  ASSUME ShardsTyped, Lanes, IsFiniteSet(Held), NEW s \in Shards, RunJob(s)
  PROVE  IsFiniteSet(Held') /\ Cardinality(Held') = Cardinality(Held)
<1> DEFINE first == [at |-> "running", job |-> Head(jobs[s])]
           mid == [worker EXCEPT ![s] = first]
<1>1. /\ worker[s].at = "select" /\ jobs[s] # <<>> /\ worker' = mid
      /\ jobs' = [jobs EXCEPT ![s] = Tail(jobs[s])]
      /\ jobs[s] \in Seq(JobSet) /\ worker[s].job = None
  BY DEF RunJob, ShardsTyped, Lanes, InLine
<1>2. /\ Len(jobs[s]) \in Nat /\ Len(jobs[s]) > 0 /\ Len(Tail(jobs[s])) = Len(jobs[s]) - 1
      /\ Head(jobs[s]) \in JobSet /\ Len(jobs[s]) \in 0..Buffer /\ 0 \in 0..Buffer
      /\ Len(jobs[s]) <= Buffer
  BY <1>1, HeadTailProperties, EmptySeq, LenProperties, FanoutBoundsAssumption DEF Lanes, InLine
<1>3. first.job # None
  BY <1>2, FanoutBoundsAssumption DEF JobSet
<1> HIDE DEF first
<1>4. /\ mid[s] = first /\ \A r \in Shards : r # s => mid[r] = worker[r]
      /\ jobs'[s] = Tail(jobs[s]) /\ \A r \in Shards : r # s => jobs'[r] = jobs[r]
  BY <1>1 DEF ShardsTyped
<1> HIDE DEF mid
<1>5. /\ IsFiniteSet(HeldOf(jobs, mid))
      /\ Cardinality(HeldOf(jobs, mid)) = Cardinality(HeldOf(jobs, worker)) + 1
  <2>1. \A r \in Shards, i \in 0..Buffer :
          <<r, i>> # <<s, 0>> => (Slot(jobs, worker, r, i) <=> Slot(jobs, mid, r, i))
    BY <1>4 DEF Slot
  <2>2. ~ Slot(jobs, worker, s, 0) /\ Slot(jobs, mid, s, 0)
    BY <1>1, <1>3, <1>4 DEF Slot
  <2> QED
    BY <1>2, <2>1, <2>2, HeldGains DEF Held
<1>6. /\ IsFiniteSet(HeldOf(jobs', mid))
      /\ Cardinality(HeldOf(jobs', mid)) = Cardinality(HeldOf(jobs, mid)) - 1
  <2>1. ASSUME NEW r \in Shards, NEW i \in 0..Buffer, <<r, i>> # <<s, Len(jobs[s])>>
        PROVE  Slot(jobs, mid, r, i) <=> Slot(jobs', mid, r, i)
    <3>1. CASE r # s \/ i = 0
      BY <1>4, <3>1 DEF Slot
    <3>2. CASE r = s /\ i # 0
      <4>1. i # Len(jobs[s]) /\ i \in Nat
        BY <2>1, <3>2, FanoutBoundsAssumption
      <4>2. i <= Len(jobs[s]) <=> i <= Len(Tail(jobs[s]))
        BY <1>2, <4>1
      <4> QED
        BY <1>4, <3>2, <4>2 DEF Slot
    <3> QED
      BY <3>1, <3>2
  <2>2. Slot(jobs, mid, s, Len(jobs[s])) /\ ~ Slot(jobs', mid, s, Len(jobs[s]))
    BY <1>2, <1>4 DEF Slot
  <2> QED
    BY <1>2, <1>5, <2>1, <2>2, HeldLoses
<1>7. Cardinality(Held) \in Nat
  BY FS_CardinalityType
<1> QED
  BY <1>1, <1>5, <1>6, <1>7 DEF Held

\* A FIFO that grows takes a slot.
LEMMA HeldPut ==
  ASSUME NEW j, NEW j2, NEW w, NEW s \in Shards, IsFiniteSet(HeldOf(j, w)),
         Len(j[s]) \in Nat, Len(j[s]) < Buffer, Len(j2[s]) = Len(j[s]) + 1,
         \A r \in Shards : r # s => j2[r] = j[r]
  PROVE  /\ IsFiniteSet(HeldOf(j2, w))
         /\ Cardinality(HeldOf(j2, w)) = Cardinality(HeldOf(j, w)) + 1
<1>1. PICK k \in 0..Buffer : k = Len(j[s]) + 1 /\ k # 0
  BY FanoutBoundsAssumption
<1>2. ASSUME NEW r \in Shards, NEW i \in 0..Buffer, <<r, i>> # <<s, k>>
      PROVE  Slot(j, w, r, i) <=> Slot(j2, w, r, i)
  <2>1. CASE r # s \/ i = 0
    BY <2>1 DEF Slot
  <2>2. CASE r = s /\ i # 0
    <3>1. i # k /\ i \in Nat /\ Buffer \in Nat
      BY <1>2, <2>2, FanoutBoundsAssumption
    <3> QED
      BY <1>1, <2>2, <3>1 DEF Slot
  <2> QED
    BY <2>1, <2>2
<1>3. ~ Slot(j, w, s, k) /\ Slot(j2, w, s, k)
  BY <1>1 DEF Slot
<1> QED
  BY <1>2, <1>3, HeldGains

\* A job that has run frees one.
LEMMA HeldFinish ==
  ASSUME ShardsTyped, Lanes, IsFiniteSet(Held), NEW s \in Shards, FinishJob(s)
  PROVE  IsFiniteSet(Held') /\ Cardinality(Held') = Cardinality(Held) - 1
<1>1. /\ worker[s].at = "running" /\ UNCHANGED jobs
      /\ worker' = [worker EXCEPT ![s] = [at |-> "drain", job |-> None]]
      /\ worker[s].job # None
  BY DEF FinishJob, Lanes, InLine
<1>2. worker'[s].job = None /\ \A r \in Shards : r # s => worker'[r] = worker[r]
  BY <1>1 DEF ShardsTyped
<1>3. 0 \in 0..Buffer
  BY FanoutBoundsAssumption
<1>4. \A r \in Shards, i \in 0..Buffer :
        <<r, i>> # <<s, 0>> => (Slot(jobs, worker, r, i) <=> Slot(jobs', worker', r, i))
  BY <1>1, <1>2 DEF Slot
<1>5. Slot(jobs, worker, s, 0) /\ ~ Slot(jobs', worker', s, 0)
  BY <1>1, <1>2 DEF Slot
<1> QED
  BY <1>3, <1>4, <1>5, HeldLoses DEF Held

\* A request that leaves, or gives up, holds no reservation.
LEMMA ReservedLess ==
  ASSUME RestTyped, NEW x \in senders, Leave(x) \/ Advance(x, "spilled")
  PROVE  Reserved' = Reserved \ {x}
<1> DEFINE spilled == [x EXCEPT !.at = "spilled"]
<1>1. spilled.at = "spilled"
  BY DEF RestTyped, Requests
<1>2. senders' = senders \ {x} \/ senders' = (senders \ {x}) \cup {spilled}
  BY DEF Leave, Advance
<1> HIDE DEF spilled
<1> QED
  BY <1>1, <1>2 DEF Reserved

\* One that gets a reservation had none.
LEMMA ReservedMore ==
  ASSUME RestTyped, OneSender, IsFiniteSet(Reserved), NEW x \in senders, x.at = "committed",
         Advance(x, "reserved")
  PROVE  IsFiniteSet(Reserved') /\ Cardinality(Reserved') = Cardinality(Reserved) + 1
<1> DEFINE y == [x EXCEPT !.at = "reserved"]
<1>1. y.at = "reserved" /\ y.chan = x.chan /\ y.pts = x.pts
  BY DEF RestTyped, Requests
<1>2. senders' = (senders \ {x}) \cup {y}
  BY DEF Advance
<1> HIDE DEF y
<1>3. y \notin senders
  BY <1>1 DEF OneSender
<1>4. Reserved' = Reserved \cup {y} /\ y \notin Reserved
  BY <1>1, <1>2, <1>3 DEF Reserved
<1> QED
  BY <1>4, FS_AddElement

\* At the end only jobs in the FIFOs hold reservations.
LEMMA HeldAtEnd ==
  ASSUME ShardsTyped, Lanes, \A s \in Shards : worker[s].at = "select"
  PROVE  Held = {p \in Shards \X (1..Buffer) : p[2] <= Len(jobs[p[1]])}
<1>1. \A s \in Shards : worker[s].job = None
  BY DEF Lanes, InLine
<1>2. 0..Buffer = {0} \cup 1..Buffer /\ ~ (0 \in 1..Buffer)
  BY FanoutBoundsAssumption
<1> QED
  BY <1>1, <1>2 DEF Held, HeldOf, Slot

\* Every reservation is held once, by a request, a job in a FIFO or a job that runs.
LEMMA BudgetNext ==
  ASSUME Typed, Lanes, OneSender, Budget, Next
  PROVE  Budget'
<1>1. /\ ShardsTyped /\ RestTyped /\ MaxJobs \in Nat
      /\ IsFiniteSet(Reserved) /\ IsFiniteSet(Held)
      /\ Cardinality(Reserved) \in Nat /\ Cardinality(Held) \in Nat
      /\ queued = Cardinality(Reserved) + Cardinality(Held) /\ queued <= MaxJobs
      /\ \A x \in senders : x \in Requests
  BY FanoutBoundsAssumption, FS_CardinalityType DEF Typed, RestTyped, Budget
<1>2. ASSUME Reserved' = Reserved, Held' = Held, UNCHANGED queued
      PROVE  Budget'
  BY <1>1, <1>2 DEF Budget
<1>3. ASSUME UNCHANGED <<jobs, worker>>
      PROVE  Held' = Held
  BY <1>3 DEF Held, HeldOf, Slot
<1>4. ASSUME NEW c \in Channels, Publish(c)
      PROVE  Budget'
  <2> DEFINE new == [chan |-> c, pts |-> pts[c] + 1, at |-> "committed"]
  <2>1. /\ senders' = senders \cup {new} /\ new.at # "reserved"
        /\ UNCHANGED <<queued, jobs, worker>>
    BY <1>4 DEF Publish, shardVars
  <2> HIDE DEF new
  <2>2. Reserved' = Reserved
    BY <2>1 DEF Reserved
  <2> QED
    BY <1>2, <1>3, <2>1, <2>2
<1>5. ASSUME NEW x \in senders, x.at # "reserved", Leave(x) \/ Advance(x, "spilled"),
             UNCHANGED <<queued, jobs, worker>>
      PROVE  Budget'
  <2>1. Reserved' = Reserved
    <3>1. Reserved' = Reserved \ {x}
      BY <1>1, <1>5, ReservedLess
    <3> QED
      BY <1>5, <3>1 DEF Reserved
  <2> QED
    BY <1>2, <1>3, <1>5, <2>1
<1>6. ASSUME NEW x \in senders, Reserve(x)
      PROVE  Budget'
  <2>1. x.at = "committed" /\ UNCHANGED <<jobs, worker>>
    BY <1>6 DEF Reserve, shardVars
  <2>2. CASE (Leave(x) \/ Advance(x, "spilled")) /\ UNCHANGED queued
    BY <1>5, <2>1, <2>2
  <2>3. CASE Advance(x, "reserved") /\ queued < MaxJobs /\ queued' = queued + 1
    <3>1. IsFiniteSet(Reserved') /\ Cardinality(Reserved') = Cardinality(Reserved) + 1
      BY <1>1, <2>1, <2>3, ReservedMore
    <3>2. Held' = Held
      BY <1>3, <2>1
    <3> QED
      BY <1>1, <2>3, <3>1, <3>2 DEF Budget
  <2> QED
    BY <1>6, <2>2, <2>3 DEF Reserve
<1>7. ASSUME NEW x \in senders, Put(x)
      PROVE  Budget'
  <2> DEFINE s == shardOf[x.chan]
             job == [chan |-> x.chan, pts |-> x.pts, seq |-> seqs[s].next + 1]
  <2>1. x.at = "reserved" /\ UNCHANGED worker /\ s \in Shards
    BY <1>1, <1>7 DEF Put, PutInto, RestTyped, Requests
  <2>2. /\ IsFiniteSet(Reserved \ {x})
        /\ Cardinality(Reserved \ {x}) = Cardinality(Reserved) - 1
    BY <1>1, <2>1, FS_RemoveElement DEF Reserved
  <2>3. CASE Len(jobs[s]) < Buffer
    <3>1. /\ jobs' = [jobs EXCEPT ![s] = Append(jobs[s], job)] /\ Leave(x) /\ UNCHANGED queued
      BY <1>7, <2>3 DEF Put, PutInto
    <3> HIDE DEF job
    <3>2. /\ Len(jobs[s]) \in Nat /\ Len(jobs'[s]) = Len(jobs[s]) + 1
          /\ \A r \in Shards : r # s => jobs'[r] = jobs[r]
      BY <1>1, <2>1, <3>1 DEF ShardsTyped
    <3>3. Reserved' = Reserved \ {x}
      BY <1>1, <3>1, ReservedLess
    <3>4. /\ IsFiniteSet(HeldOf(jobs', worker))
          /\ Cardinality(HeldOf(jobs', worker)) = Cardinality(Held) + 1
      BY <1>1, <2>1, <2>3, <3>2, HeldPut DEF Held
    <3>5. IsFiniteSet(Held') /\ Cardinality(Held') = Cardinality(Held) + 1
      BY <2>1, <3>4 DEF Held
    <3> QED
      BY <1>1, <2>2, <3>1, <3>3, <3>5 DEF Budget
  <2>4. CASE ~ (Len(jobs[s]) < Buffer)
    <3>1. queued' = queued - 1 /\ Advance(x, "spilled") /\ UNCHANGED jobs
      BY <1>7, <2>4 DEF Put, PutInto
    <3>2. Reserved' = Reserved \ {x} /\ Held' = Held
      BY <1>1, <1>3, <2>1, <3>1, ReservedLess
    <3> QED
      BY <1>1, <2>2, <3>1, <3>2 DEF Budget
  <2> QED
    BY <2>3, <2>4
<1>8. ASSUME NEW x \in senders, Spill(x)
      PROVE  Budget'
  BY <1>5, <1>8 DEF Spill
<1>9. ASSUME NEW s \in Shards, Shard(s)
      PROVE  Budget'
  <2>1. Reserved' = Reserved
    BY <1>9 DEF Reserved, Shard, RunJob, FinishJob, TakeWake, RetryFires, Drain
  <2>2. CASE RunJob(s)
    <3>1. UNCHANGED queued
      BY <2>2 DEF RunJob
    <3> QED
      BY <1>1, <2>1, <2>2, <3>1, HeldTurns DEF Budget
  <2>3. CASE FinishJob(s)
    <3>1. queued' = queued - 1
      BY <2>3 DEF FinishJob
    <3>2. IsFiniteSet(Held') /\ Cardinality(Held') = Cardinality(Held) - 1
      BY <1>1, <2>3, HeldFinish
    <3> QED
      BY <1>1, <2>1, <3>1, <3>2 DEF Budget
  <2>4. CASE TakeWake(s) \/ RetryFires(s) \/ Drain(s)
    <3>1. /\ UNCHANGED <<queued, jobs>>
          /\ \E at \in {"select", "drain"} : worker' = [worker EXCEPT ![s] = [worker[s] EXCEPT !.at = at]]
      BY <2>4 DEF TakeWake, RetryFires, Drain, At
    <3>2. \A r \in Shards : worker'[r].job = worker[r].job
      BY <1>1, <3>1 DEF ShardsTyped, Workers
    <3>3. Held' = Held
      BY <3>1, <3>2 DEF Held, HeldOf, Slot
    <3> QED
      BY <1>2, <2>1, <3>1, <3>3
  <2> QED
    BY <1>9, <2>2, <2>3, <2>4 DEF Shard
<1>10. CASE End
  <2>1. /\ \A s \in Shards : worker[s].at = "select"
        /\ jobs' = [s \in Shards |-> <<>>] /\ UNCHANGED <<worker, senders>>
        /\ queued' = queued - Cardinality({p \in Shards \X (1..Buffer) : p[2] <= Len(jobs[p[1]])})
    BY <1>10 DEF End
  <2>2. queued' = queued - Cardinality(Held)
    BY <1>1, <2>1, HeldAtEnd
  <2>3. Held' = {}
    <3>1. \A s \in Shards : worker[s].job = None /\ Len(jobs'[s]) = 0
      BY <2>1 DEF Lanes, InLine
    <3>2. \A i \in 0..Buffer : i = 0 \/ ~ (i <= 0)
      BY FanoutBoundsAssumption
    <3> QED
      BY <2>1, <3>1, <3>2 DEF Held, HeldOf, Slot
  <2>4. IsFiniteSet(Held') /\ Cardinality(Held') = 0
    BY <2>3, FS_EmptySet, Zenon
  <2>5. Reserved' = Reserved
    BY <2>1 DEF Reserved
  <2> QED
    BY <1>1, <2>2, <2>4, <2>5 DEF Budget
<1>11. CASE ~ Request /\ ~ End /\ \A s \in Shards : ~ Shard(s)
  <2>1. UNCHANGED <<jobs, worker, senders>>
    BY <1>11, LanesApart, RequestsApart DEF Request
  <2>2. UNCHANGED queued
    <3>1. CASE \E n \in NudgeWorkers : Nudger(n) \/ CutOff(n)
      BY <3>1 DEF Nudger, Receive, TakeNudge, Nudged, CutOff
    <3>2. CASE Recovery \/ SweepFails
      BY <3>2 DEF Recovery, CheckGeneration, TakeRecoveryWake, Snapshot, ReadPage, BackoffEnds,
                  Admit, CompleteSweep, Complete, SweepFails, SweepUnchanged
    <3>3. CASE Life
      BY <1>11, <3>3 DEF Life, Connect, Disconnect, Start, Cancel, StopEnqueues
    <3> QED
      BY <1>11, <3>1, <3>2, <3>3 DEF Next, Life
  <2>3. Reserved' = Reserved
    BY <2>1 DEF Reserved
  <2> QED
    BY <1>2, <1>3, <2>1, <2>2, <2>3
<1> QED
  BY <1>4, <1>6, <1>7, <1>8, <1>9, <1>10, <1>11 DEF Request

-----------------------------------------------------------------------------
(* What is owed is remembered.                                             *)

ByRequest(c) == \E x \in senders : x.at = "spilled" /\ x.chan = c /\ x.pts >= owed[c]
ByEntry(c) == overflow[c] # None /\ overflow[c].pts >= owed[c]
ByQueue(c) == pending[c] # None /\ pending[c].pts >= owed[c]
ByWorker(c) ==
  \E n \in NudgeWorkers : nudger[n].at = "sending" /\ nudger[n].chan = c /\ nudger[n].pts >= owed[c]
BySweep(c) ==
  \/ recovery.generation > IF sweep.target > 0 THEN sweep.target ELSE recovery.completed
  \/ sweep.at = "snapshot" \/ c \in sweep.todo
  \/ \E e \in sweep.page : e[1] = c /\ e[2] >= owed[c]

\* Where a loss is remembered after a step.
LEMMA Placed ==
  ASSUME NEW c, ByRequest(c)' \/ ByEntry(c)' \/ ByQueue(c)' \/ ByWorker(c)' \/ BySweep(c)'
  PROVE  Remembered(c)'
BY DEF Remembered, ByRequest, ByEntry, ByQueue, ByWorker, BySweep

\* A loss is remembered still if it is, wherever it was.
LEMMA Kept ==
  ASSUME NEW c, Remembered(c),
         ByRequest(c) => ByRequest(c)' \/ ByEntry(c)' \/ BySweep(c)',
         ByEntry(c) => ByEntry(c)' \/ ByQueue(c)',
         ByQueue(c) => ByQueue(c)' \/ ByWorker(c)',
         ByWorker(c) => ByWorker(c)' \/ BySweep(c)',
         BySweep(c) => BySweep(c)' \/ ByEntry(c)'
  PROVE  Remembered(c)'
<1>1. ByRequest(c) \/ ByEntry(c) \/ ByQueue(c) \/ ByWorker(c) \/ BySweep(c)
  BY DEF Remembered, ByRequest, ByEntry, ByQueue, ByWorker, BySweep
<1>2. ByRequest(c)' \/ ByEntry(c)' \/ ByQueue(c)' \/ ByWorker(c)' \/ BySweep(c)'
  BY <1>1
<1> QED
  BY <1>2, Placed

\* The types this part needs.
LEMMA OwingTypes ==
  ASSUME Typed
  PROVE  /\ ShardsTyped /\ NudgesTyped /\ RestTyped
         /\ \A c \in Channels : owed[c] \in Nat /\ pts[c] \in Nat
         /\ owed \in [Channels -> 0..MaxUpdates]
         /\ \A x \in senders : x \in Requests /\ x.chan \in Channels /\ x.pts \in Nat
         /\ sweep \in Sweeps /\ recovery \in Generations
         /\ recovery.generation \in Nat /\ recovery.completed \in Nat /\ sweep.target \in Nat
         /\ sweep.page \subseteq Channels \X Nat /\ sweep.todo \subseteq Channels
<1>1. MaxUpdates \in Nat /\ ShardsTyped /\ NudgesTyped /\ RestTyped
  BY FanoutBoundsAssumption DEF Typed
<1>2. \A c \in Channels : owed[c] \in 0..MaxUpdates /\ pts[c] \in 0..MaxUpdates
  BY <1>1 DEF RestTyped
<1>3. \A c \in Channels : owed[c] \in Nat /\ pts[c] \in Nat
  BY <1>1, <1>2
<1> QED
  BY <1>1, <1>3 DEF RestTyped, Requests, Pts, Sweeps, Generations

\* An announced generation remembers every channel.
LEMMA AnnouncedForAll ==
  ASSUME Typed, Sweeping, RequestRecovery, UNCHANGED sweep, NEW c
  PROVE  BySweep(c)'
<1>1. /\ recovery'.generation = recovery.generation + 1 /\ recovery'.completed = recovery.completed
      /\ recovery.generation \in Nat /\ recovery.completed \in Nat /\ sweep.target \in Nat
  BY OwingTypes, AnnouncedTyped
<1>2. recovery.completed <= recovery.generation
  BY DEF Sweeping
<1>3. sweep.target <= recovery.generation
  <2>1. CASE sweep.at \in {"check", "asleep", "backoff"}
    BY <1>1, <2>1 DEF Sweeping
  <2>2. CASE sweep.at \in {"snapshot", "page", "waiting"}
    BY <2>2 DEF Sweeping
  <2> QED
    BY <2>1, <2>2, OwingTypes DEF Sweeps
<1> QED
  BY <1>1, <1>2, <1>3 DEF BySweep

\* An entry that is added reports its loss, and those that it reported before.
LEMMA AddRemembers ==
  ASSUME Typed, NEW c \in Channels, NEW p \in Nat, AddOverflow(c, p)
  PROVE  /\ overflow'[c] # None /\ overflow'[c].pts >= p
         /\ overflow[c] # None => overflow'[c].pts >= overflow[c].pts
         /\ \A d \in Channels \ {c} : overflow'[d] = overflow[d]
<1>1. ShardsTyped /\ RestTyped /\ shardOf[c] \in Shards
  BY DEF Typed, RestTyped
<1> DEFINE e == IF overflow[c] = None THEN [pts |-> p, barrier |-> seqs[shardOf[c]].next]
                ELSE [pts |-> Larger(overflow[c].pts, p), barrier |-> overflow[c].barrier]
<1>2. e \in EntrySet
  BY <1>1 DEF ShardsTyped, EntrySet, Counters, Larger
<1>3. e.pts >= p /\ (overflow[c] # None => e.pts >= overflow[c].pts)
  BY <1>1 DEF ShardsTyped, EntrySet, Larger
<1>4. overflow' = [overflow EXCEPT ![c] = e]
  BY <1>1, AddTyped DEF Raised
<1> HIDE DEF e
<1>5. overflow'[c] = e /\ \A d \in Channels \ {c} : overflow'[d] = overflow[d]
  BY <1>1, <1>4 DEF ShardsTyped
<1> QED
  BY <1>2, <1>3, <1>5, FanoutBoundsAssumption DEF EntrySet

\* What Owe does: the channel's debt rises to the request's, or not at all.
LEMMA OweRaises ==
  ASSUME Typed, OneSender, NEW x \in senders, Owe(x) \/ UNCHANGED owed, NEW c \in Channels
  PROVE  \/ owed'[c] = owed[c]
         \/ /\ Owe(x) /\ owed'[c] = x.pts /\ c = x.chan /\ phase = "up" /\ c \in online
            /\ x.pts <= pts[c]
<1>1. /\ x.chan \in Channels /\ x.pts \in Nat /\ owed[x.chan] \in Nat
      /\ owed \in [Channels -> 0..MaxUpdates] /\ x.pts <= pts[x.chan]
  BY OwingTypes DEF OneSender
<1>2. CASE UNCHANGED owed
  BY <1>2
<1>3. CASE owed' # owed
  <2>1. /\ Owe(x) /\ phase = "up" /\ x.chan \in online
        /\ owed' = [owed EXCEPT ![x.chan] = Larger(owed[x.chan], x.pts)]
    BY <1>3 DEF Owe
  <2>2. Larger(owed[x.chan], x.pts) \in {owed[x.chan], x.pts}
    BY DEF Larger
  <2> QED
    BY <1>1, <2>1, <2>2
<1> QED
  BY <1>2, <1>3

\* A request that gives up remembers what it owes; nobody else forgets.
LEMMA OwingTurned ==
  ASSUME Typed, OneSender, Owing, NEW x \in senders, x.at # "spilled",
         \/ Leave(x) /\ UNCHANGED owed
         \/ Advance(x, "reserved") /\ UNCHANGED owed
         \/ Advance(x, "spilled") /\ Owe(x),
         UNCHANGED <<phase, online, pts, overflow, pending, nudger, sweep, recovery>>
  PROVE  Owing'
<1> SUFFICES ASSUME NEW c \in Channels, owed'[c] > 0
             PROVE  phase' = "up" /\ c \in online' /\ owed'[c] <= pts'[c] /\ Remembered(c)'
  BY DEF Owing
<1> DEFINE spilled == [x EXCEPT !.at = "spilled"]
<1>1. /\ spilled.at = "spilled" /\ spilled.chan = x.chan /\ spilled.pts = x.pts
      /\ x.pts \in Nat /\ owed[c] \in Nat
  BY OwingTypes DEF Requests
<1>2. /\ \A y \in senders : y.at = "spilled" => y \in senders'
      /\ Advance(x, "spilled") => spilled \in senders'
  BY DEF Leave, Advance
<1> HIDE DEF spilled
<1>3. CASE owed'[c] = owed[c]
  <2>1. phase = "up" /\ c \in online /\ owed[c] <= pts[c] /\ Remembered(c)
    BY <1>3 DEF Owing
  <2>2. /\ ByRequest(c) => ByRequest(c)'
        /\ ByEntry(c) => ByEntry(c)'
        /\ ByQueue(c) => ByQueue(c)'
        /\ ByWorker(c) => ByWorker(c)'
        /\ BySweep(c) => BySweep(c)'
    BY <1>2, <1>3 DEF ByRequest, ByEntry, ByQueue, ByWorker, BySweep
  <2>3. Remembered(c)'
    BY <2>1, <2>2, Kept
  <2> QED
    BY <1>3, <2>1, <2>3
<1>4. CASE owed'[c] # owed[c]
  <2>1. /\ Owe(x) /\ owed'[c] = x.pts /\ c = x.chan /\ phase = "up" /\ c \in online
        /\ x.pts <= pts[c]
    BY <1>4, OweRaises
  <2>2. Advance(x, "spilled")
    BY <1>4
  <2>3. ByRequest(c)'
    BY <1>1, <1>2, <2>1, <2>2 DEF ByRequest
  <2> QED
    BY <2>1, <2>3, Placed
<1> QED
  BY <1>3, <1>4

\* A request's step.
LEMMA OwingRequest ==
  ASSUME Typed, OneSender, Sweeping, Owing, Request
  PROVE  Owing'
<1>1. ASSUME NEW c0 \in Channels, Publish(c0)
      PROVE  Owing'
  <2> SUFFICES ASSUME NEW c \in Channels, owed'[c] > 0
               PROVE  phase' = "up" /\ c \in online' /\ owed'[c] <= pts'[c] /\ Remembered(c)'
    BY DEF Owing
  <2>1. /\ UNCHANGED <<phase, online, owed, overflow, pending, nudger, sweep, recovery>>
        /\ pts' = [pts EXCEPT ![c0] = pts[c0] + 1] /\ senders \subseteq senders'
    BY <1>1 DEF Publish, runVars, shardVars, nudgeVars, recoveryVars
  <2>2. phase = "up" /\ c \in online /\ owed[c] <= pts[c] /\ Remembered(c)
    BY <2>1 DEF Owing
  <2>3. /\ ByRequest(c) => ByRequest(c)'
        /\ ByEntry(c) => ByEntry(c)'
        /\ ByQueue(c) => ByQueue(c)'
        /\ ByWorker(c) => ByWorker(c)'
        /\ BySweep(c) => BySweep(c)'
    BY <2>1 DEF ByRequest, ByEntry, ByQueue, ByWorker, BySweep
  <2>4. owed'[c] <= pts'[c]
    BY <2>1, <2>2, OwingTypes DEF RestTyped
  <2>5. Remembered(c)'
    BY <2>2, <2>3, Kept
  <2> QED
    BY <2>1, <2>2, <2>4, <2>5
<1>2. ASSUME NEW x \in senders, Reserve(x) \/ Put(x)
      PROVE  Owing'
  <2>1. UNCHANGED <<phase, online, pts, overflow, pending, nudger, sweep, recovery>>
    BY <1>2 DEF Reserve, Put, PutInto, runVars, shardVars, nudgeVars, recoveryVars
  <2>2. /\ x.at # "spilled"
        /\ \/ Leave(x) /\ UNCHANGED owed
           \/ Advance(x, "reserved") /\ UNCHANGED owed
           \/ Advance(x, "spilled") /\ Owe(x)
    BY <1>2 DEF Reserve, Put, PutInto
  <2> QED
    BY <2>1, <2>2, OwingTurned
<1>3. ASSUME NEW x \in senders, Spill(x)
      PROVE  Owing'
  <2> SUFFICES ASSUME NEW c \in Channels, owed'[c] > 0
               PROVE  phase' = "up" /\ c \in online' /\ owed'[c] <= pts'[c] /\ Remembered(c)'
    BY DEF Owing
  <2>1. /\ UNCHANGED <<phase, online, pts, owed, pending, nudger, sweep>>
        /\ senders' = senders \ {x}
    BY <1>3 DEF Spill, Leave, runVars, nudgeVars
  <2>2. phase = "up" /\ c \in online /\ owed[c] <= pts[c] /\ Remembered(c)
    BY <2>1 DEF Owing
  <2>3. CASE CanAdd(x.chan)
    <3>1. AddOverflow(x.chan, x.pts) /\ UNCHANGED recovery
      BY <1>3, <2>3 DEF Spill
    <3>2. /\ x.chan \in Channels /\ x.pts \in Nat /\ owed[c] \in Nat
          /\ overflow[c] # None => overflow[c].pts \in Nat
      BY OwingTypes DEF ShardsTyped, EntrySet
    <3>3. /\ overflow'[x.chan] # None /\ overflow'[x.chan].pts >= x.pts
          /\ overflow[x.chan] # None => overflow'[x.chan].pts >= overflow[x.chan].pts
          /\ \A d \in Channels \ {x.chan} : overflow'[d] = overflow[d]
      BY <3>1, <3>2, AddRemembers
    <3>4. overflow'[x.chan].pts \in Nat
      BY <3>1, <3>2, <3>3, AddTyped, OwingTypes DEF EntrySet
    <3>5. ByEntry(c) => ByEntry(c)'
      <4>1. CASE c = x.chan
        BY <2>1, <3>2, <3>3, <3>4, <4>1 DEF ByEntry
      <4>2. CASE c # x.chan
        BY <2>1, <3>3, <4>2 DEF ByEntry
      <4> QED
        BY <4>1, <4>2
    <3>6. ByRequest(c) => ByRequest(c)' \/ ByEntry(c)'
      <4> SUFFICES ASSUME ByRequest(c), ~ ByRequest(c)'
                   PROVE  ByEntry(c)'
        OBVIOUS
      <4>1. x.chan = c /\ x.pts >= owed[c]
        BY <2>1 DEF ByRequest
      <4> QED
        BY <2>1, <3>2, <3>3, <3>4, <4>1 DEF ByEntry
    <3>7. /\ ByQueue(c) => ByQueue(c)'
          /\ ByWorker(c) => ByWorker(c)'
          /\ BySweep(c) => BySweep(c)'
      BY <2>1, <3>1 DEF ByQueue, ByWorker, BySweep
    <3>8. Remembered(c)'
      BY <2>2, <3>5, <3>6, <3>7, Kept
    <3> QED
      BY <2>1, <2>2, <3>8
  <2>4. CASE ~ CanAdd(x.chan)
    <3>1. RequestRecovery
      BY <1>3, <2>4 DEF Spill
    <3> QED
      BY <2>1, <2>2, <3>1, AnnouncedForAll, Placed
  <2> QED
    BY <2>3, <2>4
<1> QED
  BY <1>1, <1>2, <1>3 DEF Request

\* A step that changes neither debts nor members nor what they may be compared with.
LEMMA OwingFrame ==
  ASSUME Owing, UNCHANGED <<phase, online, pts, owed>>,
         \A c \in Channels : owed[c] > 0 /\ Remembered(c) => Remembered(c)'
  PROVE  Owing'
BY DEF Owing

\* The channel of an entry that goes is pending.
LEMMA OwingDrain ==
  ASSUME Typed, Owing, NEW s \in Shards, Drain(s)
  PROVE  Owing'
<1>1. /\ ShardsTyped /\ NudgesTyped /\ RestTyped /\ sweep \in Sweeps
      /\ \A c \in Channels : owed[c] \in Nat
  BY OwingTypes
<1>2. UNCHANGED <<phase, online, pts, owed, senders, recovery>>
  BY <1>1, DrainSteps DEF runVars
<1>3. CASE UNCHANGED <<overflow, order, nudgeVars, sweep>>
  BY <1>2, <1>3 DEF Owing, Remembered, nudgeVars
<1>4. ASSUME NEW i \in Ready(s), Goes(s, i)
      PROVE  Owing'
  <2> DEFINE d == order[s][i]
             e == overflow[d]
  <2>1. d \in Channels /\ e \in EntrySet
    BY ReadyEntry
  <2>2. /\ overflow' = [overflow EXCEPT ![d] = None] /\ pending' = Merged(d, e)
        /\ UNCHANGED nudger /\ FreeSpace(s)
    BY <1>1, <1>4, <2>1, OfferTyped DEF Goes
  <2>3. sweep' = sweep \/ sweep' = [sweep EXCEPT !.space = TRUE]
    BY <2>2 DEF FreeSpace
  <2>4. \A c \in Channels : c # d => overflow'[c] = overflow[c] /\ pending'[c] = pending[c]
    BY <1>1, <2>1, <2>2 DEF Merged, ShardsTyped, NudgesTyped
  <2> DEFINE m == IF pending[d] = None THEN [pts |-> e.pts, behind |-> e.barrier]
                  ELSE [pts |-> Larger(pending[d].pts, e.pts),
                        behind |-> Larger(pending[d].behind, e.barrier)]
  <2>5. m \in NudgeSet /\ m.pts >= e.pts /\ (pending[d] # None => m.pts >= pending[d].pts)
    BY <1>1, <2>1 DEF NudgesTyped, EntrySet, NudgeSet, Larger
  <2>6. pending' = [pending EXCEPT ![d] = m]
    BY <2>2 DEF Merged
  <2> HIDE DEF m
  <2>7. pending'[d] = m /\ m # None /\ m.pts \in Nat /\ e.pts \in Nat
        /\ (pending[d] # None => pending[d].pts \in Nat)
    BY <1>1, <2>1, <2>5, <2>6, FanoutBoundsAssumption DEF NudgesTyped, NudgeSet, EntrySet
  <2>8. ASSUME NEW c \in Channels, Remembered(c)
        PROVE  Remembered(c)'
    <3>1. ByRequest(c) => ByRequest(c)'
      BY <1>2 DEF ByRequest
    <3>2. ByWorker(c) => ByWorker(c)'
      BY <1>2, <2>2 DEF ByWorker
    <3>3. BySweep(c) => BySweep(c)'
      <4>1. /\ sweep'.at = sweep.at /\ sweep'.todo = sweep.todo
            /\ sweep'.target = sweep.target /\ sweep'.page = sweep.page
        BY <1>1, <2>3 DEF Sweeps
      <4> QED
        BY <1>2, <4>1 DEF BySweep
    <3>4. ByEntry(c) => ByEntry(c)' \/ ByQueue(c)'
      <4>1. CASE c = d
        BY <1>1, <1>2, <2>5, <2>7, <4>1 DEF ByEntry, ByQueue
      <4>2. CASE c # d
        BY <1>2, <2>4, <4>2 DEF ByEntry
      <4> QED
        BY <4>1, <4>2
    <3>5. ByQueue(c) => ByQueue(c)'
      <4>1. CASE c = d
        BY <1>1, <1>2, <2>5, <2>7, <4>1 DEF ByQueue
      <4>2. CASE c # d
        BY <1>2, <2>4, <4>2 DEF ByQueue
      <4> QED
        BY <4>1, <4>2
    <3> QED
      BY <2>8, <3>1, <3>2, <3>3, <3>4, <3>5, Kept
  <2> QED
    BY <1>2, <2>8, OwingFrame
<1> QED
  BY <1>1, <1>3, <1>4, DrainSteps

\* A shard's other steps.
LEMMA OwingShard ==
  ASSUME Typed, Owing, NEW s \in Shards, Shard(s)
  PROVE  Owing'
<1>1. CASE Drain(s)
  BY <1>1, OwingDrain
<1>2. CASE RunJob(s) \/ FinishJob(s) \/ TakeWake(s) \/ RetryFires(s)
  <2>1. UNCHANGED <<phase, online, pts, owed, senders, overflow, pending, nudger, sweep, recovery>>
    BY <1>2 DEF RunJob, FinishJob, TakeWake, RetryFires, runVars, nudgeVars, recoveryVars
  <2> QED
    BY <2>1 DEF Owing, Remembered
<1> QED
  BY <1>1, <1>2 DEF Shard

\* A nudge worker carries what was pending to the members.
LEMMA OwingNudger ==
  ASSUME Typed, Queued, Sweeping, Owing, NEW n \in NudgeWorkers, Nudger(n) \/ CutOff(n)
  PROVE  Owing'
<1>1. /\ NudgesTyped /\ RestTyped /\ owed \in [Channels -> 0..MaxUpdates]
      /\ \A c \in Channels : owed[c] \in Nat
  BY OwingTypes
<1>2. UNCHANGED <<phase, online, pts, senders, overflow>>
  BY DEF Nudger, Receive, TakeNudge, Nudged, CutOff, runVars, shardVars
<1>3. CASE Receive(n)
  <2> DEFINE w == [nudger[n] EXCEPT !.at = "got", !.chan = Head(nudgeJobs)]
  <2>1. /\ nudger[n].at = "idle" /\ nudger' = [nudger EXCEPT ![n] = w]
        /\ UNCHANGED <<owed, pending, sweep, recovery>>
    BY <1>3 DEF Receive, recoveryVars
  <2> HIDE DEF w
  <2>2. \A m \in NudgeWorkers : nudger[m].at = "sending" => nudger'[m] = nudger[m]
    BY <1>1, <2>1 DEF NudgesTyped
  <2>3. ASSUME NEW c \in Channels, Remembered(c)
        PROVE  Remembered(c)'
    BY <1>2, <2>1, <2>2, <2>3 DEF Remembered
  <2> QED
    BY <1>2, <2>1, <2>3, OwingFrame
<1>4. CASE TakeNudge(n)
  <2> DEFINE d == nudger[n].chan
             w == [at |-> "sending", chan |-> d, pts |-> pending[d].pts, behind |-> pending[d].behind]
  <2>1. /\ nudger[n].at = "got" /\ nudger' = [nudger EXCEPT ![n] = w]
        /\ pending' = [pending EXCEPT ![d] = None]
        /\ UNCHANGED <<owed, sweep, recovery>>
    BY <1>4 DEF TakeNudge, recoveryVars
  <2>2. w.at = "sending" /\ w.chan = d /\ w.pts = pending[d].pts /\ d \in Channels
    BY <1>1, <2>1 DEF NudgesTyped
  <2> HIDE DEF w
  <2>3. /\ nudger'[n] = w
        /\ \A m \in NudgeWorkers : nudger[m].at = "sending" => nudger'[m] = nudger[m]
        /\ \A c \in Channels : c # d => pending'[c] = pending[c]
    BY <1>1, <2>1 DEF NudgesTyped
  <2>4. ASSUME NEW c \in Channels, Remembered(c)
        PROVE  Remembered(c)'
    <3>1. ByRequest(c) => ByRequest(c)'
      BY <1>2, <2>1 DEF ByRequest
    <3>2. ByEntry(c) => ByEntry(c)'
      BY <1>2, <2>1 DEF ByEntry
    <3>3. BySweep(c) => BySweep(c)'
      BY <2>1 DEF BySweep
    <3>4. ByWorker(c) => ByWorker(c)'
      BY <2>1, <2>3 DEF ByWorker
    <3>5. ByQueue(c) => ByQueue(c)' \/ ByWorker(c)'
      <4>1. CASE c = d
        BY <2>1, <2>2, <2>3, <4>1 DEF ByQueue, ByWorker
      <4>2. CASE c # d
        BY <2>1, <2>3, <4>2 DEF ByQueue
      <4> QED
        BY <4>1, <4>2
    <3> QED
      BY <2>4, <3>1, <3>2, <3>3, <3>4, <3>5, Kept
  <2> QED
    BY <1>2, <2>1, <2>4, OwingFrame
<1>5. CASE Nudged(n)
  <2> DEFINE d == nudger[n].chan
             left == IF nudger[n].pts >= owed[d] THEN 0 ELSE owed[d]
  <2>1. /\ nudger[n].at = "sending" /\ nudger' = [nudger EXCEPT ![n] = NoNudge]
        /\ owed' = [owed EXCEPT ![d] = left]
        /\ UNCHANGED <<pending, sweep, recovery>>
    BY <1>5 DEF Nudged, recoveryVars
  <2>2. d \in Channels /\ left \in Nat
    BY <1>1, <2>1 DEF NudgesTyped
  <2>3. /\ \A m \in NudgeWorkers : m # n => nudger'[m] = nudger[m]
        /\ owed'[d] = left /\ \A c \in Channels : c # d => owed'[c] = owed[c]
    BY <1>1, <2>1, <2>2 DEF NudgesTyped
  <2> SUFFICES ASSUME NEW c \in Channels, owed'[c] > 0
               PROVE  phase' = "up" /\ c \in online' /\ owed'[c] <= pts'[c] /\ Remembered(c)'
    BY DEF Owing
  <2>4. owed'[c] = owed[c] /\ (c = d => ~ (nudger[n].pts >= owed[c]))
    BY <2>3
  <2>5. phase = "up" /\ c \in online /\ owed[c] <= pts[c] /\ Remembered(c)
    BY <2>4 DEF Owing
  <2>6. ByWorker(c) => ByWorker(c)'
    BY <2>3, <2>4 DEF ByWorker
  <2>7. /\ ByRequest(c) => ByRequest(c)'
        /\ ByEntry(c) => ByEntry(c)'
        /\ ByQueue(c) => ByQueue(c)'
        /\ BySweep(c) => BySweep(c)'
    BY <1>2, <2>1, <2>4 DEF ByRequest, ByEntry, ByQueue, BySweep
  <2>8. Remembered(c)'
    BY <2>5, <2>6, <2>7, Kept
  <2> QED
    BY <1>2, <2>4, <2>5, <2>8
<1>6. CASE CutOff(n)
  <2>1. UNCHANGED <<owed, sweep>>
    BY <1>6 DEF CutOff
  <2>2. ASSUME NEW c \in Channels, owed[c] > 0, Remembered(c)
        PROVE  Remembered(c)'
    <3>1. phase = "up"
      BY <2>2 DEF Owing
    <3>2. RequestRecovery
      BY <1>6, <3>1 DEF CutOff
    <3> QED
      BY <2>1, <3>2, AnnouncedForAll, Placed
  <2> QED
    BY <1>2, <2>1, <2>2, OwingFrame
<1> QED
  BY <1>3, <1>4, <1>5, <1>6 DEF Nudger

\* Members that come load the difference, members that go are owed nothing, and nothing is
\* owed once Run is cancelled.
LEMMA OwingLife ==
  ASSUME Typed, Owing, Life
  PROVE  Owing'
<1>1. owed \in [Channels -> 0..MaxUpdates]
  BY OwingTypes
<1>2. ASSUME NEW d \in Channels, Connect(d) \/ Disconnect(d)
      PROVE  Owing'
  <2>1. UNCHANGED <<phase, pts, senders, overflow, pending, nudger, sweep, recovery>>
    BY <1>2 DEF Connect, Disconnect, runVars, shardVars, nudgeVars, recoveryVars
  <2> SUFFICES ASSUME NEW c \in Channels, owed'[c] > 0
               PROVE  phase' = "up" /\ c \in online' /\ owed'[c] <= pts'[c] /\ Remembered(c)'
    BY DEF Owing
  <2>2. owed'[c] = owed[c] /\ (c \in online => c \in online')
    BY <1>1, <1>2 DEF Connect, Disconnect
  <2>3. phase = "up" /\ c \in online /\ owed[c] <= pts[c] /\ Remembered(c)
    BY <2>2 DEF Owing
  <2>4. Remembered(c)'
    BY <2>1, <2>2, <2>3 DEF Remembered
  <2> QED
    BY <2>1, <2>2, <2>3, <2>4
<1>3. ASSUME \A c \in Channels : ~ (owed'[c] > 0)
      PROVE  Owing'
  BY <1>3 DEF Owing
<1>4. CASE Cancel
  <2>1. \A c \in Channels : owed'[c] = 0
    BY <1>4 DEF Cancel
  <2> QED
    BY <1>3, <2>1
<1>5. CASE Start \/ StopEnqueues \/ End
  <2>1. UNCHANGED owed
    BY <1>5 DEF Start, StopEnqueues, End
  <2>2. phase # "up"
    BY <1>5 DEF Start, StopEnqueues, End, Phase
  <2>3. \A c \in Channels : ~ (owed'[c] > 0)
    BY <2>1, <2>2 DEF Owing
  <2> QED
    BY <1>3, <2>3
<1> QED
  BY <1>2, <1>4, <1>5 DEF Life

\* The recovery actor reads every channel of its snapshot before a generation is complete.
LEMMA OwingRecovery ==
  ASSUME Typed, Sweeping, Owing, Recovery \/ SweepFails
  PROVE  Owing'
<1>1. /\ ShardsTyped /\ RestTyped /\ sweep \in Sweeps /\ recovery \in Generations
      /\ recovery.generation \in Nat /\ recovery.completed \in Nat /\ sweep.target \in Nat
      /\ sweep.page \subseteq Channels \X Nat
      /\ \A c \in Channels : owed[c] \in Nat /\ pts[c] \in Nat
  BY OwingTypes
<1>2. UNCHANGED <<phase, online, pts, owed, senders, pending, nudger>>
  BY DEF Recovery, CheckGeneration, TakeRecoveryWake, Snapshot, ReadPage, BackoffEnds, Admit,
         CompleteSweep, Complete, SweepFails, SweepUnchanged, runVars, nudgeVars
<1>3. ASSUME UNCHANGED overflow, \A c \in Channels : owed[c] > 0 /\ c \in online /\ owed[c] <= pts[c]
                                                     /\ BySweep(c) => BySweep(c)'
      PROVE  Owing'
  <2> SUFFICES ASSUME NEW c \in Channels, owed[c] > 0, Remembered(c)
               PROVE  Remembered(c)'
    BY <1>2, OwingFrame
  <2>1. c \in online /\ owed[c] <= pts[c]
    BY DEF Owing
  <2>2. /\ ByRequest(c) => ByRequest(c)'
        /\ ByEntry(c) => ByEntry(c)'
        /\ ByQueue(c) => ByQueue(c)'
        /\ ByWorker(c) => ByWorker(c)'
    BY <1>2, <1>3 DEF ByRequest, ByEntry, ByQueue, ByWorker
  <2>3. BySweep(c) => BySweep(c)'
    BY <1>3, <2>1
  <2> QED
    BY <2>2, <2>3, Kept
<1>4. CASE CheckGeneration
  <2>1. /\ sweep.at = "check" /\ UNCHANGED <<overflow, recovery>>
        /\ sweep.target = 0 /\ sweep.todo = {} /\ sweep.page = {}
    BY <1>4 DEF CheckGeneration, SweepUnchanged, shardVars, Sweeping
  <2>2. CASE recovery.generation > recovery.completed
    <3>1. sweep'.at = "snapshot"
      BY <1>1, <1>4, <2>2 DEF CheckGeneration, Sweeps
    <3> QED
      BY <1>3, <2>1, <3>1 DEF BySweep
  <2>3. CASE ~ (recovery.generation > recovery.completed)
    <3>1. \A c \in Channels : ~ BySweep(c)
      BY <2>1, <2>3 DEF BySweep
    <3> QED
      BY <1>3, <2>1, <3>1
  <2> QED
    BY <2>2, <2>3
<1>5. CASE TakeRecoveryWake
  <2>1. /\ sweep.at = "asleep" /\ sweep' = [sweep EXCEPT !.at = "check"]
        /\ recovery' = [recovery EXCEPT !.wake = FALSE] /\ UNCHANGED overflow
    BY <1>5 DEF TakeRecoveryWake, SweepUnchanged, shardVars
  <2>2. /\ sweep'.target = sweep.target /\ sweep'.todo = sweep.todo /\ sweep'.page = sweep.page
        /\ recovery'.generation = recovery.generation
        /\ recovery'.completed = recovery.completed /\ sweep.at # "snapshot"
    BY <1>1, <2>1 DEF Sweeps, Generations
  <2>3. \A c \in Channels : BySweep(c) => BySweep(c)'
    BY <1>2, <2>2 DEF BySweep
  <2> QED
    BY <1>3, <2>1, <2>3
<1>6. CASE Snapshot
  <2>1. sweep'.todo = online /\ UNCHANGED overflow
    BY <1>1, <1>6 DEF Snapshot, SweepUnchanged, shardVars, Sweeps
  <2>2. \A c \in Channels : c \in online => BySweep(c)'
    BY <2>1 DEF BySweep
  <2> QED
    BY <1>3, <2>1, <2>2
<1>7. CASE ReadPage
  <2> DEFINE read == {<<c, pts[c]>> : c \in {d \in NextPage : pts[d] > 0}}
             rest == sweep.todo \ NextPage
  <2>1. /\ sweep.at = "page" /\ sweep.page = {} /\ UNCHANGED <<overflow, recovery>>
        /\ sweep' = [sweep EXCEPT !.todo = rest, !.page = read]
    BY <1>7 DEF ReadPage, SweepUnchanged, shardVars
  <2>2. ASSUME NEW c \in Channels, owed[c] > 0, owed[c] <= pts[c], c \in NextPage
        PROVE  \E e \in read : e[1] = c /\ e[2] >= owed[c]
    <3>1. pts[c] > 0 /\ pts[c] >= owed[c]
      BY <1>1, <2>2
    <3>2. <<c, pts[c]>> \in read
      BY <2>2, <3>1
    <3> QED
      BY <3>1, <3>2
  <2>3. \A c \in sweep.todo : c \in rest \/ c \in NextPage
    OBVIOUS
  <2> HIDE DEF read, rest
  <2>4. sweep'.target = sweep.target /\ sweep'.todo = rest /\ sweep'.page = read
    BY <1>1, <2>1 DEF Sweeps
  <2>5. ASSUME NEW c \in Channels, owed[c] > 0, owed[c] <= pts[c], BySweep(c)
        PROVE  BySweep(c)'
    <3>1. CASE recovery.generation > IF sweep.target > 0 THEN sweep.target ELSE recovery.completed
      BY <2>1, <2>4, <3>1 DEF BySweep
    <3>2. CASE c \in sweep.todo
      <4>1. CASE c \in rest
        BY <2>4, <4>1 DEF BySweep
      <4>2. CASE c \in NextPage
        <5>1. PICK e \in read : e[1] = c /\ e[2] >= owed[c]
          BY <2>2, <2>5, <4>2
        <5> QED
          BY <1>2, <2>4, <5>1 DEF BySweep
      <4> QED
        BY <2>3, <3>2, <4>1, <4>2
    <3> QED
      BY <2>1, <2>5, <3>1, <3>2 DEF BySweep
  <2> QED
    BY <1>3, <2>1, <2>5
<1>8. CASE BackoffEnds
  <2>1. /\ sweep.at = "backoff" /\ sweep' = Idle /\ UNCHANGED <<overflow, recovery>>
        /\ sweep.target = 0 /\ sweep.todo = {} /\ sweep.page = {}
    BY <1>8 DEF BackoffEnds, SweepUnchanged, shardVars, Sweeping
  <2>2. Idle.target = 0 /\ Idle.todo = {} /\ Idle.page = {}
    BY DEF Idle
  <2>3. \A c \in Channels : BySweep(c) => BySweep(c)'
    BY <2>1, <2>2 DEF BySweep
  <2> QED
    BY <1>3, <2>1, <2>3
<1>9. CASE SweepFails
  <2>1. /\ sweep.at = "page" /\ sweep' = [Idle EXCEPT !.at = "backoff"]
        /\ UNCHANGED <<overflow, recovery>>
    BY <1>9 DEF SweepFails, SweepUnchanged, shardVars
  <2>2. sweep'.target = 0
    BY <2>1 DEF Idle
  <2>3. recovery.generation > recovery.completed
    BY <1>1, <2>1 DEF Sweeping
  <2>4. \A c \in Channels : BySweep(c)'
    BY <2>1, <2>2, <2>3 DEF BySweep
  <2> QED
    BY <1>3, <2>1, <2>4
<1>10. CASE Admit
  <2>1. sweep.at \in {"page", "waiting"} /\ sweep.page # {} /\ UNCHANGED recovery
    BY <1>10 DEF Admit
  <2>2. First \in sweep.page /\ First[1] \in Channels /\ First[2] \in Nat
    BY <1>1, <2>1, FirstOfPage
  <2>3. CASE CanAdd(First[1])
    <3>1. /\ AddOverflow(First[1], First[2])
          /\ sweep' = [sweep EXCEPT !.at = "page", !.page = sweep.page \ {First}, !.space = FALSE]
      BY <1>10, <2>3 DEF Admit, First
    <3> DEFINE left == sweep.page \ {First}
    <3>2. \A e \in sweep.page : e \in left \/ e = First
      OBVIOUS
    <3>3. sweep' = [sweep EXCEPT !.at = "page", !.page = left, !.space = FALSE]
      BY <3>1
    <3> HIDE DEF left
    <3>4. sweep'.target = sweep.target /\ sweep'.todo = sweep.todo /\ sweep'.page = left
      BY <1>1, <3>3 DEF Sweeps
    <3>5. /\ overflow'[First[1]] # None /\ overflow'[First[1]].pts >= First[2]
          /\ overflow[First[1]] # None => overflow'[First[1]].pts >= overflow[First[1]].pts
          /\ \A d \in Channels \ {First[1]} : overflow'[d] = overflow[d]
      BY <2>2, <3>1, AddRemembers
    <3>6. overflow'[First[1]].pts \in Nat
      BY <1>1, <2>2, <3>1, <3>5, AddTyped DEF EntrySet
    <3>7. PICK f \in Channels, p \in Nat : f = First[1] /\ p = First[2]
      BY <2>2
    <3> SUFFICES ASSUME NEW c \in Channels, owed[c] > 0, Remembered(c)
                 PROVE  Remembered(c)'
      BY <1>2, OwingFrame
    <3>8. /\ ByRequest(c) => ByRequest(c)'
          /\ ByQueue(c) => ByQueue(c)'
          /\ ByWorker(c) => ByWorker(c)'
      BY <1>2 DEF ByRequest, ByQueue, ByWorker
    <3>9. ByEntry(c) => ByEntry(c)'
      <4>1. overflow[c] # None => overflow[c].pts \in Nat
        BY <1>1 DEF ShardsTyped, EntrySet
      <4>2. CASE c = f
        BY <1>1, <1>2, <3>5, <3>6, <3>7, <4>1, <4>2 DEF ByEntry
      <4>3. CASE c # f
        BY <1>2, <3>5, <3>7, <4>3 DEF ByEntry
      <4> QED
        BY <4>2, <4>3
    <3>10. BySweep(c) => BySweep(c)' \/ ByEntry(c)'
      <4> SUFFICES ASSUME BySweep(c), ~ BySweep(c)'
                   PROVE  ByEntry(c)'
        OBVIOUS
      <4>1. First[1] = c /\ First[2] >= owed[c]
        BY <1>2, <2>1, <3>2, <3>4 DEF BySweep
      <4> QED
        BY <1>1, <1>2, <2>2, <3>5, <3>6, <3>7, <4>1 DEF ByEntry
    <3> QED
      BY <3>8, <3>9, <3>10, Kept
  <2>4. CASE ~ CanAdd(First[1])
    <3>1. sweep' = [sweep EXCEPT !.at = "waiting", !.space = FALSE] /\ UNCHANGED overflow
      BY <1>10, <2>4 DEF Admit, First
    <3>2. sweep'.target = sweep.target /\ sweep'.todo = sweep.todo /\ sweep'.page = sweep.page
      BY <1>1, <3>1 DEF Sweeps
    <3>3. \A c \in Channels : BySweep(c) => BySweep(c)'
      BY <1>2, <2>1, <3>2 DEF BySweep
    <3> QED
      BY <1>3, <3>1, <3>3
  <2> QED
    BY <2>3, <2>4
<1>11. CASE CompleteSweep
  <2>1. /\ sweep.at = "page" /\ sweep.page = {} /\ sweep.todo = {} /\ sweep' = Idle
        /\ recovery' = [recovery EXCEPT !.completed = sweep.target] /\ UNCHANGED overflow
    BY <1>11 DEF CompleteSweep, Complete, SweepUnchanged, shardVars
  <2>2. /\ sweep'.target = 0 /\ recovery'.completed = sweep.target
        /\ recovery'.generation = recovery.generation /\ sweep.target > 0
    BY <1>1, <2>1 DEF Idle, Generations, Sweeping
  <2>3. \A c \in Channels : BySweep(c) => BySweep(c)'
    BY <2>1, <2>2 DEF BySweep
  <2> QED
    BY <1>3, <2>1, <2>3
<1> QED
  BY <1>4, <1>5, <1>6, <1>7, <1>8, <1>9, <1>10, <1>11 DEF Recovery

\* Whoever is owed something is remembered.
LEMMA OwingNext ==
  ASSUME Typed, Queued, OneSender, Sweeping, Owing, Next
  PROVE  Owing'
BY OwingRequest, OwingShard, OwingNudger, OwingLife, OwingRecovery DEF Next, Life

-----------------------------------------------------------------------------
(* The inductive invariant.                                                *)

\* A new dispatcher holds nothing.
LEMMA InitKeeps ==
  ASSUME Init
  PROVE  IInv
<1>1. 0 \in 0..MaxUpdates /\ 0 \in Nat /\ Buffer \in Nat /\ MaxJobs \in Nat
      /\ NudgeLimit \in Nat /\ OverflowLimit \in Nat
  BY FanoutBoundsAssumption
<1>2. Typed
  <2>1. [next |-> 0, processed |-> 0] \in Counters
    BY DEF Counters
  <2>2. [at |-> "select", job |-> None] \in Workers
    BY DEF Workers
  <2>3. jobs \in [Shards -> Seq(JobSet)] /\ order \in [Shards -> Seq(Channels)]
    BY DEF Init
  <2>4. ShardsTyped
    BY <2>1, <2>2, <2>3 DEF Init, ShardsTyped
  <2>5. [at |-> "idle", chan |-> None, pts |-> 0, behind |-> 0] \in Nudgers
    BY DEF Nudgers
  <2>6. NudgesTyped
    BY <2>5 DEF Init, NudgesTyped
  <2>7. recovery \in Generations /\ sweep \in Sweeps
    BY DEF Init, Generations, Sweeps
  <2>8. RestTyped
    BY <1>1, <2>7 DEF Init, RestTyped
  <2> QED
    BY <2>4, <2>6, <2>8 DEF Typed
<1>3. Lanes
  <2> SUFFICES ASSUME NEW s \in Shards
               PROVE  InLine(jobs[s], worker[s], seqs[s])
    BY DEF Lanes
  <2>1. /\ jobs[s] = <<>> /\ worker[s].at = "select" /\ worker[s].job = None
        /\ seqs[s].next = 0 /\ seqs[s].processed = 0
    BY DEF Init
  <2>2. Len(<<>>) = 0 /\ DOMAIN <<>> = {}
    OBVIOUS
  <2> QED
    BY <1>1, <2>1, <2>2 DEF InLine
<1>4. Waited
  BY DEF Init, Waited
<1>5. Queued
  <2>1. Waiting = {}
    BY DEF Init, Waiting
  <2>2. Cardinality(Waiting) = 0
    BY <2>1, FS_EmptySet, Zenon
  <2>3. DOMAIN nudgeJobs = {} /\ \A n \in NudgeWorkers : nudger[n].at = "idle"
    BY DEF Init
  <2> QED
    BY <1>1, <2>2, <2>3 DEF Queued
<1>6. Mailboxes
  <2> SUFFICES ASSUME NEW s \in Shards
               PROVE  Listed(s)
    BY DEF Mailboxes
  <2>1. Entries(s) = {}
    BY DEF Init, Entries
  <2>2. Cardinality(Entries(s)) = 0
    BY <2>1, FS_EmptySet, Zenon
  <2>3. DOMAIN order[s] = {}
    BY DEF Init
  <2> QED
    BY <1>1, <2>1, <2>2, <2>3 DEF Listed, Lists
<1>7. OneSender /\ Over
  BY DEF Init, OneSender, Over
<1>8. Budget
  <2>1. Reserved = {}
    BY DEF Init, Reserved
  <2>2. Held = {}
    <3>1. \A s \in Shards : worker[s].job = None /\ Len(jobs[s]) = 0
      BY DEF Init
    <3>2. \A i \in 0..Buffer : i = 0 \/ ~ (i <= 0)
      BY <1>1
    <3> QED
      BY <3>1, <3>2 DEF Held, HeldOf, Slot
  <2>3. IsFiniteSet({}) /\ Cardinality({}) = 0
    BY FS_EmptySet, Zenon
  <2>4. queued = 0
    BY DEF Init
  <2> QED
    BY <1>1, <2>1, <2>2, <2>3, <2>4 DEF Budget
<1>9. Sweeping
  BY DEF Init, Sweeping
<1>10. Owing
  BY DEF Init, Owing
<1>11. SleepsOnlyWhenFull
  BY DEF Init, SleepsOnlyWhenFull
<1> QED
  BY <1>2, <1>3, <1>4, <1>5, <1>6, <1>7, <1>8, <1>9, <1>10, <1>11 DEF IInv

\* Every step keeps the invariant.
LEMMA NextKeeps ==
  ASSUME IInv, Next
  PROVE  IInv'
<1>1. /\ Typed /\ Lanes /\ Waited /\ Queued /\ Mailboxes /\ OneSender /\ Over /\ Budget
      /\ Sweeping /\ Owing /\ SleepsOnlyWhenFull
  BY DEF IInv
<1>2. Typed'
  BY <1>1, NextTyped
<1>3. Lanes' /\ Waited' /\ Queued'
  BY <1>1, LanesNext, WaitedNext, QueuedNext
<1>4. Mailboxes' /\ SleepsOnlyWhenFull'
  BY <1>1, MailboxesNext, SleepsNext
<1>5. OneSender' /\ Over' /\ Budget'
  BY <1>1, OneSenderNext, OverNext, BudgetNext
<1>6. Sweeping' /\ Owing'
  BY <1>1, SweepingNext, OwingNext
<1> QED
  BY <1>2, <1>3, <1>4, <1>5, <1>6 DEF IInv

\* The inductive invariant holds in every reachable state.
THEOREM Inductive == Spec => []IInv
<1>1. Init => IInv
  BY InitKeeps
<1>2. IInv /\ [Next]_vars => IInv'
  BY NextKeeps, StutterKeeps
<1> QED
  BY <1>1, <1>2, PTL DEF Spec

\* A list that names the members of E once is as long as E is large.
LEMMA ListLength ==
  ASSUME NEW q \in Seq(Channels), NEW E, Lists(q, E)
  PROVE  Cardinality(E) = Len(q)
<1>1. Len(q) \in Nat /\ DOMAIN q = 1..Len(q) /\ q \in [1..Len(q) -> Channels]
  BY LenProperties
<1>2. q \in [1..Len(q) -> E]
  BY <1>1 DEF Lists
<1>3. q \in Bijection(1..Len(q), E)
  <2>1. \A i, j \in 1..Len(q) : q[i] = q[j] => i = j
    BY <1>1 DEF Lists
  <2>2. \A c \in E : \E i \in 1..Len(q) : q[i] = c
    BY <1>1 DEF Lists
  <2>3. q \in Injection(1..Len(q), E)
    BY <1>2, <2>1 DEF Injection, IsInjective
  <2>4. q \in Surjection(1..Len(q), E)
    BY <1>2, <2>2 DEF Surjection
  <2> QED
    BY <2>3, <2>4 DEF Bijection
<1>4. IsFiniteSet(1..Len(q)) /\ Cardinality(1..Len(q)) = Len(q)
  <2>1. 1 \in Int /\ Len(q) \in Int
    BY <1>1
  <2>2. /\ IsFiniteSet(1..Len(q))
        /\ Cardinality(1..Len(q)) = IF 1 > Len(q) THEN 0 ELSE Len(q) - 1 + 1
    BY <2>1, FS_Interval
  <2> QED
    BY <1>1, <2>2
<1> QED
  BY <1>3, <1>4, FS_Bijection DEF ExistsBijection

\* The channels queued for the nudge workers are pending, each of them once.
LEMMA QueueLength ==
  ASSUME Typed, Queued, phase # "ended"
  PROVE  Len(nudgeJobs) <= Cardinality(Waiting)
<1> DEFINE q == nudgeJobs
<1>1. q \in Seq(Channels)
  BY DEF Typed, NudgesTyped
<1>2. Len(q) \in Nat /\ DOMAIN q = 1..Len(q) /\ q \in [1..Len(q) -> Channels]
  BY <1>1, LenProperties
<1>3. \A i \in 1..Len(q) : q[i] \in Waiting
  BY <1>2 DEF Queued, Waiting
<1>4. \A i, j \in 1..Len(q) : q[i] = q[j] => i = j
  BY <1>2 DEF Queued
<1> HIDE DEF q
<1>5. q \in [1..Len(q) -> Waiting]
  BY <1>2, <1>3
<1>6. q \in Injection(1..Len(q), Waiting)
  BY <1>4, <1>5 DEF Injection, IsInjective
<1>7. Cardinality(1..Len(q)) <= Cardinality(Waiting)
  BY <1>6, WaitingFinite, FS_Injection
<1>8. Cardinality(1..Len(q)) = Len(q)
  <2>1. 1 \in Int /\ Len(q) \in Int
    BY <1>2
  <2>2. Cardinality(1..Len(q)) = IF 1 > Len(q) THEN 0 ELSE Len(q) - 1 + 1
    BY <2>1, FS_Interval
  <2> QED
    BY <1>2, <2>2
<1> QED
  BY <1>7, <1>8 DEF q

\* The queues keep their bounds, and the maps and lists beside them name the same channels.
LEMMA TypesFollow ==
  ASSUME IInv
  PROVE  TypeOK
<1>1. /\ ShardsTyped /\ NudgesTyped /\ RestTyped /\ Lanes /\ Queued /\ Mailboxes /\ Budget
      /\ Typed
  BY DEF IInv, Typed
<1>2. queued \in 0..MaxJobs
  <2>1. Cardinality(Reserved) \in Nat /\ Cardinality(Held) \in Nat
    BY <1>1, FS_CardinalityType DEF Budget
  <2> QED
    BY <1>1, <2>1, FanoutBoundsAssumption DEF Budget
<1>3. ASSUME NEW s \in Shards
      PROVE  /\ Len(jobs[s]) <= Buffer
             /\ worker[s].at \in {"select", "running", "drain"}
             /\ {order[s][i] : i \in DOMAIN order[s]} = Entries(s)
             /\ Len(order[s]) = Cardinality(Entries(s)) /\ Len(order[s]) <= OverflowLimit
  <2>1. Len(jobs[s]) <= Buffer /\ worker[s].at \in {"select", "running", "drain"}
    BY <1>1 DEF Lanes, InLine, ShardsTyped, Workers
  <2>2. Lists(order[s], Entries(s)) /\ Cardinality(Entries(s)) <= OverflowLimit
    BY <1>1 DEF Mailboxes, Listed
  <2>3. {order[s][i] : i \in DOMAIN order[s]} = Entries(s)
    BY <2>2 DEF Lists
  <2>4. Len(order[s]) = Cardinality(Entries(s))
    BY <1>1, <2>2, ListLength DEF ShardsTyped
  <2> QED
    BY <2>1, <2>2, <2>3, <2>4
<1>4. Len(nudgeJobs) <= Cardinality(Waiting) \/ phase = "ended"
  BY <1>1, QueueLength
<1>5. /\ Cardinality(Waiting) <= NudgeLimit
      /\ \A n \in NudgeWorkers : nudger[n].at = "got" => pending[nudger[n].chan] # None
  BY <1>1 DEF Queued
<1> QED
  BY <1>1, <1>2, <1>3, <1>4, <1>5 DEF TypeOK, RestTyped, Requests

\* Type correctness: queues within their bounds, and every list beside a map names what the
\* map has, once.
THEOREM TypeCorrect == Spec => []TypeOK
BY TypesFollow, Inductive, PTL

\* releaseQueuedJob is called once for each reservation, whichever way its payload leaves.
THEOREM BudgetExactHolds == Spec => []BudgetExact
<1>1. IInv => BudgetExact
  BY DEF IInv, Budget, BudgetExact, Reserved, Held, HeldOf, Slot
<1> QED
  BY <1>1, Inductive, PTL

\* A payload that was not pushed is remembered until its members are nudged, leave or the
\* dispatcher stops.
THEOREM NothingForgottenHolds == Spec => []NothingForgotten
<1>1. IInv => NothingForgotten
  BY DEF IInv, Owing, NothingForgotten
<1> QED
  BY <1>1, Inductive, PTL

\* An entry's barrier keeps its nudge behind the payloads accepted before the loss.
THEOREM NudgeBehindPayloadsHolds == Spec => []NudgeBehindPayloads
<1>1. ASSUME IInv
      PROVE  NudgeBehindPayloads
  <2>1. ShardsTyped /\ NudgesTyped /\ RestTyped /\ Lanes /\ Waited
    BY <1>1 DEF IInv, Typed
  <2> SUFFICES ASSUME NEW c \in Channels, NEW j \in Accepted(shardOf[c]), j.chan = c
               PROVE  /\ pending[c] # None => pending[c].behind < j.seq
                      /\ \A n \in NudgeWorkers :
                           nudger[n].at = "sending" /\ nudger[n].chan = c => nudger[n].behind < j.seq
    BY DEF NudgeBehindPayloads
  <2> DEFINE s == shardOf[c]
  <2>2. s \in Shards /\ jobs[s] \in Seq(JobSet) /\ worker[s] \in Workers /\ seqs[s] \in Counters
    BY <2>1 DEF ShardsTyped, RestTyped
  <2>3. j \in JobSet /\ seqs[s].processed < j.seq
    <3>1. CASE j = worker[s].job /\ worker[s].job # None
      BY <2>1, <2>2, <3>1 DEF Lanes, InLine, Workers
    <3>2. CASE \E i \in DOMAIN jobs[s] : j = jobs[s][i]
      BY <2>1, <2>2, <3>2 DEF Lanes, InLine
    <3> QED
      BY <3>1, <3>2 DEF Accepted
  <2>4. seqs[s].processed \in Nat /\ j.seq \in Nat
    BY <2>2, <2>3 DEF Counters, JobSet
  <2>5. ASSUME pending[c] # None
        PROVE  pending[c].behind < j.seq
    <3>1. pending[c].behind <= seqs[s].processed /\ pending[c].behind \in Nat
      BY <2>1, <2>5 DEF Waited, NudgesTyped, NudgeSet
    <3> QED
      BY <2>3, <2>4, <3>1
  <2>6. ASSUME NEW n \in NudgeWorkers, nudger[n].at = "sending", nudger[n].chan = c
        PROVE  nudger[n].behind < j.seq
    <3>1. nudger[n].behind <= seqs[s].processed /\ nudger[n].behind \in Nat
      BY <2>1, <2>6 DEF Waited, NudgesTyped, Nudgers
    <3> QED
      BY <2>3, <2>4, <3>1
  <2> QED
    BY <2>5, <2>6
<1> QED
  BY <1>1, Inductive, PTL

\* No release of room is missed between a failed try and the subscription that follows it.
THEOREM SleepsOnlyWhenFullHolds == Spec => []SleepsOnlyWhenFull
<1>1. IInv => SleepsOnlyWhenFull
  BY DEF IInv
<1> QED
  BY <1>1, Inductive, PTL
=============================================================================
