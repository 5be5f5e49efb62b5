----------------------------- MODULE RpcLedger -----------------------------
(***************************************************************************)
(* The RPC execution ledger and its result flights.  A request may arrive  *)
(* again on a replacement connection while the first copy is queued, runs, *)
(* or has its result on the way; the ledger makes one copy the owner that  *)
(* runs the handler and gives every other copy the owner's outcome.        *)
(*                                                                         *)
(* A pending flight is the owner's claim on a request; when the result was *)
(* handed to the egress path and that path is done with it, the flight     *)
(* becomes a receipt, with the same budget entry, for as long as a copy    *)
(* may still arrive.  The receipt holds no bytes: the frame is in the      *)
(* session's outbox until the client acknowledges it, and a receipt whose  *)
(* frame the outbox never took only says that the request was run.         *)
(*                                                                         *)
(* All requests are of one session.  Request identities, layers, admission *)
(* numbers and abort hooks are left out; an owner completes only its own   *)
(* flight, so the defensive completion without an owner is left out too.   *)
(***************************************************************************)
EXTENDS Naturals, FiniteSets

CONSTANTS
  Keys,          \* the requests, by (auth key, session, msg id)
  Copies,        \* the arrivals: the requests, their copies and dependants
  Shards,        \* of the ledger
  ShardOf,       \* the shard of each request
  None,
  MaxEntries,    \* flights and receipts (1 << 18, less per auth and session, unless configured)
  MaxPending,    \* flights (32768)
  PendingPerAuth, \* flights of one auth key (2048)
  MaxSlots,      \* callbacks retained, all flights (65536)
  SlotsPerFlight \* callbacks retained by one flight (128)

ASSUME LedgerAssumption ==
  /\ ShardOf \in [Keys -> Shards]
  /\ None \notin Keys \cup Copies \cup [known : BOOLEAN, unavailable : BOOLEAN]
  /\ IsFiniteSet(Keys) /\ IsFiniteSet(Copies)
  /\ MaxEntries \in Nat \ {0} /\ MaxPending \in Nat \ {0} /\ PendingPerAuth \in Nat \ {0}
  /\ MaxSlots \in Nat /\ SlotsPerFlight \in Nat

VARIABLES
  copy,     \* each arrival: where it stands, its request, the flight it joined
            \* and the callbacks it wants
  pending,  \* the flight of each request, named by the copy that owns it
  flight,   \* each owner's rpcResultFlight
  receipt,  \* the rpcExecutionReceipt of each request
  expired,  \* the receipts whose time is over and that nobody removed yet
  used,     \* the counters: entries, pending, flights, slots
  frame,    \* the requests whose result frame the outbox holds
  acking,   \* those whose frame was acknowledged and removed just now
  told,     \* history: how often each copy's result and execution callbacks ran
  ran,      \* history: the requests that ran and whose outcome is still owed
  released  \* history: the requests acknowledged since they were last claimed

ledgerVars == <<pending, flight, receipt, expired, used>>
outboxVars == <<frame, acking>>
vars == <<copy, ledgerVars, outboxVars, told, ran, released>>

-----------------------------------------------------------------------------
NoFlight == [exec |-> FALSE, acked |-> FALSE, handed |-> FALSE, done |-> FALSE,
             subs |-> {}, esubs |-> {}, slots |-> 0]

Arrival == [at |-> "new", key |-> None, join |-> None, wants |-> {}]

Init ==
  /\ copy = [a \in Copies |-> Arrival]
  /\ pending = [k \in Keys |-> None]
  /\ flight = [a \in Copies |-> NoFlight]
  /\ receipt = [k \in Keys |-> None]
  /\ expired = {}
  /\ used = [entries |-> 0, pending |-> 0, flights |-> 0, slots |-> 0]
  /\ frame = {}
  /\ acking = {}
  /\ told = [a \in Copies |-> [result |-> 0, exec |-> 0]]
  /\ ran = {}
  /\ released = {}

Owns(a) == copy[a].key # None /\ pending[copy[a].key] = a
Stands(a, at) == copy[a].at = at
Moves(a, at) == copy' = [copy EXCEPT ![a].at = at]

\* A copy that was answered or refused, or whose request is over, is forgotten.
Settled == [Arrival EXCEPT !.at = "settled"]
Settles(a) == copy' = [copy EXCEPT ![a] = Settled]

\* expireLocked, in the given shards.
Dropped(S) == {k \in expired : ShardOf[k] \in S}
Kept(S) == [k \in Keys |-> IF k \in Dropped(S) THEN None ELSE receipt[k]]
EntriesAfter(S) == used.entries - Cardinality(Dropped(S))
Reaped(S) ==
  /\ receipt' = Kept(S)
  /\ expired' = expired \ Dropped(S)
  /\ ran' = ran \ Dropped(S)

\* Callbacks that run now, for the copies in R and E.
Tell(R, E) ==
  told' = [a \in Copies |-> [result |-> told[a].result + (IF a \in R THEN 1 ELSE 0),
                             exec |-> told[a].exec + (IF a \in E THEN 1 ELSE 0)]]

-----------------------------------------------------------------------------
(***************************************************************************)
(* Acquire: one critical section decides what the copy is.  It is settled  *)
(* when the request is over or acknowledged (it is acknowledged in turn,   *)
(* refused, or sent the outbox's frame, looked up when the lock is gone    *)
(* and perhaps taken away by then), and when there is no room for it.      *)
(***************************************************************************)
\* Mutated: a pending flight is found only once it was acknowledged.
OutcomeBlind(a, k) ==
  IF Kept({ShardOf[k]})[k] # None \/ (pending[k] # None /\ flight[pending[k]].acked) THEN "settled"
  ELSE IF used.flights < MaxPending /\ used.pending < PendingPerAuth
          /\ EntriesAfter({ShardOf[k]}) < MaxEntries THEN "queued" ELSE "settled"

Outcome(a, k) ==
  LET f == pending[k]
      room == used.pending < PendingPerAuth /\ EntriesAfter({ShardOf[k]}) < MaxEntries
  IN  IF Kept({ShardOf[k]})[k] # None THEN "settled"
      ELSE IF f # None THEN (IF flight[f].acked THEN "settled" ELSE "joined")
      ELSE IF used.flights >= MaxPending THEN "settled"
      ELSE IF room THEN "queued"
      ELSE IF copy[a].at = "new" THEN "reap" ELSE "settled"

Claim(a, k) ==
  LET S == {ShardOf[k]}
      at == Outcome(a, k)
      owner == at = "queued"
  IN  /\ Reaped(S)
      /\ copy' = [copy EXCEPT ![a] =
                    IF at = "settled" THEN Settled
                    ELSE [at |-> at, key |-> k, wants |-> {},
                          join |-> IF at = "joined" THEN pending[k] ELSE None]]
      /\ used' = [used EXCEPT
                    !.entries = EntriesAfter(S) + (IF owner THEN 1 ELSE 0),
                    !.pending = IF owner THEN @ + 1 ELSE @,
                    !.flights = IF owner THEN @ + 1 ELSE @]
      /\ pending' = IF owner THEN [pending EXCEPT ![k] = a] ELSE pending
      /\ released' = IF owner THEN released \ {k} ELSE released
      /\ UNCHANGED <<flight, outboxVars, told>>

Acquire(a) == Stands(a, "new") /\ \E k \in Keys : Claim(a, k)

\* No entry was left: expired receipts of the other shards may be all that fills
\* the budget.  They are removed once, and everything is looked at again.
ReapAll(a) ==
  /\ Stands(a, "reap")
  /\ Reaped(Shards)
  /\ used' = [used EXCEPT !.entries = EntriesAfter(Shards)]
  /\ Moves(a, "again")
  /\ UNCHANGED <<pending, flight, outboxVars, told, released>>
AcquireAgain(a) == Stands(a, "again") /\ Claim(a, copy[a].key)

\* ObserveDependency: a dependant asks for the execution only, and claims nothing.
ObserveOn(a, k) ==
  LET gone == Dropped({ShardOf[k]}) \cap {k}
      r == IF gone = {} THEN receipt[k] ELSE None
      f == pending[k]
      known == IF r # None THEN r.known ELSE f # None /\ flight[f].exec
      joins == r = None /\ f # None /\ ~known
  IN  /\ receipt' = [receipt EXCEPT ![k] = r]
      /\ expired' = expired \ gone
      /\ ran' = ran \ gone
      /\ used' = [used EXCEPT !.entries = @ - Cardinality(gone)]
      /\ copy' = [copy EXCEPT ![a] =
           IF joins THEN [at |-> "joined", key |-> k, join |-> f, wants |-> {"exec"}]
           ELSE Settled]
      /\ UNCHANGED <<pending, flight, outboxVars, told, released>>
Observe(a) == Stands(a, "new") /\ \E k \in Keys : ObserveOn(a, k)

-----------------------------------------------------------------------------
(***************************************************************************)
(* Subscribing: the flight may have changed since it was joined.           *)
(***************************************************************************)
\* Mutated: a flight that is over takes callbacks as if it were not.
StillPendingAssumed(a) == TRUE

StillPending(a) == pending[copy[a].key] = copy[a].join

Subscribe(a, wants) ==
  LET f == copy[a].join
      executed == flight[f].exec
      slots == Cardinality(IF executed THEN wants \ {"exec"} ELSE wants)
      only(cb) == IF cb \in wants THEN {a} ELSE {}
  IN  /\ Stands(a, "joined")
      /\ UNCHANGED <<pending, receipt, expired, outboxVars, ran, released>>
      /\ \/ /\ StillPending(a)
            /\ flight[f].slots + slots > SlotsPerFlight \/ used.slots + slots > MaxSlots
            /\ Settles(a)
            /\ UNCHANGED <<flight, used, told>>
         \/ /\ StillPending(a)
            /\ flight[f].slots + slots <= SlotsPerFlight /\ used.slots + slots <= MaxSlots
            /\ flight' = [flight EXCEPT
                  ![f].slots = @ + slots,
                  ![f].subs = @ \cup only("result"),
                  ![f].esubs = IF executed THEN @ ELSE @ \cup only("exec")]
            /\ used' = [used EXCEPT !.slots = @ + slots]
            /\ copy' = [copy EXCEPT ![a].at = "subscribed", ![a].wants = wants]
            /\ Tell({}, IF executed THEN only("exec") ELSE {})
         \/ /\ ~StillPending(a)
            /\ flight[f].done
            /\ copy' = [copy EXCEPT ![a].at = "subscribed", ![a].wants = wants]
            /\ Tell(only("result"), only("exec"))
            /\ UNCHANGED <<flight, used>>

\* A replay wants the result, or both halves; a dependant the execution.
SubscribeAs(a) ==
  IF copy[a].wants = {"exec"} THEN Subscribe(a, {"exec"})
  ELSE Subscribe(a, {"result"}) \/ Subscribe(a, {"result", "exec"})

-----------------------------------------------------------------------------
(***************************************************************************)
(* The owner: its task waits in the connection's queue, runs the handler,  *)
(* publishes the execution, hands the result to the egress path, and the   *)
(* end of the delivery, or its failure, completes the flight.              *)
(***************************************************************************)
OnlyOwner == UNCHANGED <<ledgerVars, outboxVars, told, released>>

Run(a) ==
  /\ Stands(a, "queued")
  /\ Moves(a, "ran")
  /\ ran' = ran \cup {copy[a].key}
  /\ OnlyOwner

\* A request whose time ran out in the queue is answered RPC_TIMEOUT by sendResult,
\* which returns when the frame was taken, or could not be, and completes the flight.
\* An answer that cannot even be encoded as an error leaves that to the release: Abort.
TimeOut(a) ==
  /\ Stands(a, "queued")
  /\ Moves(a, "sent")
  /\ frame' \in {frame, frame \cup {copy[a].key}}
  /\ UNCHANGED <<ledgerVars, acking, told, ran, released>>

CompleteExecution(a) ==
  /\ Stands(a, "ran")
  /\ Owns(a)
  /\ Moves(a, "executed")
  /\ flight' = [flight EXCEPT ![a].exec = TRUE, ![a].esubs = {},
                   ![a].slots = @ - Cardinality(flight[a].esubs)]
  /\ used' = [used EXCEPT !.slots = @ - Cardinality(flight[a].esubs)]
  /\ Tell({}, flight[a].esubs)
  /\ UNCHANGED <<pending, receipt, expired, outboxVars, ran, released>>

\* HandOff; then the outbox takes the frame, or refuses it, which fences the
\* connection, or had no room for its body in the first place (retainForReplay).
HandOff(a) ==
  /\ Stands(a, "executed")
  /\ Owns(a)
  /\ flight' = [flight EXCEPT ![a].handed = TRUE]
  /\ \/ Moves(a, "sent") /\ frame' \in {frame, frame \cup {copy[a].key}}
     \/ Moves(a, "fenced") /\ UNCHANGED frame
  /\ UNCHANGED <<pending, receipt, expired, used, acking, told, ran, released>>

\* Complete asks the outbox for the frame before it takes the lock.
CheckFrame(a) ==
  /\ Stands(a, "sent")
  /\ Moves(a, IF copy[a].key \in frame THEN "replayable" ELSE "fenced")
  /\ UNCHANGED <<ledgerVars, outboxVars, told, ran, released>>

\* Mutated: a result nobody can replay leaves no receipt.
ReceiptIfReplayable(a) ==
  IF flight[a].acked \/ Stands(a, "fenced") THEN None
  ELSE [known |-> flight[a].exec, unavailable |-> FALSE]
\* Mutated: an acknowledgement that came first is not looked at.
ReceiptAlways(a) == [known |-> flight[a].exec, unavailable |-> Stands(a, "fenced")]

\* The receipt that stays: none if the result was acknowledged before.
ReceiptOf(a) ==
  IF flight[a].acked THEN None
  ELSE [known |-> flight[a].exec, unavailable |-> Stands(a, "fenced")]

\* Mutated: callbacks for an execution that was never published are dropped.
OverResultOnly(a) ==
  /\ flight' = [flight EXCEPT ![a] = [NoFlight EXCEPT !.done = TRUE, !.exec = TRUE]]
  /\ Tell(flight[a].subs, {})

\* The flight is over, whichever way: the callbacks it retained run, those for the
\* execution with a failure if none was published.
Over(a) ==
  /\ flight' = [flight EXCEPT ![a] = [NoFlight EXCEPT !.done = TRUE, !.exec = TRUE]]
  /\ Tell(flight[a].subs, flight[a].esubs)

\* Mutated: the per-auth count of a flight stays with its receipt.
AfterFlightKeepsPending(entries, slots) ==
  [used EXCEPT !.entries = entries, !.flights = @ - 1, !.slots = slots]

AfterFlight(entries, slots) ==
  [used EXCEPT !.entries = entries, !.pending = @ - 1, !.flights = @ - 1, !.slots = slots]

\* The flight's entry passes to the receipt.
Publish(a) ==
  LET k == copy[a].key
      S == {ShardOf[k]}
      slots == used.slots - Cardinality(flight[a].subs) - Cardinality(flight[a].esubs)
  IN  /\ copy[a].at \in {"replayable", "fenced"}
      /\ Owns(a)
      /\ receipt' = [Kept(S) EXCEPT ![k] = ReceiptOf(a)]
      /\ expired' = expired \ Dropped(S)
      /\ ran' = ran \ (Dropped(S) \cup {x \in {k} : flight[a].acked})
      /\ used' = AfterFlight(EntriesAfter(S) - (IF ReceiptOf(a) = None THEN 1 ELSE 0), slots)
      /\ pending' = [pending EXCEPT ![k] = None]
      /\ Over(a)
      /\ Settles(a)
      /\ UNCHANGED <<outboxVars, released>>

\* The task is released without a result: its connection closed while it was
\* queued, or the handler or the encoding failed.  The request may be run again.
Abort(a) ==
  LET k == copy[a].key
      slots == used.slots - Cardinality(flight[a].subs) - Cardinality(flight[a].esubs)
  IN  /\ copy[a].at \in {"queued", "ran", "executed"}
      /\ Owns(a) /\ ~flight[a].handed
      /\ pending' = [pending EXCEPT ![k] = None]
      /\ used' = AfterFlight(used.entries - 1, slots)
      /\ Over(a)
      /\ Settles(a)
      /\ ran' = ran \ {k}
      /\ UNCHANGED <<receipt, expired, outboxVars, released>>

-----------------------------------------------------------------------------
\* The client acknowledges the frame: the outbound actor removes it, then tells
\* the ledger, which may still be waiting for the completion.
AckFrame(k) ==
  /\ k \in frame
  /\ frame' = frame \ {k}
  /\ acking' = acking \cup {k}
  /\ UNCHANGED <<copy, ledgerVars, told, ran, released>>

Acknowledge(k) ==
  LET S == {ShardOf[k]}
      f == pending[k]
      r == Kept(S)[k]
  IN  /\ k \in acking
      /\ acking' = acking \ {k}
      /\ receipt' = [Kept(S) EXCEPT ![k] = None]
      /\ expired' = expired \ Dropped(S)
      /\ used' = [used EXCEPT !.entries = EntriesAfter(S) - (IF r = None THEN 0 ELSE 1)]
      /\ flight' = IF r = None /\ f # None THEN [flight EXCEPT ![f].acked = TRUE] ELSE flight
      /\ ran' = (ran \ Dropped(S)) \ {k}
      /\ released' = released \cup {k}
      /\ UNCHANGED <<copy, pending, frame, told>>

\* A receipt's time is over (331 s).
Expire(k) ==
  /\ receipt[k] # None
  /\ k \notin expired
  /\ expired' = expired \cup {k}
  /\ UNCHANGED <<copy, pending, flight, receipt, used, outboxVars, told, ran, released>>

\* A destroyed session takes its frames and receipts along.  The code releases the
\* outbox and then the receipts; here it is one step, taken when no flight is pending.
ForgetSession ==
  LET left == {k \in Keys : receipt[k] # None}
  IN  /\ \A k \in Keys : pending[k] = None
      /\ left # {} /\ acking = {}
      /\ receipt' = [k \in Keys |-> None]
      /\ expired' = {}
      /\ used' = [used EXCEPT !.entries = @ - Cardinality(left)]
      /\ frame' = {}
      /\ ran' = ran \ left
      /\ UNCHANGED <<copy, pending, flight, acking, told, released>>

-----------------------------------------------------------------------------
CopyStep(a) ==
  \/ ReapAll(a) \/ AcquireAgain(a) \/ SubscribeAs(a)
  \/ Run(a) \/ CompleteExecution(a) \/ HandOff(a) \/ CheckFrame(a) \/ Publish(a)

Next ==
  \/ \E a \in Copies : Acquire(a) \/ Observe(a) \/ CopyStep(a) \/ TimeOut(a) \/ Abort(a)
  \/ \E k \in Keys : AckFrame(k) \/ Acknowledge(k) \/ Expire(k)
  \/ ForgetSession

Spec == Init /\ [][Next]_vars

(***************************************************************************)
(* A copy that arrived is carried on: a queued task is run by a worker, is *)
(* timed out or is released, and a handler ends.                           *)
(***************************************************************************)
FairSpec == Spec /\ \A a \in Copies : WF_vars(CopyStep(a))

-----------------------------------------------------------------------------
Places == {"new", "reap", "again", "joined", "subscribed", "queued", "ran",
           "executed", "sent", "replayable", "fenced", "settled"}
Owning == {"queued", "ran", "executed", "sent", "replayable", "fenced"}

\* The state's types; a copy that has not settled its request owns its flight, and
\* a request with a flight has no receipt (Acquire, Complete, Abort).
TypeOK ==
  /\ \A a \in Copies :
       /\ copy[a].at \in Places
       /\ copy[a].key \in Keys \cup {None} /\ copy[a].join \in Copies \cup {None}
       /\ flight[a].slots \in 0..SlotsPerFlight
       /\ copy[a].at \in Owning <=> Owns(a)
  /\ used.entries \in 0..MaxEntries /\ used.pending \in 0..PendingPerAuth
  /\ used.flights \in 0..MaxPending /\ used.slots \in 0..MaxSlots
  /\ \A k \in Keys : pending[k] # None => receipt[k] = None
  /\ expired \subseteq {k \in Keys : receipt[k] # None}
  /\ frame \cup acking \cup ran \cup released \subseteq Keys

\* Every counter equals what it counts (reserveOwner, releasePending, release, the
\* subscriber budget): a flight's entry passes to its receipt and is returned once,
\* its pending share when it is over, a callback's slot when the callback runs.
Pending == {k \in Keys : pending[k] # None}
BudgetExact ==
  /\ used.entries = Cardinality(Pending) + Cardinality({k \in Keys : receipt[k] # None})
  /\ used.pending = Cardinality(Pending) /\ used.flights = Cardinality(Pending)
  /\ used.slots = Cardinality({p \in Copies \X Copies : p[2] \in flight[p[1]].subs})
                 + Cardinality({p \in Copies \X Copies : p[2] \in flight[p[1]].esubs})
  /\ \A a \in Copies :
       flight[a].slots = Cardinality(flight[a].subs) + Cardinality(flight[a].esubs)

\* No copy runs a request that another copy ran and that nobody aborted,
\* acknowledged or let expire (Acquire, Complete): not while the first copy's result
\* is on its way, and not after the outbox had no room for it.
RunsOnce ==
  [][\A a \in Copies : copy[a].at = "queued" /\ copy'[a].at = "ran" => copy[a].key \notin ran]_vars

\* The comments of Acknowledge and Complete: an acknowledgement leaves no receipt,
\* whichever of it and the completion comes first, and a receipt that promises a
\* replay has its frame in the outbox until the acknowledgement that took the frame
\* away has reached the ledger.
AckIsFinal ==
  /\ \A k \in released : receipt[k] = None
  /\ \A k \in Keys : receipt[k] # None /\ ~receipt[k].unavailable => k \in frame \cup acking

\* A callback runs once, as soon as what it waits for is there, and a copy that could
\* not subscribe has none installed (SubscribeResultAndExecution: both or neither).
Due(a) ==
  LET f == copy[a].join
  IN  [result |-> copy[a].at = "subscribed" /\ "result" \in copy[a].wants /\ flight[f].done,
       exec |-> copy[a].at = "subscribed" /\ "exec" \in copy[a].wants /\ flight[f].exec]
CalledOnce ==
  \A a \in Copies :
    /\ \A half \in {"result", "exec"} : told[a][half] = (IF Due(a)[half] THEN 1 ELSE 0)
    /\ copy[a].at # "subscribed" => \A b \in Copies : a \notin flight[b].subs \cup flight[b].esubs

\* Every copy that arrived comes to an end: it is refused, answered from the outbox,
\* runs its request to a completion or an abort, or hears how its owner's flight
\* ended.  No chain of copies that wait for each other is left.
NothingOwed(a) ==
  \/ copy[a].at \in {"new", "settled"}
  \/ copy[a].at = "subscribed" /\ \A half \in copy[a].wants : told[a][half] > 0
EveryCopySettles == []<>(\A a \in Copies : NothingOwed(a))
=============================================================================
