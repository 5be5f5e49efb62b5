-------------------------- MODULE RpcLedgerProofs --------------------------
(***************************************************************************)
(* The ledger's promises for every number of requests, copies and shards   *)
(* and every budget: an acknowledgement is final, no request runs again    *)
(* while its outcome is owed, each callback is called exactly once, and    *)
(* every counter equals what it counts and stays within its limit.         *)
(***************************************************************************)
EXTENDS RpcLedger, FiniteSetTheorems, TLAPS

Receipts == [known : BOOLEAN, unavailable : BOOLEAN]
Wants == SUBSET {"result", "exec"}
Arrivals == [at : Places, key : Keys \cup {None}, join : Copies \cup {None}, wants : Wants]
Flights == [exec : BOOLEAN, acked : BOOLEAN, handed : BOOLEAN, done : BOOLEAN,
            subs : SUBSET Copies, esubs : SUBSET Copies, slots : Int]

Typed ==
  /\ copy \in [Copies -> Arrivals]
  /\ pending \in [Keys -> Copies \cup {None}]
  /\ flight \in [Copies -> Flights]
  /\ receipt \in [Keys -> Receipts \cup {None}]
  /\ expired \subseteq Keys /\ frame \subseteq Keys /\ acking \subseteq Keys
  /\ ran \subseteq Keys /\ released \subseteq Keys

\* A flight and its owner name each other, and a request has a flight or a receipt.
Claimed ==
  /\ \A a \in Copies : copy[a].at \in Owning => copy[a].key \in Keys /\ Owns(a)
  /\ \A a \in Copies : copy[a].at \in {"reap", "again"} => copy[a].key \in Keys
  /\ \A k \in Keys : pending[k] # None =>
       /\ copy[pending[k]].key = k /\ copy[pending[k]].at \in Owning
       /\ receipt[k] = None

\* An acknowledgement has removed the receipt or is noted in the flight.
Noted ==
  \A k \in released :
    receipt[k] = None /\ (pending[k] # None => flight[pending[k]].acked)

\* Who promises a replay has the frame, or its acknowledgement is on its way or noted.
Framed ==
  /\ \A k \in Keys : receipt[k] # None /\ ~receipt[k].unavailable => k \in frame \cup acking
  /\ \A a \in Copies : copy[a].at = "replayable" =>
       copy[a].key \in frame \cup acking \/ flight[a].acked

\* A request that ran has a receipt or a flight that is past the queue.
Remembered ==
  \A k \in ran :
    receipt[k] # None \/ (pending[k] # None /\ copy[pending[k]].at # "queued")

IInv == Typed /\ Claimed /\ Noted /\ Framed /\ Remembered

USE DEF Stands, Owns

\* An empty ledger.
LEMMA InitIInv == Init => IInv
  BY LedgerAssumption
  DEF Init, IInv, Typed, Claimed, Noted, Framed, Remembered, Arrival, NoFlight, Places, Owning,
      Wants, Arrivals, Flights

-----------------------------------------------------------------------------
\* What a copy and a flight that are over look like.
LEMMA SettledCopy == Settled \in Arrivals /\ Settled.at = "settled"
  BY DEF Settled, Arrival, Arrivals, Places, Wants

\* A flight that is over is still a flight.
LEMMA EndedFlight == [NoFlight EXCEPT !.done = TRUE, !.exec = TRUE] \in Flights
<1> DEFINE start == [NoFlight EXCEPT !.done = TRUE]
           e == [start EXCEPT !.exec = TRUE]
<1>1. NoFlight \in Flights
  BY DEF NoFlight, Flights
<1> HIDE DEF start
<1>2. start \in Flights
  BY <1>1 DEF start, Flights
<1>3. e \in Flights
  BY <1>2 DEF Flights
<1>4. e = [NoFlight EXCEPT !.done = TRUE, !.exec = TRUE]
  BY DEF start
<1> QED
  BY <1>3, <1>4

\* What expiry leaves: the receipts that stay are as they were.
LEMMA KeptReceipts ==
  ASSUME Typed, NEW S
  PROVE  /\ Kept(S) \in [Keys -> Receipts \cup {None}]
         /\ \A k \in Keys : Kept(S)[k] = receipt[k] \/ Kept(S)[k] = None
         /\ \A k \in ran \ Dropped(S) : Kept(S)[k] = receipt[k]
  BY DEF Typed, Kept, Dropped

\* Acquire and its second try.
LEMMA ClaimStep ==
  ASSUME IInv, NEW a \in Copies, NEW k \in Keys, copy[a].at \in {"new", "again"}, Claim(a, k)
  PROVE  IInv'
<1> DEFINE S == {ShardOf[k]}
<1>1. /\ receipt' = Kept(S) /\ expired' = expired \ Dropped(S) /\ ran' = ran \ Dropped(S)
      /\ UNCHANGED <<flight, frame, acking>>
  BY DEF Claim, Reaped, outboxVars
<1>2. CASE Outcome(a, k) = "queued"
  <2>1. Kept(S)[k] = None /\ pending[k] = None
    BY <1>2 DEF Outcome
  <2>2. /\ copy' = [copy EXCEPT ![a] = [at |-> "queued", key |-> k, wants |-> {}, join |-> None]]
        /\ pending' = [pending EXCEPT ![k] = a]
        /\ released' = released \ {k}
    BY <1>2 DEF Claim
  <2>3. Typed'
    <3>1. [at |-> "queued", key |-> k, wants |-> {}, join |-> None] \in Arrivals
      BY DEF Arrivals, Places, Wants
    <3> QED
      BY <1>1, <2>2, <3>1, KeptReceipts DEF IInv, Typed
  <2>4. \A b \in Copies : b # a => copy'[b] = copy[b]
    BY <2>2 DEF IInv, Typed
  <2>5. copy'[a].at = "queued" /\ copy'[a].key = k /\ a # None
    BY <2>2, LedgerAssumption DEF IInv, Typed
  <2>6. \A j \in Keys : j # k => pending'[j] = pending[j] /\ pending[j] # a
    BY <2>2, LedgerAssumption DEF IInv, Typed, Claimed, Owning
  <2>7. pending'[k] = a /\ receipt'[k] = None /\ k \notin released'
    BY <1>1, <2>1, <2>2 DEF IInv, Typed
  <2>8. Claimed'
    BY <1>1, <2>1, <2>2, <2>3, <2>4, <2>5, <2>6, <2>7, KeptReceipts, LedgerAssumption
    DEF IInv, Typed, Claimed, Owning
  <2>9. Noted'
    BY <1>1, <2>2, <2>6, <2>7, KeptReceipts DEF IInv, Typed, Noted
  <2>10. Framed'
    BY <1>1, <2>4, <2>5, KeptReceipts DEF IInv, Typed, Framed
  <2>11. Remembered'
    BY <1>1, <2>1, <2>4, <2>6, KeptReceipts DEF IInv, Typed, Claimed, Remembered
  <2> QED
    BY <2>3, <2>8, <2>9, <2>10, <2>11 DEF IInv
<1>3. CASE Outcome(a, k) # "queued"
  <2>1. UNCHANGED <<pending, released>>
    BY <1>3 DEF Claim
  <2> DEFINE joined == [at |-> Outcome(a, k), key |-> k, wants |-> {},
                        join |-> IF Outcome(a, k) = "joined" THEN pending[k] ELSE None]
  <2>2. PICK r \in Arrivals :
             /\ copy' = [copy EXCEPT ![a] = r]
             /\ r.at \in {"settled", "joined", "reap"} /\ (r.at = "reap" => r.key = k)
    <3>1. Outcome(a, k) \in {"settled", "joined", "reap"}
      BY <1>3 DEF Outcome
    <3>2. pending[k] \in Copies \cup {None}
      BY DEF IInv, Typed
    <3>3. copy' = [copy EXCEPT ![a] = IF Outcome(a, k) = "settled" THEN Settled ELSE joined]
      BY DEF Claim
    <3>4. CASE Outcome(a, k) = "settled"
      BY <3>3, <3>4, SettledCopy
    <3>5. CASE Outcome(a, k) # "settled"
      <4>1. joined \in Arrivals /\ joined.at = Outcome(a, k) /\ joined.key = k
        BY <3>1, <3>2 DEF Arrivals, Places, Wants
      <4> QED
        BY <3>1, <3>3, <3>5, <4>1
    <3> QED
      BY <3>4, <3>5
  <2>3. Typed'
    BY <1>1, <2>1, <2>2, KeptReceipts DEF IInv, Typed
  <2>4. \A b \in Copies : b # a => copy'[b] = copy[b]
    BY <2>2 DEF IInv, Typed
  <2>5. copy'[a].at \in {"settled", "joined", "reap"} /\ (copy'[a].at = "reap" => copy'[a].key = k)
    BY <2>2 DEF IInv, Typed
  <2>6. \A j \in Keys : pending[j] # a
    BY LedgerAssumption DEF IInv, Typed, Claimed, Owning
  <2>7. Claimed'
    <3>1. ASSUME NEW b \in Copies, copy'[b].at \in Owning
          PROVE  copy'[b].key \in Keys /\ pending'[copy'[b].key] = b
      BY <3>1, <2>1, <2>4, <2>5 DEF IInv, Claimed, Owning
    <3>2. ASSUME NEW b \in Copies, copy'[b].at \in {"reap", "again"}
          PROVE  copy'[b].key \in Keys
      BY <3>2, <2>4, <2>5 DEF IInv, Claimed
    <3>3. ASSUME NEW j \in Keys, pending'[j] # None
          PROVE  copy'[pending'[j]].key = j /\ copy'[pending'[j]].at \in Owning /\ receipt'[j] = None
      BY <3>3, <1>1, <2>1, <2>4, <2>6, KeptReceipts DEF IInv, Typed, Claimed
    <3> QED
      BY <3>1, <3>2, <3>3, LedgerAssumption DEF Claimed
  <2>8. Noted' /\ Framed'
    BY <1>1, <2>1, <2>4, <2>5, KeptReceipts DEF IInv, Typed, Noted, Framed
  <2>9. Remembered'
    BY <1>1, <2>1, <2>4, <2>6, KeptReceipts DEF IInv, Typed, Remembered
  <2> QED
    BY <2>3, <2>7, <2>8, <2>9 DEF IInv
<1> QED
  BY <1>2, <1>3

\* Steps of a copy that owns nothing, before and after it.
LEMMA BystanderStep ==
  ASSUME IInv, NEW a \in Copies, copy[a].at \notin Owning,
         Typed', \A b \in Copies : b # a => copy'[b] = copy[b], copy'[a].at \notin Owning,
         copy'[a].at \in {"reap", "again"} => copy'[a].key \in Keys,
         receipt' \in [Keys -> Receipts \cup {None}],
         \A k \in Keys : receipt'[k] = receipt[k] \/ receipt'[k] = None,
         \A k \in ran' : receipt'[k] = receipt[k], ran' \subseteq ran,
         \A b \in Copies : flight'[b].acked = flight[b].acked,
         UNCHANGED <<pending, frame, acking, released>>
  PROVE  IInv'
<1>1. \A j \in Keys : pending[j] # a
  BY LedgerAssumption DEF IInv, Typed, Claimed
<1>2. Claimed'
  <2>1. ASSUME NEW b \in Copies, copy'[b].at \in Owning
        PROVE  copy'[b].key \in Keys /\ pending'[copy'[b].key] = b
    BY <2>1, <1>1, LedgerAssumption DEF IInv, Claimed
  <2>2. ASSUME NEW b \in Copies, copy'[b].at \in {"reap", "again"}
        PROVE  copy'[b].key \in Keys
    BY <2>2 DEF IInv, Claimed, Owning
  <2>3. ASSUME NEW k \in Keys, pending'[k] # None
        PROVE  copy'[pending'[k]].key = k /\ copy'[pending'[k]].at \in Owning /\ receipt'[k] = None
    BY <2>3, <1>1 DEF IInv, Typed, Claimed
  <2> QED
    BY <2>1, <2>2, <2>3, LedgerAssumption DEF Claimed
<1>3. Noted'
  BY DEF IInv, Typed, Noted
<1>4. Framed'
  BY DEF IInv, Typed, Framed, Owning
<1>5. Remembered'
  BY <1>1 DEF IInv, Typed, Remembered
<1> QED
  BY <1>2, <1>3, <1>4, <1>5 DEF IInv

\* Steps of an owner that keep its claim.
LEMMA OwnerStep ==
  ASSUME IInv, NEW a \in Copies, copy[a].at \in Owning,
         Typed', \A b \in Copies : b # a => copy'[b] = copy[b],
         copy'[a].key = copy[a].key, copy'[a].at \in Owning \ {"queued"},
         copy'[a].at = "replayable" => copy[a].key \in frame,
         UNCHANGED <<pending, receipt, acking, released>>,
         ran' \subseteq ran \cup {copy[a].key}, frame \subseteq frame',
         \A b \in Copies : flight'[b].acked = flight[b].acked
  PROVE  IInv'
<1>1. copy[a].key \in Keys /\ pending[copy[a].key] = a /\ a # None
  BY LedgerAssumption DEF IInv, Claimed
<1>2. Claimed'
  <2>1. ASSUME NEW b \in Copies, copy'[b].at \in Owning
        PROVE  copy'[b].key \in Keys /\ pending'[copy'[b].key] = b
    BY <2>1, <1>1, LedgerAssumption DEF IInv, Claimed
  <2>2. ASSUME NEW b \in Copies, copy'[b].at \in {"reap", "again"}
        PROVE  copy'[b].key \in Keys
    BY <2>2 DEF IInv, Claimed, Owning
  <2>3. ASSUME NEW k \in Keys, pending'[k] # None
        PROVE  copy'[pending'[k]].key = k /\ copy'[pending'[k]].at \in Owning /\ receipt'[k] = None
    BY <2>3, <1>1 DEF IInv, Typed, Claimed
  <2> QED
    BY <2>1, <2>2, <2>3, LedgerAssumption DEF Claimed
<1>3. Noted'
  BY DEF IInv, Typed, Noted
<1>4. Framed'
  BY DEF IInv, Typed, Framed
<1>5. Remembered'
  BY <1>1 DEF IInv, Typed, Claimed, Remembered
<1> QED
  BY <1>2, <1>3, <1>4, <1>5 DEF IInv

\* Steps that end an owner's claim.
LEMMA EndStep ==
  ASSUME IInv, NEW a \in Copies, NEW k \in Keys, k = copy[a].key, copy[a].at \in Owning,
         Typed', \A b \in Copies : b # a => copy'[b] = copy[b], copy'[a].at = "settled",
         pending' = [pending EXCEPT ![k] = None],
         \A j \in Keys \ {k} : receipt'[j] = receipt[j] \/ (receipt'[j] = None /\ j \notin ran'),
         k \in released => receipt'[k] = None,
         receipt'[k] # None /\ ~receipt'[k].unavailable => k \in frame \cup acking,
         ran' \subseteq ran, k \in ran' => receipt'[k] # None,
         \A b \in Copies : b # a => flight'[b].acked = flight[b].acked,
         UNCHANGED <<frame, acking, released>>
  PROVE  IInv'
<1>1. pending[k] = a /\ a # None /\ pending'[k] = None
  BY LedgerAssumption DEF IInv, Typed, Claimed
<1>2. \A j \in Keys \ {k} : pending'[j] = pending[j] /\ pending[j] # a
  BY <1>1 DEF IInv, Typed, Claimed
<1>3. Claimed'
  <2>1. ASSUME NEW b \in Copies, copy'[b].at \in Owning
        PROVE  copy'[b].key \in Keys /\ pending'[copy'[b].key] = b
    <3>1. b # a /\ copy'[b] = copy[b]
      BY <2>1 DEF Owning
    <3>2. copy[b].key \in Keys /\ pending[copy[b].key] = b
      BY <2>1, <3>1 DEF IInv, Claimed
    <3> QED
      BY <1>1, <1>2, <3>1, <3>2
  <2>3. ASSUME NEW b \in Copies, copy'[b].at \in {"reap", "again"}
        PROVE  copy'[b].key \in Keys
    BY <2>3 DEF IInv, Claimed
  <2>2. ASSUME NEW j \in Keys, pending'[j] # None
        PROVE  copy'[pending'[j]].key = j /\ copy'[pending'[j]].at \in Owning /\ receipt'[j] = None
    <3>1. j # k /\ pending'[j] = pending[j] /\ pending[j] # a /\ pending[j] \in Copies
      BY <1>1, <1>2, <2>2 DEF IInv, Typed
    <3> QED
      BY <2>2, <3>1 DEF IInv, Claimed
  <2> QED
    BY <2>1, <2>2, <2>3, LedgerAssumption DEF Claimed
<1>4. Noted'
  <2>1. \A j \in released : j # k /\ pending[j] # None => flight'[pending[j]].acked
    BY <1>2 DEF IInv, Typed, Noted
  <2> QED
    BY <1>1, <1>2, <2>1 DEF IInv, Typed, Noted
<1>5. Framed'
  BY DEF IInv, Typed, Framed
<1>6. Remembered'
  BY <1>1, <1>2 DEF IInv, Typed, Remembered
<1> QED
  BY <1>3, <1>4, <1>5, <1>6 DEF IInv

-----------------------------------------------------------------------------
\* ObserveDependency.
LEMMA ObserveStep ==
  ASSUME IInv, NEW a \in Copies, Observe(a)
  PROVE  IInv'
<1>1. PICK k \in Keys : ObserveOn(a, k)
  BY DEF Observe
<1> DEFINE gone == Dropped({ShardOf[k]}) \cap {k}
           r == IF gone = {} THEN receipt[k] ELSE None
           joins == r = None /\ pending[k] # None
                    /\ ~(IF r # None THEN r.known ELSE pending[k] # None /\ flight[pending[k]].exec)
           c == IF joins THEN [at |-> "joined", key |-> k, join |-> pending[k], wants |-> {"exec"}]
                ELSE Settled
<1>2. /\ receipt' = [receipt EXCEPT ![k] = r] /\ expired' = expired \ gone
      /\ ran' = ran \ gone /\ copy' = [copy EXCEPT ![a] = c]
      /\ UNCHANGED <<pending, flight, frame, acking, released>>
  BY <1>1 DEF ObserveOn, outboxVars
<1>3. r \in Receipts \cup {None} /\ (r = receipt[k] \/ (r = None /\ k \in gone))
  BY DEF IInv, Typed, Dropped
<1>4. c \in Arrivals /\ c.at \in {"joined", "settled"}
  <2>1. joins => pending[k] \in Copies
    BY DEF IInv, Typed
  <2>2. joins => [at |-> "joined", key |-> k, join |-> pending[k], wants |-> {"exec"}] \in Arrivals
    BY <2>1 DEF Arrivals, Places, Wants
  <2> QED
    BY <2>2, SettledCopy
<1> HIDE DEF gone, r, joins, c
<1>5. Typed'
  BY <1>2, <1>3, <1>4 DEF IInv, Typed
<1>6. copy'[a] = c /\ \A b \in Copies : b # a => copy'[b] = copy[b]
  BY <1>2 DEF IInv, Typed
<1>7. /\ \A j \in Keys : receipt'[j] = receipt[j] \/ receipt'[j] = None
      /\ \A j \in ran' : receipt'[j] = receipt[j]
  BY <1>2, <1>3 DEF IInv, Typed
<1>8. receipt' \in [Keys -> Receipts \cup {None}] /\ ran' \subseteq ran
  BY <1>2, <1>5 DEF Typed
<1>9. copy[a].at \notin Owning /\ copy'[a].at \notin Owning
  BY <1>4, <1>6 DEF Observe, Owning
<1>10. copy'[a].at \notin {"reap", "again"} /\ \A b \in Copies : flight'[b].acked = flight[b].acked
  BY <1>2, <1>4, <1>6
<1> QED
  BY <1>2, <1>5, <1>6, <1>7, <1>8, <1>9, <1>10, BystanderStep

\* The receipts of every shard.
LEMMA ReapStep ==
  ASSUME IInv, NEW a \in Copies, ReapAll(a)
  PROVE  IInv'
<1>1. /\ copy[a].at = "reap" /\ copy' = [copy EXCEPT ![a].at = "again"]
      /\ receipt' = Kept(Shards) /\ expired' = expired \ Dropped(Shards)
      /\ ran' = ran \ Dropped(Shards)
      /\ UNCHANGED <<pending, flight, frame, acking, released>>
  BY DEF ReapAll, Reaped, Moves, outboxVars
<1>2. Typed'
  <2>1. [copy[a] EXCEPT !.at = "again"] \in Arrivals
    BY DEF IInv, Typed, Arrivals, Places
  <2>2. copy' \in [Copies -> Arrivals]
    BY <1>1, <2>1 DEF IInv, Typed
  <2> QED
    BY <1>1, <2>2, KeptReceipts DEF IInv, Typed
<1>3. copy'[a].at = "again" /\ copy'[a].key \in Keys /\ \A b \in Copies : b # a => copy'[b] = copy[b]
  BY <1>1 DEF IInv, Typed, Claimed, Arrivals
<1>4. copy[a].at \notin Owning /\ copy'[a].at \notin Owning
  BY <1>1, <1>3 DEF Owning
<1>5. receipt' \in [Keys -> Receipts \cup {None}] /\ ran' \subseteq ran /\ ran' \subseteq Keys
  BY <1>1, <1>2 DEF Typed
<1>6. /\ \A k \in Keys : receipt'[k] = receipt[k] \/ receipt'[k] = None
      /\ \A k \in ran' : receipt'[k] = receipt[k]
  BY <1>1, KeptReceipts DEF IInv
<1> QED
  BY <1>1, <1>2, <1>3, <1>4, <1>5, <1>6, BystanderStep

\* A replay or a dependant subscribes, is refused, or is called at once.
LEMMA SubscribeStep ==
  ASSUME IInv, NEW a \in Copies, SubscribeAs(a)
  PROVE  IInv'
<1>1. PICK w \in Wants : Subscribe(a, w)
  BY DEF SubscribeAs, Wants
<1> DEFINE f == copy[a].join
           new == Cardinality(IF flight[f].exec THEN w \ {"exec"} ELSE w)
<1>2. new \in Int
  <2>1. IsFiniteSet({"result"}) /\ IsFiniteSet({"result", "exec"})
    <3>1. {"result", "exec"} = {"result"} \cup {"exec"}
      OBVIOUS
    <3>2. IsFiniteSet({"result"})
      BY FS_Singleton, Zenon
    <3>3. IsFiniteSet({"result"} \cup {"exec"})
      BY <3>2, FS_AddElement, Zenon
    <3> QED
      BY <3>1, <3>2, <3>3
  <2>2. IsFiniteSet(IF flight[f].exec THEN w \ {"exec"} ELSE w)
    BY <2>1, FS_Subset DEF Wants
  <2> QED
    BY <2>2, FS_CardinalityType
<1>3. /\ copy[a].at = "joined"
      /\ UNCHANGED <<pending, receipt, expired, frame, acking, ran, released>>
      /\ \/ copy' = [copy EXCEPT ![a] = Settled]
         \/ copy' = [copy EXCEPT ![a].at = "subscribed", ![a].wants = w]
      /\ \/ flight' = flight
         \/ flight' = [flight EXCEPT
                ![f].slots = @ + new,
                ![f].subs = @ \cup (IF "result" \in w THEN {a} ELSE {}),
                ![f].esubs = IF flight[f].exec THEN @ ELSE @ \cup (IF "exec" \in w THEN {a} ELSE {})]
  BY <1>1 DEF Subscribe, Settles, outboxVars
<1> HIDE DEF new
<1>4. /\ flight' \in [Copies -> Flights]
      /\ \A b \in Copies : flight'[b].acked = flight[b].acked
  <2>1. CASE flight' = flight
    BY <2>1 DEF IInv, Typed
  <2>2. CASE flight' = [flight EXCEPT
               ![f].slots = @ + new,
               ![f].subs = @ \cup (IF "result" \in w THEN {a} ELSE {}),
               ![f].esubs = IF flight[f].exec THEN @ ELSE @ \cup (IF "exec" \in w THEN {a} ELSE {})]
    <3> DEFINE old == flight[f]
               g1 == [old EXCEPT !.slots = @ + new]
               g2 == [g1 EXCEPT !.subs = @ \cup (IF "result" \in w THEN {a} ELSE {})]
               g == [g2 EXCEPT
                       !.esubs = IF flight[f].exec THEN @ ELSE @ \cup (IF "exec" \in w THEN {a} ELSE {})]
    <3>1. flight' = [flight EXCEPT ![f] = g]
      BY <2>2
    <3>2. f \in Copies => old \in Flights /\ old.acked = flight[f].acked
      BY DEF IInv, Typed
    <3> HIDE DEF old
    <3>3. f \in Copies => g1 \in Flights /\ g1.acked = old.acked
      BY <1>2, <3>2 DEF Flights
    <3> HIDE DEF g1
    <3>4. f \in Copies => g2 \in Flights /\ g2.acked = g1.acked
      BY <3>3 DEF Flights
    <3> HIDE DEF g2
    <3>5. f \in Copies => g \in Flights /\ g.acked = g2.acked
      BY <3>4 DEF Flights
    <3> HIDE DEF g
    <3> QED
      BY <3>1, <3>2, <3>3, <3>4, <3>5 DEF IInv, Typed
  <2> QED
    BY <1>3, <2>1, <2>2
<1>5. /\ copy' \in [Copies -> Arrivals]
      /\ copy'[a].at \in {"settled", "subscribed"}
      /\ \A b \in Copies : b # a => copy'[b] = copy[b]
  <2>1. [copy[a] EXCEPT !.at = "subscribed", !.wants = w] \in Arrivals
    BY DEF IInv, Typed, Arrivals, Places
  <2>2. CASE copy' = [copy EXCEPT ![a] = Settled]
    BY <2>2, SettledCopy DEF IInv, Typed
  <2>3. CASE copy' = [copy EXCEPT ![a].at = "subscribed", ![a].wants = w]
    BY <2>1, <2>3 DEF IInv, Typed, Arrivals
  <2> QED
    BY <1>3, <2>2, <2>3
<1>7. Typed'
  BY <1>3, <1>4, <1>5 DEF IInv, Typed
<1>8. copy'[a].at \notin {"reap", "again"} /\ receipt' \in [Keys -> Receipts \cup {None}]
  BY <1>5, <1>7 DEF Typed
<1>6. copy[a].at \notin Owning /\ copy'[a].at \notin Owning
  BY <1>3, <1>5 DEF Owning
<1> QED
  BY <1>3, <1>4, <1>5, <1>6, <1>7, <1>8, BystanderStep

\* The owner's steps up to its completion.
LEMMA OwnerMoves ==
  ASSUME IInv, NEW a \in Copies,
         Run(a) \/ TimeOut(a) \/ CompleteExecution(a) \/ HandOff(a) \/ CheckFrame(a)
  PROVE  IInv'
<1>1. Cardinality(flight[a].esubs) \in Int
  <2>1. IsFiniteSet(flight[a].esubs)
    BY LedgerAssumption, FS_Subset DEF IInv, Typed, Flights
  <2> QED
    BY <2>1, FS_CardinalityType
<1>2. copy[a].at \in {"queued", "ran", "executed", "sent"}
  BY DEF Run, TimeOut, CompleteExecution, HandOff, CheckFrame
<1>3. copy[a].key \in Keys
  BY <1>2 DEF IInv, Claimed, Owning
<1>4. PICK at \in Owning \ {"queued"} :
        copy' = [copy EXCEPT ![a].at = at] /\ (at = "replayable" => copy[a].key \in frame)
  BY DEF Run, TimeOut, CompleteExecution, HandOff, CheckFrame, Moves, Owning
<1>5. /\ UNCHANGED <<pending, receipt, expired, acking, released>>
      /\ ran' \in {ran, ran \cup {copy[a].key}}
      /\ frame' \in {frame, frame \cup {copy[a].key}}
  BY DEF Run, TimeOut, CompleteExecution, HandOff, CheckFrame, OnlyOwner, ledgerVars, outboxVars
<1>6. /\ flight' \in [Copies -> Flights]
      /\ \A b \in Copies : flight'[b].acked = flight[b].acked
  <2>1. CASE CompleteExecution(a)
    <3> DEFINE old == flight[a]
               g1 == [old EXCEPT !.exec = TRUE]
               g2 == [g1 EXCEPT !.esubs = {}]
               g == [g2 EXCEPT !.slots = @ - Cardinality(flight[a].esubs)]
    <3>1. flight' = [flight EXCEPT ![a] = g]
      BY <2>1 DEF CompleteExecution
    <3>2. old \in Flights /\ old.acked = flight[a].acked
      BY DEF IInv, Typed
    <3> HIDE DEF old
    <3>3. g1 \in Flights /\ g1.acked = old.acked
      BY <3>2 DEF Flights
    <3> HIDE DEF g1
    <3>4. g2 \in Flights /\ g2.acked = g1.acked
      BY <3>3 DEF Flights
    <3> HIDE DEF g2
    <3>5. g \in Flights /\ g.acked = g2.acked
      BY <1>1, <3>4 DEF Flights
    <3> HIDE DEF g
    <3> QED
      BY <3>1, <3>2, <3>3, <3>4, <3>5 DEF IInv, Typed
  <2>2. CASE HandOff(a)
    <3>1. flight' = [flight EXCEPT ![a].handed = TRUE]
      BY <2>2 DEF HandOff
    <3> QED
      BY <3>1 DEF IInv, Typed, Flights
  <2>3. CASE Run(a) \/ TimeOut(a) \/ CheckFrame(a)
    <3>1. flight' = flight
      BY <2>3 DEF Run, TimeOut, CheckFrame, OnlyOwner, ledgerVars
    <3> QED
      BY <3>1 DEF IInv, Typed
  <2> QED
    BY <2>1, <2>2, <2>3
<1>7. Typed'
  <2>1. [copy[a] EXCEPT !.at = at] \in Arrivals
    BY DEF IInv, Typed, Arrivals, Places, Owning
  <2>2. copy' \in [Copies -> Arrivals]
    BY <1>4, <2>1 DEF IInv, Typed
  <2> QED
    BY <1>3, <1>5, <1>6, <2>2 DEF IInv, Typed
<1>8. copy'[a].at = at /\ copy'[a].key = copy[a].key /\ \A b \in Copies : b # a => copy'[b] = copy[b]
  BY <1>4 DEF IInv, Typed, Arrivals
<1> QED
  BY <1>2, <1>4, <1>5, <1>6, <1>7, <1>8, OwnerStep DEF Owning

\* Complete: the flight becomes a receipt, unless it was acknowledged.
LEMMA PublishStep ==
  ASSUME IInv, NEW a \in Copies, Publish(a)
  PROVE  IInv'
<1> DEFINE k == copy[a].key
           S == {ShardOf[k]}
<1>1. /\ copy[a].at \in {"replayable", "fenced"} /\ k \in Keys
      /\ copy' = [copy EXCEPT ![a] = Settled]
      /\ pending' = [pending EXCEPT ![k] = None]
      /\ receipt' = [Kept(S) EXCEPT ![k] = ReceiptOf(a)]
      /\ expired' = expired \ Dropped(S)
      /\ ran' = ran \ (Dropped(S) \cup {x \in {k} : flight[a].acked})
      /\ flight' = [flight EXCEPT ![a] = [NoFlight EXCEPT !.done = TRUE, !.exec = TRUE]]
      /\ UNCHANGED <<frame, acking, released>>
  BY DEF Publish, Settles, Over, outboxVars, IInv, Claimed, Owning
<1>2. ReceiptOf(a) \in Receipts \cup {None}
  BY DEF ReceiptOf, Receipts, IInv, Typed, Flights
<1>3. Typed'
  <2>1. receipt' \in [Keys -> Receipts \cup {None}]
    BY <1>1, <1>2, KeptReceipts DEF IInv
  <2>2. copy' \in [Copies -> Arrivals] /\ flight' \in [Copies -> Flights]
    BY <1>1, SettledCopy, EndedFlight DEF IInv, Typed
  <2>3. pending' \in [Keys -> Copies \cup {None}]
    BY <1>1 DEF IInv, Typed
  <2> QED
    BY <1>1, <2>1, <2>2, <2>3 DEF IInv, Typed
<1>4. receipt'[k] = ReceiptOf(a) /\ \A j \in Keys \ {k} : receipt'[j] = Kept(S)[j]
  BY <1>1, <1>2, KeptReceipts DEF IInv
<1>5. copy'[a].at = "settled" /\ \A b \in Copies : b # a => copy'[b] = copy[b]
  BY <1>1, SettledCopy DEF IInv, Typed
<1>6. \A b \in Copies : b # a => flight'[b].acked = flight[b].acked
  BY <1>1 DEF IInv, Typed
<1>7. k \in released => receipt'[k] = None
  <2>1. k \in released => flight[a].acked
    BY <1>1, LedgerAssumption DEF IInv, Claimed, Noted, Owning
  <2> QED
    BY <1>4, <2>1 DEF ReceiptOf
<1>8. receipt'[k] # None /\ ~receipt'[k].unavailable => k \in frame \cup acking
  <2>1. CASE flight[a].acked
    BY <1>4, <2>1 DEF ReceiptOf
  <2>2. CASE ~flight[a].acked
    <3>1. receipt'[k].unavailable = (copy[a].at = "fenced")
      BY <1>4, <2>2 DEF ReceiptOf
    <3> QED
      BY <1>1, <2>2, <3>1 DEF IInv, Framed
  <2> QED
    BY <2>1, <2>2
<1>9. k \in ran' => receipt'[k] # None
  <2>1. ~flight[a].acked => ReceiptOf(a) \in Receipts
    BY DEF ReceiptOf, Receipts, IInv, Typed, Flights
  <2>2. None \notin Receipts
    BY LedgerAssumption DEF Receipts
  <2> QED
    BY <1>1, <1>4, <2>1, <2>2
<1>10. \A j \in Keys \ {k} : receipt'[j] = receipt[j] \/ (receipt'[j] = None /\ j \notin ran')
  BY <1>1, <1>4 DEF Kept, Dropped
<1>11. copy[a].at \in Owning /\ ran' \subseteq ran
  BY <1>1 DEF Owning
<1> HIDE DEF S
<1> QED
  BY <1>1, <1>3, <1>5, <1>6, <1>7, <1>8, <1>9, <1>10, <1>11, EndStep

\* Abort: nothing is left of the request.
LEMMA AbortStep ==
  ASSUME IInv, NEW a \in Copies, Abort(a)
  PROVE  IInv'
<1> DEFINE k == copy[a].key
<1>1. /\ copy[a].at \in {"queued", "ran", "executed"} /\ k \in Keys
      /\ copy' = [copy EXCEPT ![a] = Settled]
      /\ pending' = [pending EXCEPT ![k] = None]
      /\ ran' = ran \ {k}
      /\ flight' = [flight EXCEPT ![a] = [NoFlight EXCEPT !.done = TRUE, !.exec = TRUE]]
      /\ UNCHANGED <<receipt, expired, frame, acking, released>>
  BY DEF Abort, Settles, Over, outboxVars, IInv, Claimed, Owning
<1>2. Typed'
  <2>1. copy' \in [Copies -> Arrivals] /\ flight' \in [Copies -> Flights]
    BY <1>1, SettledCopy, EndedFlight DEF IInv, Typed
  <2>2. pending' \in [Keys -> Copies \cup {None}]
    BY <1>1 DEF IInv, Typed
  <2> QED
    BY <1>1, <2>1, <2>2 DEF IInv, Typed
<1>3. copy'[a].at = "settled" /\ \A b \in Copies : b # a => copy'[b] = copy[b]
  BY <1>1, SettledCopy DEF IInv, Typed
<1>4. \A b \in Copies : b # a => flight'[b].acked = flight[b].acked
  BY <1>1 DEF IInv, Typed
<1>5. receipt'[k] = None
  BY <1>1, LedgerAssumption DEF IInv, Claimed, Owning
<1>6. copy[a].at \in Owning /\ ran' \subseteq ran /\ k \notin ran'
  BY <1>1 DEF Owning
<1>7. \A j \in Keys \ {k} : receipt'[j] = receipt[j]
  BY <1>1
<1> QED
  BY <1>1, <1>2, <1>3, <1>4, <1>5, <1>6, <1>7, EndStep

\* The acknowledgement's two halves, and a receipt's expiry.
LEMMA AckStep ==
  ASSUME IInv, NEW k \in Keys, AckFrame(k) \/ Acknowledge(k) \/ Expire(k)
  PROVE  IInv'
<1>1. CASE AckFrame(k)
  BY <1>1 DEF AckFrame, ledgerVars, IInv, Typed, Claimed, Noted, Framed, Remembered
<1>2. CASE Expire(k)
  BY <1>2 DEF Expire, outboxVars, IInv, Typed, Claimed, Noted, Framed, Remembered
<1>3. CASE Acknowledge(k)
  <2> DEFINE S == {ShardOf[k]}
             f == pending[k]
  <2>1. /\ acking' = acking \ {k} /\ receipt' = [Kept(S) EXCEPT ![k] = None]
        /\ expired' = expired \ Dropped(S) /\ ran' = (ran \ Dropped(S)) \ {k}
        /\ released' = released \cup {k}
        /\ flight' = IF Kept(S)[k] = None /\ f # None THEN [flight EXCEPT ![f].acked = TRUE] ELSE flight
        /\ UNCHANGED <<copy, pending, frame>>
    BY <1>3 DEF Acknowledge
  <2>2. f # None => Kept(S)[k] = None
    BY DEF IInv, Claimed, Kept
  <2>3. Typed'
    <3>1. receipt' \in [Keys -> Receipts \cup {None}]
      BY <2>1, KeptReceipts DEF IInv
    <3>2. flight' \in [Copies -> Flights]
      BY <2>1 DEF IInv, Typed, Flights
    <3> QED
      BY <2>1, <3>1, <3>2 DEF IInv, Typed
  <2>4. receipt'[k] = None /\ \A j \in Keys \ {k} : receipt'[j] = Kept(S)[j]
    BY <2>1, KeptReceipts DEF IInv
  <2>5. \A j \in Keys : receipt'[j] = receipt[j] \/ receipt'[j] = None
    BY <2>4, KeptReceipts DEF IInv
  <2>6. /\ f # None => flight'[f].acked
        /\ \A b \in Copies : flight[b].acked => flight'[b].acked
    BY <2>1, <2>2 DEF IInv, Typed, Flights
  <2>7. Claimed'
    BY <2>1, <2>5 DEF IInv, Typed, Claimed
  <2>8. Noted'
    <3>1. ASSUME NEW j \in Keys, j \in released, j # k
          PROVE  receipt'[j] = None /\ (pending'[j] # None => flight'[pending'[j]].acked)
      BY <3>1, <2>1, <2>5, <2>6 DEF IInv, Typed, Noted
    <3>2. receipt'[k] = None /\ (pending'[k] # None => flight'[pending'[k]].acked)
      BY <2>1, <2>4, <2>6
    <3> QED
      BY <2>1, <3>1, <3>2 DEF IInv, Typed, Noted
  <2>9. Framed'
    <3>1. ASSUME NEW b \in Copies, copy[b].at = "replayable", copy[b].key = k
          PROVE  flight'[b].acked
      <4>1. pending[k] = b
        BY <3>1 DEF IInv, Claimed, Owning
      <4> QED
        BY <2>6, <4>1, LedgerAssumption
    <3> QED
      BY <2>1, <2>4, <2>5, <2>6, <3>1 DEF IInv, Typed, Framed
  <2>10. Remembered'
    BY <2>1, <2>4, KeptReceipts DEF IInv, Typed, Remembered
  <2> QED
    BY <2>3, <2>7, <2>8, <2>9, <2>10 DEF IInv
<1> QED
  BY <1>1, <1>2, <1>3

\* A destroyed session.
LEMMA ForgetStep ==
  ASSUME IInv, ForgetSession
  PROVE  IInv'
<1>1. /\ \A k \in Keys : pending[k] = None
      /\ receipt' = [k \in Keys |-> None] /\ expired' = {} /\ frame' = {}
      /\ ran' = ran \ {k \in Keys : receipt[k] # None}
      /\ UNCHANGED <<copy, pending, flight, acking, released>>
  BY DEF ForgetSession
<1>2. \A a \in Copies : copy[a].at \notin Owning
  BY <1>1, LedgerAssumption DEF IInv, Claimed
<1>3. Typed' /\ Claimed' /\ Noted'
  BY <1>1 DEF IInv, Typed, Claimed, Noted
<1>4. Framed'
  BY <1>1, <1>2 DEF Framed, Owning
<1>5. Remembered'
  BY <1>1 DEF IInv, Typed, Remembered
<1> QED
  BY <1>3, <1>4, <1>5 DEF IInv

-----------------------------------------------------------------------------
\* Every step preserves the invariant.
LEMMA NextIInv == IInv /\ [Next]_vars => IInv'
<1> SUFFICES ASSUME IInv, [Next]_vars PROVE IInv'
  OBVIOUS
<1>1. ASSUME NEW a \in Copies, Acquire(a) \/ AcquireAgain(a)
      PROVE  IInv'
  <2>1. CASE Acquire(a)
    BY <2>1, ClaimStep DEF Acquire
  <2>2. CASE AcquireAgain(a)
    <3>1. copy[a].at = "again" /\ Claim(a, copy[a].key)
      BY <2>2 DEF AcquireAgain
    <3>2. copy[a].key \in Keys
      BY <3>1 DEF IInv, Claimed
    <3> QED
      BY <3>1, <3>2, ClaimStep
  <2> QED
    BY <1>1, <2>1, <2>2
<1>2. ASSUME NEW a \in Copies, CopyStep(a) \/ Observe(a) \/ TimeOut(a) \/ Abort(a)
      PROVE  IInv'
  BY <1>1, <1>2, ObserveStep, ReapStep, SubscribeStep, OwnerMoves, PublishStep, AbortStep
  DEF CopyStep
<1>3. CASE UNCHANGED vars
  BY <1>3 DEF vars, ledgerVars, outboxVars, IInv, Typed, Claimed, Noted, Framed, Remembered
<1> QED
  BY <1>1, <1>2, <1>3, AckStep, ForgetStep DEF Next

\* The invariant holds in every reachable state.
THEOREM Inductive == Spec => []IInv
  BY InitIInv, NextIInv, PTL DEF Spec

\* An acknowledgement is final, and a receipt that promises a replay has its frame.
THEOREM AckIsFinalHolds == Spec => []AckIsFinal
<1>1. IInv => AckIsFinal
  BY DEF IInv, Noted, Framed, AckIsFinal
<1> QED
  BY <1>1, Inductive, PTL

\* No request is run while the outcome of an earlier run is owed.
THEOREM RunsOnceHolds == Spec => RunsOnce
<1>1. ASSUME IInv, NEW a \in Copies, copy[a].at = "queued"
      PROVE  copy[a].key \notin ran
  BY <1>1, LedgerAssumption DEF IInv, Claimed, Remembered, Owning
<1>2. IInv => [\A a \in Copies : copy[a].at = "queued" /\ copy'[a].at = "ran" =>
                 copy[a].key \notin ran]_vars
  BY <1>1
<1> QED
  BY <1>2, Inductive, PTL DEF RunsOnce

-----------------------------------------------------------------------------
\* The callbacks.  Who joined a flight names it; a flight is open while its owner is
\* at work; a callback is in the flight until what it waits for is there, and was
\* called once from then on.
Sub(a, b, half) == copy[a].at = "subscribed" /\ copy[a].join = b /\ half \in copy[a].wants

Joined ==
  \A a \in Copies : copy[a].at \in {"joined", "subscribed"} =>
    copy[a].join \in Copies /\ copy[a].key \in Keys

Open ==
  \A b \in Copies :
    /\ flight[b].done => flight[b].exec
    /\ copy[b].at \in {"new", "reap", "again"} \cup Owning => ~flight[b].done

Installed ==
  \A a \in Copies : \A b \in Copies :
    /\ a \in flight[b].subs <=> Sub(a, b, "result") /\ ~flight[b].done
    /\ a \in flight[b].esubs <=> Sub(a, b, "exec") /\ ~flight[b].exec

CalledAt(a) ==
  LET f == copy[a].join
  IN  /\ told[a].result = IF Sub(a, f, "result") /\ flight[f].done THEN 1 ELSE 0
      /\ told[a].exec = IF Sub(a, f, "exec") /\ flight[f].exec THEN 1 ELSE 0

Called ==
  /\ told \in [Copies -> [result : Nat, exec : Nat]]
  /\ \A a \in Copies : CalledAt(a)

Calls == Joined /\ Open /\ Installed /\ Called

\* No copy subscribed yet.
LEMMA InitCalls == Init => Calls
<1> SUFFICES ASSUME Init PROVE Calls
  OBVIOUS
<1>1. \A a \in Copies : copy[a] = Arrival /\ flight[a] = NoFlight /\ told[a] = [result |-> 0, exec |-> 0]
  BY DEF Init
<1>2. Joined /\ Open /\ Installed
  BY <1>1 DEF Arrival, NoFlight, Joined, Open, Installed, Sub
<1>3. Called
  BY <1>1 DEF Init, Arrival, Called, CalledAt, Sub
<1> QED
  BY <1>2, <1>3 DEF Calls

\* Steps that touch no callback.
LEMMA QuietStep ==
  ASSUME Calls, NEW a \in Copies,
         \A b \in Copies : b # a => copy'[b] = copy[b],
         copy[a].at # "subscribed", copy'[a].at # "subscribed",
         copy'[a].at = "joined" => copy'[a].join \in Copies /\ copy'[a].key \in Keys,
         copy'[a].at \in {"new", "reap", "again"} \cup Owning =>
           copy[a].at \in {"new", "reap", "again"} \cup Owning,
         \A b \in Copies : /\ flight'[b].done = flight[b].done /\ flight'[b].exec = flight[b].exec
                           /\ flight'[b].subs = flight[b].subs /\ flight'[b].esubs = flight[b].esubs,
         told' = told
  PROVE  Calls'
<1>1. Joined' /\ Open'
  BY DEF Calls, Joined, Open
<1>2. Installed'
  BY DEF Calls, Installed, Sub
<1>3. Called'
  <2>1. \A b \in Copies : copy[b].at = "subscribed" => copy[b].join \in Copies
    BY DEF Calls, Joined
  <2>2. ASSUME NEW b \in Copies
        PROVE  CalledAt(b)'
    BY <2>1 DEF Calls, Called, CalledAt, Sub
  <2> QED
    BY <2>2 DEF Calls, Called, CalledAt
<1> QED
  BY <1>1, <1>2, <1>3 DEF Calls

\* The quiet steps of a copy: it arrives, asks, or is at work on its own request.
LEMMA QuietMoves ==
  ASSUME IInv, Calls, NEW a \in Copies,
         Acquire(a) \/ AcquireAgain(a) \/ Observe(a) \/ ReapAll(a)
           \/ Run(a) \/ TimeOut(a) \/ HandOff(a) \/ CheckFrame(a)
  PROVE  Calls'
<1>1. told' = told
  BY DEF Acquire, AcquireAgain, Claim, Observe, ObserveOn, ReapAll, Run, TimeOut, HandOff,
         CheckFrame, OnlyOwner
<1>2. \A b \in Copies : /\ flight'[b].done = flight[b].done /\ flight'[b].exec = flight[b].exec
                        /\ flight'[b].subs = flight[b].subs /\ flight'[b].esubs = flight[b].esubs
  <2>1. CASE HandOff(a)
    BY <2>1 DEF HandOff, IInv, Typed, Flights
  <2>2. CASE flight' = flight
    BY <2>2
  <2> QED
    BY <2>1, <2>2 DEF Acquire, AcquireAgain, Claim, Observe, ObserveOn, ReapAll, Run, TimeOut,
                      CheckFrame, OnlyOwner, ledgerVars
<1>3. ASSUME NEW k \in Keys, Claim(a, k), copy[a].at \in {"new", "again"}
      PROVE  Calls'
  <2> DEFINE joined == [at |-> Outcome(a, k), key |-> k, wants |-> {},
                        join |-> IF Outcome(a, k) = "joined" THEN pending[k] ELSE None]
             c == IF Outcome(a, k) = "settled" THEN Settled ELSE joined
  <2>1. copy' = [copy EXCEPT ![a] = c]
    BY <1>3 DEF Claim
  <2>2. c.at \in {"settled", "joined", "queued", "reap"}
    BY SettledCopy DEF Outcome
  <2>3. c.at = "joined" => c.join \in Copies /\ c.key \in Keys
    <3>1. Outcome(a, k) = "joined" => pending[k] \in Copies
      BY DEF Outcome, IInv, Typed
    <3> QED
      BY <3>1, SettledCopy
  <2> HIDE DEF c
  <2>4. copy'[a] = c /\ \A b \in Copies : b # a => copy'[b] = copy[b]
    BY <2>1 DEF IInv, Typed
  <2> QED
    BY <1>1, <1>2, <1>3, <2>2, <2>3, <2>4, QuietStep
<1>4. CASE Acquire(a)
  BY <1>3, <1>4 DEF Acquire
<1>5. CASE AcquireAgain(a)
  <2>1. copy[a].at = "again" /\ copy[a].key \in Keys /\ Claim(a, copy[a].key)
    BY <1>5 DEF AcquireAgain, IInv, Claimed
  <2> QED
    BY <1>3, <2>1
<1>6. CASE Observe(a)
  <2>1. PICK k \in Keys : ObserveOn(a, k)
    BY <1>6 DEF Observe
  <2>2. PICK c : /\ copy' = [copy EXCEPT ![a] = c]
                 /\ \/ c = Settled
                    \/ pending[k] # None /\ c = [at |-> "joined", key |-> k, join |-> pending[k], wants |-> {"exec"}]
    BY <2>1 DEF ObserveOn
  <2>3. c.at \in {"settled", "joined"} /\ (c.at = "joined" => c.join \in Copies /\ c.key \in Keys)
    BY <2>2, SettledCopy DEF IInv, Typed
  <2>4. copy'[a] = c /\ \A b \in Copies : b # a => copy'[b] = copy[b]
    BY <2>2 DEF IInv, Typed
  <2> QED
    BY <1>1, <1>2, <1>6, <2>3, <2>4, QuietStep DEF Observe, Owning
<1>7. CASE ReapAll(a) \/ Run(a) \/ TimeOut(a) \/ HandOff(a) \/ CheckFrame(a)
  <2>1. /\ copy[a].at \in {"reap"} \cup Owning
        /\ \E at \in {"again"} \cup Owning : copy' = [copy EXCEPT ![a].at = at]
    BY <1>7 DEF ReapAll, Run, TimeOut, HandOff, CheckFrame, Moves, Owning
  <2>2. copy'[a].at \in {"again"} \cup Owning /\ \A b \in Copies : b # a => copy'[b] = copy[b]
    BY <2>1 DEF IInv, Typed, Arrivals
  <2>3. copy[a].at # "subscribed" /\ copy'[a].at \notin {"joined", "subscribed"}
    BY <2>1, <2>2 DEF Owning
  <2> QED
    BY <1>1, <1>2, <2>1, <2>2, <2>3, QuietStep
<1> QED
  BY <1>4, <1>5, <1>6, <1>7

\* Steps of nobody's: acknowledgements, expiry, a destroyed session.
LEMMA OtherMoves ==
  ASSUME IInv, Calls, (\E k \in Keys : AckFrame(k) \/ Acknowledge(k) \/ Expire(k)) \/ ForgetSession
  PROVE  Calls'
<1>1. copy' = copy /\ told' = told
  BY DEF AckFrame, Acknowledge, Expire, ForgetSession
<1>2. \A b \in Copies : /\ flight'[b].done = flight[b].done /\ flight'[b].exec = flight[b].exec
                        /\ flight'[b].subs = flight[b].subs /\ flight'[b].esubs = flight[b].esubs
  <2>1. \/ flight' = flight
        \/ \E f \in Copies : flight' = [flight EXCEPT ![f].acked = TRUE]
    BY DEF AckFrame, Acknowledge, Expire, ForgetSession, ledgerVars, IInv, Typed
  <2> QED
    BY <2>1 DEF IInv, Typed, Flights
<1>3. Joined' /\ Open' /\ Installed'
  BY <1>1, <1>2 DEF Calls, Joined, Open, Installed, Sub
<1>4. Called'
  <2>1. \A b \in Copies : copy[b].at = "subscribed" => copy[b].join \in Copies
    BY DEF Calls, Joined
  <2>2. ASSUME NEW b \in Copies
        PROVE  CalledAt(b)'
    BY <1>1, <1>2, <2>1 DEF Calls, Called, CalledAt, Sub
  <2> QED
    BY <1>1, <2>2 DEF Calls, Called, CalledAt
<1> QED
  BY <1>3, <1>4 DEF Calls

\* What Tell leaves.
LEMMA TellCounts ==
  ASSUME Calls, NEW R, NEW E, Tell(R, E)
  PROVE  /\ told' \in [Copies -> [result : Nat, exec : Nat]]
         /\ \A a \in Copies : /\ told'[a].result = told[a].result + (IF a \in R THEN 1 ELSE 0)
                              /\ told'[a].exec = told[a].exec + (IF a \in E THEN 1 ELSE 0)
  BY DEF Calls, Called, CalledAt, Tell

\* The execution is published: its callbacks run, and only they.
LEMMA ExecutionCalls ==
  ASSUME IInv, Calls, NEW a \in Copies, CompleteExecution(a)
  PROVE  Calls'
<1>1. /\ copy[a].at = "ran" /\ copy' = [copy EXCEPT ![a].at = "executed"]
      /\ flight' = [flight EXCEPT ![a].exec = TRUE, ![a].esubs = {},
                       ![a].slots = @ - Cardinality(flight[a].esubs)]
      /\ Tell({}, flight[a].esubs)
  BY DEF CompleteExecution, Moves
<1>2. /\ copy'[a].at = "executed"
      /\ \A b \in Copies : b # a => copy'[b] = copy[b] /\ flight'[b] = flight[b]
  BY <1>1 DEF IInv, Typed, Arrivals
<1>3. /\ flight'[a].exec = TRUE /\ flight'[a].esubs = {}
      /\ flight'[a].done = flight[a].done /\ flight'[a].subs = flight[a].subs
  BY <1>1 DEF IInv, Typed, Flights
<1>4. /\ told' \in [Copies -> [result : Nat, exec : Nat]]
      /\ \A b \in Copies : /\ told'[b].result = told[b].result
                           /\ told'[b].exec = told[b].exec + (IF b \in flight[a].esubs THEN 1 ELSE 0)
  BY <1>1, TellCounts DEF Calls, Called, CalledAt
<1>5. \A b \in Copies : copy'[b].at = "subscribed" <=> copy[b].at = "subscribed"
  BY <1>1, <1>2
<1>6. Joined' /\ Open'
  BY <1>1, <1>2, <1>3 DEF Calls, Joined, Open, Owning
<1>7. Installed'
  <2>1. ASSUME NEW b \in Copies, NEW c \in Copies, NEW half
        PROVE  Sub(b, c, half)' <=> Sub(b, c, half)
    BY <1>1, <1>2 DEF Sub
  <2>2. ASSUME NEW b \in Copies, NEW c \in Copies
        PROVE  /\ b \in flight'[c].subs <=> Sub(b, c, "result")' /\ ~flight'[c].done
               /\ b \in flight'[c].esubs <=> Sub(b, c, "exec")' /\ ~flight'[c].exec
    BY <1>2, <1>3, <2>1 DEF Calls, Installed
  <2> QED
    BY <2>2 DEF Installed
<1>8. Called'
  <2>1. ASSUME NEW b \in Copies
        PROVE  CalledAt(b)'
    <3>1. CASE copy[b].at # "subscribed"
      BY <1>2, <1>4, <1>5, <3>1 DEF Calls, Called, CalledAt, Installed, Sub
    <3>2. CASE copy[b].at = "subscribed"
      <4>1. copy'[b] = copy[b] /\ copy[b].join \in Copies
        BY <1>1, <1>2, <3>2 DEF Calls, Joined
      <4>2. CASE copy[b].join = a
        BY <1>3, <1>4, <3>2, <4>1, <4>2 DEF Calls, Called, CalledAt, Installed, Sub
      <4>3. CASE copy[b].join # a
        BY <1>2, <1>4, <3>2, <4>1, <4>3 DEF Calls, Called, CalledAt, Installed, Sub
      <4> QED
        BY <4>2, <4>3
    <3> QED
      BY <3>1, <3>2
  <2> QED
    BY <1>4, <2>1 DEF Called, CalledAt
<1> QED
  BY <1>6, <1>7, <1>8 DEF Calls

\* A flight is over: everything it held runs.
LEMMA OverCalls ==
  ASSUME IInv, Calls, NEW a \in Copies, copy[a].at \in Owning, Over(a), Settles(a)
  PROVE  Calls'
<1>1. /\ copy'[a].at = "settled"
      /\ \A b \in Copies : b # a => copy'[b] = copy[b] /\ flight'[b] = flight[b]
  BY SettledCopy DEF Over, Settles, IInv, Typed
<1>2. /\ flight'[a].exec /\ flight'[a].done
      /\ flight'[a].esubs = {} /\ flight'[a].subs = {}
  BY DEF Over, NoFlight, IInv, Typed
<1>3. /\ told' \in [Copies -> [result : Nat, exec : Nat]]
      /\ \A b \in Copies :
           /\ told'[b].result = told[b].result + (IF b \in flight[a].subs THEN 1 ELSE 0)
           /\ told'[b].exec = told[b].exec + (IF b \in flight[a].esubs THEN 1 ELSE 0)
  <2>1. Tell(flight[a].subs, flight[a].esubs)
    BY DEF Over
  <2> QED
    BY <2>1, TellCounts
<1>4. copy[a].at # "subscribed" /\ ~flight[a].done
  BY DEF Owning, Calls, Open
<1>5. Joined' /\ Open'
  BY <1>1, <1>2 DEF Calls, Joined, Open, Owning
<1>6. Installed'
  BY <1>1, <1>2, <1>4 DEF Calls, Installed, Sub
<1>7. Called'
  <2>1. ASSUME NEW b \in Copies
        PROVE  CalledAt(b)'
    <3>1. CASE copy[b].at # "subscribed"
      BY <1>1, <1>3, <3>1 DEF Calls, Called, CalledAt, Installed, Sub
    <3>2. CASE copy[b].at = "subscribed"
      <4>1. copy'[b] = copy[b] /\ copy[b].join \in Copies
        BY <1>1, <1>4, <3>2 DEF Calls, Joined
      <4>2. CASE copy[b].join = a
        BY <1>2, <1>3, <1>4, <3>2, <4>1, <4>2 DEF Calls, Called, CalledAt, Installed, Sub
      <4>3. CASE copy[b].join # a
        BY <1>1, <1>3, <3>2, <4>1, <4>3 DEF Calls, Called, CalledAt, Installed, Sub
      <4> QED
        BY <4>2, <4>3
    <3> QED
      BY <3>1, <3>2
  <2> QED
    BY <1>3, <2>1 DEF Called, CalledAt
<1> QED
  BY <1>5, <1>6, <1>7 DEF Calls

\* A copy subscribes: it is refused whole, is installed, or is called at once.
LEMMA SubscribeCalls ==
  ASSUME IInv, Calls, NEW a \in Copies, SubscribeAs(a)
  PROVE  Calls'
<1>1. PICK w \in Wants : Subscribe(a, w)
  BY DEF SubscribeAs, Wants
<1> DEFINE f == copy[a].join
           only(cb) == IF cb \in w THEN {a} ELSE {}
<1>2. copy[a].at = "joined" /\ f \in Copies /\ copy[a].key \in Keys
  BY <1>1 DEF Subscribe, Calls, Joined
<1>3. StillPending(a) => ~flight[f].done
  <2>1. StillPending(a) => copy[f].at \in Owning
    BY <1>2, LedgerAssumption DEF StillPending, IInv, Claimed
  <2> QED
    BY <1>2, <2>1 DEF Calls, Open
<1>4. \A b \in Copies : a \notin flight[b].subs \cup flight[b].esubs
  BY <1>2 DEF Calls, Installed, Sub
<1>5. told[a].result = 0 /\ told[a].exec = 0
  BY <1>2 DEF Calls, Called, CalledAt, Sub
<1>6. CASE Settles(a) /\ UNCHANGED <<flight, told>>
  <2>1. copy'[a].at = "settled" /\ \A b \in Copies : b # a => copy'[b] = copy[b]
    BY <1>6, SettledCopy DEF Settles, IInv, Typed
  <2> QED
    BY <1>2, <1>6, <2>1, QuietStep DEF Owning
<1>7. ASSUME copy' = [copy EXCEPT ![a].at = "subscribed", ![a].wants = w],
             NEW R \in SUBSET {a}, NEW E \in SUBSET {a}, Tell(R, E),
             a \in R <=> "result" \in w /\ flight[f].done,
             a \in E <=> "exec" \in w /\ flight[f].exec,
             \A b \in Copies : /\ flight'[b].done = flight[b].done
                               /\ flight'[b].exec = flight[b].exec,
             \A b \in Copies : b # f => /\ flight'[b].subs = flight[b].subs
                                        /\ flight'[b].esubs = flight[b].esubs,
             flight'[f].subs = flight[f].subs \cup {x \in {a} : "result" \in w /\ ~flight[f].done},
             flight'[f].esubs = flight[f].esubs \cup {x \in {a} : "exec" \in w /\ ~flight[f].exec}
      PROVE  Calls'
  <2>1. /\ copy'[a].at = "subscribed" /\ copy'[a].wants = w
        /\ copy'[a].join = f /\ copy'[a].key = copy[a].key
        /\ \A b \in Copies : b # a => copy'[b] = copy[b]
    BY <1>7 DEF IInv, Typed, Arrivals
  <2>2. /\ told' \in [Copies -> [result : Nat, exec : Nat]]
        /\ \A b \in Copies : /\ told'[b].result = told[b].result + (IF b \in R THEN 1 ELSE 0)
                             /\ told'[b].exec = told[b].exec + (IF b \in E THEN 1 ELSE 0)
    BY <1>7, TellCounts
  <2>3. Joined' /\ Open'
    <3>1. ASSUME NEW b \in Copies
          PROVE  /\ copy'[b].at \in {"joined", "subscribed"} =>
                      copy'[b].join \in Copies /\ copy'[b].key \in Keys
                 /\ flight'[b].done => flight'[b].exec
                 /\ copy'[b].at \in {"new", "reap", "again"} \cup Owning => ~flight'[b].done
      <4>1. /\ flight'[b].done = flight[b].done /\ flight'[b].exec = flight[b].exec
            /\ flight[b].done => flight[b].exec
            /\ copy[b].at \in {"new", "reap", "again"} \cup Owning => ~flight[b].done
            /\ copy[b].at \in {"joined", "subscribed"} =>
                 copy[b].join \in Copies /\ copy[b].key \in Keys
        BY <1>7 DEF Calls, Joined, Open
      <4>2. CASE b = a
        <5>1. copy'[b].at \notin {"new", "reap", "again"} \cup Owning
          BY <2>1, <4>2 DEF Owning
        <5> QED
          BY <1>2, <2>1, <4>1, <4>2, <5>1
      <4>3. CASE b # a
        <5>1. copy'[b] = copy[b]
          BY <2>1, <4>3
        <5> QED
          BY <4>1, <5>1
      <4> QED
        BY <4>2, <4>3
    <3> QED
      BY <3>1 DEF Joined, Open
  <2>4. Installed'
    <3>1. ASSUME NEW b \in Copies, NEW c \in Copies
          PROVE  /\ b \in flight'[c].subs <=> Sub(b, c, "result")' /\ ~flight'[c].done
                 /\ b \in flight'[c].esubs <=> Sub(b, c, "exec")' /\ ~flight'[c].exec
      <4>1. CASE b = a
        BY <1>2, <1>4, <1>7, <2>1, <4>1 DEF Sub
      <4>2. CASE b # a
        <5>1. /\ Sub(b, c, "result")' <=> Sub(b, c, "result")
              /\ Sub(b, c, "exec")' <=> Sub(b, c, "exec")
          BY <2>1, <4>2 DEF Sub
        <5>2. /\ b \in flight'[c].subs <=> b \in flight[c].subs
              /\ b \in flight'[c].esubs <=> b \in flight[c].esubs
          BY <1>7, <4>2
        <5> QED
          BY <1>7, <5>1, <5>2 DEF Calls, Installed
      <4> QED
        BY <4>1, <4>2
    <3> QED
      BY <3>1 DEF Installed
  <2>5. Called'
    <3>1. ASSUME NEW b \in Copies
          PROVE  CalledAt(b)'
      <4>1. CASE b = a
        BY <1>2, <1>5, <1>7, <2>1, <2>2, <4>1 DEF Sub, CalledAt
      <4>2. CASE b # a
        <5>1. copy[b].at = "subscribed" => copy[b].join \in Copies
          BY DEF Calls, Joined
        <5>2. told'[b].result = told[b].result /\ told'[b].exec = told[b].exec
          BY <1>7, <2>2, <4>2 DEF Calls, Called, CalledAt
        <5> QED
          <6>1. /\ Sub(b, copy[b].join, "result")' <=> Sub(b, copy[b].join, "result")
                /\ Sub(b, copy[b].join, "exec")' <=> Sub(b, copy[b].join, "exec")
                /\ copy'[b] = copy[b]
            BY <2>1, <4>2 DEF Sub
          <6>2. CASE copy[b].join \in Copies
            BY <1>7, <5>2, <6>1, <6>2 DEF Calls, Called, CalledAt
          <6>3. CASE copy[b].at # "subscribed"
            BY <5>2, <6>1, <6>3 DEF Calls, Called, CalledAt, Sub
          <6> QED
            BY <5>1, <6>2, <6>3
      <4> QED
        BY <4>1, <4>2
    <3> QED
      BY <2>2, <3>1 DEF Called, CalledAt
  <2> QED
    BY <2>3, <2>4, <2>5 DEF Calls
<1>8. CASE StillPending(a) /\ ~(Settles(a) /\ UNCHANGED <<flight, told>>)
  <2> DEFINE new == Cardinality(IF flight[f].exec THEN w \ {"exec"} ELSE w)
             old == flight[f]
             g1 == [old EXCEPT !.slots = @ + new]
             g2 == [g1 EXCEPT !.subs = @ \cup only("result")]
             g == [g2 EXCEPT !.esubs = IF flight[f].exec THEN @ ELSE @ \cup only("exec")]
  <2>1. /\ copy' = [copy EXCEPT ![a].at = "subscribed", ![a].wants = w]
        /\ Tell({}, IF flight[f].exec THEN only("exec") ELSE {})
        /\ flight' = [flight EXCEPT ![f] = g]
    <3>1. /\ copy' = [copy EXCEPT ![a].at = "subscribed", ![a].wants = w]
          /\ Tell({}, IF flight[f].exec THEN only("exec") ELSE {})
          /\ flight' = [flight EXCEPT
                ![f].slots = @ + new,
                ![f].subs = @ \cup only("result"),
                ![f].esubs = IF flight[f].exec THEN @ ELSE @ \cup only("exec")]
      BY <1>1, <1>8, Zenon DEF Subscribe
    <3>2. flight' = [flight EXCEPT ![f] = g]
      <4> HIDE DEF new
      <4> QED
        BY <3>1
    <3> QED
      BY <3>1, <3>2
  <2>2. /\ g.done = flight[f].done /\ g.exec = flight[f].exec
        /\ g.subs = flight[f].subs \cup only("result")
        /\ g.esubs = IF flight[f].exec THEN flight[f].esubs ELSE flight[f].esubs \cup only("exec")
    <3> HIDE DEF new
    <3>1. DOMAIN old = {"exec", "acked", "handed", "done", "subs", "esubs", "slots"}
      BY <1>2 DEF IInv, Typed, Flights
    <3> QED
      BY <1>2, <3>1 DEF IInv, Typed, Flights
  <2> HIDE DEF g
  <2>3. flight'[f] = g /\ \A b \in Copies : b # f => flight'[b] = flight[b]
    BY <1>2, <2>1 DEF IInv, Typed
  <2> QED
    BY <1>3, <1>7, <1>8, <2>1, <2>2, <2>3
<1>9. CASE ~StillPending(a)
  <2>1. /\ copy' = [copy EXCEPT ![a].at = "subscribed", ![a].wants = w]
        /\ flight[f].done /\ Tell(only("result"), only("exec")) /\ flight' = flight
    BY <1>1, <1>9 DEF Subscribe
  <2>2. flight[f].exec
    BY <1>2, <2>1 DEF Calls, Open
  <2> QED
    BY <1>7, <2>1, <2>2
<1> QED
  BY <1>6, <1>8, <1>9

\* Every step keeps the callbacks' account.
LEMMA NextCalls == IInv /\ Calls /\ [Next]_vars => Calls'
<1> SUFFICES ASSUME IInv, Calls, [Next]_vars PROVE Calls'
  OBVIOUS
<1>1. ASSUME NEW a \in Copies, Publish(a) \/ Abort(a)
      PROVE  Calls'
  BY <1>1, OverCalls DEF Publish, Abort, Owning
<1>2. CASE UNCHANGED vars
  BY <1>2 DEF vars, ledgerVars, Calls, Joined, Open, Installed, Called, CalledAt, Sub
<1> QED
  BY <1>1, <1>2, QuietMoves, OtherMoves, ExecutionCalls, SubscribeCalls DEF Next, CopyStep

\* Each callback is called exactly once, as soon as what it waits for is there, and a
\* copy that was refused has none installed.
THEOREM CalledOnceHolds == Spec => []CalledOnce
<1>1. Calls => CalledOnce
  <2> SUFFICES ASSUME Calls, NEW a \in Copies
               PROVE  /\ told[a].result = (IF Due(a).result THEN 1 ELSE 0)
                      /\ told[a].exec = (IF Due(a).exec THEN 1 ELSE 0)
                      /\ copy[a].at # "subscribed" =>
                           \A b \in Copies : a \notin flight[b].subs \cup flight[b].esubs
    BY DEF CalledOnce
  <2> QED
    BY DEF Calls, Called, CalledAt, Installed, Sub, Due
<1>2. IInv /\ Calls /\ [Next]_vars => (IInv /\ Calls)'
  BY NextIInv, NextCalls
<1>3. Init => IInv /\ Calls
  BY InitIInv, InitCalls
<1> QED
  BY <1>1, <1>2, <1>3, PTL DEF Spec


-----------------------------------------------------------------------------
(* The budgets.  A flight and a receipt are each an entry; what expiry     *)
(* removes had a receipt; a callback retained is a slot of its flight.     *)
Counters == [entries : Int, pending : Int, flights : Int, slots : Int]

\* What counters are left by an update.
LEMMA CountersMove ==
  ASSUME NEW u \in Counters, NEW e \in Int, NEW p \in Int, NEW f \in Int
  PROVE  [u EXCEPT !.entries = e, !.pending = p, !.flights = f] =
           [entries |-> e, pending |-> p, flights |-> f, slots |-> u.slots]
<1> DEFINE v1 == [u EXCEPT !.entries = e]
           v2 == [v1 EXCEPT !.pending = p]
           v3 == [v2 EXCEPT !.flights = f]
<1>1. v1 = [entries |-> e, pending |-> u.pending, flights |-> u.flights, slots |-> u.slots]
  BY DEF Counters
<1>2. v3 = [u EXCEPT !.entries = e, !.pending = p, !.flights = f]
  OBVIOUS
<1> HIDE DEF v1
<1>3. v2 = [entries |-> e, pending |-> p, flights |-> u.flights, slots |-> u.slots]
  BY <1>1
<1> HIDE DEF v2
<1>4. v3 = [entries |-> e, pending |-> p, flights |-> f, slots |-> u.slots]
  BY <1>3
<1> QED
  BY <1>2, <1>4

\* The counters after a flight that is over.
LEMMA CountersEnd ==
  ASSUME used \in Counters, NEW e \in Int, NEW m \in Int
  PROVE  AfterFlight(e, m) = [entries |-> e, pending |-> used.pending - 1,
                              flights |-> used.flights - 1, slots |-> m]
<1> DEFINE p == used.pending - 1
           f == used.flights - 1
           v3 == [used EXCEPT !.entries = e, !.pending = p, !.flights = f]
           v4 == [v3 EXCEPT !.slots = m]
<1>1. p \in Int /\ f \in Int
  BY DEF Counters
<1>2. v4 = AfterFlight(e, m)
  BY DEF AfterFlight
<1> HIDE DEF p, f
<1>3. v3 = [entries |-> e, pending |-> p, flights |-> f, slots |-> used.slots]
  BY <1>1, CountersMove, Zenon
<1> HIDE DEF v3
<1>4. v4 = [entries |-> e, pending |-> p, flights |-> f, slots |-> m]
  BY <1>3
<1> QED
  BY <1>2, <1>4 DEF p, f

\* The requests for which f holds something.
Has(f) == {k \in Keys : f[k] # None}

Booked ==
  /\ used \in Counters
  /\ expired \subseteq Has(receipt)
  /\ used.entries = Cardinality(Has(pending)) + Cardinality(Has(receipt))
  /\ used.pending = Cardinality(Has(pending))
  /\ used.flights = Cardinality(Has(pending))
  /\ used.entries <= MaxEntries /\ used.pending <= PendingPerAuth /\ used.flights <= MaxPending

\* One request more, or one fewer.
LEMMA HasMore ==
  ASSUME NEW f, NEW g, NEW k \in Keys, f[k] = None, g[k] # None,
         \A j \in Keys : j # k => g[j] = f[j]
  PROVE  /\ Cardinality(Has(f)) \in Nat /\ Cardinality(Has(g)) \in Nat
         /\ Cardinality(Has(g)) = Cardinality(Has(f)) + 1
<1>1. Has(g) = Has(f) \cup {k} /\ k \notin Has(f)
  BY DEF Has
<1>2. Has(f) \in SUBSET Keys /\ Has(g) \in SUBSET Keys
  BY DEF Has
<1>3. IsFiniteSet(Has(f)) /\ IsFiniteSet(Has(g))
  BY <1>2, LedgerAssumption, FS_Subset
<1>4. Cardinality(Has(f)) \in Nat /\ Cardinality(Has(g)) \in Nat
  BY <1>3, FS_CardinalityType
<1>5. Cardinality(Has(f) \cup {k}) =
        IF k \in Has(f) THEN Cardinality(Has(f)) ELSE Cardinality(Has(f)) + 1
  BY <1>3, FS_AddElement
<1> QED
  BY <1>1, <1>4, <1>5

\* The requests D leave.
LEMMA HasWithout ==
  ASSUME NEW f, NEW g, NEW D, D \subseteq Has(f),
         \A j \in Keys : g[j] = IF j \in D THEN None ELSE f[j]
  PROVE  /\ Cardinality(Has(f)) \in Nat /\ Cardinality(Has(g)) \in Nat /\ Cardinality(D) \in Nat
         /\ Cardinality(Has(g)) = Cardinality(Has(f)) - Cardinality(D)
<1>1. Has(g) = Has(f) \ D /\ Has(f) \cap D = D
  BY DEF Has
<1>2. Has(f) \in SUBSET Keys /\ Has(g) \in SUBSET Keys /\ D \in SUBSET Keys
  BY DEF Has
<1>3. IsFiniteSet(Has(f)) /\ IsFiniteSet(Has(g)) /\ IsFiniteSet(D)
  BY <1>2, LedgerAssumption, FS_Subset
<1>4. Cardinality(Has(f)) \in Nat /\ Cardinality(Has(g)) \in Nat /\ Cardinality(D) \in Nat
  BY <1>3, FS_CardinalityType
<1>5. Cardinality(Has(f) \ D) = Cardinality(Has(f)) - Cardinality(Has(f) \cap D)
  BY <1>3, FS_Difference
<1> QED
  BY <1>1, <1>4, <1>5

\* How many hold something is a number.
LEMMA HasCount == ASSUME NEW f PROVE Cardinality(Has(f)) \in Nat
<1>1. Has(f) \in SUBSET Keys
  BY DEF Has
<1>2. IsFiniteSet(Has(f))
  BY <1>1, LedgerAssumption, FS_Subset
<1> QED
  BY <1>2, FS_CardinalityType

\* What expiry returns to the budget is what it removed.
LEMMA ReapedCount ==
  ASSUME IInv, Booked, NEW S
  PROVE  /\ Cardinality(Has(Kept(S))) \in Nat
         /\ EntriesAfter(S) = Cardinality(Has(pending)) + Cardinality(Has(Kept(S)))
         /\ EntriesAfter(S) <= used.entries /\ EntriesAfter(S) \in Int
         /\ expired \ Dropped(S) \subseteq Has(Kept(S))
<1>1. Dropped(S) \subseteq Has(receipt)
  BY DEF Booked, Dropped
<1>2. \A j \in Keys : Kept(S)[j] = IF j \in Dropped(S) THEN None ELSE receipt[j]
  BY DEF Kept
<1>3. /\ Cardinality(Has(receipt)) \in Nat /\ Cardinality(Has(Kept(S))) \in Nat
      /\ Cardinality(Dropped(S)) \in Nat
      /\ Cardinality(Has(Kept(S))) = Cardinality(Has(receipt)) - Cardinality(Dropped(S))
  BY <1>1, <1>2, HasWithout
<1>4. Cardinality(Has(pending)) \in Nat
  BY HasCount
<1>5. expired \ Dropped(S) \subseteq Has(Kept(S))
  BY <1>2 DEF Booked, Has
<1> QED
  BY <1>3, <1>4, <1>5 DEF Booked, EntriesAfter


\* A counter may move; the others stay as they were.
LEMMA BookedSame ==
  ASSUME Booked, used' \in Counters, used'.entries = used.entries,
         used'.pending = used.pending, used'.flights = used.flights,
         UNCHANGED <<pending, receipt, expired>>
  PROVE  Booked'
  BY DEF Booked

\* A claim takes an entry and a flight, if there is room.
LEMMA ClaimBooked ==
  ASSUME IInv, Booked, NEW a \in Copies, NEW k \in Keys, Claim(a, k)
  PROVE  Booked'
<1> DEFINE S == {ShardOf[k]}
           at == Outcome(a, k)
           n == EntriesAfter(S)
<1>1. /\ receipt' = Kept(S) /\ expired' = expired \ Dropped(S)
      /\ used' = [used EXCEPT !.entries = n + (IF at = "queued" THEN 1 ELSE 0),
                              !.pending = IF at = "queued" THEN @ + 1 ELSE @,
                              !.flights = IF at = "queued" THEN @ + 1 ELSE @]
      /\ pending' = IF at = "queued" THEN [pending EXCEPT ![k] = a] ELSE pending
  BY DEF Claim, Reaped
<1>2. /\ Cardinality(Has(Kept(S))) \in Nat
      /\ n = Cardinality(Has(pending)) + Cardinality(Has(Kept(S)))
      /\ n <= used.entries /\ n \in Int
      /\ expired \ Dropped(S) \subseteq Has(Kept(S))
  BY ReapedCount
<1>3. CASE at # "queued"
  <2> HIDE DEF at, n, S
  <2>1. /\ used' \in Counters /\ used'.entries = n
        /\ used'.pending = used.pending /\ used'.flights = used.flights
    <3>1. used \in Counters /\ used.pending \in Int /\ used.flights \in Int
      BY DEF Booked, Counters
    <3>2. used' = [used EXCEPT !.entries = n, !.pending = used.pending, !.flights = used.flights]
      <4>1. used' = [used EXCEPT !.entries = n + 0, !.pending = used.pending,
                                 !.flights = used.flights]
        BY <1>1, <1>3
      <4>2. n + 0 = n
        BY <1>2
      <4> QED
        BY <4>1, <4>2
    <3>3. used' = [entries |-> n, pending |-> used.pending, flights |-> used.flights,
                   slots |-> used.slots]
      BY <1>2, <3>1, <3>2, CountersMove, Zenon
    <3> QED
      BY <1>2, <3>1, <3>3 DEF Counters
  <2>2. pending' = pending
    BY <1>1, <1>3
  <2>3. used'.entries <= MaxEntries
    BY <1>2, <2>1, LedgerAssumption DEF Booked, Counters
  <2> QED
    BY <1>1, <1>2, <2>1, <2>2, <2>3 DEF Booked
<1>4. CASE at = "queued"
  <2>0. /\ used \in Counters /\ used.pending \in Int /\ used.flights \in Int
        /\ MaxPending \in Int
    BY LedgerAssumption DEF Booked, Counters
  <2>1. /\ pending[k] = None /\ used.flights < MaxPending
        /\ used.pending < PendingPerAuth /\ n < MaxEntries
    <3>1. /\ pending[k] = None /\ ~(used.flights >= MaxPending)
          /\ used.pending < PendingPerAuth /\ n < MaxEntries
      BY <1>4 DEF Outcome
    <3> QED
      BY <2>0, <3>1
  <2> HIDE DEF at, n, S
  <2>2. /\ used' \in Counters /\ used'.entries = n + 1
        /\ used'.pending = used.pending + 1 /\ used'.flights = used.flights + 1
    <3>1. used' = [used EXCEPT !.entries = n + 1, !.pending = used.pending + 1,
                               !.flights = used.flights + 1]
      BY <1>1, <1>2, <1>4
    <3>2. n + 1 \in Int /\ used.pending + 1 \in Int /\ used.flights + 1 \in Int
      BY <1>2, <2>0
    <3>3. used' = [entries |-> n + 1, pending |-> used.pending + 1,
                   flights |-> used.flights + 1, slots |-> used.slots]
      BY <2>0, <3>1, <3>2, CountersMove, Zenon
    <3> QED
      BY <2>0, <3>2, <3>3 DEF Counters
  <2>3. pending' = [pending EXCEPT ![k] = a]
    BY <1>1, <1>4
  <2>4. /\ Cardinality(Has(pending)) \in Nat /\ Cardinality(Has(pending')) \in Nat
        /\ Cardinality(Has(pending')) = Cardinality(Has(pending)) + 1
    <3>1. a # None /\ pending \in [Keys -> Copies \cup {None}]
      BY LedgerAssumption DEF IInv, Typed
    <3>2. pending'[k] # None /\ \A j \in Keys : j # k => pending'[j] = pending[j]
      BY <2>3, <3>1
    <3> QED
      BY <2>1, <3>2, HasMore
  <2>5. /\ used'.entries <= MaxEntries /\ used'.pending <= PendingPerAuth
        /\ used'.flights <= MaxPending
    BY <1>2, <2>1, <2>2, LedgerAssumption DEF Booked, Counters
  <2> QED
    BY <1>1, <1>2, <2>2, <2>4, <2>5 DEF Booked
<1> QED
  BY <1>3, <1>4

\* The expired receipts of every shard return their entries.
LEMMA ReapBooked ==
  ASSUME IInv, Booked, NEW a \in Copies, ReapAll(a)
  PROVE  Booked'
<1> DEFINE n == EntriesAfter(Shards)
<1>1. /\ receipt' = Kept(Shards) /\ expired' = expired \ Dropped(Shards)
      /\ used' = [used EXCEPT !.entries = n] /\ pending' = pending
  BY DEF ReapAll, Reaped
<1>2. /\ Cardinality(Has(Kept(Shards))) \in Nat
      /\ n = Cardinality(Has(pending)) + Cardinality(Has(Kept(Shards)))
      /\ n <= used.entries /\ n \in Int
      /\ expired \ Dropped(Shards) \subseteq Has(Kept(Shards))
  BY ReapedCount
<1> HIDE DEF n
<1>3. /\ used' \in Counters /\ used'.entries = n
      /\ used'.pending = used.pending /\ used'.flights = used.flights
  BY <1>1, <1>2 DEF Booked, Counters
<1>4. used'.entries <= MaxEntries
  BY <1>2, <1>3, LedgerAssumption DEF Booked, Counters
<1> QED
  BY <1>1, <1>2, <1>3, <1>4 DEF Booked

\* A dependant may find its request's receipt expired, and removes it.
LEMMA ObserveBooked ==
  ASSUME IInv, Booked, NEW a \in Copies, Observe(a)
  PROVE  Booked'
<1>1. PICK k \in Keys : ObserveOn(a, k)
  BY DEF Observe
<1> DEFINE gone == Dropped({ShardOf[k]}) \cap {k}
           n == Cardinality(gone)
<1>2. /\ receipt' = [receipt EXCEPT ![k] = IF gone = {} THEN receipt[k] ELSE None]
      /\ expired' = expired \ gone /\ pending' = pending
      /\ used' = [used EXCEPT !.entries = @ - n]
  BY <1>1 DEF ObserveOn
<1>3. gone \subseteq Has(receipt) /\ gone \subseteq {k}
  BY DEF Booked, Dropped
<1> HIDE DEF gone
<1>4. \A j \in Keys : receipt'[j] = IF j \in gone THEN None ELSE receipt[j]
  BY <1>2, <1>3 DEF IInv, Typed
<1>5. /\ Cardinality(Has(receipt)) \in Nat /\ Cardinality(Has(receipt')) \in Nat /\ n \in Nat
      /\ Cardinality(Has(receipt')) = Cardinality(Has(receipt)) - n
  BY <1>3, <1>4, HasWithout
<1>6. expired' \subseteq Has(receipt')
  BY <1>2, <1>4 DEF Booked, Has
<1> HIDE DEF n
<1>7. /\ used' \in Counters /\ used'.entries = used.entries - n
      /\ used'.pending = used.pending /\ used'.flights = used.flights
  BY <1>2, <1>5 DEF Booked, Counters
<1>8. Cardinality(Has(pending)) \in Nat
  BY HasCount
<1>9. used'.entries <= MaxEntries
  BY <1>5, <1>7, LedgerAssumption DEF Booked, Counters
<1> QED
  BY <1>2, <1>5, <1>6, <1>7, <1>8, <1>9 DEF Booked


\* A flight is over: its entry passes to the receipt or is returned.
LEMMA PublishBooked ==
  ASSUME IInv, Booked, NEW a \in Copies, Publish(a)
  PROVE  Booked'
<1> DEFINE k == copy[a].key
           S == {ShardOf[k]}
           n == EntriesAfter(S)
           m == used.slots - Cardinality(flight[a].subs) - Cardinality(flight[a].esubs)
           v == ReceiptOf(a)
<1>1. /\ k \in Keys /\ pending[k] = a /\ receipt[k] = None /\ a # None
      /\ pending' = [pending EXCEPT ![k] = None]
      /\ receipt' = [Kept(S) EXCEPT ![k] = v]
      /\ expired' = expired \ Dropped(S)
      /\ used' = AfterFlight(n - (IF v = None THEN 1 ELSE 0), m)
  BY LedgerAssumption DEF Publish, IInv, Claimed, Owning
<1>2. /\ Cardinality(Has(Kept(S))) \in Nat
      /\ n = Cardinality(Has(pending)) + Cardinality(Has(Kept(S)))
      /\ n <= used.entries /\ n \in Int
      /\ expired \ Dropped(S) \subseteq Has(Kept(S))
  BY ReapedCount
<1>3. m \in Int
  <2>1. IsFiniteSet(flight[a].subs) /\ IsFiniteSet(flight[a].esubs)
    BY LedgerAssumption, FS_Subset DEF IInv, Typed, Flights
  <2>2. Cardinality(flight[a].subs) \in Nat /\ Cardinality(flight[a].esubs) \in Nat
    BY <2>1, FS_CardinalityType
  <2> QED
    BY <2>2 DEF Booked, Counters
<1>4. Kept(S) \in [Keys -> Receipts \cup {None}] /\ Kept(S)[k] = None
  BY <1>1, KeptReceipts DEF IInv
<1> HIDE DEF m, n, S, v, k
<1>5. /\ used' \in Counters /\ used'.entries = n - (IF v = None THEN 1 ELSE 0)
      /\ used'.pending = used.pending - 1 /\ used'.flights = used.flights - 1
  <2>1. used \in Counters /\ used.pending - 1 \in Int /\ used.flights - 1 \in Int
    BY DEF Booked, Counters
  <2> DEFINE e == n - (IF v = None THEN 1 ELSE 0)
  <2>2. e \in Int
    BY <1>2
  <2> HIDE DEF e
  <2>3. used' = AfterFlight(e, m)
    BY <1>1 DEF e
  <2>4. used' = [entries |-> e, pending |-> used.pending - 1,
                 flights |-> used.flights - 1, slots |-> m]
    BY <1>3, <2>1, <2>2, <2>3, CountersEnd
  <2>5. /\ used' \in Counters /\ used'.entries = e
        /\ used'.pending = used.pending - 1 /\ used'.flights = used.flights - 1
    BY <1>3, <2>1, <2>2, <2>4 DEF Counters
  <2> QED
    BY <2>5 DEF e
<1>6. /\ Cardinality(Has(pending)) \in Nat /\ Cardinality(Has(pending')) \in Nat
      /\ Cardinality(Has(pending)) = Cardinality(Has(pending')) + 1
  <2>1. pending'[k] = None /\ \A j \in Keys : j # k => pending[j] = pending'[j]
    BY <1>1 DEF IInv, Typed
  <2> QED
    BY <1>1, <2>1, HasMore
<1>7. receipt'[k] = v /\ \A j \in Keys : j # k => receipt'[j] = Kept(S)[j]
  BY <1>1, <1>4
<1>8. Cardinality(Has(receipt')) = Cardinality(Has(Kept(S))) + (IF v = None THEN 0 ELSE 1)
  <2>1. CASE v = None
    <3>1. Has(receipt') = Has(Kept(S))
      BY <1>4, <1>7, <2>1 DEF Has
    <3> QED
      BY <1>2, <2>1, <3>1
  <2>2. CASE v # None
    BY <1>1, <1>4, <1>7, <2>2, HasMore
  <2> QED
    BY <2>1, <2>2
<1>9. expired' \subseteq Has(receipt')
  BY <1>1, <1>2, <1>4, <1>7 DEF Has
<1>10. /\ used'.entries <= MaxEntries /\ used'.pending <= PendingPerAuth
       /\ used'.flights <= MaxPending
  BY <1>2, <1>5, LedgerAssumption DEF Booked, Counters
<1> QED
  BY <1>2, <1>5, <1>6, <1>8, <1>9, <1>10 DEF Booked

\* An aborted flight returns its entry.
LEMMA AbortBooked ==
  ASSUME IInv, Booked, NEW a \in Copies, Abort(a)
  PROVE  Booked'
<1> DEFINE k == copy[a].key
           m == used.slots - Cardinality(flight[a].subs) - Cardinality(flight[a].esubs)
<1>1. /\ k \in Keys /\ pending[k] = a /\ a # None
      /\ pending' = [pending EXCEPT ![k] = None]
      /\ UNCHANGED <<receipt, expired>>
      /\ used' = AfterFlight(used.entries - 1, m)
  BY LedgerAssumption DEF Abort, IInv, Claimed, Owning
<1>2. m \in Int
  <2>1. IsFiniteSet(flight[a].subs) /\ IsFiniteSet(flight[a].esubs)
    BY LedgerAssumption, FS_Subset DEF IInv, Typed, Flights
  <2>2. Cardinality(flight[a].subs) \in Nat /\ Cardinality(flight[a].esubs) \in Nat
    BY <2>1, FS_CardinalityType
  <2> QED
    BY <2>2 DEF Booked, Counters
<1> HIDE DEF m, k
<1>3. /\ used' \in Counters /\ used'.entries = used.entries - 1
      /\ used'.pending = used.pending - 1 /\ used'.flights = used.flights - 1
  <2>1. /\ used \in Counters /\ used.entries - 1 \in Int
        /\ used.pending - 1 \in Int /\ used.flights - 1 \in Int
    BY DEF Booked, Counters
  <2>3. used' = [entries |-> used.entries - 1, pending |-> used.pending - 1,
                 flights |-> used.flights - 1, slots |-> m]
    BY <1>1, <1>2, <2>1, CountersEnd
  <2> QED
    BY <1>2, <2>1, <2>3 DEF Counters
<1>4. /\ Cardinality(Has(pending)) \in Nat /\ Cardinality(Has(pending')) \in Nat
      /\ Cardinality(Has(pending)) = Cardinality(Has(pending')) + 1
  <2>1. pending'[k] = None /\ \A j \in Keys : j # k => pending[j] = pending'[j]
    BY <1>1 DEF IInv, Typed
  <2> QED
    BY <1>1, <2>1, HasMore
<1>5. Cardinality(Has(receipt)) \in Nat
  BY HasCount
<1>6. /\ used'.entries <= MaxEntries /\ used'.pending <= PendingPerAuth
      /\ used'.flights <= MaxPending
  BY <1>3, LedgerAssumption DEF Booked, Counters
<1> QED
  BY <1>1, <1>3, <1>4, <1>5, <1>6 DEF Booked

\* An acknowledged receipt returns its entry.
LEMMA AckBooked ==
  ASSUME IInv, Booked, NEW k \in Keys, Acknowledge(k)
  PROVE  Booked'
<1> DEFINE S == {ShardOf[k]}
           n == EntriesAfter(S)
           r == Kept(S)[k]
<1>1. /\ receipt' = [Kept(S) EXCEPT ![k] = None] /\ pending' = pending
      /\ expired' = expired \ Dropped(S)
      /\ used' = [used EXCEPT !.entries = n - (IF r = None THEN 0 ELSE 1)]
  BY DEF Acknowledge
<1>2. /\ Cardinality(Has(Kept(S))) \in Nat
      /\ n = Cardinality(Has(pending)) + Cardinality(Has(Kept(S)))
      /\ n <= used.entries /\ n \in Int
      /\ expired \ Dropped(S) \subseteq Has(Kept(S))
  BY ReapedCount
<1>3. Kept(S) \in [Keys -> Receipts \cup {None}]
  BY KeptReceipts DEF IInv
<1>4. k \notin expired \ Dropped(S)
  BY DEF Dropped
<1>5. expired' \subseteq Has(receipt')
  BY <1>1, <1>2, <1>3, <1>4 DEF Has
<1> HIDE DEF n, S
<1>6. receipt'[k] = None /\ \A j \in Keys : j # k => Kept(S)[j] = receipt'[j]
  BY <1>1, <1>3
<1>7. Cardinality(Has(Kept(S))) = Cardinality(Has(receipt')) + (IF r = None THEN 0 ELSE 1)
  <2>1. CASE r = None
    <3>1. Has(receipt') = Has(Kept(S))
      BY <1>6, <2>1 DEF Has
    <3> QED
      BY <1>2, <2>1, <3>1
  <2>2. CASE r # None
    BY <1>6, <2>2, HasMore
  <2> QED
    BY <2>1, <2>2
<1> HIDE DEF r
<1>8. /\ used' \in Counters /\ used'.entries = n - (IF r = None THEN 0 ELSE 1)
      /\ used'.pending = used.pending /\ used'.flights = used.flights
  BY <1>1, <1>2 DEF Booked, Counters
<1>9. Cardinality(Has(receipt')) \in Nat /\ Cardinality(Has(pending)) \in Nat
  BY HasCount
<1>10. used'.entries <= MaxEntries
  BY <1>2, <1>8, LedgerAssumption DEF Booked, Counters
<1>11. used'.entries = Cardinality(Has(pending')) + Cardinality(Has(receipt'))
  BY <1>1, <1>2, <1>7, <1>8, <1>9
<1> QED
  BY <1>1, <1>5, <1>8, <1>10, <1>11 DEF Booked

\* A destroyed session returns the entries of its receipts.
LEMMA ForgetBooked ==
  ASSUME IInv, Booked, ForgetSession
  PROVE  Booked'
<1> DEFINE n == Cardinality(Has(receipt))
<1>1. /\ receipt' = [k \in Keys |-> None] /\ expired' = {} /\ pending' = pending
      /\ used' = [used EXCEPT !.entries = @ - n]
  BY DEF ForgetSession, Has
<1>2. \A j \in Keys : receipt'[j] = IF j \in Has(receipt) THEN None ELSE receipt[j]
  BY <1>1 DEF Has
<1>3. /\ Cardinality(Has(receipt')) \in Nat /\ n \in Nat
      /\ Cardinality(Has(receipt')) = n - n
  BY <1>2, HasWithout
<1>4. used.entries = Cardinality(Has(pending)) + n /\ Cardinality(Has(pending)) \in Nat
  BY HasCount DEF Booked
<1> HIDE DEF n
<1>5. /\ used' \in Counters /\ used'.entries = used.entries - n
      /\ used'.pending = used.pending /\ used'.flights = used.flights
  BY <1>1, <1>3 DEF Booked, Counters
<1>6. used'.entries <= MaxEntries
  BY <1>3, <1>5, LedgerAssumption DEF Booked, Counters
<1> QED
  BY <1>1, <1>3, <1>4, <1>5, <1>6 DEF Booked


\* Cardinalities of what copies want, and of what flights retain.
LEMMA WantsCount ==
  ASSUME NEW w \in Wants
  PROVE  Cardinality(w) = (IF "result" \in w THEN 1 ELSE 0) + (IF "exec" \in w THEN 1 ELSE 0)
<1>1. IsFiniteSet({"result"}) /\ Cardinality({"result"}) = 1 /\ Cardinality({"exec"}) = 1
  BY FS_Singleton, Zenon
<1>2. Cardinality({}) = 0
  BY FS_EmptySet, Zenon
<1>3. Cardinality({"result"} \cup {"exec"}) =
        IF "exec" \in {"result"} THEN Cardinality({"result"}) ELSE Cardinality({"result"}) + 1
  BY <1>1, FS_AddElement
<1>4. Cardinality({"result", "exec"}) = 2
  <2>1. {"result", "exec"} = {"result"} \cup {"exec"}
    OBVIOUS
  <2> QED
    BY <1>1, <1>3, <2>1
<1>5. w = {} \/ w = {"result"} \/ w = {"exec"} \/ w = {"result", "exec"}
  BY DEF Wants
<1> QED
  BY <1>1, <1>2, <1>4, <1>5

\* The callbacks of a flight are finitely many.
LEMMA RetainedCount ==
  ASSUME IInv, NEW b \in Copies
  PROVE  /\ IsFiniteSet(flight[b].subs) /\ IsFiniteSet(flight[b].esubs)
         /\ Cardinality(flight[b].subs) \in Nat /\ Cardinality(flight[b].esubs) \in Nat
<1>1. IsFiniteSet(flight[b].subs) /\ IsFiniteSet(flight[b].esubs)
  BY LedgerAssumption, FS_Subset DEF IInv, Typed, Flights
<1> QED
  BY <1>1, FS_CardinalityType

\* Every step keeps the counts of flights and receipts.
LEMMA NextBooked == IInv /\ Booked /\ [Next]_vars => Booked'
<1> SUFFICES ASSUME IInv, Booked, [Next]_vars PROVE Booked'
  OBVIOUS
<1>1. ASSUME NEW a \in Copies, Acquire(a) \/ AcquireAgain(a)
      PROVE  Booked'
  <2>1. CASE Acquire(a)
    BY <2>1, ClaimBooked DEF Acquire
  <2>2. CASE AcquireAgain(a)
    <3>1. Claim(a, copy[a].key) /\ copy[a].key \in Keys
      BY <2>2 DEF AcquireAgain, IInv, Claimed
    <3> QED
      BY <3>1, ClaimBooked
  <2> QED
    BY <1>1, <2>1, <2>2
<1>2. ASSUME NEW a \in Copies, SubscribeAs(a)
      PROVE  Booked'
  <2>1. PICK w \in Wants : Subscribe(a, w)
    BY <1>2 DEF SubscribeAs, Wants
  <2> DEFINE want == IF flight[copy[a].join].exec THEN w \ {"exec"} ELSE w
             n == Cardinality(want)
  <2>2. want \in Wants
    BY DEF Wants
  <2> HIDE DEF want
  <2>3. n \in Int
    BY <2>2, WantsCount
  <2>4. /\ UNCHANGED <<pending, receipt, expired>>
        /\ used' = used \/ used' = [used EXCEPT !.slots = @ + n]
    BY <2>1 DEF Subscribe, want
  <2> HIDE DEF n
  <2>5. /\ used' \in Counters /\ used'.entries = used.entries
        /\ used'.pending = used.pending /\ used'.flights = used.flights
    BY <2>3, <2>4 DEF Booked, Counters
  <2> QED
    BY <2>4, <2>5, BookedSame
<1>3. ASSUME NEW a \in Copies, CompleteExecution(a)
      PROVE  Booked'
  <2> DEFINE n == Cardinality(flight[a].esubs)
  <2>1. UNCHANGED <<pending, receipt, expired>> /\ used' = [used EXCEPT !.slots = @ - n]
    BY <1>3 DEF CompleteExecution
  <2>2. n \in Int
    BY RetainedCount
  <2> HIDE DEF n
  <2>3. /\ used' \in Counters /\ used'.entries = used.entries
        /\ used'.pending = used.pending /\ used'.flights = used.flights
    BY <2>1, <2>2 DEF Booked, Counters
  <2> QED
    BY <2>1, <2>3, BookedSame
<1>4. ASSUME NEW a \in Copies, Run(a) \/ TimeOut(a) \/ HandOff(a) \/ CheckFrame(a)
      PROVE  Booked'
  BY <1>4 DEF Run, TimeOut, HandOff, CheckFrame, OnlyOwner, ledgerVars, Booked
<1>5. ASSUME NEW k \in Keys, AckFrame(k) \/ Expire(k)
      PROVE  Booked'
  BY <1>5 DEF AckFrame, Expire, ledgerVars, Booked, Has
<1>6. CASE UNCHANGED vars
  BY <1>6 DEF vars, ledgerVars, Booked
<1>7. ASSUME NEW a \in Copies, CopyStep(a) \/ Acquire(a) \/ Observe(a) \/ TimeOut(a) \/ Abort(a)
      PROVE  Booked'
  BY <1>1, <1>2, <1>3, <1>4, <1>7, ReapBooked, ObserveBooked, PublishBooked, AbortBooked
  DEF CopyStep
<1> QED
  BY <1>5, <1>6, <1>7, AckBooked, ForgetBooked DEF Next

-----------------------------------------------------------------------------
(* The slots of callbacks.                                                 *)

\* Whose callbacks are in which flight.
Pairs(H) == {p \in Copies \X Copies : p[2] \in H[p[1]]}
SubsOf == [b \in Copies |-> flight[b].subs]
EsubsOf == [b \in Copies |-> flight[b].esubs]

\* A flight's slots are its callbacks, within its bound.
Filled(r) ==
  r.slots = Cardinality(r.subs) + Cardinality(r.esubs) /\ r.slots <= SlotsPerFlight

Retained ==
  /\ \A b \in Copies : Filled(flight[b])
  /\ used.slots = Cardinality(Pairs(SubsOf)) + Cardinality(Pairs(EsubsOf))
  /\ used.slots <= MaxSlots

\* So are those of all flights.
LEMMA PairsFinite ==
  ASSUME NEW H
  PROVE  IsFiniteSet(Pairs(H)) /\ Cardinality(Pairs(H)) \in Nat
<1>1. Pairs(H) \in SUBSET (Copies \X Copies)
  BY DEF Pairs
<1>2. IsFiniteSet(Copies \X Copies)
  BY LedgerAssumption, FS_Product
<1>3. IsFiniteSet(Pairs(H))
  BY <1>1, <1>2, FS_Subset
<1> QED
  BY <1>3, FS_CardinalityType

\* The callbacks T are put into flight f.
LEMMA PairsMore ==
  ASSUME NEW H \in [Copies -> SUBSET Copies], NEW f \in Copies, NEW T \in SUBSET Copies,
         H[f] \cap T = {}
  PROVE  Cardinality(Pairs([H EXCEPT ![f] = H[f] \cup T])) =
           Cardinality(Pairs(H)) + Cardinality(T)
<1> DEFINE G == [H EXCEPT ![f] = H[f] \cup T]
           P == {f} \X T
<1>1. \A b \in Copies : G[b] = IF b = f THEN H[f] \cup T ELSE H[b]
  OBVIOUS
<1> HIDE DEF G
<1>2. Pairs(G) = Pairs(H) \cup P /\ Pairs(H) \cap P = {}
  <2>1. ASSUME NEW p \in Copies \X Copies
        PROVE  /\ p[2] \in G[p[1]] <=> p[2] \in H[p[1]] \/ p \in P
               /\ p \in P => p[2] \notin H[p[1]]
    <3>1. CASE p[1] = f
      BY <1>1, <3>1
    <3>2. CASE p[1] # f
      BY <1>1, <3>2
    <3> QED
      BY <3>1, <3>2
  <2>2. \A p \in P : p \in Copies \X Copies
    OBVIOUS
  <2> HIDE DEF P
  <2> QED
    BY <2>1, <2>2 DEF Pairs
<1>3. IsFiniteSet({f}) /\ Cardinality({f}) = 1
  BY FS_Singleton, Zenon
<1>4. IsFiniteSet(T)
  BY LedgerAssumption, FS_Subset
<1>5. /\ IsFiniteSet(P) /\ Cardinality(P) = 1 * Cardinality(T)
      /\ Cardinality(T) \in Nat
  BY <1>3, <1>4, FS_Product, FS_CardinalityType
<1>6. Cardinality({}) = 0
  BY FS_EmptySet, Zenon
<1>7. IsFiniteSet(Pairs(H)) /\ Cardinality(Pairs(H)) \in Nat
  BY PairsFinite
<1> HIDE DEF P
<1>8. Cardinality(Pairs(H) \cup P) =
        Cardinality(Pairs(H)) + Cardinality(P) - Cardinality(Pairs(H) \cap P)
  BY <1>5, <1>7, FS_Union
<1>9. Cardinality(Pairs(G)) = Cardinality(Pairs(H)) + Cardinality(T)
  <2>1. Cardinality(P) = Cardinality(T)
    BY <1>5
  <2>2. Cardinality(Pairs(H) \cap P) = 0
    BY <1>2, <1>6
  <2>3. Cardinality(Pairs(H) \cup P) = Cardinality(Pairs(H)) + Cardinality(T)
    BY <1>5, <1>7, <1>8, <2>1, <2>2
  <2> QED
    BY <1>2, <2>3
<1> QED
  BY <1>9 DEF G

\* The callbacks of flight f leave together.
LEMMA PairsOver ==
  ASSUME NEW H \in [Copies -> SUBSET Copies], NEW f \in Copies
  PROVE  Cardinality(Pairs([H EXCEPT ![f] = {}])) = Cardinality(Pairs(H)) - Cardinality(H[f])
<1> DEFINE G == [H EXCEPT ![f] = {}]
<1>1. /\ G \in [Copies -> SUBSET Copies] /\ H[f] \in SUBSET Copies /\ G[f] \cap H[f] = {}
      /\ H = [G EXCEPT ![f] = G[f] \cup H[f]]
  OBVIOUS
<1> HIDE DEF G
<1>2. Cardinality(Pairs([G EXCEPT ![f] = G[f] \cup H[f]])) =
        Cardinality(Pairs(G)) + Cardinality(H[f])
  BY <1>1, PairsMore
<1>3. Cardinality(Pairs(H)) = Cardinality(Pairs(G)) + Cardinality(H[f])
  BY <1>1, <1>2
<1>4. Cardinality(Pairs(G)) \in Nat /\ Cardinality(H[f]) \in Nat
  <2>1. IsFiniteSet(H[f])
    BY <1>1, LedgerAssumption, FS_Subset
  <2> QED
    BY <2>1, PairsFinite, FS_CardinalityType
<1>5. Cardinality(Pairs(G)) = Cardinality(Pairs(H)) - Cardinality(H[f])
  BY <1>3, <1>4
<1> QED
  BY <1>5 DEF G

\* Only the callbacks matter.
LEMMA PairsSame ==
  ASSUME NEW G, NEW H, \A b \in Copies : G[b] = H[b]
  PROVE  Pairs(G) = Pairs(H)
  BY DEF Pairs

\* What is in the flights, as functions.
LEMMA OfFlights ==
  ASSUME IInv
  PROVE  SubsOf \in [Copies -> SUBSET Copies] /\ EsubsOf \in [Copies -> SUBSET Copies]
  BY DEF SubsOf, EsubsOf, IInv, Typed, Flights

\* Steps that leave the callbacks where they are.
LEMMA RetainedSame ==
  ASSUME Retained, used'.slots = used.slots,
         \A b \in Copies : /\ flight'[b].subs = flight[b].subs
                           /\ flight'[b].esubs = flight[b].esubs
                           /\ flight'[b].slots = flight[b].slots
  PROVE  Retained'
<1>1. Pairs(SubsOf') = Pairs(SubsOf) /\ Pairs(EsubsOf') = Pairs(EsubsOf)
  BY PairsSame DEF SubsOf, EsubsOf
<1>2. \A b \in Copies : Filled(flight'[b])
  BY DEF Retained, Filled
<1> QED
  BY <1>1, <1>2 DEF Retained

\* The callbacks of an execution are called.
LEMMA ExecutionRetained ==
  ASSUME IInv, Booked, Retained, NEW a \in Copies, CompleteExecution(a)
  PROVE  Retained'
<1> DEFINE n == Cardinality(flight[a].esubs)
<1>1. /\ flight' = [flight EXCEPT ![a].exec = TRUE, ![a].esubs = {}, ![a].slots = @ - n]
      /\ used' = [used EXCEPT !.slots = @ - n]
  BY DEF CompleteExecution
<1>2. n \in Nat /\ Cardinality(flight[a].subs) \in Nat
  BY RetainedCount
<1>3. Cardinality(Pairs(SubsOf)) \in Nat /\ Cardinality(Pairs(EsubsOf)) \in Nat
  BY PairsFinite
<1>4. flight[a].slots = Cardinality(flight[a].subs) + n /\ flight[a].slots <= SlotsPerFlight
  BY DEF Retained, Filled
<1>5. flight[a].esubs \in SUBSET Copies
  BY DEF IInv, Typed, Flights
<1>6. Cardinality({}) = 0
  BY FS_EmptySet, Zenon
<1>7. /\ flight'[a].subs = flight[a].subs /\ flight'[a].esubs = {}
      /\ flight'[a].slots = flight[a].slots - n
      /\ \A b \in Copies : b # a => flight'[b] = flight[b]
  <2> HIDE DEF n
  <2> QED
    BY <1>1, <1>2 DEF IInv, Typed, Flights
<1>8. Cardinality(Pairs(EsubsOf')) = Cardinality(Pairs(EsubsOf)) - n
  <2>1. EsubsOf' = [EsubsOf EXCEPT ![a] = {}] /\ EsubsOf[a] = flight[a].esubs
    BY <1>7 DEF EsubsOf
  <2> QED
    BY <2>1, OfFlights, PairsOver
<1>9. Pairs(SubsOf') = Pairs(SubsOf)
  BY <1>7, PairsSame DEF SubsOf
<1>10. used'.slots = used.slots - n
  BY <1>1 DEF Booked, Counters
<1> HIDE DEF n
<1>11. \A b \in Copies : Filled(flight'[b])
  <2>1. Filled(flight'[a])
    BY <1>2, <1>4, <1>6, <1>7, LedgerAssumption DEF Filled
  <2> QED
    BY <1>7, <2>1 DEF Retained
<1>12. used'.slots = Cardinality(Pairs(SubsOf')) + Cardinality(Pairs(EsubsOf'))
  BY <1>2, <1>3, <1>8, <1>9, <1>10 DEF Retained
<1>13. used'.slots <= MaxSlots
  BY <1>2, <1>3, <1>8, <1>9, <1>12, LedgerAssumption DEF Retained
<1> QED
  BY <1>11, <1>12, <1>13 DEF Retained

\* A flight that is over retains nothing.
LEMMA OverRetained ==
  ASSUME IInv, Booked, Retained, NEW a \in Copies, Over(a), used' \in Counters,
         used'.slots = used.slots - Cardinality(flight[a].subs) - Cardinality(flight[a].esubs)
  PROVE  Retained'
<1> DEFINE m == Cardinality(flight[a].subs)
           n == Cardinality(flight[a].esubs)
<1>1. flight' = [flight EXCEPT ![a] = [NoFlight EXCEPT !.done = TRUE, !.exec = TRUE]]
  BY DEF Over
<1>2. m \in Nat /\ n \in Nat
  BY RetainedCount
<1>3. Cardinality(Pairs(SubsOf)) \in Nat /\ Cardinality(Pairs(EsubsOf)) \in Nat
  BY PairsFinite
<1>4. flight[a].subs \in SUBSET Copies /\ flight[a].esubs \in SUBSET Copies
  BY DEF IInv, Typed, Flights
<1>5. Cardinality({}) = 0
  BY FS_EmptySet, Zenon
<1>6. /\ flight'[a].subs = {} /\ flight'[a].esubs = {} /\ flight'[a].slots = 0
      /\ \A b \in Copies : b # a => flight'[b] = flight[b]
  BY <1>1 DEF IInv, Typed, NoFlight
<1>7. Cardinality(Pairs(EsubsOf')) = Cardinality(Pairs(EsubsOf)) - n
  <2>1. EsubsOf' = [EsubsOf EXCEPT ![a] = {}] /\ EsubsOf[a] = flight[a].esubs
    BY <1>6 DEF EsubsOf
  <2> QED
    BY <2>1, OfFlights, PairsOver
<1>8. Cardinality(Pairs(SubsOf')) = Cardinality(Pairs(SubsOf)) - m
  <2>1. SubsOf' = [SubsOf EXCEPT ![a] = {}] /\ SubsOf[a] = flight[a].subs
    BY <1>6 DEF SubsOf
  <2> QED
    BY <2>1, OfFlights, PairsOver
<1> HIDE DEF m, n
<1>9. \A b \in Copies : Filled(flight'[b])
  <2>1. Filled(flight'[a])
    BY <1>5, <1>6, LedgerAssumption DEF Filled
  <2> QED
    BY <1>6, <2>1 DEF Retained
<1>10. used'.slots = used.slots - m - n
  BY DEF m, n
<1>11. used'.slots = Cardinality(Pairs(SubsOf')) + Cardinality(Pairs(EsubsOf'))
  BY <1>2, <1>3, <1>7, <1>8, <1>10 DEF Retained
<1>12. used'.slots <= MaxSlots
  BY <1>2, <1>3, <1>10, LedgerAssumption DEF Retained
<1> QED
  BY <1>9, <1>11, <1>12 DEF Retained


\* Callbacks T added to the callbacks U.
LEMMA MoreCallbacks ==
  ASSUME NEW U \in SUBSET Copies, NEW T \in SUBSET Copies, U \cap T = {}
  PROVE  Cardinality(U \cup T) = Cardinality(U) + Cardinality(T)
<1>1. IsFiniteSet(U) /\ IsFiniteSet(T)
  BY LedgerAssumption, FS_Subset
<1>2. Cardinality(U) \in Nat /\ Cardinality(T) \in Nat
  BY <1>1, FS_CardinalityType
<1>3. Cardinality(U \cup T) = Cardinality(U) + Cardinality(T) - Cardinality(U \cap T)
  BY <1>1, FS_Union
<1>4. Cardinality({}) = 0
  BY FS_EmptySet, Zenon
<1>5. Cardinality(U \cap T) = 0
  BY <1>4
<1> QED
  BY <1>2, <1>3, <1>5

\* A copy's callbacks are retained if there are slots for all of them.
LEMMA SubscribeRetained ==
  ASSUME IInv, Calls, Booked, Retained, NEW a \in Copies, SubscribeAs(a)
  PROVE  Retained'
<1>1. PICK w \in Wants : Subscribe(a, w)
  BY DEF SubscribeAs, Wants
<1> DEFINE f == copy[a].join
           want == IF flight[f].exec THEN w \ {"exec"} ELSE w
           n == Cardinality(want)
<1>2. copy[a].at = "joined" /\ f \in Copies
  BY <1>1 DEF Subscribe, Calls, Joined
<1>3. CASE UNCHANGED <<flight, used>>
  BY <1>3, RetainedSame
<1>4. CASE ~UNCHANGED <<flight, used>>
  <2> DEFINE res == "result" \in w
             exe == ~flight[f].exec /\ "exec" \in w
             old == flight[f]
             g1 == [old EXCEPT !.slots = @ + n]
             g2 == [g1 EXCEPT !.subs = @ \cup (IF res THEN {a} ELSE {})]
             g == [g2 EXCEPT !.esubs = IF flight[f].exec THEN @ ELSE @ \cup (IF "exec" \in w THEN {a} ELSE {})]
  <2>1. /\ flight' = [flight EXCEPT ![f] = g]
        /\ used' = [used EXCEPT !.slots = @ + n]
        /\ flight[f].slots + n <= SlotsPerFlight /\ used.slots + n <= MaxSlots
    <3>1. /\ flight' = [flight EXCEPT
                ![f].slots = @ + n,
                ![f].subs = @ \cup (IF res THEN {a} ELSE {}),
                ![f].esubs = IF flight[f].exec THEN @ ELSE @ \cup (IF "exec" \in w THEN {a} ELSE {})]
          /\ used' = [used EXCEPT !.slots = @ + n]
          /\ flight[f].slots + n <= SlotsPerFlight /\ used.slots + n <= MaxSlots
      BY <1>1, <1>4, Zenon DEF Subscribe
    <3>2. flight' = [flight EXCEPT ![f] = g]
      <4> HIDE DEF n
      <4> QED
        BY <3>1
    <3> QED
      BY <3>1, <3>2
  <2> DEFINE R == IF res THEN {a} ELSE {}
             E == IF exe THEN {a} ELSE {}
  <2>2. n = Cardinality(R) + Cardinality(E) /\ Cardinality(R) \in Nat /\ Cardinality(E) \in Nat
    <3>1. want \in Wants /\ ("result" \in want <=> res) /\ ("exec" \in want <=> exe)
      BY <1>2 DEF Wants
    <3>2. Cardinality({a}) = 1
      BY FS_Singleton, Zenon
    <3>3. Cardinality({}) = 0
      BY FS_EmptySet, Zenon
    <3> HIDE DEF want, res, exe
    <3>4. n = (IF res THEN 1 ELSE 0) + (IF exe THEN 1 ELSE 0)
      BY <3>1, WantsCount
    <3>5. Cardinality(R) = (IF res THEN 1 ELSE 0) /\ Cardinality(E) = (IF exe THEN 1 ELSE 0)
      BY <3>2, <3>3
    <3> QED
      BY <3>4, <3>5
  <2>3. /\ g.subs = old.subs \cup R
        /\ g.esubs = old.esubs \cup E
        /\ g.slots = old.slots + n
    <3>1. DOMAIN old = {"exec", "acked", "handed", "done", "subs", "esubs", "slots"}
      BY <1>2 DEF IInv, Typed, Flights
    <3> HIDE DEF n
    <3> QED
      BY <1>2, <3>1 DEF IInv, Typed, Flights
  <2>4. /\ R \in SUBSET Copies /\ E \in SUBSET Copies
        /\ old.subs \cap R = {} /\ old.esubs \cap E = {}
    BY <1>2 DEF Calls, Installed, Sub
  <2>5. old.subs \in SUBSET Copies /\ old.esubs \in SUBSET Copies
    BY <1>2 DEF IInv, Typed, Flights
  <2>6. old.slots = Cardinality(old.subs) + Cardinality(old.esubs)
    BY <1>2 DEF Retained, Filled
  <2>7. Cardinality(old.subs) \in Nat /\ Cardinality(old.esubs) \in Nat
    BY <1>2, RetainedCount
  <2> HIDE DEF g, n, R, E
  <2>8. flight'[f] = g /\ \A b \in Copies : b # f => flight'[b] = flight[b]
    BY <1>2, <2>1 DEF IInv, Typed
  <2>9. /\ Cardinality(g.subs) = Cardinality(old.subs) + Cardinality(R)
        /\ Cardinality(g.esubs) = Cardinality(old.esubs) + Cardinality(E)
    BY <2>3, <2>4, <2>5, MoreCallbacks
  <2>10. Filled(g)
    BY <2>1, <2>2, <2>3, <2>6, <2>7, <2>9 DEF Filled
  <2>11. Cardinality(Pairs(SubsOf')) = Cardinality(Pairs(SubsOf)) + Cardinality(R)
    <3>1. SubsOf' = [SubsOf EXCEPT ![f] = SubsOf[f] \cup R] /\ SubsOf[f] = old.subs
      BY <1>2, <2>3, <2>8 DEF SubsOf
    <3>2. SubsOf[f] \cap R = {}
      BY <2>4, <3>1
    <3> HIDE DEF f
    <3> QED
      BY <1>2, <2>4, <3>1, <3>2, OfFlights, PairsMore
  <2>12. Cardinality(Pairs(EsubsOf')) = Cardinality(Pairs(EsubsOf)) + Cardinality(E)
    <3>1. EsubsOf' = [EsubsOf EXCEPT ![f] = EsubsOf[f] \cup E] /\ EsubsOf[f] = old.esubs
      BY <1>2, <2>3, <2>8 DEF EsubsOf
    <3>2. EsubsOf[f] \cap E = {}
      BY <2>4, <3>1
    <3> HIDE DEF f
    <3> QED
      BY <1>2, <2>4, <3>1, <3>2, OfFlights, PairsMore
  <2>13. used'.slots = used.slots + n
    BY <2>1 DEF Booked, Counters
  <2>14. Cardinality(Pairs(SubsOf)) \in Nat /\ Cardinality(Pairs(EsubsOf)) \in Nat
    BY PairsFinite
  <2>15. used'.slots = Cardinality(Pairs(SubsOf')) + Cardinality(Pairs(EsubsOf'))
    BY <2>2, <2>11, <2>12, <2>13, <2>14 DEF Retained
  <2> QED
    BY <2>1, <2>8, <2>10, <2>13, <2>15 DEF Retained
<1> QED
  BY <1>3, <1>4

\* Every step keeps the count of slots.
LEMMA NextRetained == IInv /\ Calls /\ Booked /\ Retained /\ [Next]_vars => Retained'
<1> SUFFICES ASSUME IInv, Calls, Booked, Retained, [Next]_vars PROVE Retained'
  OBVIOUS
<1>1. Booked'
  BY NextBooked
<1>2. ASSUME NEW a \in Copies, Publish(a) \/ Abort(a)
      PROVE  Retained'
  <2> DEFINE m == used.slots - Cardinality(flight[a].subs) - Cardinality(flight[a].esubs)
  <2>1. Over(a) /\ \E n : used' = AfterFlight(n, m)
    BY <1>2 DEF Publish, Abort
  <2>2. used'.slots = m
    <3> HIDE DEF m
    <3> QED
      BY <2>1 DEF AfterFlight, Booked, Counters
  <2>3. used' \in Counters
    BY <1>1 DEF Booked
  <2> QED
    BY <2>1, <2>2, <2>3, OverRetained
<1>3. CASE /\ used'.slots = used.slots
           /\ \/ flight' = flight
              \/ \E f \in Copies : flight' = [flight EXCEPT ![f].acked = TRUE]
              \/ \E f \in Copies : flight' = [flight EXCEPT ![f].handed = TRUE]
  <2>1. \A b \in Copies : /\ flight'[b].subs = flight[b].subs
                          /\ flight'[b].esubs = flight[b].esubs
                          /\ flight'[b].slots = flight[b].slots
    BY <1>3 DEF IInv, Typed, Flights
  <2> QED
    BY <1>3, <2>1, RetainedSame
<1>4. ASSUME NEW a \in Copies,
             Acquire(a) \/ AcquireAgain(a) \/ Observe(a) \/ ReapAll(a)
      PROVE  Retained'
  <2>1. flight' = flight
    BY <1>4 DEF Acquire, AcquireAgain, Claim, Observe, ObserveOn, ReapAll
  <2>2. ASSUME NEW k, Claim(a, k)
        PROVE  used'.slots = used.slots
    <3> DEFINE at == Outcome(a, k)
               n == EntriesAfter({ShardOf[k]}) + (IF at = "queued" THEN 1 ELSE 0)
               p == IF at = "queued" THEN used.pending + 1 ELSE used.pending
               q == IF at = "queued" THEN used.flights + 1 ELSE used.flights
    <3>1. used' = [used EXCEPT !.entries = n, !.pending = p, !.flights = q]
      BY <2>2 DEF Claim
    <3> HIDE DEF n, p, q
    <3> QED
      BY <3>1 DEF Booked, Counters
  <2>3. CASE Acquire(a) \/ AcquireAgain(a)
    BY <1>3, <2>1, <2>2, <2>3 DEF Acquire, AcquireAgain
  <2>4. CASE Observe(a) \/ ReapAll(a)
    <3>1. \E n : used' = [used EXCEPT !.entries = n]
      BY <2>4 DEF Observe, ObserveOn, ReapAll
    <3> QED
      BY <1>3, <2>1, <3>1 DEF Booked, Counters
  <2> QED
    BY <1>4, <2>3, <2>4
<1>5. ASSUME NEW a \in Copies, Run(a) \/ TimeOut(a) \/ HandOff(a) \/ CheckFrame(a)
      PROVE  Retained'
  BY <1>3, <1>5 DEF Run, TimeOut, HandOff, CheckFrame, OnlyOwner, ledgerVars
<1>6. ASSUME NEW k \in Keys, AckFrame(k) \/ Acknowledge(k) \/ Expire(k)
      PROVE  Retained'
  <2>1. \/ flight' = flight
        \/ \E f \in Copies : flight' = [flight EXCEPT ![f].acked = TRUE]
    BY <1>6 DEF AckFrame, Acknowledge, Expire, ledgerVars, IInv, Typed
  <2>2. used' = used \/ \E n : used' = [used EXCEPT !.entries = n]
    BY <1>6 DEF AckFrame, Acknowledge, Expire, ledgerVars
  <2> QED
    BY <1>3, <2>1, <2>2 DEF Booked, Counters
<1>7. CASE ForgetSession
  BY <1>3, <1>7 DEF ForgetSession, Booked, Counters
<1>8. CASE UNCHANGED vars
  BY <1>3, <1>8 DEF vars, ledgerVars
<1> QED
  BY <1>2, <1>4, <1>5, <1>6, <1>7, <1>8, SubscribeRetained, ExecutionRetained DEF Next, CopyStep


\* An empty ledger uses nothing.
LEMMA InitBudget == Init => Booked /\ Retained
<1> SUFFICES ASSUME Init PROVE Booked /\ Retained
  OBVIOUS
<1>1. Cardinality({}) = 0
  BY FS_EmptySet, Zenon
<1>2. Has(pending) = {} /\ Has(receipt) = {}
  BY DEF Init, Has
<1>3. used = [entries |-> 0, pending |-> 0, flights |-> 0, slots |-> 0] /\ expired = {}
  BY DEF Init
<1>4. Booked
  BY <1>1, <1>2, <1>3, LedgerAssumption DEF Booked, Counters
<1>5. \A b \in Copies : flight[b].subs = {} /\ flight[b].esubs = {} /\ flight[b].slots = 0
  BY DEF Init, NoFlight
<1>6. Pairs(SubsOf) = {} /\ Pairs(EsubsOf) = {}
  BY <1>5 DEF Pairs, SubsOf, EsubsOf
<1>7. Retained
  <2>1. used.slots = 0 /\ 0 + 0 = 0 /\ 0 <= MaxSlots /\ 0 <= SlotsPerFlight
    BY <1>3, LedgerAssumption
  <2>2. \A b \in Copies : Filled(flight[b])
    BY <1>1, <1>5, <2>1 DEF Filled
  <2> QED
    BY <1>1, <1>6, <2>1, <2>2 DEF Retained
<1> QED
  BY <1>4, <1>7

\* The invariant of the budgets needs the callbacks' account: a callback that is about
\* to be retained is in no flight yet.
THEOREM BudgetKept == Spec => [](IInv /\ Calls /\ Booked /\ Retained)
<1>1. Init => IInv /\ Calls /\ Booked /\ Retained
  BY InitIInv, InitCalls, InitBudget
<1>2. IInv /\ Calls /\ Booked /\ Retained /\ [Next]_vars => (IInv /\ Calls /\ Booked /\ Retained)'
  BY NextIInv, NextCalls, NextBooked, NextRetained
<1> QED
  BY <1>1, <1>2, PTL DEF Spec

\* Every counter equals what it counts.
THEOREM BudgetExactHolds == Spec => []BudgetExact
<1>1. ASSUME Booked, Retained
      PROVE  BudgetExact
  <2>1. Has(pending) = Pending /\ Has(receipt) = {k \in Keys : receipt[k] # None}
    BY DEF Has, Pending
  <2>2. /\ Pairs(SubsOf) = {p \in Copies \X Copies : p[2] \in flight[p[1]].subs}
        /\ Pairs(EsubsOf) = {p \in Copies \X Copies : p[2] \in flight[p[1]].esubs}
    BY DEF Pairs, SubsOf, EsubsOf
  <2>3. /\ used.entries = Cardinality(Pending) + Cardinality({k \in Keys : receipt[k] # None})
        /\ used.pending = Cardinality(Pending) /\ used.flights = Cardinality(Pending)
    BY <1>1, <2>1 DEF Booked
  <2>4. used.slots = Cardinality({p \in Copies \X Copies : p[2] \in flight[p[1]].subs})
                   + Cardinality({p \in Copies \X Copies : p[2] \in flight[p[1]].esubs})
    BY <1>1, <2>2 DEF Retained
  <2>5. \A a \in Copies :
          flight[a].slots = Cardinality(flight[a].subs) + Cardinality(flight[a].esubs)
    BY <1>1 DEF Retained, Filled
  <2> QED
    BY <2>3, <2>4, <2>5 DEF BudgetExact
<1> QED
  BY <1>1, BudgetKept, PTL

\* The state's types, and no counter beyond its limit.
THEOREM TypeCorrect == Spec => []TypeOK
<1>1. ASSUME IInv, Booked, Retained
      PROVE  TypeOK
  <2>1. ASSUME NEW a \in Copies
        PROVE  /\ copy[a].at \in Places
               /\ copy[a].key \in Keys \cup {None} /\ copy[a].join \in Copies \cup {None}
               /\ flight[a].slots \in 0..SlotsPerFlight
               /\ copy[a].at \in Owning <=> Owns(a)
    <3>1. /\ copy[a].at \in Places
          /\ copy[a].key \in Keys \cup {None} /\ copy[a].join \in Copies \cup {None}
      BY <1>1 DEF IInv, Typed, Arrivals
    <3>2. flight[a].slots \in 0..SlotsPerFlight
      <4>1. Cardinality(flight[a].subs) \in Nat /\ Cardinality(flight[a].esubs) \in Nat
        BY <1>1, RetainedCount
      <4> QED
        BY <1>1, <4>1, LedgerAssumption DEF Retained, Filled
    <3>3. copy[a].at \in Owning <=> Owns(a)
      BY <1>1, <3>1, LedgerAssumption DEF IInv, Claimed
    <3> QED
      BY <3>1, <3>2, <3>3
  <2>2. /\ used.entries \in 0..MaxEntries /\ used.pending \in 0..PendingPerAuth
        /\ used.flights \in 0..MaxPending
    <3>1. Cardinality(Has(pending)) \in Nat /\ Cardinality(Has(receipt)) \in Nat
      BY HasCount
    <3> QED
      BY <1>1, <3>1, LedgerAssumption DEF Booked
  <2>3. used.slots \in 0..MaxSlots
    <3>1. Cardinality(Pairs(SubsOf)) \in Nat /\ Cardinality(Pairs(EsubsOf)) \in Nat
      BY PairsFinite
    <3> QED
      BY <1>1, <3>1, LedgerAssumption DEF Retained
  <2>4. /\ \A k \in Keys : pending[k] # None => receipt[k] = None
        /\ frame \cup acking \cup ran \cup released \subseteq Keys
    BY <1>1 DEF IInv, Typed, Claimed
  <2>5. expired \subseteq {k \in Keys : receipt[k] # None}
    BY <1>1 DEF Booked, Has
  <2> QED
    BY <2>1, <2>2, <2>3, <2>4, <2>5 DEF TypeOK
<1> QED
  BY <1>1, BudgetKept, PTL
=============================================================================
