--------------------------- MODULE ReadModelCache ---------------------------
(***************************************************************************)
(* readmodelcache.Cache: the bounded in-process cache behind every read    *)
(* model.  Callers read through it, one key with singleflight or a batch   *)
(* with one flight per missing key; the read-model listener invalidates    *)
(* keys after the writes that changed them were committed.                 *)
(*                                                                         *)
(* A value is the version of the source row it was loaded from, and the    *)
(* hash of the version gate is the version the caller knew.  Each action   *)
(* holds the cache's mutex once, reads the source once, or settles one     *)
(* flight.  Clones, weights and the dependency index are left out.         *)
(***************************************************************************)
EXTENDS Naturals, FiniteSets, SequencesExt

CONSTANTS
  Keys,
  Callers,       \* bound: calls in progress at a time
  None,          \* no caller
  Bypass,        \* the hash of a key that is not cacheable
  Cap,           \* MaxEntries
  MaxVersion,    \* bound: the largest version of a row
  MaxEpoch,      \* bound: how many invalidations happen
  Expires,       \* whether the cache has a TTL
  Kinds,         \* what callers do: "one" GetOrLoad and GetOrLoadVersioned,
                 \* "batch" GetOrLoadBatch, "build" LoadEpoch and StoreIfEpoch,
                 \* "through" commit a write, then Store
  Gates          \* how they ask: "plain", "versioned", "bypass"

ASSUME KeysAssumption == IsFiniteSet(Keys)
ASSUME CallersAssumption == None \notin Callers
ASSUME KindsAssumption == Kinds \subseteq {"one", "batch", "build", "through"}
ASSUME VersionsAssumption ==
  /\ MaxVersion \in Nat \ {0} /\ MaxEpoch \in Nat /\ Cap \in Nat \ {0}
  /\ Bypass \notin Nat
  /\ Expires \in BOOLEAN

VARIABLES
  src,     \* the version each row has in PostgreSQL
  told,    \* history: the version each row had at its last invalidation
  items,   \* the entry of each key; version 0 is an absent one
  order,   \* the LRU list, most recently used first
  epoch,   \* the invalidations so far
  call     \* the calls in progress

cache == <<items, order, epoch>>
vars == <<src, told, cache, call>>

-----------------------------------------------------------------------------
Versions == 1..MaxVersion
Absent == [val |-> 0, hash |-> 0]

\* A call: where it stands, the keys it wants and the hash it asks each with,
\* the keys it still looks up, the flights it owns and those it waits for, the
\* epoch it read, what it loaded, what it will answer, and how its flights ended.
\* asof is what was told when it began; late, that it joined a flight whose value
\* was stored already.
Free ==
  [at |-> "free", kind |-> "none", keys |-> {}, hash |-> [k \in Keys |-> 0],
   todo |-> {}, own |-> {}, wait |-> [k \in Keys |-> None], epoch |-> 0,
   loaded |-> [k \in Keys |-> 0], got |-> [k \in Keys |-> 0],
   end |-> "open", failed |-> FALSE, retry |-> FALSE,
   asof |-> [k \in Keys |-> 0], late |-> FALSE]

Init ==
  /\ src = [k \in Keys |-> 1] /\ told = [k \in Keys |-> 1]
  /\ items = [k \in Keys |-> Absent]
  /\ order = <<>>
  /\ epoch = 0
  /\ call = [c \in Callers |-> Free]

Resident == {k \in Keys : items[k] # Absent}

\* The n-th of a set of positions, the list without the keys S (the others in
\* their order), and the list with the keys of q in front of it.
Nth(I, n) == CHOOSE i \in I : Cardinality(I \cap (1..i)) = n

Dropped(S) ==
  LET left == {i \in DOMAIN order : order[i] \notin S}
  IN  [n \in 1..Cardinality(left) |-> order[Nth(left, n)]]

InFront(q) == q \o Dropped(ToSet(q))

\* Mutated: one entry too many stays.
KeptOneMore(q) == SubSeq(q, 1, IF Len(q) <= Cap + 1 THEN Len(q) ELSE Cap + 1)

\* evictOverflow: the least recently used entries beyond the bound leave.
Kept(q) == SubSeq(q, 1, IF Len(q) <= Cap THEN Len(q) ELSE Cap)

\* storeLocked, for the keys S in any order.
StoreAll(S, val, hash) ==
  \E q \in SetToSeqs(S) :
    LET left == Kept(InFront(q))
    IN  /\ order' = left
        /\ items' = [k \in Keys |->
             IF k \notin ToSet(left) THEN Absent
             ELSE IF k \in S THEN [val |-> val[k], hash |-> hash[k]] ELSE items[k]]

Drop(S) ==
  /\ items' = [k \in Keys |-> IF k \in S THEN Absent ELSE items[k]]
  /\ order' = Dropped(S)

Goto(c, r) == call' = [call EXCEPT ![c] = r]

-----------------------------------------------------------------------------
(* The source and the listener.                                            *)

Commit(k) ==
  /\ src[k] < MaxVersion
  /\ src' = [src EXCEPT ![k] = @ + 1]
  /\ UNCHANGED <<told, cache, call>>

InvalidateAt(S, e) ==
  /\ epoch < MaxEpoch
  /\ epoch' = e
  /\ Drop(S)
  /\ told' = [k \in Keys |-> IF k \in S THEN src[k] ELSE told[k]]
  /\ UNCHANGED <<src, call>>

\* Mutated: the epoch moves only when an entry was removed.
InvalidateResident(S) == InvalidateAt(S, IF S \cap Resident = {} THEN epoch ELSE epoch + 1)

\* Invalidate, InvalidateWhere, InvalidateWhereValue; Flush is that of all keys.
\* The listener calls them after the commit, so they cover every version so far.
Invalidate(S) == InvalidateAt(S, epoch + 1)

-----------------------------------------------------------------------------
(* A call begins.                                                          *)

HashOf(gate) ==
  [k \in Keys |-> IF gate = "bypass" THEN Bypass ELSE IF gate = "versioned" THEN src[k] ELSE 0]

Ask(c, kind, S, gate) ==
  /\ call[c] = Free
  /\ kind # "batch" => (\E k \in S : S = {k}) /\ gate # "bypass"
  /\ kind = "build" => gate = "plain"
  /\ Goto(c, [Free EXCEPT !.at = IF kind = "one" THEN "lookup" ELSE "epoch",
                            !.kind = kind, !.keys = S, !.hash = HashOf(gate), !.asof = told,
                            !.todo = S, !.own = IF kind = "build" THEN S ELSE {}])
  /\ UNCHANGED <<src, told, cache>>

\* cacheEpoch: before the lookups of a batch, before the load of the others.
ReadEpoch(c) ==
  LET r == call[c]
  IN  /\ r.at = "epoch"
      /\ Goto(c, [r EXCEPT !.epoch = epoch,
                            !.at = IF r.kind = "batch" THEN "lookup" ELSE "loading"])
      /\ UNCHANGED <<src, told, cache>>

-----------------------------------------------------------------------------
(* Lookups.                                                                *)

\* The entry is there and the version gate lets it pass.
Hit(r, k) ==
  /\ k \in Resident
  /\ r.hash[k] \in {0, items[k].hash}

\* A hit moves the entry to the front; an expired entry is removed and missed.
\* A key that is not cacheable is not looked at.
LookupKey(k, r, c, hit, miss) ==
  \/ /\ Hit(r, k)
     /\ order' = InFront(<<k>>)
     /\ Goto(c, hit)
     /\ UNCHANGED <<src, told, items, epoch>>
  \/ /\ ~Hit(r, k)
     /\ Goto(c, miss)
     /\ UNCHANGED <<src, told, cache>>
  \/ /\ Expires /\ k \in Resident /\ r.hash[k] # Bypass
     /\ Drop({k})
     /\ Goto(c, miss)
     /\ UNCHANGED <<src, told, epoch>>

Lookup(c, k) ==
  LET r == call[c]
      rest == [r EXCEPT !.todo = @ \ {k}]
  IN  /\ r.at = "lookup" /\ k \in r.todo
      /\ LookupKey(k, r, c, [rest EXCEPT !.got[k] = items[k].val], rest)

\* Inside the flight a single caller looks once more.
LookAgain(c, k) ==
  LET r == call[c]
  IN  /\ r.at = "again" /\ k \in r.own
      /\ LookupKey(k, r, c,
           [r EXCEPT !.at = "settling", !.loaded[k] = items[k].val, !.end = "stored"],
           [r EXCEPT !.at = "epoch"])

-----------------------------------------------------------------------------
(* Flights: singleflight for one key, claimBatchFlights for a batch.       *)

\* Mutated: flights of an older epoch, or of another hash, are joined.
AnyFlight(r, k) == <<r.kind, k>>

FlightKey(r, k) ==
  IF r.kind = "batch" THEN <<"batch", k, r.hash[k], r.epoch>>
  ELSE <<"one", k, r.hash[k]>>

Owners(r, k) ==
  {b \in Callers : k \in call[b].own /\ call[b].kind # "build"
                   /\ FlightKey(call[b], k) = FlightKey(r, k)}

Claim(c) ==
  LET r == call[c]
      missing == {k \in r.keys : r.got[k] = 0}
      mine == {k \in missing : Owners(r, k) = {}}
      leader == [k \in Keys |-> IF k \notin missing THEN None
                                ELSE IF k \in mine THEN c
                                ELSE CHOOSE b \in Owners(r, k) : TRUE]
  IN  /\ r.at = "lookup" /\ r.todo = {}
      /\ Goto(c, [r EXCEPT
           !.wait = leader,
           !.own = mine,
           !.late = r.kind = "one" /\ \E k \in missing \ mine : call[leader[k]].end = "stored",
           !.at = IF mine = {} THEN "waiting" ELSE IF r.kind = "one" THEN "again" ELSE "loading"])
      /\ UNCHANGED <<src, told, cache>>

Load(c) ==
  LET r == call[c]
  IN  /\ r.at = "loading"
      /\ Goto(c, [r EXCEPT !.at = "storing",
                            !.loaded = [k \in Keys |-> IF k \in r.own THEN src[k] ELSE 0]])
      /\ UNCHANGED <<src, told, cache>>

\* Mutated: a failed owner returns at once, its flights still open.
LoadFailsEarly(c) ==
  /\ call[c].at = "loading"
  /\ Goto(c, [call[c] EXCEPT !.at = "done", !.failed = TRUE, !.own = {},
                             !.wait = [k \in Keys |-> None]])
  /\ UNCHANGED <<src, told, cache>>

\* The error goes to the flights; an external build has none.
LoadFails(c) ==
  /\ call[c].at = "loading"
  /\ Goto(c, IF call[c].kind = "build" THEN Free
             ELSE [call[c] EXCEPT !.at = "settling", !.end = "failed"])
  /\ UNCHANGED <<src, told, cache>>

StoreUnder(c, hash) ==
  LET r == call[c]
      fresh == epoch = r.epoch
  IN  /\ r.at = "storing"
      /\ IF fresh THEN StoreAll({k \in r.own : r.hash[k] # Bypass}, r.loaded, hash)
                  ELSE UNCHANGED <<items, order>>
      /\ Goto(c, IF r.kind = "build" THEN Free
                 ELSE [r EXCEPT !.at = "settling", !.end = IF fresh THEN "stored" ELSE "refused"])
      /\ UNCHANGED <<src, told, epoch>>

\* Mutated: the gate's version is looked up again when the value is stored.
StoreUnderNewHash(c) ==
  StoreUnder(c, [k \in Keys |-> IF call[c].hash[k] = 0 THEN 0 ELSE src[k]])

\* storeIfEpoch and storeBatchIfEpoch, under the hash of the lookup.
Store(c) == StoreUnder(c, call[c].hash)

\* A flight ends: its owner and all who joined it learn the outcome.
Settle(c, k) ==
  LET r == call[c]
      Told(w) == [call[w] EXCEPT
                    !.wait[k] = None,
                    !.own = IF w = c THEN @ \ {k} ELSE @,
                    !.at = IF w = c /\ r.own = {k} THEN "waiting" ELSE @,
                    !.got[k] = IF r.end = "stored" THEN r.loaded[k] ELSE 0,
                    !.failed = @ \/ r.end = "failed",
                    !.retry = @ \/ r.end = "refused"]
  IN  /\ r.at = "settling" /\ k \in r.own
      /\ call' = [w \in Callers |-> IF call[w].wait[k] = c THEN Told(w) ELSE call[w]]
      /\ UNCHANGED <<src, told, cache>>

-----------------------------------------------------------------------------
(* A call ends.                                                            *)

Waits(r) == \E k \in Keys : r.wait[k] # None

\* Every flight was awaited, or one of them failed.
Await(c) ==
  LET r == call[c]
  IN  /\ r.at = "waiting" /\ r.own = {}
      /\ r.failed \/ ~Waits(r)
      /\ Goto(c, [r EXCEPT !.at = IF ~r.failed /\ r.retry THEN "retry" ELSE "done",
                            !.wait = [k \in Keys |-> None]])
      /\ UNCHANGED <<src, told, cache>>

\* An invalidation came during a load: look everything up once more.  The code asks for
\* the versions anew as well; here the call keeps those it asked for.
Retry(c) ==
  LET r == call[c]
  IN  /\ r.at = "retry"
      /\ Goto(c, [Free EXCEPT !.at = IF r.kind = "one" THEN "lookup" ELSE "epoch",
                                !.kind = r.kind, !.keys = r.keys, !.todo = r.keys,
                                !.hash = r.hash, !.asof = r.asof])
      /\ UNCHANGED <<src, told, cache>>

\* The caller's context ends: a batch also leaves the flights it waits for.
Cancel(c) ==
  LET r == call[c]
  IN  /\ r.at = "retry" \/ (r.at = "waiting" /\ r.kind = "batch" /\ Waits(r))
      /\ Goto(c, [r EXCEPT !.at = "done", !.failed = TRUE, !.wait = [k \in Keys |-> None]])
      /\ UNCHANGED <<src, told, cache>>

Return(c) ==
  /\ call[c].at = "done"
  /\ Goto(c, Free)
  /\ UNCHANGED <<src, told, cache>>

-----------------------------------------------------------------------------
(* Writers that put what they committed: ChannelRowCache.put after the     *)
(* transaction, accountSettings.Store after the service call.              *)

CommitThrough(c, k) ==
  /\ "through" \in Kinds
  /\ call[c] = Free /\ src[k] < MaxVersion
  /\ src' = [src EXCEPT ![k] = @ + 1]
  /\ Goto(c, [Free EXCEPT !.at = "putting", !.kind = "through", !.keys = {k},
                           !.loaded[k] = src[k] + 1])
  /\ UNCHANGED <<told, cache>>

\* Store looks at no epoch.
Put(c) ==
  LET r == call[c]
  IN  /\ r.at = "putting"
      /\ StoreAll(r.keys, r.loaded, r.hash)
      /\ Goto(c, Free)
      /\ UNCHANGED <<src, told, epoch>>

-----------------------------------------------------------------------------
CallStep(c) ==
  \/ ReadEpoch(c) \/ Claim(c) \/ Load(c) \/ LoadFails(c) \/ Store(c)
  \/ Await(c) \/ Retry(c) \/ Return(c) \/ Put(c)
  \/ \E k \in Keys : Lookup(c, k) \/ LookAgain(c, k) \/ Settle(c, k)

Begins(c) ==
  \/ \E kind \in Kinds \ {"through"}, S \in (SUBSET Keys) \ {{}}, gate \in Gates :
       Ask(c, kind, S, gate)
  \/ \E k \in Keys : CommitThrough(c, k)

Next ==
  \/ \E k \in Keys : Commit(k)
  \/ \E S \in (SUBSET Keys) \ {{}} : Invalidate(S)
  \/ \E c \in Callers : Begins(c) \/ CallStep(c) \/ Cancel(c)

Spec == Init /\ [][Next]_vars

\* Goroutines run on; a caller's context need not end.
FairSpec == Spec /\ \A c \in Callers : WF_vars(CallStep(c))

-----------------------------------------------------------------------------
\* The cache and its calls keep their types, the list holds each resident key
\* once, and never more than Cap of them.
TypeOK ==
  /\ src \in [Keys -> Versions] /\ told \in [Keys -> Versions]
  /\ items \in [Keys -> [val : 0..MaxVersion, hash : 0..MaxVersion]]
  /\ ToSet(order) = Resident /\ Len(order) = Cardinality(Resident) /\ Len(order) <= Cap
  /\ epoch \in 0..MaxEpoch
  /\ \A c \in Callers :
       /\ call[c].own \subseteq call[c].keys /\ call[c].keys \subseteq Keys
       /\ call[c].epoch <= epoch
       /\ \A k \in Keys : call[c].wait[k] \in Callers \cup {None}

\* "A load that crosses an invalidation does not write its stale value back"
\* (cache.go:11): no entry is older than the last invalidation of its key.
NoStaleResident == \A k \in Resident : items[k].val >= told[k]

\* A caller never gets what was invalidated before it asked, whichever flight it
\* joined, unless it joined a singleflight that had stored its value already.
ReadsFresh ==
  \A c \in Callers :
    LET r == call[c]
    IN  r.at = "done" /\ ~r.failed /\ ~r.late => \A k \in r.keys : r.got[k] >= r.asof[k]

\* An entry is never older than the version it is stamped with, nor an answer
\* older than the version it was asked for: the gate cannot be passed by a value
\* that was loaded for an earlier version.
VersionHonoured ==
  /\ \A k \in Resident : items[k].val >= items[k].hash
  /\ \A c \in Callers :
       LET r == call[c]
       IN  r.at = "done" /\ ~r.failed =>
             \A k \in r.keys : r.hash[k] # Bypass => r.got[k] >= r.hash[k]

\* Once invalidations pause, every call returns: each flight a caller waits for
\* ends, even when its load fails, and batches never wait in a circle.
EveryCallReturns == \A c \in Callers : call[c] # Free ~> call[c] = Free
=============================================================================
