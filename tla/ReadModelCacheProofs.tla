------------------------ MODULE ReadModelCacheProofs ------------------------
(***************************************************************************)
(* For any number of keys, callers, versions and invalidations: no entry   *)
(* is older than the last invalidation of its key, no caller gets what was *)
(* invalidated before it asked, the version gate holds, and the LRU list   *)
(* names the resident keys within the bound.  The first two need that no   *)
(* writer puts what it committed past the epoch guard.                     *)
(***************************************************************************)
EXTENDS ReadModelCache, FiniteSetTheorems, SequenceTheorems, TLAPS

\* No writer stores outside the epoch guard.
Guarded == "through" \notin Kinds

Places ==
  {"free", "lookup", "again", "epoch", "loading", "storing", "settling", "waiting", "retry",
   "done", "putting"}

Calls ==
  [at : Places,
   kind : {"none", "one", "batch", "build", "through"},
   keys : SUBSET Keys, hash : [Keys -> Nat \cup {Bypass}], todo : SUBSET Keys,
   own : SUBSET Keys, wait : [Keys -> Callers \cup {None}], epoch : Nat,
   loaded : [Keys -> Nat], got : [Keys -> Nat],
   end : {"open", "stored", "refused", "failed"}, failed : BOOLEAN, retry : BOOLEAN,
   asof : [Keys -> Nat], late : BOOLEAN]

\* Where a call may stand, and what it then owns and waits for.
Placed(r) ==
  /\ r.at \in {"free", "lookup", "waiting", "retry", "done", "putting"} => r.own = {}
  /\ r.at \in {"free", "lookup", "retry", "done", "putting"} => \A k \in Keys : r.wait[k] = None
  /\ r.at = "epoch" /\ r.kind = "batch" => r.own = {} /\ \A k \in Keys : r.wait[k] = None
  /\ r.kind = "build" =>
       r.at \in {"epoch", "loading", "storing"} /\ \A k \in Keys : r.wait[k] = None
  /\ r.late => r.kind = "one"
  /\ r.end = "stored" /\ r.own # {} => r.at = "settling"
  /\ r.at = "settling" => r.end # "open"
  /\ r.at \in {"lookup", "again", "epoch", "loading", "storing"} => r.end = "open"
  /\ r.at = "lookup" => ~r.late
  /\ r.kind \in {"none", "through"} => r.at \in {"free", "putting"}
  /\ r.own \subseteq r.keys
  /\ r.at = "again" => r.kind = "one"
  /\ r.kind = "one" => \A j, k \in r.keys : j = k
  /\ r.at = "putting" => Guarded = FALSE /\ \A k \in Keys : r.hash[k] = 0
  /\ r.at = "putting" => \A k \in r.keys : r.loaded[k] >= 1

\* Past its claim a call that neither failed nor must retry has, or waits for,
\* each of its keys.
Claimed(r) ==
  \/ r.at \in {"again", "loading", "storing", "settling", "waiting"} /\ r.kind # "build"
  \/ r.at = "epoch" /\ r.kind = "one"

Complete(r) ==
  /\ Claimed(r) /\ ~r.failed /\ ~r.retry =>
       \A k \in r.keys : r.got[k] # 0 \/ r.wait[k] # None
  /\ r.at = "done" /\ ~r.failed => \A k \in r.keys : r.got[k] # 0

\* The version a call asks with exists, and whatever it holds is at least that.
Versioned(r) ==
  /\ \A k \in Keys : r.hash[k] # Bypass => r.hash[k] <= src[k]
  /\ \A k \in Keys : r.got[k] # 0 /\ r.hash[k] # Bypass => r.got[k] >= r.hash[k]
  /\ r.at = "storing" \/ (r.at = "settling" /\ r.end = "stored") =>
       \A k \in r.own : r.loaded[k] >= 1 /\ (r.hash[k] # Bypass => r.loaded[k] >= r.hash[k])

\* While the epoch stands, what was loaded in it covers what was told.
Fresh(r) ==
  /\ r.epoch <= epoch
  /\ \A k \in Keys : r.asof[k] <= told[k]
  /\ Guarded /\ ~r.late => \A k \in Keys : r.got[k] # 0 => r.got[k] >= r.asof[k]
  /\ r.epoch = epoch
     /\ (r.at = "storing" \/ (r.kind = "batch" /\ r.at = "settling" /\ r.end = "stored")) =>
         \A k \in r.own : r.loaded[k] >= told[k]

\* A waiter and the owner of its flight agree on the hash, and on the epoch of a
\* batch; a value stored for the flight is fresh for every waiter not too late.
Joined(w, b, o) ==
  \A k \in Keys : w.wait[k] = b =>
    /\ k \in o.own
    /\ o.kind = w.kind
    /\ o.hash[k] = w.hash[k]
    /\ w.kind = "batch" => o.epoch = w.epoch
    /\ Guarded /\ o.end = "stored" /\ ~w.late => o.loaded[k] >= w.asof[k]

\* Two batches of one epoch: what one stored is fresh for the other.
SameEpoch(w, o) ==
  w.kind = "batch" /\ w.at # "epoch" /\ o.kind = "batch" /\ o.end = "stored"
    /\ o.epoch = w.epoch => \A k \in o.own : o.loaded[k] >= w.asof[k]

Entries ==
  \A k \in Keys :
    /\ items[k] # Absent => items[k].val >= 1
    /\ items[k].val >= items[k].hash
    /\ Guarded /\ items[k] # Absent => items[k].val >= told[k]

Typed ==
  /\ src \in [Keys -> Nat \ {0}] /\ told \in [Keys -> Nat]
  /\ \A k \in Keys : told[k] <= src[k]
  /\ items \in [Keys -> [val : Nat, hash : Nat]]
  /\ epoch \in Nat
  /\ call \in [Callers -> Calls]

CallInv(c) ==
  Placed(call[c]) /\ Complete(call[c]) /\ Versioned(call[c]) /\ Fresh(call[c])

IInv ==
  /\ Typed
  /\ Entries
  /\ \A c \in Callers : CallInv(c)
  /\ \A w, b \in Callers : Joined(call[w], b, call[b]) /\ SameEpoch(call[w], call[b])

-----------------------------------------------------------------------------
LEMMA FreeIsCall == Free \in Calls
  BY SMT DEF Free, Calls, Places

\* One call changes, and the entries may: what is left to show of the invariant.
LEMMA CallChange ==
  ASSUME IInv, NEW c \in Callers, NEW r \in Calls,
         call' = [call EXCEPT ![c] = r], UNCHANGED <<told, epoch>>,
         src' \in [Keys -> Nat \ {0}], \A k \in Keys : src[k] <= src'[k],
         items' \in [Keys -> [val : Nat, hash : Nat]], Entries',
         Placed(r), Complete(r), Versioned(r), Fresh(r),
         Joined(r, c, r), SameEpoch(r, r),
         \A b \in Callers \ {c} :
           /\ Joined(r, b, call[b]) /\ Joined(call[b], c, r)
           /\ SameEpoch(r, call[b]) /\ SameEpoch(call[b], r)
  PROVE  IInv'
<1>1. Typed'
  BY SMT DEF IInv, Typed
<1>2. \A b \in Callers : call'[b] = IF b = c THEN r ELSE call[b]
  BY SMT DEF IInv, Typed
<1>3. ASSUME NEW b \in Callers PROVE CallInv(b)'
  <2>1. CASE b = c
    <3>1. call'[b] = r
      BY <1>2, <2>1
    <3>2. Versioned(r)'
      BY SMT DEF IInv, Typed, Calls, Versioned
    <3> QED
      BY <3>1, <3>2 DEF CallInv, Placed, Complete, Claimed, Versioned, Fresh
  <2>2. CASE b # c
    <3>1. call'[b] = call[b]
      BY <1>2, <2>2
    <3>2. CallInv(b) /\ call[b] \in Calls
      BY DEF IInv, Typed
    <3>3. Versioned(call[b])'
      <4>1. \A k \in Keys : call[b].hash[k] # Bypass => call[b].hash[k] <= src'[k]
        BY <3>2, SMT DEF CallInv, Versioned, IInv, Typed, Calls
      <4> QED
        BY <3>1, <3>2, <4>1 DEF CallInv, Versioned
    <3> QED
      BY <3>1, <3>2, <3>3 DEF CallInv, Placed, Complete, Claimed, Versioned, Fresh
  <2> QED
    BY <2>1, <2>2
<1>4. ASSUME NEW w \in Callers, NEW b \in Callers
      PROVE  Joined(call[w], b, call[b])' /\ SameEpoch(call[w], call[b])'
  <2>1. Joined(call[w], b, call[b]) /\ SameEpoch(call[w], call[b])
    BY DEF IInv
  <2>2. Joined(call'[w], b, call'[b]) /\ SameEpoch(call'[w], call'[b])
    BY <1>2, <2>1
  <2> QED
    BY <2>2 DEF Joined, SameEpoch
<1> QED
  BY <1>1, <1>3, <1>4 DEF IInv

\* A call with one field replaced is a call.
LEMMA FieldUpdates ==
  ASSUME NEW r \in Calls
  PROVE  /\ \A x \in Places : [r EXCEPT !.at = x] \in Calls
         /\ \A x \in {"none", "one", "batch", "build", "through"} : [r EXCEPT !.kind = x] \in Calls
         /\ \A x \in SUBSET Keys : [r EXCEPT !.keys = x] \in Calls
         /\ \A x \in [Keys -> Nat \cup {Bypass}] : [r EXCEPT !.hash = x] \in Calls
         /\ \A x \in SUBSET Keys : [r EXCEPT !.todo = x] \in Calls
         /\ \A x \in SUBSET Keys : [r EXCEPT !.own = x] \in Calls
         /\ \A x \in [Keys -> Callers \cup {None}] : [r EXCEPT !.wait = x] \in Calls
         /\ \A x \in Nat : [r EXCEPT !.epoch = x] \in Calls
         /\ \A x \in [Keys -> Nat] : [r EXCEPT !.loaded = x] \in Calls
         /\ \A x \in [Keys -> Nat] : [r EXCEPT !.got = x] \in Calls
         /\ \A x \in {"open", "stored", "refused", "failed"} : [r EXCEPT !.end = x] \in Calls
         /\ \A x \in BOOLEAN : [r EXCEPT !.failed = x] \in Calls
         /\ \A x \in BOOLEAN : [r EXCEPT !.retry = x] \in Calls
         /\ \A x \in [Keys -> Nat] : [r EXCEPT !.asof = x] \in Calls
         /\ \A x \in BOOLEAN : [r EXCEPT !.late = x] \in Calls
         /\ \A k \in Keys, x \in Nat : [r EXCEPT !.got[k] = x] \in Calls
         /\ \A k \in Keys, x \in Nat : [r EXCEPT !.loaded[k] = x] \in Calls
         /\ \A k \in Keys, x \in Callers \cup {None} : [r EXCEPT !.wait[k] = x] \in Calls
<1>1. \A x \in Places : [r EXCEPT !.at = x] \in Calls
  BY SMT DEF Calls
<1>2. \A x \in {"none", "one", "batch", "build", "through"} : [r EXCEPT !.kind = x] \in Calls
  BY SMT DEF Calls
<1>3. \A x \in SUBSET Keys : [r EXCEPT !.keys = x] \in Calls
  BY SMT DEF Calls
<1>4. \A x \in [Keys -> Nat \cup {Bypass}] : [r EXCEPT !.hash = x] \in Calls
  BY SMT DEF Calls
<1>5. \A x \in SUBSET Keys : [r EXCEPT !.todo = x] \in Calls
  BY SMT DEF Calls
<1>6. \A x \in SUBSET Keys : [r EXCEPT !.own = x] \in Calls
  BY SMT DEF Calls
<1>7. \A x \in [Keys -> Callers \cup {None}] : [r EXCEPT !.wait = x] \in Calls
  BY SMT DEF Calls
<1>8. \A x \in Nat : [r EXCEPT !.epoch = x] \in Calls
  BY SMT DEF Calls
<1>9. \A x \in [Keys -> Nat] : [r EXCEPT !.loaded = x] \in Calls
  BY SMT DEF Calls
<1>10. \A x \in [Keys -> Nat] : [r EXCEPT !.got = x] \in Calls
  BY SMT DEF Calls
<1>11. \A x \in {"open", "stored", "refused", "failed"} : [r EXCEPT !.end = x] \in Calls
  BY SMT DEF Calls
<1>12. \A x \in BOOLEAN : [r EXCEPT !.failed = x] \in Calls
  BY SMT DEF Calls
<1>13. \A x \in BOOLEAN : [r EXCEPT !.retry = x] \in Calls
  BY SMT DEF Calls
<1>14. \A x \in [Keys -> Nat] : [r EXCEPT !.asof = x] \in Calls
  BY SMT DEF Calls
<1>15. \A x \in BOOLEAN : [r EXCEPT !.late = x] \in Calls
  BY SMT DEF Calls
<1>16. \A k \in Keys, x \in Nat : [r EXCEPT !.got[k] = x] \in Calls
  BY SMT DEF Calls
<1>17. \A k \in Keys, x \in Nat : [r EXCEPT !.loaded[k] = x] \in Calls
  BY SMT DEF Calls
<1>18. \A k \in Keys, x \in Callers \cup {None} : [r EXCEPT !.wait[k] = x] \in Calls
  BY SMT DEF Calls
<1> QED
  BY <1>1, <1>2, <1>3, <1>4, <1>5, <1>6, <1>7, <1>8, <1>9, <1>10, <1>11, <1>12, <1>13, <1>14,
     <1>15, <1>16, <1>17, <1>18

\* What the invariant says of one call, and of two.
LEMMA OneCall ==
  ASSUME IInv, NEW c \in Callers
  PROVE  /\ told \in [Keys -> Nat] /\ call[c] \in Calls
         /\ Placed(call[c]) /\ Complete(call[c]) /\ Versioned(call[c]) /\ Fresh(call[c])
         /\ \A b \in Callers :
              /\ call[b] \in Calls /\ Placed(call[b]) /\ Fresh(call[b])
              /\ Joined(call[c], b, call[b]) /\ Joined(call[b], c, call[c])
              /\ SameEpoch(call[c], call[b]) /\ SameEpoch(call[b], call[c])
  BY DEF IInv, Typed, CallInv

LEMMA IInvSrc ==
  ASSUME IInv, UNCHANGED src
  PROVE  src' \in [Keys -> Nat \ {0}] /\ \A k \in Keys : src[k] <= src'[k]
  BY SMT DEF IInv, Typed

LEMMA EntriesKept ==
  ASSUME IInv, UNCHANGED <<told, items>>
  PROVE  Entries' /\ items' \in [Keys -> [val : Nat, hash : Nat]]
  BY DEF IInv, Typed, Entries

LEMMA AwaitKeepsIInv ==
  ASSUME IInv, NEW c \in Callers, Await(c)
  PROVE  IInv'
<1> DEFINE r == call[c]
           n == [r EXCEPT !.at = IF ~r.failed /\ r.retry THEN "retry" ELSE "done",
                         !.wait = [k \in Keys |-> None]]
<1> r \in Calls /\ Placed(r) /\ Complete(r) /\ Versioned(r) /\ Fresh(r)
  BY OneCall
<1>1. /\ (IF ~r.failed /\ r.retry THEN "retry" ELSE "done") \in Places
      /\ [k \in Keys |-> None] \in [Keys -> Callers \cup {None}]
  BY SMT DEF Calls, Places, Await, IInv, Typed, Waits
<1>2. n \in Calls
  BY <1>1, FreeIsCall, FieldUpdates
<1>3. call' = [call EXCEPT ![c] = n] /\ UNCHANGED <<src, told, items, epoch>>
  BY DEF Await, Goto, cache, Waits
<1>4. /\ n.at = (IF ~r.failed /\ r.retry THEN "retry" ELSE "done") /\ n.kind = r.kind
      /\ n.keys = r.keys /\ n.hash = r.hash /\ n.todo = r.todo /\ n.own = r.own
      /\ n.wait = [k \in Keys |-> None] /\ n.epoch = r.epoch /\ n.loaded = r.loaded
      /\ n.got = r.got /\ n.end = r.end /\ n.failed = r.failed /\ n.retry = r.retry
      /\ n.asof = r.asof /\ n.late = r.late
  BY SMT DEF Calls, Free
<1> HIDE DEF n
<1>5. Placed(n) /\ Complete(n)
  BY <1>2, <1>4, SMT DEF Placed, Complete, Claimed, Calls, Places, Await, Waits
<1>6. Versioned(n) /\ Fresh(n)
  BY <1>2, <1>4, SMT DEF Placed, Versioned, Fresh, Calls, IInv, Typed, Await, Waits
<1>7. ASSUME NEW b \in Callers
      PROVE  /\ Joined(n, b, call[b]) /\ Joined(call[b], c, n) /\ Joined(n, c, n)
             /\ SameEpoch(n, call[b]) /\ SameEpoch(call[b], n) /\ SameEpoch(n, n)
  <2>1. /\ told \in [Keys -> Nat] /\ call[b] \in Calls /\ Placed(call[b]) /\ Fresh(call[b])
        /\ Joined(r, b, call[b]) /\ Joined(call[b], c, r) /\ Joined(r, c, r)
        /\ SameEpoch(r, call[b]) /\ SameEpoch(call[b], r) /\ SameEpoch(r, r)
    BY OneCall
  <2>2. Joined(n, b, call[b])
    BY <1>2, <1>4, <2>1, CallersAssumption, SMT DEF Placed, Joined, Calls, Await, Waits
  <2>3. Joined(call[b], c, n)
    BY <1>2, <1>4, <2>1, CallersAssumption, SMT DEF Placed, Joined, Fresh, Calls, Await, Waits
  <2>4. Joined(n, c, n)
    BY <1>2, <1>4, <2>1, CallersAssumption, SMT DEF Placed, Joined, Fresh, Calls, Await, Waits
  <2>5. SameEpoch(n, call[b]) /\ SameEpoch(n, n)
    BY <1>2, <1>4, <2>1, SMT DEF Placed, SameEpoch, Fresh, Calls, Await, Waits
  <2>6. SameEpoch(call[b], n)
    BY <1>2, <1>4, <2>1, SMT DEF Placed, SameEpoch, Fresh, Calls, Await, Waits
  <2> QED
    BY <2>2, <2>3, <2>4, <2>5, <2>6
<1> HIDE DEF r
<1> QED
  BY <1>2, <1>3, <1>5, <1>6, <1>7, EntriesKept, CallChange, IInvSrc

LEMMA CancelKeepsIInv ==
  ASSUME IInv, NEW c \in Callers, Cancel(c)
  PROVE  IInv'
<1> DEFINE r == call[c]
           n == [r EXCEPT !.at = "done",
                         !.failed = TRUE,
                         !.wait = [k \in Keys |-> None]]
<1> r \in Calls /\ Placed(r) /\ Complete(r) /\ Versioned(r) /\ Fresh(r)
  BY OneCall
<1>1. /\ "done" \in Places /\ TRUE \in BOOLEAN
      /\ [k \in Keys |-> None] \in [Keys -> Callers \cup {None}]
  BY SMT DEF Calls, Places, Cancel, IInv, Typed
<1>2. n \in Calls
  BY <1>1, FreeIsCall, FieldUpdates
<1>3. call' = [call EXCEPT ![c] = n] /\ UNCHANGED <<src, told, items, epoch>>
  BY DEF Cancel, Goto, cache
<1>4. /\ n.at = "done" /\ n.kind = r.kind /\ n.keys = r.keys /\ n.hash = r.hash
      /\ n.todo = r.todo /\ n.own = r.own /\ n.wait = [k \in Keys |-> None]
      /\ n.epoch = r.epoch /\ n.loaded = r.loaded /\ n.got = r.got /\ n.end = r.end
      /\ n.failed = TRUE /\ n.retry = r.retry /\ n.asof = r.asof /\ n.late = r.late
  BY SMT DEF Calls, Free
<1> HIDE DEF n
<1>5. Placed(n) /\ Complete(n)
  BY <1>2, <1>4, SMT DEF Placed, Complete, Claimed, Calls, Places, Cancel
<1>6. Versioned(n) /\ Fresh(n)
  BY <1>2, <1>4, SMT DEF Placed, Versioned, Fresh, Calls, IInv, Typed, Cancel
<1>7. ASSUME NEW b \in Callers
      PROVE  /\ Joined(n, b, call[b]) /\ Joined(call[b], c, n) /\ Joined(n, c, n)
             /\ SameEpoch(n, call[b]) /\ SameEpoch(call[b], n) /\ SameEpoch(n, n)
  <2>1. /\ told \in [Keys -> Nat] /\ call[b] \in Calls /\ Placed(call[b]) /\ Fresh(call[b])
        /\ Joined(r, b, call[b]) /\ Joined(call[b], c, r) /\ Joined(r, c, r)
        /\ SameEpoch(r, call[b]) /\ SameEpoch(call[b], r) /\ SameEpoch(r, r)
    BY OneCall
  <2>2. Joined(n, b, call[b])
    BY <1>2, <1>4, <2>1, CallersAssumption, SMT DEF Placed, Joined, Calls, Cancel
  <2>3. Joined(call[b], c, n)
    BY <1>2, <1>4, <2>1, CallersAssumption, SMT DEF Placed, Joined, Fresh, Calls, Cancel
  <2>4. Joined(n, c, n)
    BY <1>2, <1>4, <2>1, CallersAssumption, SMT DEF Placed, Joined, Fresh, Calls, Cancel
  <2>5. SameEpoch(n, call[b]) /\ SameEpoch(n, n)
    BY <1>2, <1>4, <2>1, SMT DEF Placed, SameEpoch, Fresh, Calls, Cancel
  <2>6. SameEpoch(call[b], n)
    BY <1>2, <1>4, <2>1, SMT DEF Placed, SameEpoch, Fresh, Calls, Cancel
  <2> QED
    BY <2>2, <2>3, <2>4, <2>5, <2>6
<1> HIDE DEF r
<1> QED
  BY <1>2, <1>3, <1>5, <1>6, <1>7, EntriesKept, CallChange, IInvSrc

LEMMA ReturnKeepsIInv ==
  ASSUME IInv, NEW c \in Callers, Return(c)
  PROVE  IInv'
<1> DEFINE r == call[c]
           n == Free
<1> r \in Calls /\ Placed(r) /\ Complete(r) /\ Versioned(r) /\ Fresh(r)
  BY OneCall
<1>2. n \in Calls
  BY FreeIsCall
<1>3. call' = [call EXCEPT ![c] = n] /\ UNCHANGED <<src, told, items, epoch>>
  BY DEF Return, Goto, cache
<1>4. /\ n.at = Free.at /\ n.kind = Free.kind /\ n.keys = Free.keys
      /\ n.hash = Free.hash /\ n.todo = Free.todo /\ n.own = Free.own
      /\ n.wait = Free.wait /\ n.epoch = Free.epoch /\ n.loaded = Free.loaded
      /\ n.got = Free.got /\ n.end = Free.end /\ n.failed = Free.failed
      /\ n.retry = Free.retry /\ n.asof = Free.asof /\ n.late = Free.late
  BY SMT DEF Calls, Free
<1> HIDE DEF n
<1>5. Placed(n) /\ Complete(n)
  BY <1>2, <1>4, SMT DEF Placed, Complete, Claimed, Calls, Places, Return, Free
<1>6. Versioned(n) /\ Fresh(n)
  BY <1>2, <1>4, SMT DEF Placed, Versioned, Fresh, Calls, IInv, Typed, Return, Free
<1>7. ASSUME NEW b \in Callers
      PROVE  /\ Joined(n, b, call[b]) /\ Joined(call[b], c, n) /\ Joined(n, c, n)
             /\ SameEpoch(n, call[b]) /\ SameEpoch(call[b], n) /\ SameEpoch(n, n)
  <2>1. /\ told \in [Keys -> Nat] /\ call[b] \in Calls /\ Placed(call[b]) /\ Fresh(call[b])
        /\ Joined(r, b, call[b]) /\ Joined(call[b], c, r) /\ Joined(r, c, r)
        /\ SameEpoch(r, call[b]) /\ SameEpoch(call[b], r) /\ SameEpoch(r, r)
    BY OneCall
  <2>2. Joined(n, b, call[b])
    BY <1>2, <1>4, <2>1, CallersAssumption, SMT DEF Placed, Joined, Calls, Return, Free
  <2>3. Joined(call[b], c, n)
    BY <1>2, <1>4, <2>1, CallersAssumption, SMT DEF Placed, Joined, Fresh, Calls, Return, Free
  <2>4. Joined(n, c, n)
    BY <1>2, <1>4, <2>1, CallersAssumption, SMT DEF Placed, Joined, Fresh, Calls, Return, Free
  <2>5. SameEpoch(n, call[b]) /\ SameEpoch(n, n)
    BY <1>2, <1>4, <2>1, SMT DEF Placed, SameEpoch, Fresh, Calls, Return, Free
  <2>6. SameEpoch(call[b], n)
    BY <1>2, <1>4, <2>1, SMT DEF Placed, SameEpoch, Fresh, Calls, Return, Free
  <2> QED
    BY <2>2, <2>3, <2>4, <2>5, <2>6
<1> HIDE DEF r
<1> QED
  BY <1>2, <1>3, <1>5, <1>6, <1>7, EntriesKept, CallChange, IInvSrc

LEMMA ReadEpochKeepsIInv ==
  ASSUME IInv, NEW c \in Callers, ReadEpoch(c)
  PROVE  IInv'
<1> DEFINE r == call[c]
           n == [r EXCEPT !.epoch = epoch,
                         !.at = IF r.kind = "batch" THEN "lookup" ELSE "loading"]
<1> r \in Calls /\ Placed(r) /\ Complete(r) /\ Versioned(r) /\ Fresh(r)
  BY OneCall
<1>1. /\ epoch \in Nat /\ (IF r.kind = "batch" THEN "lookup" ELSE "loading") \in Places
  BY SMT DEF Calls, Places, ReadEpoch, IInv, Typed
<1>2. n \in Calls
  BY <1>1, FreeIsCall, FieldUpdates
<1>3. call' = [call EXCEPT ![c] = n] /\ UNCHANGED <<src, told, items, epoch>>
  BY DEF ReadEpoch, Goto, cache
<1>4. /\ n.at = (IF r.kind = "batch" THEN "lookup" ELSE "loading") /\ n.kind = r.kind
      /\ n.keys = r.keys /\ n.hash = r.hash /\ n.todo = r.todo /\ n.own = r.own
      /\ n.wait = r.wait /\ n.epoch = epoch /\ n.loaded = r.loaded /\ n.got = r.got
      /\ n.end = r.end /\ n.failed = r.failed /\ n.retry = r.retry /\ n.asof = r.asof
      /\ n.late = r.late
  BY SMT DEF Calls, Free
<1> HIDE DEF n
<1>5. Placed(n) /\ Complete(n)
  BY <1>2, <1>4, SMT DEF Placed, Complete, Claimed, Calls, Places, ReadEpoch
<1>6. Versioned(n) /\ Fresh(n)
  BY <1>2, <1>4, SMT DEF Placed, Versioned, Fresh, Calls, IInv, Typed, ReadEpoch
<1>7. ASSUME NEW b \in Callers
      PROVE  /\ Joined(n, b, call[b]) /\ Joined(call[b], c, n) /\ Joined(n, c, n)
             /\ SameEpoch(n, call[b]) /\ SameEpoch(call[b], n) /\ SameEpoch(n, n)
  <2>1. /\ told \in [Keys -> Nat] /\ call[b] \in Calls /\ Placed(call[b]) /\ Fresh(call[b])
        /\ Joined(r, b, call[b]) /\ Joined(call[b], c, r) /\ Joined(r, c, r)
        /\ SameEpoch(r, call[b]) /\ SameEpoch(call[b], r) /\ SameEpoch(r, r)
    BY OneCall
  <2>2. Joined(n, b, call[b])
    BY <1>2, <1>4, <2>1, CallersAssumption, SMT DEF Placed, Joined, Calls, ReadEpoch
  <2>3. Joined(call[b], c, n)
    BY <1>2, <1>4, <2>1, CallersAssumption, SMT DEF Placed, Joined, Fresh, Calls, ReadEpoch
  <2>4. Joined(n, c, n)
    BY <1>2, <1>4, <2>1, CallersAssumption, SMT DEF Placed, Joined, Fresh, Calls, ReadEpoch
  <2>5. SameEpoch(n, call[b]) /\ SameEpoch(n, n)
    BY <1>2, <1>4, <2>1, SMT DEF Placed, SameEpoch, Fresh, Calls, ReadEpoch
  <2>6. SameEpoch(call[b], n)
    BY <1>2, <1>4, <2>1, SMT DEF Placed, SameEpoch, Fresh, Calls, ReadEpoch
  <2> QED
    BY <2>2, <2>3, <2>4, <2>5, <2>6
<1> HIDE DEF r
<1> QED
  BY <1>2, <1>3, <1>5, <1>6, <1>7, EntriesKept, CallChange, IInvSrc

LEMMA LoadKeepsIInv ==
  ASSUME IInv, NEW c \in Callers, Load(c)
  PROVE  IInv'
<1> DEFINE r == call[c]
           n == [r EXCEPT !.at = "storing",
                         !.loaded = [k \in Keys |-> IF k \in r.own THEN src[k] ELSE 0]]
<1> r \in Calls /\ Placed(r) /\ Complete(r) /\ Versioned(r) /\ Fresh(r)
  BY OneCall
<1>1. /\ "storing" \in Places
      /\ [k \in Keys |-> IF k \in r.own THEN src[k] ELSE 0] \in [Keys -> Nat]
  BY SMT DEF Calls, Places, Load, IInv, Typed
<1>2. n \in Calls
  BY <1>1, FreeIsCall, FieldUpdates
<1>3. call' = [call EXCEPT ![c] = n] /\ UNCHANGED <<src, told, items, epoch>>
  BY DEF Load, Goto, cache
<1>4. /\ n.at = "storing" /\ n.kind = r.kind /\ n.keys = r.keys /\ n.hash = r.hash
      /\ n.todo = r.todo /\ n.own = r.own /\ n.wait = r.wait /\ n.epoch = r.epoch
      /\ n.loaded = [k \in Keys |-> IF k \in r.own THEN src[k] ELSE 0] /\ n.got = r.got
      /\ n.end = r.end /\ n.failed = r.failed /\ n.retry = r.retry /\ n.asof = r.asof
      /\ n.late = r.late
  BY SMT DEF Calls, Free
<1> HIDE DEF n
<1>5. Placed(n) /\ Complete(n)
  BY <1>2, <1>4, SMT DEF Placed, Complete, Claimed, Calls, Places, Load
<1>6. Versioned(n) /\ Fresh(n)
  BY <1>2, <1>4, SMT DEF Placed, Versioned, Fresh, Calls, IInv, Typed, Load
<1>7. ASSUME NEW b \in Callers
      PROVE  /\ Joined(n, b, call[b]) /\ Joined(call[b], c, n) /\ Joined(n, c, n)
             /\ SameEpoch(n, call[b]) /\ SameEpoch(call[b], n) /\ SameEpoch(n, n)
  <2>1. /\ told \in [Keys -> Nat] /\ call[b] \in Calls /\ Placed(call[b]) /\ Fresh(call[b])
        /\ Joined(r, b, call[b]) /\ Joined(call[b], c, r) /\ Joined(r, c, r)
        /\ SameEpoch(r, call[b]) /\ SameEpoch(call[b], r) /\ SameEpoch(r, r)
    BY OneCall
  <2>2. Joined(n, b, call[b])
    BY <1>2, <1>4, <2>1, CallersAssumption, SMT DEF Placed, Joined, Calls, Load
  <2>3. Joined(call[b], c, n)
    BY <1>2, <1>4, <2>1, CallersAssumption, SMT DEF Placed, Joined, Fresh, Calls, Load
  <2>4. Joined(n, c, n)
    BY <1>2, <1>4, <2>1, CallersAssumption, SMT DEF Placed, Joined, Fresh, Calls, Load
  <2>5. SameEpoch(n, call[b]) /\ SameEpoch(n, n)
    BY <1>2, <1>4, <2>1, SMT DEF Placed, SameEpoch, Fresh, Calls, Load
  <2>6. SameEpoch(call[b], n)
    BY <1>2, <1>4, <2>1, SMT DEF Placed, SameEpoch, Fresh, Calls, Load
  <2> QED
    BY <2>2, <2>3, <2>4, <2>5, <2>6
<1> HIDE DEF r
<1> QED
  BY <1>2, <1>3, <1>5, <1>6, <1>7, EntriesKept, CallChange, IInvSrc

LEMMA RetryKeepsIInv ==
  ASSUME IInv, NEW c \in Callers, Retry(c)
  PROVE  IInv'
<1> DEFINE r == call[c]
           n == [Free EXCEPT !.at = IF r.kind = "one" THEN "lookup" ELSE "epoch",
                         !.kind = r.kind,
                         !.keys = r.keys,
                         !.todo = r.keys,
                         !.hash = r.hash,
                         !.asof = r.asof]
<1> r \in Calls /\ Placed(r) /\ Complete(r) /\ Versioned(r) /\ Fresh(r)
  BY OneCall
<1>1. /\ (IF r.kind = "one" THEN "lookup" ELSE "epoch") \in Places
      /\ r.kind \in {"none", "one", "batch", "build", "through"}
      /\ r.keys \in SUBSET Keys /\ r.keys \in SUBSET Keys
      /\ r.hash \in [Keys -> Nat \cup {Bypass}] /\ r.asof \in [Keys -> Nat]
  BY SMT DEF Calls, Places, Retry, IInv, Typed
<1>2. n \in Calls
  <2>1. [Free EXCEPT !.at = IF r.kind = "one" THEN "lookup" ELSE "epoch", !.kind = r.kind,
               !.keys = r.keys] \in Calls
    BY <1>1, FreeIsCall, FieldUpdates
  <2> QED
    BY <1>1, <2>1, FieldUpdates
<1>3. call' = [call EXCEPT ![c] = n] /\ UNCHANGED <<src, told, items, epoch>>
  BY DEF Retry, Goto, cache
<1>4. /\ n.at = (IF r.kind = "one" THEN "lookup" ELSE "epoch") /\ n.kind = r.kind
      /\ n.keys = r.keys /\ n.hash = r.hash /\ n.todo = r.keys /\ n.own = Free.own
      /\ n.wait = Free.wait /\ n.epoch = Free.epoch /\ n.loaded = Free.loaded
      /\ n.got = Free.got /\ n.end = Free.end /\ n.failed = Free.failed
      /\ n.retry = Free.retry /\ n.asof = r.asof /\ n.late = Free.late
  BY SMT DEF Calls, Free
<1> HIDE DEF n
<1>5. Placed(n) /\ Complete(n)
  BY <1>2, <1>4, SMT DEF Placed, Complete, Claimed, Calls, Places, Retry, Free
<1>6. Versioned(n) /\ Fresh(n)
  BY <1>2, <1>4, SMT DEF Placed, Versioned, Fresh, Calls, IInv, Typed, Retry, Free
<1>7. ASSUME NEW b \in Callers
      PROVE  /\ Joined(n, b, call[b]) /\ Joined(call[b], c, n) /\ Joined(n, c, n)
             /\ SameEpoch(n, call[b]) /\ SameEpoch(call[b], n) /\ SameEpoch(n, n)
  <2>1. /\ told \in [Keys -> Nat] /\ call[b] \in Calls /\ Placed(call[b]) /\ Fresh(call[b])
        /\ Joined(r, b, call[b]) /\ Joined(call[b], c, r) /\ Joined(r, c, r)
        /\ SameEpoch(r, call[b]) /\ SameEpoch(call[b], r) /\ SameEpoch(r, r)
    BY OneCall
  <2>2. Joined(n, b, call[b])
    BY <1>2, <1>4, <2>1, CallersAssumption, SMT DEF Placed, Joined, Calls, Retry, Free
  <2>3. Joined(call[b], c, n)
    BY <1>2, <1>4, <2>1, CallersAssumption, SMT DEF Placed, Joined, Fresh, Calls, Retry, Free
  <2>4. Joined(n, c, n)
    BY <1>2, <1>4, <2>1, CallersAssumption, SMT DEF Placed, Joined, Fresh, Calls, Retry, Free
  <2>5. SameEpoch(n, call[b]) /\ SameEpoch(n, n)
    BY <1>2, <1>4, <2>1, SMT DEF Placed, SameEpoch, Fresh, Calls, Retry, Free
  <2>6. SameEpoch(call[b], n)
    BY <1>2, <1>4, <2>1, SMT DEF Placed, SameEpoch, Fresh, Calls, Retry, Free
  <2> QED
    BY <2>2, <2>3, <2>4, <2>5, <2>6
<1> HIDE DEF r
<1> QED
  BY <1>2, <1>3, <1>5, <1>6, <1>7, EntriesKept, CallChange, IInvSrc

\* Removing entries keeps the rest.
LEMMA DropKeepsEntries ==
  ASSUME IInv, NEW S, Drop(S), UNCHANGED told
  PROVE  Entries' /\ items' \in [Keys -> [val : Nat, hash : Nat]]
<1>1. items' \in [Keys -> [val : Nat, hash : Nat]]
  BY SMT DEF IInv, Typed, Drop, Absent
<1>2. \A k \in Keys : items'[k] = Absent \/ items'[k] = items[k]
  BY SMT DEF Drop, IInv, Typed
<1>3. Absent.val = 0 /\ Absent.hash = 0
  BY DEF Absent
<1> QED
  BY <1>1, <1>2, <1>3, SMT DEF Entries, IInv, Typed

\* Storing good values for S leaves only good entries, whatever is evicted.
LEMMA StoreKeepsEntries ==
  ASSUME IInv, NEW S \in SUBSET Keys, NEW val \in [Keys -> Nat],
         NEW hash \in [Keys -> Nat \cup {Bypass}], StoreAll(S, val, hash), UNCHANGED told,
         \A k \in S : /\ val[k] >= 1 /\ hash[k] \in Nat /\ val[k] >= hash[k]
                      /\ Guarded => val[k] >= told[k]
  PROVE  Entries' /\ items' \in [Keys -> [val : Nat, hash : Nat]]
<1>1. PICK q \in SetToSeqs(S) :
        LET left == Kept(InFront(q))
        IN  items' = [k \in Keys |->
              IF k \notin ToSet(left) THEN Absent
              ELSE IF k \in S THEN [val |-> val[k], hash |-> hash[k]] ELSE items[k]]
  BY DEF StoreAll
<1> DEFINE here == ToSet(Kept(InFront(q)))
<1>2. items' = [k \in Keys |->
        IF k \notin here THEN Absent
        ELSE IF k \in S THEN [val |-> val[k], hash |-> hash[k]] ELSE items[k]]
  BY <1>1
<1> HIDE DEF here
<1>3. \A k \in Keys :
        \/ items'[k] = Absent \/ items'[k] = items[k]
        \/ k \in S /\ items'[k] = [val |-> val[k], hash |-> hash[k]]
  BY <1>2, SMT
<1>4. Absent \in [val : Nat, hash : Nat] /\ Absent.val = 0 /\ Absent.hash = 0
  BY DEF Absent
<1>5. items' \in [Keys -> [val : Nat, hash : Nat]]
  <2>1. \A k \in Keys : items[k] \in [val : Nat, hash : Nat]
    BY DEF IInv, Typed
  <2>2. \A k \in S : [val |-> val[k], hash |-> hash[k]] \in [val : Nat, hash : Nat]
    BY SMT
  <2> QED
    BY <2>1, <2>2, <1>2, <1>4, SMT
<1>6. ASSUME NEW k \in Keys
      PROVE  /\ items'[k] # Absent => items'[k].val >= 1
             /\ items'[k].val >= items'[k].hash
             /\ Guarded /\ items'[k] # Absent => items'[k].val >= told[k]
  <2>1. CASE items'[k] = Absent
    BY <2>1, <1>4, SMT
  <2>2. CASE items'[k] = items[k]
    BY <2>2, SMT DEF IInv, Typed, Entries
  <2>3. CASE k \in S /\ items'[k] = [val |-> val[k], hash |-> hash[k]]
    <3>1. items'[k].val = val[k] /\ items'[k].hash = hash[k]
      BY <2>3
    <3> QED
      BY <2>3, <3>1
  <2> QED
    BY <1>3, <2>1, <2>2, <2>3
<1> QED
  BY <1>5, <1>6 DEF Entries

LEMMA BuildFailsKeepsIInv ==
  ASSUME IInv, NEW c \in Callers, LoadFails(c), call[c].kind = "build"
  PROVE  IInv'
<1> DEFINE r == call[c]
           n == Free
<1> r \in Calls /\ Placed(r) /\ Complete(r) /\ Versioned(r) /\ Fresh(r)
  BY OneCall
<1>2. n \in Calls
  BY FreeIsCall
<1>3. call' = [call EXCEPT ![c] = n] /\ UNCHANGED <<src, told, items, epoch>>
  BY DEF LoadFails, Goto, cache
<1>4. /\ n.at = Free.at /\ n.kind = Free.kind /\ n.keys = Free.keys
      /\ n.hash = Free.hash /\ n.todo = Free.todo /\ n.own = Free.own
      /\ n.wait = Free.wait /\ n.epoch = Free.epoch /\ n.loaded = Free.loaded
      /\ n.got = Free.got /\ n.end = Free.end /\ n.failed = Free.failed
      /\ n.retry = Free.retry /\ n.asof = Free.asof /\ n.late = Free.late
  BY SMT DEF Calls, Free
<1> HIDE DEF n
<1>5. Placed(n) /\ Complete(n)
  BY <1>2, <1>4, SMT DEF Placed, Complete, Claimed, Calls, Places, LoadFails, Free
<1>6. Versioned(n) /\ Fresh(n)
  BY <1>2, <1>4, SMT DEF Placed, Versioned, Fresh, Calls, IInv, Typed, LoadFails, Free
<1>7. ASSUME NEW b \in Callers
      PROVE  /\ Joined(n, b, call[b]) /\ Joined(call[b], c, n) /\ Joined(n, c, n)
             /\ SameEpoch(n, call[b]) /\ SameEpoch(call[b], n) /\ SameEpoch(n, n)
  <2>1. /\ told \in [Keys -> Nat] /\ call[b] \in Calls /\ Placed(call[b]) /\ Fresh(call[b])
        /\ Joined(r, b, call[b]) /\ Joined(call[b], c, r) /\ Joined(r, c, r)
        /\ SameEpoch(r, call[b]) /\ SameEpoch(call[b], r) /\ SameEpoch(r, r)
    BY OneCall
  <2>2. Joined(n, b, call[b])
    BY <1>2, <1>4, <2>1, CallersAssumption, SMT DEF Placed, Joined, Calls, LoadFails, Free
  <2>3. Joined(call[b], c, n)
    BY <1>2, <1>4, <2>1, CallersAssumption, SMT
    DEF Placed, Joined, Fresh, Calls, LoadFails, Free
  <2>4. Joined(n, c, n)
    BY <1>2, <1>4, <2>1, CallersAssumption, SMT
    DEF Placed, Joined, Fresh, Calls, LoadFails, Free
  <2>5. SameEpoch(n, call[b]) /\ SameEpoch(n, n)
    BY <1>2, <1>4, <2>1, SMT DEF Placed, SameEpoch, Fresh, Calls, LoadFails, Free
  <2>6. SameEpoch(call[b], n)
    BY <1>2, <1>4, <2>1, SMT DEF Placed, SameEpoch, Fresh, Calls, LoadFails, Free
  <2> QED
    BY <2>2, <2>3, <2>4, <2>5, <2>6
<1> HIDE DEF r
<1> QED
  BY <1>2, <1>3, <1>5, <1>6, <1>7, EntriesKept, CallChange, IInvSrc

LEMMA FlightFailsKeepsIInv ==
  ASSUME IInv, NEW c \in Callers, LoadFails(c), call[c].kind # "build"
  PROVE  IInv'
<1> DEFINE r == call[c]
           n == [r EXCEPT !.at = "settling",
                         !.end = "failed"]
<1> r \in Calls /\ Placed(r) /\ Complete(r) /\ Versioned(r) /\ Fresh(r)
  BY OneCall
<1>1. /\ "settling" \in Places /\ "failed" \in {"open", "stored", "refused", "failed"}
  BY SMT DEF Calls, Places, LoadFails, IInv, Typed
<1>2. n \in Calls
  BY <1>1, FreeIsCall, FieldUpdates
<1>3. call' = [call EXCEPT ![c] = n] /\ UNCHANGED <<src, told, items, epoch>>
  BY DEF LoadFails, Goto, cache
<1>4. /\ n.at = "settling" /\ n.kind = r.kind /\ n.keys = r.keys /\ n.hash = r.hash
      /\ n.todo = r.todo /\ n.own = r.own /\ n.wait = r.wait /\ n.epoch = r.epoch
      /\ n.loaded = r.loaded /\ n.got = r.got /\ n.end = "failed" /\ n.failed = r.failed
      /\ n.retry = r.retry /\ n.asof = r.asof /\ n.late = r.late
  BY SMT DEF Calls, Free
<1> HIDE DEF n
<1>5. Placed(n) /\ Complete(n)
  BY <1>2, <1>4, SMT DEF Placed, Complete, Claimed, Calls, Places, LoadFails
<1>6. Versioned(n) /\ Fresh(n)
  BY <1>2, <1>4, SMT DEF Placed, Versioned, Fresh, Calls, IInv, Typed, LoadFails
<1>7. ASSUME NEW b \in Callers
      PROVE  /\ Joined(n, b, call[b]) /\ Joined(call[b], c, n) /\ Joined(n, c, n)
             /\ SameEpoch(n, call[b]) /\ SameEpoch(call[b], n) /\ SameEpoch(n, n)
  <2>1. /\ told \in [Keys -> Nat] /\ call[b] \in Calls /\ Placed(call[b]) /\ Fresh(call[b])
        /\ Joined(r, b, call[b]) /\ Joined(call[b], c, r) /\ Joined(r, c, r)
        /\ SameEpoch(r, call[b]) /\ SameEpoch(call[b], r) /\ SameEpoch(r, r)
    BY OneCall
  <2>2. Joined(n, b, call[b])
    BY <1>2, <1>4, <2>1, CallersAssumption, SMT DEF Placed, Joined, Calls, LoadFails
  <2>3. Joined(call[b], c, n)
    BY <1>2, <1>4, <2>1, CallersAssumption, SMT DEF Placed, Joined, Fresh, Calls, LoadFails
  <2>4. Joined(n, c, n)
    BY <1>2, <1>4, <2>1, CallersAssumption, SMT DEF Placed, Joined, Fresh, Calls, LoadFails
  <2>5. SameEpoch(n, call[b]) /\ SameEpoch(n, n)
    BY <1>2, <1>4, <2>1, SMT DEF Placed, SameEpoch, Fresh, Calls, LoadFails
  <2>6. SameEpoch(call[b], n)
    BY <1>2, <1>4, <2>1, SMT DEF Placed, SameEpoch, Fresh, Calls, LoadFails
  <2> QED
    BY <2>2, <2>3, <2>4, <2>5, <2>6
<1> HIDE DEF r
<1> QED
  BY <1>2, <1>3, <1>5, <1>6, <1>7, EntriesKept, CallChange, IInvSrc

LEMMA HitKeepsIInv ==
  ASSUME IInv, NEW c \in Callers, call[c].at = "lookup", NEW k \in Keys, Hit(call[c], k),
         call' = [call EXCEPT ![c] = [[call[c] EXCEPT !.todo = @ \ {k}]
                                        EXCEPT !.got[k] = items[k].val]],
         UNCHANGED <<src, told, items, epoch>>
  PROVE  IInv'
<1> DEFINE r == call[c]
           n == [r EXCEPT !.todo = r.todo \ {k},
                         !.got[k] = items[k].val]
<1> r \in Calls /\ Placed(r) /\ Complete(r) /\ Versioned(r) /\ Fresh(r)
  BY OneCall
<1>1. /\ r.todo \ {k} \in SUBSET Keys /\ items[k].val \in Nat
  BY SMT DEF Calls, Places, Hit, Resident, Entries, IInv, Typed
<1>2. n \in Calls
  BY <1>1, FreeIsCall, FieldUpdates
<1>3. call' = [call EXCEPT ![c] = n] /\ UNCHANGED <<src, told, items, epoch>>
  BY DEF Hit, Resident, Entries, Goto, cache
<1>4. /\ n.at = r.at /\ n.kind = r.kind /\ n.keys = r.keys /\ n.hash = r.hash
      /\ n.todo = r.todo \ {k} /\ n.own = r.own /\ n.wait = r.wait /\ n.epoch = r.epoch
      /\ n.loaded = r.loaded /\ n.got = [r.got EXCEPT ![k] = items[k].val]
      /\ n.end = r.end /\ n.failed = r.failed /\ n.retry = r.retry /\ n.asof = r.asof
      /\ n.late = r.late
  BY SMT DEF Calls, Free
<1> HIDE DEF n
<1>5. Placed(n) /\ Complete(n)
  BY <1>2, <1>4, SMT DEF Placed, Complete, Claimed, Calls, Places, Hit, Resident, Entries
<1>6. Versioned(n) /\ Fresh(n)
  BY <1>2, <1>4, SMT DEF Placed, Versioned, Fresh, Calls, IInv, Typed, Hit, Resident, Entries
<1>7. ASSUME NEW b \in Callers
      PROVE  /\ Joined(n, b, call[b]) /\ Joined(call[b], c, n) /\ Joined(n, c, n)
             /\ SameEpoch(n, call[b]) /\ SameEpoch(call[b], n) /\ SameEpoch(n, n)
  <2>1. /\ told \in [Keys -> Nat] /\ call[b] \in Calls /\ Placed(call[b]) /\ Fresh(call[b])
        /\ Joined(r, b, call[b]) /\ Joined(call[b], c, r) /\ Joined(r, c, r)
        /\ SameEpoch(r, call[b]) /\ SameEpoch(call[b], r) /\ SameEpoch(r, r)
    BY OneCall
  <2>2. Joined(n, b, call[b])
    BY <1>2, <1>4, <2>1, CallersAssumption, SMT
    DEF Placed, Joined, Calls, Hit, Resident, Entries
  <2>3. Joined(call[b], c, n)
    BY <1>2, <1>4, <2>1, CallersAssumption, SMT
    DEF Placed, Joined, Fresh, Calls, Hit, Resident, Entries
  <2>4. Joined(n, c, n)
    BY <1>2, <1>4, <2>1, CallersAssumption, SMT
    DEF Placed, Joined, Fresh, Calls, Hit, Resident, Entries
  <2>5. SameEpoch(n, call[b]) /\ SameEpoch(n, n)
    BY <1>2, <1>4, <2>1, SMT DEF Placed, SameEpoch, Fresh, Calls, Hit, Resident, Entries
  <2>6. SameEpoch(call[b], n)
    BY <1>2, <1>4, <2>1, SMT DEF Placed, SameEpoch, Fresh, Calls, Hit, Resident, Entries
  <2> QED
    BY <2>2, <2>3, <2>4, <2>5, <2>6
<1> HIDE DEF r
<1> QED
  BY <1>2, <1>3, <1>5, <1>6, <1>7, EntriesKept, CallChange, IInvSrc

LEMMA MissKeepsIInv ==
  ASSUME IInv, NEW c \in Callers, call[c].at = "lookup", NEW k \in Keys,
         call' = [call EXCEPT ![c] = [call[c] EXCEPT !.todo = @ \ {k}]],
         UNCHANGED <<src, told, epoch>>,
         items' \in [Keys -> [val : Nat, hash : Nat]], Entries'
  PROVE  IInv'
<1> DEFINE r == call[c]
           n == [r EXCEPT !.todo = r.todo \ {k}]
<1> r \in Calls /\ Placed(r) /\ Complete(r) /\ Versioned(r) /\ Fresh(r)
  BY OneCall
<1>1. /\ r.todo \ {k} \in SUBSET Keys
  BY SMT DEF Calls, Places, Goto, IInv, Typed
<1>2. n \in Calls
  BY <1>1, FreeIsCall, FieldUpdates
<1>3. call' = [call EXCEPT ![c] = n] /\ UNCHANGED <<src, told, epoch>>
  BY DEF Goto, Goto, cache
<1>4. /\ n.at = r.at /\ n.kind = r.kind /\ n.keys = r.keys /\ n.hash = r.hash
      /\ n.todo = r.todo \ {k} /\ n.own = r.own /\ n.wait = r.wait /\ n.epoch = r.epoch
      /\ n.loaded = r.loaded /\ n.got = r.got /\ n.end = r.end /\ n.failed = r.failed
      /\ n.retry = r.retry /\ n.asof = r.asof /\ n.late = r.late
  BY SMT DEF Calls, Free
<1> HIDE DEF n
<1>5. Placed(n) /\ Complete(n)
  BY <1>2, <1>4, SMT DEF Placed, Complete, Claimed, Calls, Places, Goto
<1>6. Versioned(n) /\ Fresh(n)
  BY <1>2, <1>4, SMT DEF Placed, Versioned, Fresh, Calls, IInv, Typed, Goto
<1>7. ASSUME NEW b \in Callers
      PROVE  /\ Joined(n, b, call[b]) /\ Joined(call[b], c, n) /\ Joined(n, c, n)
             /\ SameEpoch(n, call[b]) /\ SameEpoch(call[b], n) /\ SameEpoch(n, n)
  <2>1. /\ told \in [Keys -> Nat] /\ call[b] \in Calls /\ Placed(call[b]) /\ Fresh(call[b])
        /\ Joined(r, b, call[b]) /\ Joined(call[b], c, r) /\ Joined(r, c, r)
        /\ SameEpoch(r, call[b]) /\ SameEpoch(call[b], r) /\ SameEpoch(r, r)
    BY OneCall
  <2>2. Joined(n, b, call[b])
    BY <1>2, <1>4, <2>1, CallersAssumption, SMT DEF Placed, Joined, Calls, Goto
  <2>3. Joined(call[b], c, n)
    BY <1>2, <1>4, <2>1, CallersAssumption, SMT DEF Placed, Joined, Fresh, Calls, Goto
  <2>4. Joined(n, c, n)
    BY <1>2, <1>4, <2>1, CallersAssumption, SMT DEF Placed, Joined, Fresh, Calls, Goto
  <2>5. SameEpoch(n, call[b]) /\ SameEpoch(n, n)
    BY <1>2, <1>4, <2>1, SMT DEF Placed, SameEpoch, Fresh, Calls, Goto
  <2>6. SameEpoch(call[b], n)
    BY <1>2, <1>4, <2>1, SMT DEF Placed, SameEpoch, Fresh, Calls, Goto
  <2> QED
    BY <2>2, <2>3, <2>4, <2>5, <2>6
<1> HIDE DEF r
<1> QED
  BY <1>2, <1>3, <1>5, <1>6, <1>7, CallChange, IInvSrc

LEMMA HitAgainKeepsIInv ==
  ASSUME IInv, NEW c \in Callers, call[c].at = "again", NEW k \in Keys, k \in call[c].own,
         Hit(call[c], k),
         call' = [call EXCEPT ![c] = [call[c] EXCEPT !.at = "settling", !.loaded[k] = items[k].val,
                                                     !.end = "stored"]],
         UNCHANGED <<src, told, items, epoch>>
  PROVE  IInv'
<1> DEFINE r == call[c]
           n == [r EXCEPT !.at = "settling",
                         !.loaded[k] = items[k].val,
                         !.end = "stored"]
<1> r \in Calls /\ Placed(r) /\ Complete(r) /\ Versioned(r) /\ Fresh(r)
  BY OneCall
<1>1. /\ "settling" \in Places /\ items[k].val \in Nat
      /\ "stored" \in {"open", "stored", "refused", "failed"}
  BY SMT DEF Calls, Places, Hit, Resident, Entries, IInv, Typed, IInv, Typed
<1>2. n \in Calls
  BY <1>1, FreeIsCall, FieldUpdates
<1>3. call' = [call EXCEPT ![c] = n] /\ UNCHANGED <<src, told, items, epoch>>
  BY DEF Hit, Resident, Entries, Goto, cache, IInv, Typed
<1>4. /\ n.at = "settling" /\ n.kind = r.kind /\ n.keys = r.keys /\ n.hash = r.hash
      /\ n.todo = r.todo /\ n.own = r.own /\ n.wait = r.wait /\ n.epoch = r.epoch
      /\ n.loaded = [r.loaded EXCEPT ![k] = items[k].val] /\ n.got = r.got
      /\ n.end = "stored" /\ n.failed = r.failed /\ n.retry = r.retry /\ n.asof = r.asof
      /\ n.late = r.late
  BY SMT DEF Calls, Free
<1> HIDE DEF n
<1>5. Placed(n) /\ Complete(n)
  BY <1>2, <1>4, SMT
  DEF Placed, Complete, Claimed, Calls, Places, Hit, Resident, Entries, IInv, Typed
<1>6. Versioned(n) /\ Fresh(n)
  BY <1>2, <1>4, SMT
  DEF Placed, Versioned, Fresh, Calls, IInv, Typed, Hit, Resident, Entries, IInv, Typed
<1>7. ASSUME NEW b \in Callers
      PROVE  /\ Joined(n, b, call[b]) /\ Joined(call[b], c, n) /\ Joined(n, c, n)
             /\ SameEpoch(n, call[b]) /\ SameEpoch(call[b], n) /\ SameEpoch(n, n)
  <2>1. /\ told \in [Keys -> Nat] /\ call[b] \in Calls /\ Placed(call[b]) /\ Fresh(call[b])
        /\ Joined(r, b, call[b]) /\ Joined(call[b], c, r) /\ Joined(r, c, r)
        /\ SameEpoch(r, call[b]) /\ SameEpoch(call[b], r) /\ SameEpoch(r, r)
    BY OneCall
  <2>2. Joined(n, b, call[b])
    BY <1>2, <1>4, <2>1, CallersAssumption, <1>5, SMT
    DEF Placed, Joined, Calls, Hit, Resident, Entries, IInv, Typed
  <2>3. Joined(call[b], c, n)
    BY <1>2, <1>4, <2>1, CallersAssumption, <1>5, SMT
    DEF Placed, Joined, Fresh, Calls, Hit, Resident, Entries, IInv, Typed
  <2>4. Joined(n, c, n)
    BY <1>2, <1>4, <2>1, CallersAssumption, <1>5, SMT
    DEF Placed, Joined, Fresh, Calls, Hit, Resident, Entries, IInv, Typed
  <2>5. SameEpoch(n, call[b]) /\ SameEpoch(n, n)
    BY <1>2, <1>4, <2>1, SMT
    DEF Placed, SameEpoch, Fresh, Calls, Hit, Resident, Entries, IInv, Typed
  <2>6. SameEpoch(call[b], n)
    BY <1>2, <1>4, <2>1, SMT
    DEF Placed, SameEpoch, Fresh, Calls, Hit, Resident, Entries, IInv, Typed
  <2> QED
    BY <2>2, <2>3, <2>4, <2>5, <2>6
<1> HIDE DEF r
<1> QED
  BY <1>2, <1>3, <1>5, <1>6, <1>7, EntriesKept, CallChange, IInvSrc

LEMMA MissAgainKeepsIInv ==
  ASSUME IInv, NEW c \in Callers, call[c].at = "again",
         call' = [call EXCEPT ![c] = [call[c] EXCEPT !.at = "epoch"]],
         UNCHANGED <<src, told, epoch>>,
         items' \in [Keys -> [val : Nat, hash : Nat]], Entries'
  PROVE  IInv'
<1> DEFINE r == call[c]
           n == [r EXCEPT !.at = "epoch"]
<1> r \in Calls /\ Placed(r) /\ Complete(r) /\ Versioned(r) /\ Fresh(r)
  BY OneCall
<1>1. /\ "epoch" \in Places
  BY SMT DEF Calls, Places, Goto, IInv, Typed
<1>2. n \in Calls
  BY <1>1, FreeIsCall, FieldUpdates
<1>3. call' = [call EXCEPT ![c] = n] /\ UNCHANGED <<src, told, epoch>>
  BY DEF Goto, Goto, cache
<1>4. /\ n.at = "epoch" /\ n.kind = r.kind /\ n.keys = r.keys /\ n.hash = r.hash
      /\ n.todo = r.todo /\ n.own = r.own /\ n.wait = r.wait /\ n.epoch = r.epoch
      /\ n.loaded = r.loaded /\ n.got = r.got /\ n.end = r.end /\ n.failed = r.failed
      /\ n.retry = r.retry /\ n.asof = r.asof /\ n.late = r.late
  BY SMT DEF Calls, Free
<1> HIDE DEF n
<1>5. Placed(n) /\ Complete(n)
  BY <1>2, <1>4, SMT DEF Placed, Complete, Claimed, Calls, Places, Goto
<1>6. Versioned(n) /\ Fresh(n)
  BY <1>2, <1>4, SMT DEF Placed, Versioned, Fresh, Calls, IInv, Typed, Goto
<1>7. ASSUME NEW b \in Callers
      PROVE  /\ Joined(n, b, call[b]) /\ Joined(call[b], c, n) /\ Joined(n, c, n)
             /\ SameEpoch(n, call[b]) /\ SameEpoch(call[b], n) /\ SameEpoch(n, n)
  <2>1. /\ told \in [Keys -> Nat] /\ call[b] \in Calls /\ Placed(call[b]) /\ Fresh(call[b])
        /\ Joined(r, b, call[b]) /\ Joined(call[b], c, r) /\ Joined(r, c, r)
        /\ SameEpoch(r, call[b]) /\ SameEpoch(call[b], r) /\ SameEpoch(r, r)
    BY OneCall
  <2>2. Joined(n, b, call[b])
    BY <1>2, <1>4, <2>1, CallersAssumption, SMT DEF Placed, Joined, Calls, Goto
  <2>3. Joined(call[b], c, n)
    BY <1>2, <1>4, <2>1, CallersAssumption, SMT DEF Placed, Joined, Fresh, Calls, Goto
  <2>4. Joined(n, c, n)
    BY <1>2, <1>4, <2>1, CallersAssumption, SMT DEF Placed, Joined, Fresh, Calls, Goto
  <2>5. SameEpoch(n, call[b]) /\ SameEpoch(n, n)
    BY <1>2, <1>4, <2>1, SMT DEF Placed, SameEpoch, Fresh, Calls, Goto
  <2>6. SameEpoch(call[b], n)
    BY <1>2, <1>4, <2>1, SMT DEF Placed, SameEpoch, Fresh, Calls, Goto
  <2> QED
    BY <2>2, <2>3, <2>4, <2>5, <2>6
<1> HIDE DEF r
<1> QED
  BY <1>2, <1>3, <1>5, <1>6, <1>7, CallChange, IInvSrc

LEMMA LookupKeepsIInv ==
  ASSUME IInv, NEW c \in Callers, NEW k \in Keys, Lookup(c, k)
  PROVE  IInv'
<1> DEFINE rest == [call[c] EXCEPT !.todo = @ \ {k}]
<1>1. /\ call[c].at = "lookup"
      /\ LookupKey(k, call[c], c, [rest EXCEPT !.got[k] = items[k].val], rest)
  BY DEF Lookup
<1>2. CASE Hit(call[c], k) /\ Goto(c, [rest EXCEPT !.got[k] = items[k].val])
           /\ UNCHANGED <<src, told, items, epoch>>
  BY <1>1, <1>2, HitKeepsIInv DEF Goto
<1>3. CASE Goto(c, rest) /\ UNCHANGED <<src, told, cache>>
  BY <1>1, <1>3, MissKeepsIInv, EntriesKept DEF Goto, cache
<1>4. CASE Drop({k}) /\ Goto(c, rest) /\ UNCHANGED <<src, told, epoch>>
  BY <1>1, <1>4, MissKeepsIInv, DropKeepsEntries DEF Goto
<1> QED
  BY <1>1, <1>2, <1>3, <1>4 DEF LookupKey

LEMMA LookAgainKeepsIInv ==
  ASSUME IInv, NEW c \in Callers, NEW k \in Keys, LookAgain(c, k)
  PROVE  IInv'
<1> DEFINE hit == [call[c] EXCEPT !.at = "settling", !.loaded[k] = items[k].val,
                                  !.end = "stored"]
           miss == [call[c] EXCEPT !.at = "epoch"]
<1>1. call[c].at = "again" /\ k \in call[c].own /\ LookupKey(k, call[c], c, hit, miss)
  BY DEF LookAgain
<1>2. CASE Hit(call[c], k) /\ Goto(c, hit) /\ UNCHANGED <<src, told, items, epoch>>
  BY <1>1, <1>2, HitAgainKeepsIInv DEF Goto
<1>3. CASE Goto(c, miss) /\ UNCHANGED <<src, told, cache>>
  BY <1>1, <1>3, MissAgainKeepsIInv, EntriesKept DEF Goto, cache
<1>4. CASE Drop({k}) /\ Goto(c, miss) /\ UNCHANGED <<src, told, epoch>>
  BY <1>1, <1>4, MissAgainKeepsIInv, DropKeepsEntries DEF Goto
<1> QED
  BY <1>1, <1>2, <1>3, <1>4 DEF LookupKey

LEMMA AskKeepsIInv ==
  ASSUME IInv, NEW c \in Callers, NEW kind \in {"one", "batch", "build"},
         NEW S \in SUBSET Keys, NEW gate, Ask(c, kind, S, gate)
  PROVE  IInv'
<1> DEFINE r == call[c]
           n == [Free EXCEPT !.at = IF kind = "one" THEN "lookup" ELSE "epoch",
                         !.kind = kind,
                         !.keys = S,
                         !.hash = HashOf(gate),
                         !.asof = told,
                         !.todo = S,
                         !.own = IF kind = "build" THEN S ELSE {}]
<1> r \in Calls /\ Placed(r) /\ Complete(r) /\ Versioned(r) /\ Fresh(r)
  BY OneCall
<1>1. /\ (IF kind = "one" THEN "lookup" ELSE "epoch") \in Places
      /\ kind \in {"none", "one", "batch", "build", "through"} /\ S \in SUBSET Keys
      /\ HashOf(gate) \in [Keys -> Nat \cup {Bypass}] /\ told \in [Keys -> Nat]
      /\ S \in SUBSET Keys /\ (IF kind = "build" THEN S ELSE {}) \in SUBSET Keys
  BY VersionsAssumption, SMT DEF Calls, Places, Ask, IInv, Typed, HashOf
<1>2. n \in Calls
  <2>1. [Free EXCEPT !.at = IF kind = "one" THEN "lookup" ELSE "epoch", !.kind = kind,
               !.keys = S] \in Calls
    BY <1>1, FreeIsCall, FieldUpdates
  <2>2. [Free EXCEPT !.at = IF kind = "one" THEN "lookup" ELSE "epoch", !.kind = kind, !.keys = S,
               !.hash = HashOf(gate), !.asof = told, !.todo = S] \in Calls
    BY <1>1, FreeIsCall, FieldUpdates, <2>1
  <2> QED
    BY <1>1, <2>2, FieldUpdates
<1>3. call' = [call EXCEPT ![c] = n] /\ UNCHANGED <<src, told, items, epoch>>
  BY DEF Ask, Goto, cache, HashOf
<1>4. /\ n.at = (IF kind = "one" THEN "lookup" ELSE "epoch") /\ n.kind = kind
      /\ n.keys = S /\ n.hash = HashOf(gate) /\ n.todo = S
      /\ n.own = (IF kind = "build" THEN S ELSE {}) /\ n.wait = Free.wait
      /\ n.epoch = Free.epoch /\ n.loaded = Free.loaded /\ n.got = Free.got
      /\ n.end = Free.end /\ n.failed = Free.failed /\ n.retry = Free.retry
      /\ n.asof = told /\ n.late = Free.late
  BY SMT DEF Calls, Free
<1> HIDE DEF n
<1>5. Placed(n) /\ Complete(n)
  BY <1>2, <1>4, SMT DEF Placed, Complete, Claimed, Calls, Places, Ask, Free, HashOf
<1>6. Versioned(n) /\ Fresh(n)
  BY <1>2, <1>4, VersionsAssumption, SMT
  DEF Placed, Versioned, Fresh, Calls, IInv, Typed, Ask, Free, HashOf
<1>7. ASSUME NEW b \in Callers
      PROVE  /\ Joined(n, b, call[b]) /\ Joined(call[b], c, n) /\ Joined(n, c, n)
             /\ SameEpoch(n, call[b]) /\ SameEpoch(call[b], n) /\ SameEpoch(n, n)
  <2>1. /\ told \in [Keys -> Nat] /\ call[b] \in Calls /\ Placed(call[b]) /\ Fresh(call[b])
        /\ Joined(r, b, call[b]) /\ Joined(call[b], c, r) /\ Joined(r, c, r)
        /\ SameEpoch(r, call[b]) /\ SameEpoch(call[b], r) /\ SameEpoch(r, r)
    BY OneCall
  <2>2. Joined(n, b, call[b])
    BY <1>2, <1>4, <2>1, CallersAssumption, <1>5, SMT
    DEF Placed, Joined, Calls, Ask, Free, HashOf
  <2>3. Joined(call[b], c, n)
    BY <1>2, <1>4, <2>1, CallersAssumption, <1>5, SMT
    DEF Placed, Joined, Fresh, Calls, Ask, Free, HashOf
  <2>4. Joined(n, c, n)
    BY <1>2, <1>4, <2>1, CallersAssumption, <1>5, SMT
    DEF Placed, Joined, Fresh, Calls, Ask, Free, HashOf
  <2>5. SameEpoch(n, call[b]) /\ SameEpoch(n, n)
    BY <1>2, <1>4, <2>1, SMT DEF Placed, SameEpoch, Fresh, Calls, Ask, Free, HashOf
  <2>6. SameEpoch(call[b], n)
    BY <1>2, <1>4, <2>1, SMT DEF Placed, SameEpoch, Fresh, Calls, Ask, Free, HashOf
  <2> QED
    BY <2>2, <2>3, <2>4, <2>5, <2>6
<1> HIDE DEF r
<1> QED
  BY <1>2, <1>3, <1>5, <1>6, <1>7, EntriesKept, CallChange, IInvSrc

LEMMA StoreBuiltKeepsIInv ==
  ASSUME IInv, NEW c \in Callers, Store(c), call[c].kind = "build",
         items' \in [Keys -> [val : Nat, hash : Nat]], Entries'
  PROVE  IInv'
<1> DEFINE r == call[c]
           n == Free
<1> r \in Calls /\ Placed(r) /\ Complete(r) /\ Versioned(r) /\ Fresh(r)
  BY OneCall
<1>2. n \in Calls
  BY FreeIsCall
<1>3. call' = [call EXCEPT ![c] = n] /\ UNCHANGED <<src, told, epoch>>
  BY DEF Store, Goto, cache, StoreUnder
<1>4. /\ n.at = Free.at /\ n.kind = Free.kind /\ n.keys = Free.keys
      /\ n.hash = Free.hash /\ n.todo = Free.todo /\ n.own = Free.own
      /\ n.wait = Free.wait /\ n.epoch = Free.epoch /\ n.loaded = Free.loaded
      /\ n.got = Free.got /\ n.end = Free.end /\ n.failed = Free.failed
      /\ n.retry = Free.retry /\ n.asof = Free.asof /\ n.late = Free.late
  BY SMT DEF Calls, Free
<1> HIDE DEF n
<1>5. Placed(n) /\ Complete(n)
  BY <1>2, <1>4, SMT DEF Placed, Complete, Claimed, Calls, Places, Store, Free, StoreUnder
<1>6. Versioned(n) /\ Fresh(n)
  BY <1>2, <1>4, SMT DEF Placed, Versioned, Fresh, Calls, IInv, Typed, Store, Free, StoreUnder
<1>7. ASSUME NEW b \in Callers
      PROVE  /\ Joined(n, b, call[b]) /\ Joined(call[b], c, n) /\ Joined(n, c, n)
             /\ SameEpoch(n, call[b]) /\ SameEpoch(call[b], n) /\ SameEpoch(n, n)
  <2>1. /\ told \in [Keys -> Nat] /\ call[b] \in Calls /\ Placed(call[b]) /\ Fresh(call[b])
        /\ Joined(r, b, call[b]) /\ Joined(call[b], c, r) /\ Joined(r, c, r)
        /\ SameEpoch(r, call[b]) /\ SameEpoch(call[b], r) /\ SameEpoch(r, r)
    BY OneCall
  <2>2. Joined(n, b, call[b])
    BY <1>2, <1>4, <2>1, CallersAssumption, SMT
    DEF Placed, Joined, Calls, Store, Free, StoreUnder
  <2>3. Joined(call[b], c, n)
    BY <1>2, <1>4, <2>1, CallersAssumption, SMT
    DEF Placed, Joined, Fresh, Calls, Store, Free, StoreUnder
  <2>4. Joined(n, c, n)
    BY <1>2, <1>4, <2>1, CallersAssumption, SMT
    DEF Placed, Joined, Fresh, Calls, Store, Free, StoreUnder
  <2>5. SameEpoch(n, call[b]) /\ SameEpoch(n, n)
    BY <1>2, <1>4, <2>1, SMT DEF Placed, SameEpoch, Fresh, Calls, Store, Free, StoreUnder
  <2>6. SameEpoch(call[b], n)
    BY <1>2, <1>4, <2>1, SMT DEF Placed, SameEpoch, Fresh, Calls, Store, Free, StoreUnder
  <2> QED
    BY <2>2, <2>3, <2>4, <2>5, <2>6
<1> HIDE DEF r
<1> QED
  BY <1>2, <1>3, <1>5, <1>6, <1>7, CallChange, IInvSrc

LEMMA StoreFlightKeepsIInv ==
  ASSUME IInv, NEW c \in Callers, Store(c), call[c].kind # "build",
         items' \in [Keys -> [val : Nat, hash : Nat]], Entries'
  PROVE  IInv'
<1> DEFINE r == call[c]
           n == [r EXCEPT !.at = "settling",
                         !.end = IF epoch = r.epoch THEN "stored" ELSE "refused"]
<1> r \in Calls /\ Placed(r) /\ Complete(r) /\ Versioned(r) /\ Fresh(r)
  BY OneCall
<1>1. /\ "settling" \in Places
      /\ (IF epoch = r.epoch THEN "stored" ELSE "refused") \in {"open", "stored", "refused", "failed"}
  BY SMT DEF Calls, Places, Store, IInv, Typed, StoreUnder
<1>2. n \in Calls
  BY <1>1, FreeIsCall, FieldUpdates
<1>3. call' = [call EXCEPT ![c] = n] /\ UNCHANGED <<src, told, epoch>>
  BY DEF Store, Goto, cache, StoreUnder
<1>4. /\ n.at = "settling" /\ n.kind = r.kind /\ n.keys = r.keys /\ n.hash = r.hash
      /\ n.todo = r.todo /\ n.own = r.own /\ n.wait = r.wait /\ n.epoch = r.epoch
      /\ n.loaded = r.loaded /\ n.got = r.got
      /\ n.end = (IF epoch = r.epoch THEN "stored" ELSE "refused")
      /\ n.failed = r.failed /\ n.retry = r.retry /\ n.asof = r.asof /\ n.late = r.late
  BY SMT DEF Calls, Free
<1> HIDE DEF n
<1>5. Placed(n) /\ Complete(n)
  BY <1>2, <1>4, SMT DEF Placed, Complete, Claimed, Calls, Places, Store, StoreUnder
<1>6. Versioned(n) /\ Fresh(n)
  BY <1>2, <1>4, SMT DEF Placed, Versioned, Fresh, Calls, IInv, Typed, Store, StoreUnder
<1>7. ASSUME NEW b \in Callers
      PROVE  /\ Joined(n, b, call[b]) /\ Joined(call[b], c, n) /\ Joined(n, c, n)
             /\ SameEpoch(n, call[b]) /\ SameEpoch(call[b], n) /\ SameEpoch(n, n)
  <2>1. /\ told \in [Keys -> Nat] /\ call[b] \in Calls /\ Placed(call[b]) /\ Fresh(call[b])
        /\ Joined(r, b, call[b]) /\ Joined(call[b], c, r) /\ Joined(r, c, r)
        /\ SameEpoch(r, call[b]) /\ SameEpoch(call[b], r) /\ SameEpoch(r, r)
    BY OneCall
  <2>2. Joined(n, b, call[b])
    BY <1>2, <1>4, <2>1, CallersAssumption, SMT DEF Placed, Joined, Calls, Store, StoreUnder
  <2>3. Joined(call[b], c, n)
    BY <1>2, <1>4, <2>1, CallersAssumption, SMT
    DEF Placed, Joined, Fresh, Calls, Store, StoreUnder
  <2>4. Joined(n, c, n)
    BY <1>2, <1>4, <2>1, CallersAssumption, SMT
    DEF Placed, Joined, Fresh, Calls, Store, StoreUnder
  <2>5. SameEpoch(n, call[b]) /\ SameEpoch(n, n)
    BY <1>2, <1>4, <2>1, SMT DEF Placed, SameEpoch, Fresh, Calls, Store, StoreUnder
  <2>6. SameEpoch(call[b], n)
    BY <1>2, <1>4, <2>1, SMT DEF Placed, SameEpoch, Fresh, Calls, Store, StoreUnder
  <2> QED
    BY <2>2, <2>3, <2>4, <2>5, <2>6
<1> HIDE DEF r
<1> QED
  BY <1>2, <1>3, <1>5, <1>6, <1>7, CallChange, IInvSrc

LEMMA StoreKeepsIInv ==
  ASSUME IInv, NEW c \in Callers, Store(c)
  PROVE  IInv'
<1> DEFINE r == call[c]
           S == {k \in r.own : r.hash[k] # Bypass}
<1>1. /\ r \in Calls /\ Versioned(r) /\ Fresh(r) /\ r.at = "storing"
      /\ UNCHANGED <<src, told, epoch>>
      /\ told \in [Keys -> Nat]
  BY OneCall DEF Store, StoreUnder
<1>2. Entries' /\ items' \in [Keys -> [val : Nat, hash : Nat]]
  <2>1. CASE epoch # r.epoch
    BY <2>1, <1>1, EntriesKept DEF Store, StoreUnder
  <2>2. CASE epoch = r.epoch
    <3>1. StoreAll(S, r.loaded, r.hash)
      BY <2>2 DEF Store, StoreUnder
    <3>2. /\ S \in SUBSET Keys /\ r.loaded \in [Keys -> Nat]
          /\ r.hash \in [Keys -> Nat \cup {Bypass}]
      BY <1>1, SMT DEF Calls
    <3>3. ASSUME NEW k \in S
          PROVE  /\ r.loaded[k] >= 1 /\ r.hash[k] \in Nat /\ r.loaded[k] >= r.hash[k]
                 /\ r.loaded[k] >= told[k]
      BY <1>1, <2>2, <3>2, SMT DEF Versioned, Fresh
    <3> QED
      BY <1>1, <3>1, <3>2, <3>3, StoreKeepsEntries
  <2> QED
    BY <2>1, <2>2
<1> QED
  BY <1>2, StoreBuiltKeepsIInv, StoreFlightKeepsIInv

LEMMA PutStoredKeepsIInv ==
  ASSUME IInv, NEW c \in Callers, Put(c),
         items' \in [Keys -> [val : Nat, hash : Nat]], Entries'
  PROVE  IInv'
<1> DEFINE r == call[c]
           n == Free
<1> r \in Calls /\ Placed(r) /\ Complete(r) /\ Versioned(r) /\ Fresh(r)
  BY OneCall
<1>2. n \in Calls
  BY FreeIsCall
<1>3. call' = [call EXCEPT ![c] = n] /\ UNCHANGED <<src, told, epoch>>
  BY DEF Put, Goto, cache
<1>4. /\ n.at = Free.at /\ n.kind = Free.kind /\ n.keys = Free.keys
      /\ n.hash = Free.hash /\ n.todo = Free.todo /\ n.own = Free.own
      /\ n.wait = Free.wait /\ n.epoch = Free.epoch /\ n.loaded = Free.loaded
      /\ n.got = Free.got /\ n.end = Free.end /\ n.failed = Free.failed
      /\ n.retry = Free.retry /\ n.asof = Free.asof /\ n.late = Free.late
  BY SMT DEF Calls, Free
<1> HIDE DEF n
<1>5. Placed(n) /\ Complete(n)
  BY <1>2, <1>4, SMT DEF Placed, Complete, Claimed, Calls, Places, Put, Free
<1>6. Versioned(n) /\ Fresh(n)
  BY <1>2, <1>4, SMT DEF Placed, Versioned, Fresh, Calls, IInv, Typed, Put, Free
<1>7. ASSUME NEW b \in Callers
      PROVE  /\ Joined(n, b, call[b]) /\ Joined(call[b], c, n) /\ Joined(n, c, n)
             /\ SameEpoch(n, call[b]) /\ SameEpoch(call[b], n) /\ SameEpoch(n, n)
  <2>1. /\ told \in [Keys -> Nat] /\ call[b] \in Calls /\ Placed(call[b]) /\ Fresh(call[b])
        /\ Joined(r, b, call[b]) /\ Joined(call[b], c, r) /\ Joined(r, c, r)
        /\ SameEpoch(r, call[b]) /\ SameEpoch(call[b], r) /\ SameEpoch(r, r)
    BY OneCall
  <2>2. Joined(n, b, call[b])
    BY <1>2, <1>4, <2>1, CallersAssumption, SMT DEF Placed, Joined, Calls, Put, Free
  <2>3. Joined(call[b], c, n)
    BY <1>2, <1>4, <2>1, CallersAssumption, SMT DEF Placed, Joined, Fresh, Calls, Put, Free
  <2>4. Joined(n, c, n)
    BY <1>2, <1>4, <2>1, CallersAssumption, SMT DEF Placed, Joined, Fresh, Calls, Put, Free
  <2>5. SameEpoch(n, call[b]) /\ SameEpoch(n, n)
    BY <1>2, <1>4, <2>1, SMT DEF Placed, SameEpoch, Fresh, Calls, Put, Free
  <2>6. SameEpoch(call[b], n)
    BY <1>2, <1>4, <2>1, SMT DEF Placed, SameEpoch, Fresh, Calls, Put, Free
  <2> QED
    BY <2>2, <2>3, <2>4, <2>5, <2>6
<1> HIDE DEF r
<1> QED
  BY <1>2, <1>3, <1>5, <1>6, <1>7, CallChange, IInvSrc

LEMMA PutKeepsIInv ==
  ASSUME IInv, NEW c \in Callers, Put(c)
  PROVE  IInv'
<1> DEFINE r == call[c]
<1>1. /\ r \in Calls /\ Placed(r) /\ r.at = "putting"
      /\ StoreAll(r.keys, r.loaded, r.hash) /\ UNCHANGED told
  BY OneCall DEF Put
<1>2. /\ r.keys \in SUBSET Keys /\ r.loaded \in [Keys -> Nat]
      /\ r.hash \in [Keys -> Nat \cup {Bypass}]
  BY <1>1, SMT DEF Calls
<1>3. ASSUME NEW k \in r.keys
      PROVE  /\ r.loaded[k] >= 1 /\ r.hash[k] \in Nat /\ r.loaded[k] >= r.hash[k]
             /\ Guarded => r.loaded[k] >= told[k]
  BY <1>1, <1>2, SMT DEF Placed
<1>4. Entries' /\ items' \in [Keys -> [val : Nat, hash : Nat]]
  BY <1>1, <1>2, <1>3, StoreKeepsEntries
<1> QED
  BY <1>4, PutStoredKeepsIInv

LEMMA ClaimKeepsIInv ==
  ASSUME IInv, NEW c \in Callers, Claim(c)
  PROVE  IInv'
<1> DEFINE r == call[c]
           missing == {k \in r.keys : r.got[k] = 0}
           mine == {k \in missing : Owners(r, k) = {}}
           leader == [k \in Keys |-> IF k \notin missing THEN None
                                     ELSE IF k \in mine THEN c
                                     ELSE CHOOSE b \in Owners(r, k) : TRUE]
           late == r.kind = "one" /\ \E k \in missing \ mine : call[leader[k]].end = "stored"
           place == IF mine = {} THEN "waiting" ELSE IF r.kind = "one" THEN "again" ELSE "loading"
           n == [r EXCEPT !.wait = leader, !.own = mine, !.late = late, !.at = place]
<1>1. /\ r \in Calls /\ Placed(r) /\ Complete(r) /\ Versioned(r) /\ Fresh(r)
      /\ told \in [Keys -> Nat] /\ r.at = "lookup" /\ r.own = {}
      /\ r.kind \in {"one", "batch"}
  <2>1. r \in Calls /\ Placed(r) /\ r.at = "lookup"
    BY OneCall DEF Claim
  <2>2. r.own = {} /\ r.kind \in {"one", "batch"}
    BY <2>1, SMT DEF Placed, Calls
  <2> QED
    BY <2>1, <2>2, OneCall
<1>2. missing \subseteq Keys /\ mine \subseteq missing /\ missing \subseteq r.keys
  BY <1>1, SMT DEF Calls
<1>3. ASSUME NEW k \in missing \ mine
      PROVE  /\ leader[k] \in Callers \ {c} /\ k \in call[leader[k]].own
             /\ call[leader[k]].kind = r.kind /\ call[leader[k]].hash[k] = r.hash[k]
             /\ r.kind = "batch" => call[leader[k]].epoch = r.epoch
  <2>1. k \in Keys /\ leader[k] \in Owners(r, k)
    BY <1>2
  <2>2. PICK b \in Callers : /\ b = leader[k] /\ k \in call[b].own /\ call[b].kind # "build"
                            /\ FlightKey(call[b], k) = FlightKey(r, k)
    BY <2>1 DEF Owners
  <2>3. /\ call[b] \in Calls /\ Placed(call[b])
        /\ k \in call[b].own /\ call[b].kind # "build" /\ FlightKey(call[b], k) = FlightKey(r, k)
    BY <2>2, OneCall
  <2>4. call[b].at \notin {"free", "putting"}
    BY <2>3 DEF Placed
  <2>5. call[b].kind \in {"one", "batch"}
    BY <2>3, <2>4, SMT DEF Placed, Calls
  <2>6. ASSUME r.kind = "batch"
        PROVE  call[b].kind = "batch" /\ call[b].hash[k] = r.hash[k] /\ call[b].epoch = r.epoch
    <3>1. FlightKey(r, k) = <<"batch", k, r.hash[k], r.epoch>>
      BY <2>6 DEF FlightKey
    <3>2. call[b].kind # "one"
      <4>1. SUFFICES ASSUME call[b].kind = "one" PROVE FALSE
        OBVIOUS
      <4>2. FlightKey(call[b], k) = <<"one", k, call[b].hash[k]>>
        BY <4>1 DEF FlightKey
      <4> QED
        BY <2>3, <3>1, <4>2
    <3>3. FlightKey(call[b], k) = <<"batch", k, call[b].hash[k], call[b].epoch>>
      BY <2>5, <3>2 DEF FlightKey
    <3>4. call[b].hash[k] = r.hash[k] /\ call[b].epoch = r.epoch
      <4> HIDE DEF r
      <4> QED
        BY <2>3, <3>1, <3>3, SMT
    <3> QED
      BY <2>5, <3>2, <3>4
  <2>7. ASSUME r.kind = "one"
        PROVE  call[b].kind = "one" /\ call[b].hash[k] = r.hash[k]
    <3>1. FlightKey(r, k) = <<"one", k, r.hash[k]>>
      BY <2>7 DEF FlightKey
    <3>2. call[b].kind # "batch"
      <4>1. SUFFICES ASSUME call[b].kind = "batch" PROVE FALSE
        OBVIOUS
      <4>2. FlightKey(call[b], k) = <<"batch", k, call[b].hash[k], call[b].epoch>>
        BY <4>1 DEF FlightKey
      <4> QED
        BY <2>3, <3>1, <4>2
    <3>3. FlightKey(call[b], k) = <<"one", k, call[b].hash[k]>>
      BY <2>5, <3>2 DEF FlightKey
    <3>4. call[b].hash[k] = r.hash[k]
      <4> HIDE DEF r
      <4> QED
        BY <2>3, <3>1, <3>3, SMT
    <3> QED
      BY <2>5, <3>2, <3>4
  <2>8. /\ call[b].kind = r.kind /\ call[b].hash[k] = r.hash[k]
        /\ r.kind = "batch" => call[b].epoch = r.epoch
    BY <1>1, <2>6, <2>7
  <2>9. b = leader[k] /\ b # c
    BY <1>1, <2>2, <2>3
  <2> HIDE DEF leader
  <2> QED
    BY <2>3, <2>8, <2>9
<1>4. leader \in [Keys -> Callers \cup {None}] /\ mine \in SUBSET Keys /\ place \in Places
  <2>1. \A k \in Keys : leader[k] \in Callers \cup {None}
    BY <1>3
  <2> QED
    BY <1>2, <2>1 DEF Places
<1>5. /\ \A k \in missing : leader[k] \in Callers
      /\ \A k \in Keys : k \notin missing => leader[k] = None
      /\ \A k \in mine : leader[k] = c
      /\ \A k \in missing \ mine : leader[k] # c
  BY <1>2, <1>3
<1>6. late \in BOOLEAN
  OBVIOUS
<1>7. n \in Calls
  <2>1. [r EXCEPT !.wait = leader, !.own = mine] \in Calls
    BY <1>1, <1>4, FieldUpdates
  <2> HIDE DEF leader, mine, late, place
  <2> QED
    BY <1>4, <1>6, <2>1, FieldUpdates
<1>8. call' = [call EXCEPT ![c] = n] /\ UNCHANGED <<src, told, items, epoch>>
  BY DEF Claim, Goto, cache
<1>9. /\ n.at = place /\ n.wait = leader /\ n.own = mine /\ n.late = late
      /\ n.kind = r.kind /\ n.keys = r.keys /\ n.hash = r.hash /\ n.todo = r.todo
      /\ n.epoch = r.epoch /\ n.loaded = r.loaded /\ n.got = r.got /\ n.end = r.end
      /\ n.failed = r.failed /\ n.retry = r.retry /\ n.asof = r.asof
  <2> HIDE DEF leader, mine, late, place
  <2> QED
    BY <1>1, SMT DEF Calls
<1>10. /\ n.at \in {"waiting", "again", "loading"}
       /\ n.at = "waiting" => mine = {}
       /\ n.at = "again" => r.kind = "one"
       /\ late => r.kind = "one"
       /\ n.kind \in {"one", "batch"}
  <2>1. place \in {"waiting", "again", "loading"} /\ (place = "again" => r.kind = "one")
    OBVIOUS
  <2>2. place = "waiting" => mine = {}
    OBVIOUS
  <2>3. late => r.kind = "one"
    OBVIOUS
  <2> HIDE DEF place, mine, late
  <2> QED
    BY <1>1, <1>9, <2>1, <2>2, <2>3
<1>11. \A k \in missing \ mine : r.kind = "one" /\ call[leader[k]].end = "stored" => late
  OBVIOUS
<1>12. \A k \in r.keys : k \in missing \/ r.got[k] # 0
  OBVIOUS
<1> HIDE DEF n, leader, mine, missing, late, place
<1>13. Placed(n) /\ Complete(n)
  <2>1. \A k \in r.keys : r.got[k] # 0 \/ leader[k] # None
    BY <1>5, <1>12, CallersAssumption
  <2>2. Complete(n)
    BY <1>9, <1>10, <2>1 DEF Complete
  <2>3. n.own \subseteq n.keys /\ (n.end # "stored")
    BY <1>1, <1>2, <1>9 DEF Placed
  <2>4. n.at = "waiting" => n.own = {}
    BY <1>9, <1>10
  <2>5. n.kind = "one" => \A j, k \in n.keys : j = k
    BY <1>1, <1>9 DEF Placed
  <2>6. n.at \in {"again", "loading"} => n.end = "open"
    BY <1>1, <1>9 DEF Placed
  <2>7. (n.late => n.kind = "one") /\ (n.at = "again" => n.kind = "one")
    BY <1>9, <1>10
  <2> QED
    BY <1>10, <2>2, <2>3, <2>4, <2>5, <2>6, <2>7 DEF Placed
<1>14. Versioned(n) /\ Fresh(n)
  <2>1. n.at \notin {"storing", "settling"}
    BY <1>10
  <2>2. Versioned(n)
    BY <1>1, <1>9, <2>1 DEF Versioned
  <2>3. Guarded /\ ~late => \A k \in Keys : r.got[k] # 0 => r.got[k] >= r.asof[k]
    BY <1>1 DEF Placed, Fresh
  <2>4. Fresh(n)
    BY <1>1, <1>9, <2>1, <2>3 DEF Fresh
  <2> QED
    BY <2>2, <2>4
<1>15. Joined(n, c, n)
  <2>1. r.end # "stored" \/ mine = {}
    BY <1>9, <1>10, <1>13, SMT DEF Placed
  <2> QED
    BY <1>2, <1>5, <1>9, <2>1, CallersAssumption, SMT DEF Joined
<1>16. SameEpoch(n, n)
  BY <1>9, <1>10, <1>13, SMT DEF SameEpoch, Placed
<1>17. ASSUME NEW b \in Callers \ {c}
       PROVE  /\ Joined(n, b, call[b]) /\ Joined(call[b], c, n)
              /\ SameEpoch(n, call[b]) /\ SameEpoch(call[b], n)
  <2>1. /\ call[b] \in Calls /\ Placed(call[b])
        /\ Joined(call[b], c, r) /\ SameEpoch(r, call[b])
    BY OneCall
  <2>2. SameEpoch(n, call[b])
    BY <1>1, <1>9, <2>1, SMT DEF SameEpoch
  <2>3. SameEpoch(call[b], n)
    BY <1>9, <1>10, <1>13, SMT DEF SameEpoch, Placed
  <2>4. Joined(call[b], c, n)
    BY <1>1, <2>1, SMT DEF Joined
  <2>5. ASSUME NEW k \in Keys, n.wait[k] = b
        PROVE  /\ k \in call[b].own /\ call[b].kind = n.kind /\ call[b].hash[k] = n.hash[k]
               /\ n.kind = "batch" => call[b].epoch = n.epoch
               /\ Guarded /\ call[b].end = "stored" /\ ~n.late => call[b].loaded[k] >= n.asof[k]
    <3>1. k \in missing \ mine /\ leader[k] = b
      BY <1>5, <1>9, <2>5, CallersAssumption
    <3>2. /\ k \in call[b].own /\ call[b].kind = n.kind /\ call[b].hash[k] = n.hash[k]
          /\ n.kind = "batch" => call[b].epoch = n.epoch
      BY <1>3, <1>9, <3>1
    <3>3. CASE n.kind = "one"
      BY <1>9, <1>11, <3>1, <3>2, <3>3
    <3>4. CASE n.kind = "batch"
      BY <1>9, <1>10, <2>2, <3>2, <3>4, SMT DEF SameEpoch
    <3> QED
      BY <1>1, <1>9, <3>2, <3>3, <3>4
  <2>6. Joined(n, b, call[b])
    BY <2>5 DEF Joined
  <2> QED
    BY <2>2, <2>3, <2>4, <2>6
<1> HIDE DEF r
<1> QED
  BY <1>7, <1>8, <1>13, <1>14, <1>15, <1>16, <1>17, EntriesKept, IInvSrc, CallChange

LEMMA CommitThroughKeepsIInv ==
  ASSUME IInv, NEW c \in Callers, NEW k \in Keys, CommitThrough(c, k)
  PROVE  IInv'
<1> DEFINE r == call[c]
           n == [Free EXCEPT !.at = "putting",
                         !.kind = "through",
                         !.keys = {k},
                         !.loaded[k] = src[k] + 1]
<1> r \in Calls /\ Placed(r) /\ Complete(r) /\ Versioned(r) /\ Fresh(r)
  BY OneCall
<1>1. /\ "putting" \in Places
      /\ "through" \in {"none", "one", "batch", "build", "through"}
      /\ {k} \in SUBSET Keys /\ src[k] + 1 \in Nat
  BY SMT DEF Calls, Places, CommitThrough, IInv, Typed, Guarded
<1>2. n \in Calls
  <2>1. [Free EXCEPT !.at = "putting", !.kind = "through", !.keys = {k}] \in Calls
    BY <1>1, FreeIsCall, FieldUpdates
  <2> QED
    BY <1>1, <2>1, FieldUpdates
<1>3. call' = [call EXCEPT ![c] = n] /\ UNCHANGED <<told, items, epoch>>
  BY DEF CommitThrough, Goto, cache, Guarded
<1>4. /\ n.at = "putting" /\ n.kind = "through" /\ n.keys = {k} /\ n.hash = Free.hash
      /\ n.todo = Free.todo /\ n.own = Free.own /\ n.wait = Free.wait
      /\ n.epoch = Free.epoch /\ n.loaded = [Free.loaded EXCEPT ![k] = src[k] + 1]
      /\ n.got = Free.got /\ n.end = Free.end /\ n.failed = Free.failed
      /\ n.retry = Free.retry /\ n.asof = Free.asof /\ n.late = Free.late
  BY SMT DEF Calls, Free
<1> HIDE DEF n
<1>5. Placed(n) /\ Complete(n)
  <2>1. n.own = {} /\ ~n.late /\ \A j \in Keys : n.wait[j] = None /\ n.hash[j] = 0
    BY <1>4 DEF Free
  <2>2. ~Guarded /\ src[k] \in Nat
    BY DEF CommitThrough, Guarded, IInv, Typed
  <2>3. \A j \in n.keys : n.loaded[j] >= 1
    BY <1>4, <2>2, SMT DEF Free
  <2> QED
    BY <1>4, <2>1, <2>2, <2>3 DEF Placed, Complete, Claimed
<1>6. Versioned(n) /\ Fresh(n)
  BY <1>2, <1>4, SMT
  DEF Placed, Versioned, Fresh, Calls, IInv, Typed, CommitThrough, Free, Guarded
<1>7. ASSUME NEW b \in Callers
      PROVE  /\ Joined(n, b, call[b]) /\ Joined(call[b], c, n) /\ Joined(n, c, n)
             /\ SameEpoch(n, call[b]) /\ SameEpoch(call[b], n) /\ SameEpoch(n, n)
  <2>1. /\ told \in [Keys -> Nat] /\ call[b] \in Calls /\ Placed(call[b]) /\ Fresh(call[b])
        /\ Joined(r, b, call[b]) /\ Joined(call[b], c, r) /\ Joined(r, c, r)
        /\ SameEpoch(r, call[b]) /\ SameEpoch(call[b], r) /\ SameEpoch(r, r)
    BY OneCall
  <2>2. Joined(n, b, call[b])
    BY <1>2, <1>4, <2>1, CallersAssumption, SMT
    DEF Placed, Joined, Calls, CommitThrough, Free, Guarded
  <2>3. Joined(call[b], c, n)
    BY <1>2, <1>4, <2>1, CallersAssumption, SMT
    DEF Placed, Joined, Fresh, Calls, CommitThrough, Free, Guarded
  <2>4. Joined(n, c, n)
    BY <1>2, <1>4, <2>1, CallersAssumption, SMT
    DEF Placed, Joined, Fresh, Calls, CommitThrough, Free, Guarded
  <2>5. SameEpoch(n, call[b]) /\ SameEpoch(n, n)
    BY <1>2, <1>4, <2>1, SMT DEF Placed, SameEpoch, Fresh, Calls, CommitThrough, Free, Guarded
  <2>6. SameEpoch(call[b], n)
    BY <1>2, <1>4, <2>1, SMT DEF Placed, SameEpoch, Fresh, Calls, CommitThrough, Free, Guarded
  <2> QED
    BY <2>2, <2>3, <2>4, <2>5, <2>6
<1>8. src' \in [Keys -> Nat \ {0}] /\ \A j \in Keys : src[j] <= src'[j]
  BY SMT DEF CommitThrough, IInv, Typed
<1> HIDE DEF r
<1> QED
  BY <1>2, <1>3, <1>5, <1>6, <1>7, EntriesKept, CallChange, <1>8

LEMMA CommitKeepsIInv ==
  ASSUME IInv, NEW k \in Keys, Commit(k)
  PROVE  IInv'
<1>1. UNCHANGED <<told, items, epoch, call>>
  BY DEF Commit, cache
<1>2. src' \in [Keys -> Nat \ {0}] /\ \A j \in Keys : src[j] <= src'[j]
  BY SMT DEF Commit, IInv, Typed
<1>3. Typed'
  <2>1. \A j \in Keys : told[j] <= src'[j]
    BY <1>2, SMT DEF IInv, Typed
  <2> QED
    BY <1>1, <1>2, <2>1 DEF IInv, Typed
<1>4. Entries'
  BY <1>1, EntriesKept
<1>5. ASSUME NEW c \in Callers PROVE CallInv(c)'
  <2>1. CallInv(c) /\ call[c] \in Calls
    BY DEF IInv, Typed
  <2>2. \A j \in Keys : call[c].hash[j] # Bypass => call[c].hash[j] <= src'[j]
    BY <1>2, <2>1, SMT DEF CallInv, Versioned, IInv, Typed, Calls
  <2> QED
    BY <1>1, <2>1, <2>2 DEF CallInv, Placed, Complete, Claimed, Versioned, Fresh
<1>6. ASSUME NEW w \in Callers, NEW b \in Callers
      PROVE  Joined(call[w], b, call[b])' /\ SameEpoch(call[w], call[b])'
  BY <1>1 DEF IInv, Joined, SameEpoch
<1> QED
  BY <1>3, <1>4, <1>5, <1>6 DEF IInv

\* An invalidation moves the epoch past every load in progress.
LEMMA InvalidateKeepsIInv ==
  ASSUME IInv, NEW S \in SUBSET Keys, Invalidate(S)
  PROVE  IInv'
<1>1. /\ UNCHANGED <<src, call>> /\ epoch' = epoch + 1
      /\ items' = [k \in Keys |-> IF k \in S THEN Absent ELSE items[k]]
      /\ told' = [k \in Keys |-> IF k \in S THEN src[k] ELSE told[k]]
  BY DEF Invalidate, InvalidateAt, Drop
<1>2. /\ told' \in [Keys -> Nat]
      /\ \A k \in Keys : told[k] <= told'[k] /\ told'[k] <= src[k]
  BY <1>1, SMT DEF IInv, Typed
<1>3. items' \in [Keys -> [val : Nat, hash : Nat]]
  <2>1. Absent \in [val : Nat, hash : Nat]
    BY SMT DEF Absent
  <2> QED
    BY <1>1, <2>1 DEF IInv, Typed
<1>4. Typed'
  BY <1>1, <1>2, <1>3, SMT DEF IInv, Typed
<1>5. Entries'
  <2>1. ASSUME NEW k \in Keys
        PROVE  /\ items'[k] # Absent => items'[k].val >= 1
               /\ items'[k].val >= items'[k].hash
               /\ Guarded /\ items'[k] # Absent => items'[k].val >= told'[k]
    <3>1. CASE k \in S
      <4>1. items'[k] = Absent /\ Absent.val = 0 /\ Absent.hash = 0
        BY <1>1, <3>1 DEF Absent
      <4> QED
        BY <4>1, SMT
    <3>2. CASE k \notin S
      <4>1. items'[k] = items[k] /\ told'[k] = told[k]
        BY <1>1, <3>2
      <4> QED
        BY <4>1 DEF IInv, Entries
    <3> QED
      BY <3>1, <3>2
  <2> QED
    BY <2>1 DEF Entries, Guarded
<1>6. ASSUME NEW c \in Callers PROVE CallInv(c)'
  <2>1. CallInv(c) /\ call[c] \in Calls
    BY DEF IInv, Typed
  <2>2. call[c].epoch <= epoch' /\ call[c].epoch # epoch'
    BY <1>1, <2>1, SMT DEF CallInv, Fresh, IInv, Typed, Calls
  <2>3. \A k \in Keys : call[c].asof[k] <= told'[k]
    BY <1>2, <2>1, SMT DEF CallInv, Fresh, IInv, Typed, Calls
  <2>4. Fresh(call[c])'
    BY <1>1, <2>1, <2>2, <2>3 DEF CallInv, Fresh
  <2> QED
    BY <1>1, <2>1, <2>4 DEF CallInv, Placed, Complete, Claimed, Versioned
<1>7. ASSUME NEW w \in Callers, NEW b \in Callers
      PROVE  Joined(call[w], b, call[b])' /\ SameEpoch(call[w], call[b])'
  BY <1>1 DEF IInv, Joined, SameEpoch
<1> QED
  BY <1>4, <1>5, <1>6, <1>7 DEF IInv


\* The outcome of a flight reaches the owner and every waiter in one step.
LEMMA SettleKeepsIInv ==
  ASSUME IInv, NEW c \in Callers, NEW k \in Keys, Settle(c, k)
  PROVE  IInv'
<1> DEFINE r == call[c]
           Told(w) == [call[w] EXCEPT
                         !.wait[k] = None,
                         !.own = IF w = c THEN @ \ {k} ELSE @,
                         !.at = IF w = c /\ r.own = {k} THEN "waiting" ELSE @,
                         !.got[k] = IF r.end = "stored" THEN r.loaded[k] ELSE 0,
                         !.failed = @ \/ r.end = "failed",
                         !.retry = @ \/ r.end = "refused"]
<1>1. /\ r \in Calls /\ Placed(r) /\ Versioned(r)
      /\ r.at = "settling" /\ k \in r.own
  BY OneCall DEF Settle
<1>2. /\ UNCHANGED <<src, told, items, epoch>>
      /\ call' = [w \in Callers |-> IF call[w].wait[k] = c THEN Told(w) ELSE call[w]]
  BY DEF Settle, cache
<1>3. ASSUME NEW w \in Callers
      PROVE  /\ call'[w].kind = call[w].kind /\ call'[w].keys = call[w].keys
             /\ call'[w].hash = call[w].hash /\ call'[w].epoch = call[w].epoch
             /\ call'[w].loaded = call[w].loaded /\ call'[w].end = call[w].end
             /\ call'[w].asof = call[w].asof /\ call'[w].late = call[w].late
             /\ call'[w].own \in {call[w].own, call[w].own \ {k}}
             /\ w # c => call'[w].own = call[w].own /\ call'[w].at = call[w].at
             /\ \/ call'[w].at = call[w].at
                \/ w = c /\ call'[w].own = {} /\ call'[w].at = "waiting"
             /\ call[w].wait[k] # c => call'[w] = call[w]
             /\ call[w].wait[k] = c =>
                  /\ call'[w].wait = [call[w].wait EXCEPT ![k] = None]
                  /\ call'[w].got =
                       [call[w].got EXCEPT ![k] = IF r.end = "stored" THEN r.loaded[k] ELSE 0]
                  /\ call'[w].failed = (call[w].failed \/ r.end = "failed")
                  /\ call'[w].retry = (call[w].retry \/ r.end = "refused")
             /\ call'[w] \in Calls
  <2>1. call[w] \in Calls
    BY OneCall
  <2>2. CASE call[w].wait[k] # c
    BY <1>2, <2>1, <2>2
  <2>3. CASE call[w].wait[k] = c
    <3>1. call'[w] = Told(w)
      BY <1>2, <2>3
    <3>2. /\ Told(w).kind = call[w].kind /\ Told(w).keys = call[w].keys
          /\ Told(w).hash = call[w].hash /\ Told(w).epoch = call[w].epoch
          /\ Told(w).loaded = call[w].loaded /\ Told(w).end = call[w].end
          /\ Told(w).asof = call[w].asof /\ Told(w).late = call[w].late
          /\ Told(w).own = IF w = c THEN call[w].own \ {k} ELSE call[w].own
          /\ Told(w).at = IF w = c /\ r.own = {k} THEN "waiting" ELSE call[w].at
          /\ Told(w).wait = [call[w].wait EXCEPT ![k] = None]
          /\ Told(w).got =
               [call[w].got EXCEPT ![k] = IF r.end = "stored" THEN r.loaded[k] ELSE 0]
          /\ Told(w).failed = (call[w].failed \/ r.end = "failed")
          /\ Told(w).retry = (call[w].retry \/ r.end = "refused")
      BY <2>1, SMT DEF Calls
    <3>3. Told(w) \in Calls
      <4> DEFINE own == IF w = c THEN call[w].own \ {k} ELSE call[w].own
                 at == IF w = c /\ r.own = {k} THEN "waiting" ELSE call[w].at
                 got == IF r.end = "stored" THEN r.loaded[k] ELSE 0
                 failed == call[w].failed \/ r.end = "failed"
                 retry == call[w].retry \/ r.end = "refused"
      <4>1. /\ own \in SUBSET Keys /\ at \in Places /\ got \in Nat
            /\ failed \in BOOLEAN /\ retry \in BOOLEAN
        <5>1. /\ call[w].own \in SUBSET Keys /\ call[w].at \in Places
              /\ r.loaded \in [Keys -> Nat]
          BY <1>1, <2>1 DEF Calls
        <5> HIDE DEF r
        <5> QED
          BY <5>1 DEF Places
      <4>2. Told(w) = [call[w] EXCEPT !.wait[k] = None, !.own = own, !.at = at, !.got[k] = got,
                                      !.failed = failed, !.retry = retry]
        OBVIOUS
      <4> HIDE DEF own, at, got, failed, retry
      <4>3. [call[w] EXCEPT !.wait[k] = None, !.own = own] \in Calls
        BY <2>1, <4>1, FieldUpdates
      <4>4. [call[w] EXCEPT !.wait[k] = None, !.own = own, !.at = at, !.got[k] = got] \in Calls
        BY <4>1, <4>3, FieldUpdates
      <4>5. [call[w] EXCEPT !.wait[k] = None, !.own = own, !.at = at, !.got[k] = got,
                            !.failed = failed, !.retry = retry] \in Calls
        BY <4>1, <4>4, FieldUpdates
      <4> QED
        BY <4>2, <4>5
    <3> HIDE DEF Told
    <3> QED
      BY <2>3, <3>1, <3>2, <3>3
  <2> QED
    BY <2>2, <2>3
<1>4. ASSUME NEW w \in Callers, call[w].wait[k] = c
      PROVE  /\ r.end = "stored" =>
                  /\ r.loaded[k] >= 1
                  /\ call[w].hash[k] # Bypass => r.loaded[k] >= call[w].hash[k]
                  /\ Guarded /\ ~call[w].late => r.loaded[k] >= call[w].asof[k]
             /\ r.end \in {"stored", "failed", "refused"}
             /\ call[w].at \notin {"free", "lookup", "retry", "done", "putting"}
  <2>1. Joined(call[w], c, r) /\ Placed(call[w])
    BY OneCall
  <2>2. r.end \in {"stored", "failed", "refused"}
    BY <1>1, SMT DEF Placed, Calls
  <2>3. call[w].at \notin {"free", "lookup", "retry", "done", "putting"}
    BY <1>4, <2>1, CallersAssumption DEF Placed
  <2>4. r.end = "stored" => /\ r.loaded[k] >= 1
                            /\ r.hash[k] # Bypass => r.loaded[k] >= r.hash[k]
    BY <1>1 DEF Versioned
  <2> QED
    BY <1>4, <2>1, <2>2, <2>3, <2>4 DEF Joined
<1> HIDE DEF r
<1>10. ASSUME NEW w \in Callers, call[w].wait[k] = c, NEW j \in Keys
       PROVE  /\ call'[w].wait[j] = IF j = k THEN None ELSE call[w].wait[j]
              /\ call'[w].got[j] =
                   IF j # k THEN call[w].got[j] ELSE IF r.end = "stored" THEN r.loaded[k] ELSE 0
  <2>1. /\ call'[w].wait = [call[w].wait EXCEPT ![k] = None]
        /\ call'[w].got =
             [call[w].got EXCEPT ![k] = IF r.end = "stored" THEN r.loaded[k] ELSE 0]
    BY <1>3, <1>10
  <2>2. call[w].wait \in [Keys -> Callers \cup {None}] /\ call[w].got \in [Keys -> Nat]
    BY OneCall DEF Calls
  <2> QED
    BY <2>1, <2>2
<1>11. ASSUME NEW b \in Callers
       PROVE  call'[b].own = call[b].own \/ (b = c /\ call'[b].own = call[b].own \ {k})
  BY <1>3
<1>5. ASSUME NEW w \in Callers
      PROVE  Placed(call'[w]) /\ Complete(call'[w]) /\ Versioned(call'[w]) /\ Fresh(call'[w])
  <2>1. /\ call[w] \in Calls /\ Placed(call[w]) /\ Complete(call[w])
        /\ Versioned(call[w]) /\ Fresh(call[w]) /\ told \in [Keys -> Nat]
    BY OneCall
  <2>2. CASE call[w].wait[k] # c
    BY <1>3, <2>1, <2>2
  <2>3. CASE call[w].wait[k] = c
    <3>1. Placed(call'[w])
      <4>1. call[w].at \notin {"free", "lookup", "retry", "done", "putting"}
        BY <1>4, <2>3
      <4>2. \A j \in Keys : call[w].wait[j] = None => call'[w].wait[j] = None
        BY <1>10, <2>3
      <4>3. call'[w].own \subseteq call[w].own
        BY <1>3
      <4>4. call'[w].at = call[w].at \/ (call'[w].own = {} /\ call'[w].at = "waiting" /\ call[w].at = "settling")
        BY <1>1, <1>3 DEF r
      <4> QED
        BY <1>3, <2>1, <4>1, <4>2, <4>3, <4>4 DEF Placed
    <3>2. Complete(call'[w])
      <4>1. call'[w].at # "done"
        BY <1>3, <1>4, <2>3
      <4>2. Claimed(call'[w]) => Claimed(call[w])
        BY <1>1, <1>3 DEF Claimed, r
      <4>3. ASSUME Claimed(call'[w]), ~call'[w].failed, ~call'[w].retry, NEW j \in call'[w].keys
            PROVE  call'[w].got[j] # 0 \/ call'[w].wait[j] # None
        <5>1. j \in Keys /\ j \in call[w].keys
          <6>1. j \in call[w].keys
            BY <1>3, <4>3
          <6> QED
            BY <2>1, <6>1 DEF Calls
        <5>2. r.end = "stored" /\ r.loaded[k] >= 1 /\ ~call[w].failed /\ ~call[w].retry
          BY <1>3, <1>4, <2>3, <4>3
        <5>3. CASE j = k
          <6>1. call'[w].got[j] = r.loaded[k]
            BY <1>10, <2>3, <5>1, <5>2, <5>3
          <6>2. r.loaded[k] # 0
            BY <5>2, SMT
          <6> QED
            BY <6>1, <6>2
        <5>4. CASE j # k
          <6>1. call[w].got[j] # 0 \/ call[w].wait[j] # None
            BY <2>1, <4>2, <4>3, <5>1, <5>2 DEF Complete
          <6>2. call'[w].got[j] = call[w].got[j] /\ call'[w].wait[j] = call[w].wait[j]
            BY <1>10, <2>3, <5>1, <5>4
          <6> QED
            BY <6>1, <6>2
        <5> QED
          BY <5>3, <5>4
      <4> QED
        BY <4>1, <4>3 DEF Complete
    <3>3. ASSUME NEW j \in Keys, call'[w].got[j] # 0
          PROVE  /\ call[w].hash[j] # Bypass => call'[w].got[j] >= call[w].hash[j]
                 /\ Guarded /\ ~call[w].late => call'[w].got[j] >= call[w].asof[j]
      <4>1. CASE j = k
        <5>1. r.end = "stored" /\ call'[w].got[j] = r.loaded[k]
          BY <1>10, <2>3, <3>3, <4>1
        <5> QED
          BY <1>4, <2>3, <4>1, <5>1
      <4>2. CASE j # k
        <5>1. call'[w].got[j] = call[w].got[j]
          BY <1>10, <2>3, <4>2
        <5> QED
          BY <2>1, <3>3, <5>1 DEF Versioned, Fresh
      <4> QED
        BY <4>1, <4>2
    <3>4. /\ call'[w].at \in {"storing", "settling"} => call[w].at = call'[w].at
          /\ call'[w].own \subseteq call[w].own
      BY <1>3
    <3>5. /\ call'[w].kind = call[w].kind /\ call'[w].hash = call[w].hash
          /\ call'[w].epoch = call[w].epoch /\ call'[w].loaded = call[w].loaded
          /\ call'[w].end = call[w].end /\ call'[w].asof = call[w].asof
          /\ call'[w].late = call[w].late
      BY <1>3
    <3>6. Versioned(call'[w])
      BY <2>1, <3>3, <3>4, <3>5 DEF Versioned
    <3>7. Fresh(call'[w])
      BY <2>1, <3>3, <3>4, <3>5 DEF Fresh
    <3> QED
      BY <3>1, <3>2, <3>6, <3>7
  <2> QED
    BY <2>2, <2>3
<1>6. ASSUME NEW w \in Callers, NEW b \in Callers
      PROVE  Joined(call'[w], b, call'[b]) /\ SameEpoch(call'[w], call'[b])
  <2>1. call[w] \in Calls /\ Joined(call[w], b, call[b]) /\ SameEpoch(call[w], call[b])
    BY OneCall
  <2>2. ASSUME NEW j \in Keys, call'[w].wait[j] = b
        PROVE  call[w].wait[j] = b /\ j \in call'[b].own
    <3>1. CASE call[w].wait[k] # c
      <4>1. call[w].wait[j] = b /\ (b = c => j # k)
        BY <1>3, <2>2, <3>1
      <4>2. j \in call[b].own
        BY <2>1, <4>1 DEF Joined
      <4> QED
        BY <1>11, <4>1, <4>2
    <3>2. CASE call[w].wait[k] = c
      <4>1. j # k /\ call[w].wait[j] = b
        BY <1>10, <2>2, <3>2, CallersAssumption
      <4>2. j \in call[b].own
        BY <2>1, <4>1 DEF Joined
      <4> QED
        BY <1>11, <4>1, <4>2
    <3> QED
      BY <3>1, <3>2
  <2>3. Joined(call'[w], b, call'[b])
    BY <1>3, <2>1, <2>2 DEF Joined
  <2>4. /\ call'[w].at # "epoch" => call[w].at # "epoch"
        /\ call'[b].own \subseteq call[b].own
    BY <1>1, <1>3 DEF r
  <2>5. SameEpoch(call'[w], call'[b])
    BY <1>3, <2>1, <2>4 DEF SameEpoch
  <2> QED
    BY <2>3, <2>5
<1>7. Typed'
  <2>1. call' = [w \in Callers |-> call'[w]]
    BY <1>2
  <2>2. call' \in [Callers -> Calls]
    BY <1>3, <2>1
  <2> QED
    BY <1>2, <2>2 DEF IInv, Typed
<1>8. ASSUME NEW w \in Callers PROVE CallInv(w)'
  <2>1. UNCHANGED <<src, told, epoch>>
    BY <1>2
  <2>2. Placed(call'[w]) /\ Complete(call'[w]) /\ Versioned(call'[w]) /\ Fresh(call'[w])
    BY <1>5
  <2> QED
    BY <2>1, <2>2 DEF CallInv, Placed, Complete, Claimed, Versioned, Fresh
<1>9. \A w, b \in Callers : Joined(call[w], b, call[b])' /\ SameEpoch(call[w], call[b])'
  BY <1>6 DEF Joined, SameEpoch
<1> QED
  BY <1>2, <1>7, <1>8, <1>9, EntriesKept DEF IInv

-----------------------------------------------------------------------------
LEMMA InitIInv ==
  ASSUME Init
  PROVE  IInv
<1>1. /\ src = [k \in Keys |-> 1] /\ told = [k \in Keys |-> 1]
      /\ items = [k \in Keys |-> Absent] /\ epoch = 0
      /\ call = [c \in Callers |-> Free]
  BY DEF Init
<1>2. Typed
  <2>1. Absent \in [val : Nat, hash : Nat]
    BY SMT DEF Absent
  <2>2. src \in [Keys -> Nat \ {0}] /\ told \in [Keys -> Nat] /\ \A k \in Keys : told[k] <= src[k]
    BY <1>1, SMT
  <2>3. items \in [Keys -> [val : Nat, hash : Nat]] /\ call \in [Callers -> Calls]
    BY <1>1, <2>1, FreeIsCall
  <2> QED
    BY <1>1, <2>2, <2>3 DEF Typed
<1>3. Entries
  <2>1. Absent.val = 0 /\ Absent.hash = 0
    BY DEF Absent
  <2>2. \A k \in Keys : items[k] = Absent
    BY <1>1
  <2> QED
    BY <2>1, <2>2, SMT DEF Entries
<1>4. Placed(Free) /\ Complete(Free)
  BY DEF Free, Placed, Complete, Claimed
<1>5. Versioned(Free) /\ Fresh(Free)
  <2>1. Free.at = "free" /\ Free.epoch = 0 /\ \A k \in Keys : /\ Free.hash[k] = 0 /\ Free.got[k] = 0
                                                              /\ Free.asof[k] = 0
    BY DEF Free
  <2> QED
    BY <1>1, <1>2, <2>1, SMT DEF Versioned, Fresh, Typed
<1>6. ASSUME NEW b \in Callers PROVE Joined(Free, b, Free) /\ SameEpoch(Free, Free)
  <2>1. Free.kind = "none" /\ \A k \in Keys : Free.wait[k] = None
    BY DEF Free
  <2> QED
    BY <2>1, CallersAssumption DEF Joined, SameEpoch
<1>7. \A c \in Callers : call[c] = Free
  BY <1>1
<1> QED
  BY <1>2, <1>3, <1>4, <1>5, <1>6, <1>7 DEF IInv, CallInv

LEMMA NextIInv ==
  ASSUME IInv, [Next]_vars
  PROVE  IInv'
<1>1. ASSUME NEW k \in Keys, Commit(k) PROVE IInv'
  BY <1>1, CommitKeepsIInv
<1>2. ASSUME NEW S \in (SUBSET Keys) \ {{}}, Invalidate(S) PROVE IInv'
  BY <1>2, InvalidateKeepsIInv
<1>3. ASSUME NEW c \in Callers, Begins(c) PROVE IInv'
  <2>1. ASSUME NEW kind \in Kinds \ {"through"}, NEW S \in (SUBSET Keys) \ {{}}, NEW gate \in Gates,
               Ask(c, kind, S, gate)
        PROVE  IInv'
    <3>1. kind \in {"one", "batch", "build"} /\ S \in SUBSET Keys
      BY KindsAssumption
    <3> QED
      BY <2>1, <3>1, AskKeepsIInv
  <2>2. ASSUME NEW k \in Keys, CommitThrough(c, k) PROVE IInv'
    BY <2>2, CommitThroughKeepsIInv
  <2> QED
    BY <1>3, <2>1, <2>2 DEF Begins
<1>4. ASSUME NEW c \in Callers, CallStep(c) PROVE IInv'
  <2>1. CASE LoadFails(c)
    BY <2>1, BuildFailsKeepsIInv, FlightFailsKeepsIInv
  <2>2. CASE ReadEpoch(c) \/ Claim(c) \/ Load(c) \/ Store(c)
    BY <2>2, ReadEpochKeepsIInv, ClaimKeepsIInv, LoadKeepsIInv, StoreKeepsIInv
  <2>3. CASE Await(c) \/ Retry(c) \/ Return(c) \/ Put(c)
    BY <2>3, AwaitKeepsIInv, RetryKeepsIInv, ReturnKeepsIInv, PutKeepsIInv
  <2>4. ASSUME NEW k \in Keys, Lookup(c, k) \/ LookAgain(c, k) \/ Settle(c, k)
        PROVE  IInv'
    BY <2>4, LookupKeepsIInv, LookAgainKeepsIInv, SettleKeepsIInv
  <2> QED
    BY <1>4, <2>1, <2>2, <2>3, <2>4 DEF CallStep
<1>5. ASSUME NEW c \in Callers, Cancel(c) PROVE IInv'
  BY <1>5, CancelKeepsIInv
<1>6. CASE UNCHANGED vars
  <2>1. UNCHANGED <<src, told, items, epoch, call>>
    BY <1>6 DEF vars, cache
  <2>2. Typed' /\ Entries'
    BY <2>1 DEF IInv, Typed, Entries
  <2>3. \A c \in Callers : CallInv(c)'
    BY <2>1 DEF IInv, CallInv, Placed, Complete, Claimed, Versioned, Fresh
  <2>4. \A w, b \in Callers : Joined(call[w], b, call[b])' /\ SameEpoch(call[w], call[b])'
    BY <2>1 DEF IInv, Joined, SameEpoch
  <2> QED
    BY <2>2, <2>3, <2>4 DEF IInv
<1> QED
  BY <1>1, <1>2, <1>3, <1>4, <1>5, <1>6 DEF Next

\* The inductive invariant holds in every reachable state: entries, calls and the
\* flights they share agree on versions, hashes and epochs.
THEOREM IInvHolds == Spec => []IInv
<1>1. Init => IInv
  BY InitIInv
<1>2. IInv /\ [Next]_vars => IInv'
  BY NextIInv
<1> QED
  BY <1>1, <1>2, PTL DEF Spec

\* The epoch guard is enough: no load that crosses an invalidation writes its
\* stale value back, as long as nothing stores outside the guard.
THEOREM NoStaleResidentHolds == Guarded => (Spec => []NoStaleResident)
<1>1. Guarded /\ IInv => NoStaleResident
  BY DEF IInv, Entries, NoStaleResident, Resident
<1>2. CASE Guarded
  <2>1. IInv => NoStaleResident
    BY <1>1, <1>2
  <2> QED
    BY <2>1, IInvHolds, PTL
<1> QED
  BY <1>2

\* A caller never gets what was invalidated before it asked, whichever flight of
\* whichever epoch it joined.
THEOREM ReadsFreshHolds == Guarded => (Spec => []ReadsFresh)
<1>1. ASSUME Guarded, IInv PROVE ReadsFresh
  <2>1. ASSUME NEW c \in Callers, call[c].at = "done", ~call[c].failed, ~call[c].late,
               NEW k \in call[c].keys
        PROVE  call[c].got[k] >= call[c].asof[k]
    <3>1. call[c] \in Calls /\ Complete(call[c]) /\ Fresh(call[c])
      BY <1>1, OneCall
    <3>2. k \in Keys
      BY <3>1 DEF Calls
    <3>3. call[c].got[k] # 0
      BY <2>1, <3>1 DEF Complete
    <3> QED
      BY <1>1, <2>1, <3>1, <3>2, <3>3 DEF Fresh
  <2> QED
    BY <2>1 DEF ReadsFresh
<1>2. CASE Guarded
  <2>1. IInv => ReadsFresh
    BY <1>1, <1>2
  <2> QED
    BY <2>1, IInvHolds, PTL
<1> QED
  BY <1>2

\* The version gate is honoured by entries and answers alike, also when writers
\* put what they committed.
THEOREM VersionHonouredHolds == Spec => []VersionHonoured
<1>1. ASSUME IInv PROVE VersionHonoured
  <2>1. \A k \in Resident : items[k].val >= items[k].hash
    BY <1>1 DEF IInv, Entries, Resident
  <2>2. ASSUME NEW c \in Callers, call[c].at = "done", ~call[c].failed,
               NEW k \in call[c].keys, call[c].hash[k] # Bypass
        PROVE  call[c].got[k] >= call[c].hash[k]
    <3>1. call[c] \in Calls /\ Complete(call[c]) /\ Versioned(call[c])
      BY <1>1, OneCall
    <3>2. k \in Keys
      BY <3>1 DEF Calls
    <3>3. call[c].got[k] # 0
      BY <2>2, <3>1 DEF Complete
    <3> QED
      BY <2>2, <3>1, <3>2, <3>3 DEF Versioned
  <2> QED
    BY <2>1, <2>2 DEF VersionHonoured
<1> QED
  BY <1>1, IInvHolds, PTL

-----------------------------------------------------------------------------
(* The LRU list, and the bounds: with them the cache's types.              *)

Distinct(q) == \A i, j \in DOMAIN q : q[i] = q[j] => i = j

\* The list names each resident key once, and no more than Cap of them.
Listed ==
  /\ order \in Seq(Keys) /\ Distinct(order) /\ Len(order) <= Cap
  /\ ToSet(order) = Resident

\* Nothing is newer than its row, and nothing was told of version 0.
Bounded ==
  /\ epoch <= MaxEpoch
  /\ \A k \in Keys : src[k] <= MaxVersion /\ told[k] >= 1 /\ items[k].val <= src[k]
  /\ \A c \in Callers, k \in Keys : call[c].loaded[k] <= src[k]

Sized == Listed /\ Bounded

\* Positions of a list are ranked, and no two of them alike.
LEMMA Ranks ==
  ASSUME NEW m \in Nat, NEW I \in SUBSET (1..m)
  PROVE  /\ IsFiniteSet(I) /\ Cardinality(I) \in Nat /\ Cardinality(I) <= m
         /\ \A i \in I : Cardinality(I \cap (1..i)) \in 1..Cardinality(I)
         /\ \A i, j \in I : Cardinality(I \cap (1..i)) = Cardinality(I \cap (1..j)) => i = j
<1>1. /\ IsFiniteSet(1..m) /\ Cardinality(1..m) = m
  <2>1. 0 \in Int /\ 1 \in Int /\ m \in Int
    BY SMT
  <2>2. IsFiniteSet(1..m) /\ Cardinality(1..m) = IF 1 > m THEN 0 ELSE m - 1 + 1
    BY <2>1, FS_Interval
  <2> QED
    BY <2>2, SMT
<1>2. IsFiniteSet(I) /\ Cardinality(I) <= m
  BY <1>1, FS_Subset
<1>3. Cardinality(I) \in Nat
  BY <1>2, FS_CardinalityType
<1>4. ASSUME NEW i \in I PROVE Cardinality(I \cap (1..i)) \in 1..Cardinality(I)
  <2>1. I \cap (1..i) \in SUBSET I
    OBVIOUS
  <2>2. IsFiniteSet(I \cap (1..i)) /\ Cardinality(I \cap (1..i)) <= Cardinality(I)
    BY <1>2, <2>1, FS_Subset
  <2>3. Cardinality(I \cap (1..i)) \in Nat
    BY <2>2, FS_CardinalityType
  <2>4. i \in I \cap (1..i)
    BY SMT
  <2>5. Cardinality(I \cap (1..i)) # 0
    BY <2>2, <2>4, FS_EmptySet, Zenon
  <2> QED
    BY <1>3, <2>2, <2>3, <2>5, SMT
<1>5. ASSUME NEW i \in I, NEW j \in I, i < j
      PROVE  Cardinality(I \cap (1..i)) # Cardinality(I \cap (1..j))
  <2>1. I \cap (1..i) \in SUBSET (I \cap (1..j)) /\ j \in I \cap (1..j) /\ j \notin I \cap (1..i)
    BY <1>5, SMT
  <2>2. IsFiniteSet(I \cap (1..j))
    BY <1>2, FS_Subset, I \cap (1..j) \in SUBSET I
  <2>3. Cardinality(I \cap (1..j)) = Cardinality(I \cap (1..i)) => I \cap (1..j) = I \cap (1..i)
    BY <2>1, <2>2, FS_Subset
  <2> QED
    BY <2>1, <2>3
<1>6. ASSUME NEW i \in I, NEW j \in I, Cardinality(I \cap (1..i)) = Cardinality(I \cap (1..j))
      PROVE  i = j
  <2>1. i \in Int /\ j \in Int
    BY SMT
  <2>2. ~(i < j) /\ ~(j < i)
    BY <1>5, <1>6
  <2> QED
    BY <2>1, <2>2, SMT
<1> QED
  BY <1>2, <1>3, <1>4, <1>6

\* Each number up to their count is the rank of a position.
LEMMA NthRanked ==
  ASSUME NEW m \in Nat, NEW I \in SUBSET (1..m), NEW n \in 1..Cardinality(I)
  PROVE  Nth(I, n) \in I /\ Cardinality(I \cap (1..Nth(I, n))) = n
<1> DEFINE T == 1..Cardinality(I)
           f == [i \in I |-> Cardinality(I \cap (1..i))]
<1>1. /\ IsFiniteSet(I) /\ Cardinality(I) \in Nat
      /\ \A i \in I : Cardinality(I \cap (1..i)) \in T
      /\ \A i, j \in I : Cardinality(I \cap (1..i)) = Cardinality(I \cap (1..j)) => i = j
  BY Ranks
<1>2. IsFiniteSet(T) /\ Cardinality(T) = Cardinality(I)
  <2>1. 1 \in Int /\ Cardinality(I) \in Int
    BY <1>1, SMT
  <2>2. IsFiniteSet(T) /\ Cardinality(T) = IF 1 > Cardinality(I) THEN 0 ELSE Cardinality(I) - 1 + 1
    BY <2>1, FS_Interval
  <2> QED
    BY <1>1, <2>2, SMT
<1>3. f \in Injection(I, T)
  BY <1>1 DEF Injection, IsInjective
<1>4. f \in Surjection(I, T)
  BY <1>2, <1>3, FS_Injection
<1>5. PICK i \in I : f[i] = n
  BY <1>4 DEF Surjection
<1>6. Cardinality(I \cap (1..i)) = n
  BY <1>5
<1> QED
  BY <1>6 DEF Nth

\* What Dropped leaves: a list without S, of distinct keys if it was one of them.
LEMMA DroppedList ==
  ASSUME order \in Seq(Keys), Distinct(order), NEW S
  PROVE  /\ Dropped(S) \in Seq(Keys) /\ Distinct(Dropped(S))
         /\ Len(Dropped(S)) <= Len(order)
         /\ ToSet(Dropped(S)) = ToSet(order) \ S
<1> DEFINE m == Len(order)
           left == {i \in DOMAIN order : order[i] \notin S}
           q == [n \in 1..Cardinality(left) |-> order[Nth(left, n)]]
<1>1. m \in Nat /\ DOMAIN order = 1..m /\ \A i \in 1..m : order[i] \in Keys
  BY LenProperties, ElementOfSeq
<1>2. left \in SUBSET (1..m)
  BY <1>1
<1> HIDE DEF m
<1>3. /\ Cardinality(left) \in Nat /\ Cardinality(left) <= m
      /\ \A i \in left : Cardinality(left \cap (1..i)) \in 1..Cardinality(left)
      /\ \A i, j \in left :
           Cardinality(left \cap (1..i)) = Cardinality(left \cap (1..j)) => i = j
  BY <1>1, <1>2, Ranks
<1>4. \A n \in 1..Cardinality(left) :
        Nth(left, n) \in left /\ Cardinality(left \cap (1..Nth(left, n))) = n
  BY <1>1, <1>2, NthRanked
<1>5. Dropped(S) = q
  BY DEF Dropped
<1>6. \A i \in left : i \in 1..m /\ order[i] \in Keys /\ order[i] \notin S
  BY <1>1
<1>7. \A i \in 1..m : order[i] \in S \/ i \in left
  BY <1>1
<1> HIDE DEF left
<1>8. /\ DOMAIN q = 1..Cardinality(left)
      /\ \A n \in 1..Cardinality(left) : q[n] = order[Nth(left, n)]
  OBVIOUS
<1>9. q \in [1..Cardinality(left) -> Keys]
  BY <1>4, <1>6
<1>10. q \in Seq(Keys) /\ Len(q) = Cardinality(left)
  BY <1>3, <1>9, SMT
<1>11. Distinct(q)
  <2>1. ASSUME NEW i \in 1..Cardinality(left), NEW j \in 1..Cardinality(left), q[i] = q[j]
        PROVE  i = j
    <3>1. Nth(left, i) = Nth(left, j)
      BY <1>1, <1>4, <1>6, <1>8, <2>1 DEF Distinct
    <3> QED
      BY <1>4, <3>1
  <2> QED
    BY <1>8, <2>1 DEF Distinct
<1>12. ToSet(q) = ToSet(order) \ S
  <2>1. ASSUME NEW n \in 1..Cardinality(left) PROVE q[n] \in ToSet(order) \ S
    BY <1>1, <1>4, <1>6, <1>8 DEF ToSet
  <2>2. ASSUME NEW i \in 1..m, order[i] \notin S
        PROVE  \E n \in 1..Cardinality(left) : q[n] = order[i]
    <3>1. i \in left
      BY <1>7, <2>2
    <3>2. PICK n \in 1..Cardinality(left) : n = Cardinality(left \cap (1..i))
      BY <1>3, <3>1
    <3>3. Nth(left, n) = i
      BY <1>3, <1>4, <3>1, <3>2
    <3> QED
      BY <1>8, <3>3
  <2> QED
    BY <1>1, <1>8, <2>1, <2>2 DEF ToSet
<1> HIDE DEF q
<1> QED
  BY <1>3, <1>5, <1>10, <1>11, <1>12 DEF m


\* A list behind another, if they share nothing.
LEMMA Joint ==
  ASSUME NEW p \in Seq(Keys), NEW q \in Seq(Keys), Distinct(p), Distinct(q),
         ToSet(p) \cap ToSet(q) = {}
  PROVE  /\ p \o q \in Seq(Keys) /\ Distinct(p \o q)
         /\ ToSet(p \o q) = ToSet(p) \cup ToSet(q)
<1> DEFINE m == Len(p)
           n == Len(q)
           z == p \o q
<1>1. /\ m \in Nat /\ n \in Nat /\ DOMAIN p = 1..m /\ DOMAIN q = 1..n
  BY LenProperties
<1>2. /\ z \in Seq(Keys) /\ Len(z) = m + n
      /\ \A i \in 1..m + n : z[i] = IF i <= m THEN p[i] ELSE q[i - m]
  BY ConcatProperties
<1>3. DOMAIN z = 1..m + n
  BY <1>2, LenProperties
<1> HIDE DEF m, n, z
<1>4. /\ \A i \in 1..m : i \in 1..m + n /\ z[i] = p[i]
      /\ \A i \in 1..n : i + m \in 1..m + n /\ z[i + m] = q[i]
      /\ \A i \in 1..m + n : i \in 1..m \/ (i - m \in 1..n /\ i = i - m + m)
  <2>1. \A i \in 1..m : i \in 1..m + n /\ i <= m
    BY <1>1, SMT
  <2>2. \A i \in 1..n : i + m \in 1..m + n /\ ~(i + m <= m) /\ i + m - m = i
    BY <1>1, SMT
  <2>3. \A i \in 1..m + n : i \in 1..m \/ (i - m \in 1..n /\ i = i - m + m)
    BY <1>1, SMT
  <2>4. \A i \in 1..m : z[i] = p[i]
    BY <1>2, <2>1
  <2>5. ASSUME NEW i \in 1..n PROVE z[i + m] = q[i]
    <3>1. PICK j \in 1..m + n : j = i + m /\ ~(j <= m) /\ j - m = i
      BY <1>1, SMT
    <3>2. z[j] = q[j - m]
      BY <1>2, <3>1
    <3> QED
      BY <3>1, <3>2
  <2> QED
    BY <2>1, <2>2, <2>3, <2>4, <2>5
<1>5. /\ \A i \in 1..m : p[i] \in ToSet(p)
      /\ \A i \in 1..n : q[i] \in ToSet(q)
  BY <1>1 DEF ToSet
<1>6. ToSet(z) = ToSet(p) \cup ToSet(q)
  <2>1. ASSUME NEW i \in 1..m + n PROVE z[i] \in ToSet(p) \cup ToSet(q)
    <3>1. CASE i \in 1..m
      BY <1>4, <1>5, <3>1
    <3>2. CASE i - m \in 1..n /\ i = i - m + m
      BY <1>4, <1>5, <3>2
    <3> QED
      BY <1>4, <3>1, <3>2
  <2>2. ToSet(z) \subseteq ToSet(p) \cup ToSet(q)
    BY <1>3, <2>1 DEF ToSet
  <2>3. \A i \in 1..m + n : z[i] \in ToSet(z)
    BY <1>3 DEF ToSet
  <2>4. /\ \A i \in 1..m : p[i] \in ToSet(z)
        /\ \A i \in 1..n : q[i] \in ToSet(z)
    BY <1>4, <2>3
  <2>5. ToSet(p) \cup ToSet(q) \subseteq ToSet(z)
    BY <1>1, <2>4 DEF ToSet
  <2> QED
    BY <2>2, <2>5
<1>7. ASSUME NEW i \in 1..m + n, NEW j \in 1..m + n, z[i] = z[j]
      PROVE  i = j
  <2>1. CASE i \in 1..m /\ j \in 1..m
    BY <1>1, <1>4, <1>7, <2>1 DEF Distinct
  <2>2. CASE i \in 1..m /\ j - m \in 1..n /\ j = j - m + m
    BY <1>4, <1>5, <1>7, <2>2
  <2>3. CASE j \in 1..m /\ i - m \in 1..n /\ i = i - m + m
    BY <1>4, <1>5, <1>7, <2>3
  <2>4. CASE i - m \in 1..n /\ i = i - m + m /\ j - m \in 1..n /\ j = j - m + m
    <3>1. z[i] = q[i - m] /\ z[j] = q[j - m]
      BY <1>4, <2>4
    <3>2. i - m = j - m
      BY <1>1, <1>7, <2>4, <3>1 DEF Distinct
    <3> QED
      BY <2>4, <3>2
  <2> QED
    BY <1>4, <2>1, <2>2, <2>3, <2>4
<1> QED
  BY <1>2, <1>3, <1>6, <1>7 DEF Distinct, z

\* evictOverflow leaves a part of the list, and no more than Cap.
LEMMA KeptList ==
  ASSUME NEW q \in Seq(Keys), Distinct(q)
  PROVE  /\ Kept(q) \in Seq(Keys) /\ Distinct(Kept(q))
         /\ ToSet(Kept(q)) \subseteq ToSet(q)
         /\ Len(Kept(q)) <= Cap
<1> DEFINE n == IF Len(q) <= Cap THEN Len(q) ELSE Cap
           z == SubSeq(q, 1, n)
<1>1. Len(q) \in Nat /\ DOMAIN q = 1..Len(q) /\ \A i \in 1..Len(q) : q[i] \in Keys
  BY LenProperties, ElementOfSeq
<1>2. /\ n \in Nat /\ n <= Len(q) /\ n <= Cap /\ \A i \in 1..n : i \in 1..Len(q)
      /\ 1 \in Int /\ n \in Int
  BY <1>1, VersionsAssumption, SMT
<1>3. Kept(q) = z
  BY DEF Kept
<1> HIDE DEF n
<1>4. \A i \in 1..n : q[i] \in Keys
  BY <1>1, <1>2
<1>5. /\ z \in Seq(Keys) /\ Len(z) = IF 1 <= n THEN n - 1 + 1 ELSE 0
      /\ \A i \in 1..n - 1 + 1 : z[i] = q[1 + i - 1]
  BY <1>2, <1>4, SubSeqProperties
<1>6. Len(z) = n /\ n - 1 + 1 = n /\ \A i \in 1..n : 1 + i - 1 = i
  BY <1>2, <1>5, SMT
<1>7. DOMAIN z = 1..n /\ \A i \in 1..n : z[i] = q[i]
  BY <1>5, <1>6, LenProperties
<1> HIDE DEF z
<1>8. Distinct(z)
  BY <1>1, <1>2, <1>7 DEF Distinct
<1>9. ToSet(z) \subseteq ToSet(q)
  BY <1>1, <1>2, <1>7 DEF ToSet
<1> QED
  BY <1>2, <1>3, <1>5, <1>6, <1>8, <1>9

\* The keys of a set in any order.
LEMMA AnyOrder ==
  ASSUME NEW S \in SUBSET Keys, NEW q \in SetToSeqs(S)
  PROVE  q \in Seq(Keys) /\ Distinct(q) /\ ToSet(q) \subseteq S
<1> DEFINE n == Cardinality(S)
<1>1. IsFiniteSet(S)
  BY KeysAssumption, FS_Subset
<1>2. n \in Nat
  BY <1>1, FS_CardinalityType
<1>3. q \in [1..n -> S] /\ \A i, j \in 1..n : i # j => q[i] # q[j]
  BY DEF SetToSeqs
<1> HIDE DEF n
<1>4. DOMAIN q = 1..n /\ \A i \in 1..n : q[i] \in S
  BY <1>3
<1>5. q \in [1..n -> Keys]
  BY <1>3
<1>6. q \in Seq(Keys)
  BY <1>2, <1>5, SMT
<1>7. ToSet(q) \subseteq S
  BY <1>4 DEF ToSet
<1> QED
  BY <1>3, <1>4, <1>6, <1>7 DEF Distinct

\* A list of distinct keys is as long as their set is large.
LEMMA ListCounts ==
  ASSUME NEW q \in Seq(Keys), Distinct(q)
  PROVE  Len(q) = Cardinality(ToSet(q))
<1> DEFINE n == Len(q)
<1>1. n \in Nat /\ DOMAIN q = 1..n /\ q \in [1..n -> Keys]
  BY LenProperties
<1>2. IsFiniteSet(1..n) /\ Cardinality(1..n) = n
  <2>1. 1 \in Int /\ n \in Int
    BY <1>1, SMT
  <2>2. IsFiniteSet(1..n) /\ Cardinality(1..n) = IF 1 > n THEN 0 ELSE n - 1 + 1
    BY <2>1, FS_Interval
  <2> QED
    BY <1>1, <2>2, SMT
<1> HIDE DEF n
<1>3. /\ q \in [1..n -> ToSet(q)]
      /\ \A k \in ToSet(q) : \E i \in 1..n : q[i] = k
  BY <1>1 DEF ToSet
<1>4. q \in Surjection(1..n, ToSet(q)) /\ q \in Injection(1..n, ToSet(q))
  BY <1>1, <1>3 DEF Surjection, Injection, IsInjective, Distinct
<1>5. Cardinality(ToSet(q)) = Cardinality(1..n)
  BY <1>2, <1>4, FS_Surjection
<1> QED
  BY <1>2, <1>5 DEF n

\* What the invariants say of the list and of the entries.
LEMMA ListAndEntries ==
  ASSUME IInv, Sized
  PROVE  /\ items \in [Keys -> [val : Nat, hash : Nat]]
         /\ order \in Seq(Keys) /\ Distinct(order) /\ Len(order) <= Cap
         /\ ToSet(order) = Resident
         /\ \A k \in Keys : items[k].val <= src[k] /\ src[k] \in Nat
  BY DEF IInv, Typed, Sized, Listed, Bounded

\* One key in front.
LEMMA OneKey ==
  ASSUME NEW k \in Keys
  PROVE  <<k>> \in Seq(Keys) /\ Distinct(<<k>>) /\ ToSet(<<k>>) = {k}
<1>1. <<k>> \in Seq(Keys) /\ DOMAIN <<k>> = {1} /\ <<k>>[1] = k
  BY SMT
<1> QED
  BY <1>1 DEF Distinct, ToSet

\* Keys moved to the front stand there only.
LEMMA FrontList ==
  ASSUME order \in Seq(Keys), Distinct(order), NEW q \in Seq(Keys), Distinct(q)
  PROVE  /\ InFront(q) \in Seq(Keys) /\ Distinct(InFront(q))
         /\ ToSet(InFront(q)) = ToSet(q) \cup ToSet(order)
<1> DEFINE d == Dropped(ToSet(q))
<1>1. d \in Seq(Keys) /\ Distinct(d) /\ ToSet(d) = ToSet(order) \ ToSet(q)
  BY DroppedList
<1> HIDE DEF d
<1>2. ToSet(q) \cap ToSet(d) = {}
  BY <1>1
<1>3. /\ q \o d \in Seq(Keys) /\ Distinct(q \o d)
      /\ ToSet(q \o d) = ToSet(q) \cup ToSet(d)
  BY <1>1, <1>2, Joint
<1>4. ToSet(q) \cup ToSet(d) = ToSet(q) \cup ToSet(order)
  BY <1>1
<1>5. InFront(q) = q \o d
  BY DEF InFront, d
<1> QED
  BY <1>3, <1>4, <1>5

\* Neither the list nor the entries change.
LEMMA StaysListed ==
  ASSUME Listed, UNCHANGED <<items, order>>
  PROVE  Listed'
  BY DEF Listed, Resident, Distinct

\* A hit does not lengthen the list.
LEMMA HitListed ==
  ASSUME IInv, Sized, NEW k \in Resident, order' = InFront(<<k>>), UNCHANGED items
  PROVE  Listed'
<1>1. k \in Keys
  BY DEF Resident
<1>2. order \in Seq(Keys) /\ Distinct(order) /\ Len(order) <= Cap /\ ToSet(order) = Resident
  BY ListAndEntries
<1>3. order' \in Seq(Keys) /\ Distinct(order') /\ ToSet(order') = {k} \cup Resident
  BY <1>1, <1>2, OneKey, FrontList
<1>4. ToSet(order') = ToSet(order)
  BY <1>2, <1>3
<1>5. Len(order') = Len(order)
  BY <1>2, <1>3, <1>4, ListCounts
<1>6. Resident' = Resident
  BY DEF Resident
<1> QED
  BY <1>2, <1>3, <1>4, <1>5, <1>6 DEF Listed, Distinct

\* What is dropped leaves the list and the entries together.
LEMMA DropListed ==
  ASSUME IInv, Sized, NEW S, Drop(S)
  PROVE  /\ Listed'
         /\ \A k \in Keys : items'[k].val <= src[k]
<1>1. /\ items \in [Keys -> [val : Nat, hash : Nat]]
      /\ order \in Seq(Keys) /\ Distinct(order) /\ Len(order) <= Cap /\ ToSet(order) = Resident
      /\ \A k \in Keys : items[k].val <= src[k] /\ src[k] \in Nat
  BY ListAndEntries
<1>2. order' = Dropped(S) /\ \A k \in Keys : items'[k] = IF k \in S THEN Absent ELSE items[k]
  BY DEF Drop
<1>3. /\ order' \in Seq(Keys) /\ Distinct(order')
      /\ ToSet(order') = Resident \ S /\ Len(order') <= Len(order)
  BY <1>1, <1>2, DroppedList
<1>4. Len(order') <= Cap
  <2>1. Len(order') \in Nat /\ Len(order) \in Nat
    BY <1>1, <1>3, LenProperties
  <2> QED
    BY <1>1, <1>3, <2>1, VersionsAssumption, SMT
<1>5. Resident' = Resident \ S
  BY <1>2 DEF Resident
<1>6. ASSUME NEW k \in Keys PROVE items'[k].val <= src[k]
  <2>1. Absent.val = 0
    BY DEF Absent
  <2>2. CASE k \in S
    BY <1>1, <1>2, <2>1, <2>2, SMT
  <2>3. CASE k \notin S
    BY <1>1, <1>2, <2>3
  <2> QED
    BY <2>2, <2>3
<1> QED
  BY <1>3, <1>4, <1>5, <1>6 DEF Listed, Distinct

\* What is stored is listed, and what is evicted is not.
LEMMA StoreListed ==
  ASSUME IInv, Sized, NEW S \in SUBSET Keys, NEW val \in [Keys -> Nat], NEW hash,
         StoreAll(S, val, hash), src' \in [Keys -> Nat],
         \A k \in Keys : src[k] <= src'[k],
         \A k \in S : val[k] >= 1 /\ val[k] <= src'[k]
  PROVE  /\ Listed'
         /\ \A k \in Keys : items'[k].val <= src'[k]
<1>1. /\ items \in [Keys -> [val : Nat, hash : Nat]]
      /\ order \in Seq(Keys) /\ Distinct(order) /\ Len(order) <= Cap /\ ToSet(order) = Resident
      /\ \A k \in Keys : items[k].val <= src[k] /\ src[k] \in Nat
  BY ListAndEntries
<1>2. PICK q \in SetToSeqs(S) :
        LET left == Kept(InFront(q))
        IN  /\ order' = left
            /\ items' = [k \in Keys |->
                 IF k \notin ToSet(left) THEN Absent
                 ELSE IF k \in S THEN [val |-> val[k], hash |-> hash[k]] ELSE items[k]]
  BY DEF StoreAll
<1> DEFINE f == InFront(q)
<1>3. q \in Seq(Keys) /\ Distinct(q) /\ ToSet(q) \subseteq S
  BY AnyOrder
<1>4. f \in Seq(Keys) /\ Distinct(f) /\ ToSet(f) = ToSet(q) \cup Resident
  BY <1>1, <1>3, FrontList
<1>5. /\ order' = Kept(f)
      /\ items' = [k \in Keys |->
           IF k \notin ToSet(order') THEN Absent
           ELSE IF k \in S THEN [val |-> val[k], hash |-> hash[k]] ELSE items[k]]
  BY <1>2
<1> HIDE DEF f
<1>6. /\ order' \in Seq(Keys) /\ Distinct(order') /\ ToSet(order') \subseteq ToSet(f)
      /\ Len(order') <= Cap
  BY <1>4, <1>5, KeptList
<1>7. ToSet(order') \subseteq S \cup Resident /\ ToSet(order') \subseteq Keys
  BY <1>3, <1>4, <1>6 DEF Resident
<1>8. ASSUME NEW k \in Keys
      PROVE  /\ items'[k] # Absent <=> k \in ToSet(order')
             /\ items'[k].val <= src'[k]
  <2>1. Absent.val = 0 /\ src'[k] \in Nat /\ src[k] <= src'[k]
    BY DEF Absent
  <2>2. CASE k \notin ToSet(order')
    <3>1. items'[k] = Absent
      BY <1>5, <2>2
    <3> QED
      BY <2>1, <2>2, <3>1, SMT
  <2>3. CASE k \in ToSet(order') /\ k \in S
    <3>1. items'[k] = [val |-> val[k], hash |-> hash[k]]
      BY <1>5, <2>3
    <3>2. items'[k].val = val[k]
      BY <3>1
    <3>3. val[k] # 0
      BY <2>3, SMT
    <3> QED
      BY <2>1, <2>3, <3>2, <3>3
  <2>4. CASE k \in ToSet(order') /\ k \notin S
    <3>1. items'[k] = items[k] /\ k \in Resident
      BY <1>5, <1>7, <2>4
    <3>2. items[k].val \in Nat /\ items[k].val <= src[k] /\ src[k] \in Nat
      BY <1>1
    <3>3. items[k].val <= src'[k]
      BY <2>1, <3>2, SMT
    <3> QED
      BY <2>4, <3>1, <3>3 DEF Resident
  <2> QED
    BY <2>2, <2>3, <2>4
<1>9. Resident' = ToSet(order')
  BY <1>7, <1>8 DEF Resident
<1> QED
  BY <1>6, <1>8, <1>9 DEF Listed, Distinct

\* A step of the calls alone: they load nothing newer than its row.
LEMMA CallsSized ==
  ASSUME Sized, UNCHANGED <<src, told, cache>>,
         \A c \in Callers, k \in Keys : call'[c].loaded[k] <= src[k]
  PROVE  Sized'
<1>1. UNCHANGED <<src, told, items, order, epoch>>
  BY DEF cache
<1> QED
  BY <1>1, StaysListed DEF Sized, Bounded

\* One call changes, and its value is no newer than its row.
LEMMA CallBounded ==
  ASSUME IInv, Sized, NEW c \in Callers, NEW r, Goto(c, r),
         src' \in [Keys -> Nat], \A k \in Keys : src[k] <= src'[k] /\ r.loaded[k] <= src'[k]
  PROVE  \A b \in Callers, k \in Keys : call'[b].loaded[k] <= src'[k]
<1>1. ASSUME NEW b \in Callers, NEW k \in Keys PROVE call'[b].loaded[k] <= src'[k]
  <2>1. call'[b] = IF b = c THEN r ELSE call[b]
    BY DEF Goto, IInv, Typed
  <2>2. CASE b = c
    BY <2>1, <2>2
  <2>3. CASE b # c
    <3>1. call'[b] = call[b] /\ call[b].loaded[k] <= src[k]
      BY <2>1, <2>3 DEF Sized, Bounded
    <3>2. call[b].loaded[k] \in Nat /\ src[k] \in Nat /\ src'[k] \in Nat
      BY SMT DEF IInv, Typed, Calls
    <3> QED
      BY <3>1, <3>2, SMT
  <2> QED
    BY <2>2, <2>3
<1> QED
  BY <1>1

\* What is left to show of the bounds when rows or entries change.
LEMMA BoundedStep ==
  ASSUME Sized, UNCHANGED told,
         \A k \in Keys : src'[k] <= MaxVersion /\ items'[k].val <= src'[k],
         UNCHANGED epoch, \A c \in Callers, k \in Keys : call'[c].loaded[k] <= src'[k]
  PROVE  Bounded'
  BY DEF Sized, Bounded

\* Only a call changes.
LEMMA GotoSized ==
  ASSUME IInv, Sized, NEW c \in Callers, NEW r, Goto(c, r), UNCHANGED <<src, told, cache>>,
         \A k \in Keys : r.loaded[k] <= src[k]
  PROVE  Sized'
<1>1. src' \in [Keys -> Nat] /\ \A k \in Keys : src[k] <= src'[k] /\ r.loaded[k] <= src'[k]
  BY SMT DEF IInv, Typed
<1>2. \A b \in Callers, k \in Keys : call'[b].loaded[k] <= src'[k]
  BY <1>1, CallBounded
<1>3. src' = src
  OBVIOUS
<1> QED
  BY <1>2, <1>3, CallsSized

\* What a call loaded before, and what one that begins has loaded.
LEMMA LoadedBefore ==
  ASSUME IInv, Sized, NEW c \in Callers
  PROVE  /\ call[c] \in Calls /\ \A k \in Keys : call[c].loaded[k] <= src[k]
         /\ Free \in Calls /\ \A k \in Keys : Free.loaded[k] = 0 /\ 0 <= src[k]
<1>1. call[c] \in Calls /\ \A k \in Keys : call[c].loaded[k] <= src[k]
  BY DEF IInv, Typed, Sized, Bounded
<1>2. \A k \in Keys : 0 <= src[k]
  BY SMT DEF IInv, Typed
<1> QED
  BY <1>1, <1>2, FreeIsCall DEF Free

\* Steps that load nothing.
LEMMA NoLoadSized ==
  ASSUME IInv, Sized, NEW c \in Callers,
         ReadEpoch(c) \/ Claim(c) \/ Await(c) \/ Cancel(c) \/ Return(c) \/ LoadFails(c)
  PROVE  Sized'
<1> DEFINE r == call[c]
<1>1. /\ r \in Calls /\ \A k \in Keys : r.loaded[k] <= src[k]
      /\ Free \in Calls /\ \A k \in Keys : Free.loaded[k] = 0 /\ 0 <= src[k]
  BY LoadedBefore
<1>2. CASE ReadEpoch(c)
  <2> DEFINE n == [r EXCEPT !.epoch = epoch,
                            !.at = IF r.kind = "batch" THEN "lookup" ELSE "loading"]
  <2>1. Goto(c, n) /\ UNCHANGED <<src, told, cache>>
    BY <1>2 DEF ReadEpoch
  <2>2. n.loaded = r.loaded
    BY <1>1, SMT DEF Calls
  <2> HIDE DEF n, r
  <2> QED
    BY <1>1, <2>1, <2>2, GotoSized
<1>3. CASE Claim(c)
  <2> DEFINE missing == {k \in r.keys : r.got[k] = 0}
             mine == {k \in missing : Owners(r, k) = {}}
             leader == [k \in Keys |-> IF k \notin missing THEN None
                                ELSE IF k \in mine THEN c
                                ELSE CHOOSE b \in Owners(r, k) : TRUE]
  <2>1. PICK w, o, l, a : /\ Goto(c, [r EXCEPT !.wait = w, !.own = o, !.late = l, !.at = a])
                          /\ UNCHANGED <<src, told, cache>>
    <3>1. /\ Goto(c, [r EXCEPT
               !.wait = leader, !.own = mine,
               !.late = r.kind = "one" /\ \E k \in missing \ mine : call[leader[k]].end = "stored",
               !.at = IF mine = {} THEN "waiting" ELSE IF r.kind = "one" THEN "again" ELSE "loading"])
          /\ UNCHANGED <<src, told, cache>>
      BY <1>3 DEF Claim
    <3> HIDE DEF missing, mine, leader
    <3> QED
      BY <3>1
  <2> DEFINE n == [r EXCEPT !.wait = w, !.own = o, !.late = l, !.at = a]
  <2>2. n.loaded = r.loaded
    BY <1>1, SMT DEF Calls
  <2>3. Goto(c, n)
    BY <2>1
  <2> HIDE DEF n, r
  <2> QED
    BY <1>1, <2>1, <2>2, <2>3, GotoSized
<1>4. CASE Await(c)
  <2> DEFINE n == [r EXCEPT !.at = IF ~r.failed /\ r.retry THEN "retry" ELSE "done",
                            !.wait = [k \in Keys |-> None]]
  <2>1. Goto(c, n) /\ UNCHANGED <<src, told, cache>>
    BY <1>4 DEF Await
  <2>2. n.loaded = r.loaded
    BY <1>1, SMT DEF Calls
  <2> HIDE DEF n, r
  <2> QED
    BY <1>1, <2>1, <2>2, GotoSized
<1>5. CASE Cancel(c)
  <2> DEFINE n == [r EXCEPT !.at = "done", !.failed = TRUE, !.wait = [k \in Keys |-> None]]
  <2>1. Goto(c, n) /\ UNCHANGED <<src, told, cache>>
    BY <1>5 DEF Cancel
  <2>2. n.loaded = r.loaded
    BY <1>1, SMT DEF Calls
  <2> HIDE DEF n, r
  <2> QED
    BY <1>1, <2>1, <2>2, GotoSized
<1>6. \A k \in Keys : Free.loaded[k] <= src[k]
  BY <1>1
<1>7. CASE Return(c)
  <2>1. Goto(c, Free) /\ UNCHANGED <<src, told, cache>>
    BY <1>7 DEF Return
  <2> QED
    BY <1>6, <2>1, GotoSized
<1>8. CASE LoadFails(c)
  <2> DEFINE n == [r EXCEPT !.at = "settling", !.end = "failed"]
  <2>1. /\ Goto(c, IF call[c].kind = "build" THEN Free ELSE n)
        /\ UNCHANGED <<src, told, cache>>
    BY <1>8 DEF LoadFails
  <2>2. n.loaded = r.loaded
    BY <1>1, SMT DEF Calls
  <2> HIDE DEF n
  <2>3. CASE call[c].kind = "build"
    BY <1>6, <2>1, <2>3, GotoSized
  <2>4. CASE call[c].kind # "build"
    <3>1. Goto(c, n)
      BY <2>1, <2>4
    <3> HIDE DEF r
    <3> QED
      BY <1>1, <2>1, <2>2, <3>1, GotoSized
  <2> QED
    BY <2>3, <2>4
<1> QED
  BY <1>2, <1>3, <1>4, <1>5, <1>7, <1>8

\* A call that begins or begins again has loaded nothing.
LEMMA BeginSized ==
  ASSUME IInv, Sized, NEW c \in Callers,
         \/ Retry(c)
         \/ \E kind \in Kinds \ {"through"}, S \in (SUBSET Keys) \ {{}}, gate \in Gates :
              Ask(c, kind, S, gate)
  PROVE  Sized'
<1>1. /\ Free \in Calls /\ \A k \in Keys : Free.loaded[k] = 0 /\ 0 <= src[k]
  BY LoadedBefore
<1>2. ASSUME NEW a, NEW kd, NEW ks, NEW t, NEW h, NEW f,
             Goto(c, [Free EXCEPT !.at = a, !.kind = kd, !.keys = ks, !.todo = t,
                                  !.hash = h, !.asof = f]),
             UNCHANGED <<src, told, cache>>
      PROVE  Sized'
  <2> DEFINE n == [Free EXCEPT !.at = a, !.kind = kd, !.keys = ks, !.todo = t,
                               !.hash = h, !.asof = f]
  <2>1. n.loaded = Free.loaded
    BY <1>1, SMT DEF Calls
  <2>2. Goto(c, n)
    BY <1>2
  <2>3. \A k \in Keys : n.loaded[k] <= src[k]
    BY <1>1, <2>1
  <2> HIDE DEF n
  <2> QED
    BY <1>2, <2>2, <2>3, GotoSized
<1>3. ASSUME NEW a, NEW kd, NEW ks, NEW h, NEW f, NEW t, NEW o,
             Goto(c, [Free EXCEPT !.at = a, !.kind = kd, !.keys = ks, !.hash = h, !.asof = f,
                                  !.todo = t, !.own = o]),
             UNCHANGED <<src, told, cache>>
      PROVE  Sized'
  <2> DEFINE n == [Free EXCEPT !.at = a, !.kind = kd, !.keys = ks, !.hash = h, !.asof = f,
                               !.todo = t, !.own = o]
  <2>1. n.loaded = Free.loaded
    BY <1>1, SMT DEF Calls
  <2>2. Goto(c, n)
    BY <1>3
  <2>3. \A k \in Keys : n.loaded[k] <= src[k]
    BY <1>1, <2>1
  <2> HIDE DEF n
  <2> QED
    BY <1>3, <2>2, <2>3, GotoSized
<1>4. CASE Retry(c)
  BY <1>2, <1>4 DEF Retry
<1>5. ASSUME NEW kind, NEW S, NEW gate, Ask(c, kind, S, gate) PROVE Sized'
  <2>1. /\ Goto(c, [Free EXCEPT !.at = IF kind = "one" THEN "lookup" ELSE "epoch",
                                !.kind = kind, !.keys = S, !.hash = HashOf(gate), !.asof = told,
                                !.todo = S, !.own = IF kind = "build" THEN S ELSE {}])
        /\ UNCHANGED <<src, told, cache>>
    BY <1>5 DEF Ask
  <2> HIDE DEF Goto
  <2> QED
    BY <1>3, <2>1, Zenon
<1> QED
  BY <1>4, <1>5

\* A value is loaded from its row as it stands.
LEMMA LoadSized ==
  ASSUME IInv, Sized, NEW c \in Callers, Load(c)
  PROVE  Sized'
<1> DEFINE r == call[c]
           read == [k \in Keys |-> IF k \in r.own THEN src[k] ELSE 0]
           n == [r EXCEPT !.at = "storing", !.loaded = read]
<1>1. r \in Calls /\ \A k \in Keys : 0 <= src[k] /\ src[k] \in Nat
  BY SMT DEF IInv, Typed
<1>2. Goto(c, n) /\ UNCHANGED <<src, told, cache>>
  BY DEF Load
<1>3. n.loaded = read
  BY <1>1, SMT DEF Calls
<1>4. \A k \in Keys : read[k] <= src[k]
  BY <1>1, SMT
<1> HIDE DEF n, read
<1> QED
  BY <1>2, <1>3, <1>4, GotoSized

\* The end of a flight changes what is held, not what was loaded.
LEMMA SettleSized ==
  ASSUME IInv, Sized, NEW c \in Callers, NEW k \in Keys, Settle(c, k)
  PROVE  Sized'
<1> DEFINE r == call[c]
           Told(w) == [call[w] EXCEPT
                    !.wait[k] = None,
                    !.own = IF w = c THEN @ \ {k} ELSE @,
                    !.at = IF w = c /\ r.own = {k} THEN "waiting" ELSE @,
                    !.got[k] = IF r.end = "stored" THEN r.loaded[k] ELSE 0,
                    !.failed = @ \/ r.end = "failed",
                    !.retry = @ \/ r.end = "refused"]
<1>1. /\ call' = [w \in Callers |-> IF call[w].wait[k] = c THEN Told(w) ELSE call[w]]
      /\ UNCHANGED <<src, told, cache>>
  BY DEF Settle
<1>2. ASSUME NEW w \in Callers, NEW j \in Keys PROVE call'[w].loaded[j] <= src[j]
  <2>1. call[w] \in Calls /\ call[w].loaded[j] <= src[j]
    BY LoadedBefore
  <2>2. Told(w).loaded = call[w].loaded
    BY <2>1, SMT DEF Calls
  <2>3. call'[w] = Told(w) \/ call'[w] = call[w]
    BY <1>1
  <2> HIDE DEF Told
  <2> QED
    BY <2>1, <2>2, <2>3
<1> QED
  BY <1>1, <1>2, CallsSized

\* A lookup: a hit moves its entry to the front, an expired entry leaves.
LEMMA LookupKeySized ==
  ASSUME IInv, Sized, NEW c \in Callers, NEW k \in Keys, NEW r, NEW hit, NEW miss,
         LookupKey(k, r, c, hit, miss),
         \A j \in Keys : Hit(r, k) => hit.loaded[j] <= src[j],
         \A j \in Keys : miss.loaded[j] <= src[j]
  PROVE  Sized'
<1>1. src \in [Keys -> Nat] /\ \A j \in Keys : src[j] <= src[j] /\ src[j] <= MaxVersion
  BY SMT DEF IInv, Typed, Sized, Bounded
<1>2. CASE /\ Hit(r, k)
           /\ order' = InFront(<<k>>)
           /\ Goto(c, hit)
           /\ UNCHANGED <<src, told, items, epoch>>
  <2>1. Listed'
    BY <1>2, HitListed DEF Hit
  <2>2. \A b \in Callers, j \in Keys : call'[b].loaded[j] <= src'[j]
    <3>1. src' \in [Keys -> Nat] /\ \A j \in Keys : src[j] <= src'[j] /\ hit.loaded[j] <= src'[j]
      BY <1>1, <1>2
    <3> QED
      BY <1>2, <3>1, CallBounded
  <2>3. \A j \in Keys : src'[j] <= MaxVersion /\ items'[j].val <= src'[j]
    BY <1>2 DEF Sized, Bounded
  <2> QED
    BY <1>2, <2>1, <2>2, <2>3, BoundedStep DEF Sized
<1>3. CASE Goto(c, miss) /\ UNCHANGED <<src, told, cache>>
  BY <1>3, GotoSized
<1>4. CASE Drop({k}) /\ Goto(c, miss) /\ UNCHANGED <<src, told, epoch>>
  <2>1. Listed' /\ \A j \in Keys : items'[j].val <= src[j]
    BY <1>4, DropListed
  <2>2. \A b \in Callers, j \in Keys : call'[b].loaded[j] <= src'[j]
    <3>1. src' \in [Keys -> Nat] /\ \A j \in Keys : src[j] <= src'[j] /\ miss.loaded[j] <= src'[j]
      BY <1>1, <1>4
    <3> QED
      BY <1>4, <3>1, CallBounded
  <2>3. \A j \in Keys : src'[j] <= MaxVersion /\ items'[j].val <= src'[j]
    BY <1>1, <1>4, <2>1
  <2> QED
    BY <1>4, <2>1, <2>2, <2>3, BoundedStep DEF Sized
<1> QED
  BY <1>2, <1>3, <1>4 DEF LookupKey

\* A lookup keeps the key's value, or goes on without.
LEMMA LookupSized ==
  ASSUME IInv, Sized, NEW c \in Callers, NEW k \in Keys, Lookup(c, k)
  PROVE  Sized'
<1> DEFINE r == call[c]
           rest == [r EXCEPT !.todo = @ \ {k}]
           hit == [rest EXCEPT !.got[k] = items[k].val]
<1>1. r \in Calls /\ \A j \in Keys : r.loaded[j] <= src[j]
  BY LoadedBefore
<1>2. LookupKey(k, r, c, hit, rest)
  BY DEF Lookup
<1>3. rest \in Calls /\ rest.loaded = r.loaded
  BY <1>1, SMT DEF Calls
<1> HIDE DEF rest
<1>4. hit.loaded = rest.loaded
  BY <1>3, SMT DEF Calls
<1> HIDE DEF hit, r
<1>5. /\ \A j \in Keys : Hit(r, k) => hit.loaded[j] <= src[j]
      /\ \A j \in Keys : rest.loaded[j] <= src[j]
  BY <1>1, <1>3, <1>4
<1> QED
  BY <1>2, <1>5, LookupKeySized

\* An owner that finds the entry after all answers its flight with it.
LEMMA LookAgainSized ==
  ASSUME IInv, Sized, NEW c \in Callers, NEW k \in Keys, LookAgain(c, k)
  PROVE  Sized'
<1> DEFINE r == call[c]
           at == [r EXCEPT !.at = "settling"]
           held == [at EXCEPT !.loaded[k] = items[k].val]
           hit == [held EXCEPT !.end = "stored"]
           miss == [r EXCEPT !.at = "epoch"]
<1>1. r \in Calls /\ \A j \in Keys : r.loaded[j] <= src[j]
  BY LoadedBefore
<1>2. LookupKey(k, r, c, hit, miss)
  <2>1. [r EXCEPT !.at = "settling", !.loaded[k] = items[k].val, !.end = "stored"] = hit
    OBVIOUS
  <2> QED
    BY <2>1 DEF LookAgain
<1>3. miss.loaded = r.loaded
  BY <1>1, SMT DEF Calls
<1>4. at \in Calls /\ at.loaded = r.loaded
  BY <1>1, SMT DEF Calls, Places
<1> HIDE DEF at, miss
<1>5. items[k].val \in Nat /\ items[k].val <= src[k]
  BY ListAndEntries, SMT
<1>6. held \in Calls /\ \A j \in Keys : held.loaded[j] = IF j = k THEN items[k].val ELSE at.loaded[j]
  BY <1>4, <1>5, SMT DEF Calls
<1> HIDE DEF held
<1>7. hit.loaded = held.loaded
  BY <1>6, SMT DEF Calls
<1> HIDE DEF hit, r
<1>8. \A j \in Keys : hit.loaded[j] <= src[j] /\ miss.loaded[j] <= src[j]
  BY <1>1, <1>3, <1>4, <1>5, <1>6, <1>7
<1> QED
  BY <1>2, <1>8, LookupKeySized

\* What was loaded is stored under an epoch that stands, or not at all.
LEMMA StoreSized ==
  ASSUME IInv, Sized, NEW c \in Callers, Store(c)
  PROVE  Sized'
<1> DEFINE r == call[c]
           S == {k \in r.own : r.hash[k] # Bypass}
           n == [r EXCEPT !.at = "settling",
                          !.end = IF epoch = r.epoch THEN "stored" ELSE "refused"]
<1>1. /\ r \in Calls /\ \A k \in Keys : r.loaded[k] <= src[k]
      /\ Free \in Calls /\ \A k \in Keys : Free.loaded[k] = 0 /\ 0 <= src[k]
  BY LoadedBefore
<1>2. /\ r.at = "storing"
      /\ IF epoch = r.epoch THEN StoreAll(S, r.loaded, r.hash) ELSE UNCHANGED <<items, order>>
      /\ Goto(c, IF r.kind = "build" THEN Free ELSE n)
      /\ UNCHANGED <<src, told, epoch>>
  BY DEF Store, StoreUnder
<1>3. n.loaded = r.loaded
  BY <1>1, SMT DEF Calls
<1> HIDE DEF n
<1>4. src' \in [Keys -> Nat] /\ \A k \in Keys : src[k] <= src'[k] /\ src'[k] <= MaxVersion
  BY <1>2, SMT DEF IInv, Typed, Sized, Bounded
<1>5. \A b \in Callers, k \in Keys : call'[b].loaded[k] <= src'[k]
  <2>1. CASE r.kind = "build"
    <3>1. Goto(c, Free) /\ \A k \in Keys : Free.loaded[k] <= src'[k]
      BY <1>1, <1>2, <2>1
    <3> QED
      BY <1>4, <3>1, CallBounded
  <2>2. CASE r.kind # "build"
    <3>1. Goto(c, n) /\ \A k \in Keys : n.loaded[k] <= src'[k]
      BY <1>1, <1>2, <1>3, <2>2
    <3> QED
      BY <1>4, <3>1, CallBounded
  <2> QED
    BY <2>1, <2>2
<1>6. Listed' /\ \A k \in Keys : items'[k].val <= src'[k]
  <2>1. CASE epoch = r.epoch
    <3>1. S \in SUBSET Keys /\ r.loaded \in [Keys -> Nat]
      BY <1>1, SMT DEF Calls
    <3>2. \A k \in S : r.loaded[k] >= 1
      BY <1>2, OneCall DEF Versioned
    <3>3. \A k \in S : r.loaded[k] >= 1 /\ r.loaded[k] <= src'[k]
      BY <1>1, <1>2, <3>1, <3>2
    <3>4. StoreAll(S, r.loaded, r.hash)
      BY <1>2, <2>1
    <3> HIDE DEF S, r
    <3> QED
      BY <1>4, <3>1, <3>3, <3>4, StoreListed
  <2>2. CASE epoch # r.epoch
    <3>1. UNCHANGED <<items, order, src>>
      BY <1>2, <2>2
    <3> QED
      BY <3>1, StaysListed DEF Sized, Bounded
  <2> QED
    BY <2>1, <2>2
<1> QED
  BY <1>2, <1>4, <1>5, <1>6, BoundedStep DEF Sized

\* A writer puts the version it committed.
LEMMA PutSized ==
  ASSUME IInv, Sized, NEW c \in Callers, Put(c)
  PROVE  Sized'
<1> DEFINE r == call[c]
<1>1. /\ r \in Calls /\ \A k \in Keys : r.loaded[k] <= src[k]
      /\ Free \in Calls /\ \A k \in Keys : Free.loaded[k] = 0 /\ 0 <= src[k]
  BY LoadedBefore
<1>2. /\ r.at = "putting" /\ StoreAll(r.keys, r.loaded, r.hash) /\ Goto(c, Free)
      /\ UNCHANGED <<src, told, epoch>>
  BY DEF Put
<1>3. src' \in [Keys -> Nat] /\ \A k \in Keys : src[k] <= src'[k] /\ src'[k] <= MaxVersion
  BY <1>2, SMT DEF IInv, Typed, Sized, Bounded
<1>4. \A b \in Callers, k \in Keys : call'[b].loaded[k] <= src'[k]
  <2>1. \A k \in Keys : Free.loaded[k] <= src'[k]
    BY <1>1, <1>2
  <2> QED
    BY <1>2, <1>3, <2>1, CallBounded
<1>5. Listed' /\ \A k \in Keys : items'[k].val <= src'[k]
  <2>1. r.keys \in SUBSET Keys /\ r.loaded \in [Keys -> Nat]
    BY <1>1, SMT DEF Calls
  <2>2. \A k \in r.keys : r.loaded[k] >= 1
    BY <1>2, OneCall DEF Placed
  <2>3. \A k \in r.keys : r.loaded[k] >= 1 /\ r.loaded[k] <= src'[k]
    BY <1>1, <1>2, <2>1, <2>2
  <2> HIDE DEF r
  <2> QED
    BY <1>2, <1>3, <2>1, <2>3, StoreListed
<1> QED
  BY <1>2, <1>3, <1>4, <1>5, BoundedStep DEF Sized

\* A row moves on by one version, up to the bound.
LEMMA RowMoves ==
  ASSUME IInv, Sized, NEW k \in Keys, src[k] < MaxVersion, src' = [src EXCEPT ![k] = @ + 1]
  PROVE  /\ src' \in [Keys -> Nat]
         /\ \A j \in Keys : src[j] <= src'[j] /\ src'[j] <= MaxVersion
         /\ \A j \in Keys : items[j].val <= src'[j]
<1>1. /\ src \in [Keys -> Nat] /\ items \in [Keys -> [val : Nat, hash : Nat]]
      /\ \A j \in Keys : src[j] <= MaxVersion /\ items[j].val <= src[j]
  BY SMT DEF IInv, Typed, Sized, Bounded
<1>2. \A j \in Keys : src'[j] = IF j = k THEN src[k] + 1 ELSE src[j]
  BY <1>1
<1>3. src' \in [Keys -> Nat]
  BY <1>1, SMT
<1>4. \A j \in Keys : src[j] <= src'[j] /\ src'[j] <= MaxVersion
  BY <1>1, <1>2, VersionsAssumption, SMT
<1>5. \A j \in Keys : items[j].val <= src'[j]
  BY <1>1, <1>2, SMT
<1> QED
  BY <1>3, <1>4, <1>5

\* A row moves on under what was loaded of it.
LEMMA CommitSized ==
  ASSUME IInv, Sized, NEW k \in Keys, Commit(k)
  PROVE  Sized'
<1>1. /\ src' \in [Keys -> Nat]
      /\ \A j \in Keys : src[j] <= src'[j] /\ src'[j] <= MaxVersion
      /\ \A j \in Keys : items[j].val <= src'[j]
  BY RowMoves DEF Commit
<1>2. UNCHANGED <<told, items, order, epoch, call>>
  BY DEF Commit, cache
<1>3. ASSUME NEW c \in Callers, NEW j \in Keys PROVE call'[c].loaded[j] <= src'[j]
  <2>1. /\ call[c].loaded[j] <= src[j] /\ call[c].loaded[j] \in Nat
        /\ src[j] \in Nat /\ src'[j] \in Nat
    BY <1>1, SMT DEF IInv, Typed, Calls, Sized, Bounded
  <2> QED
    BY <1>1, <1>2, <2>1, SMT
<1>4. \A j \in Keys : src'[j] <= MaxVersion /\ items'[j].val <= src'[j]
  BY <1>1, <1>2
<1> QED
  BY <1>2, <1>3, <1>4, StaysListed, BoundedStep DEF Sized

\* A writer holds the version it committed.
LEMMA CommitThroughSized ==
  ASSUME IInv, Sized, NEW c \in Callers, NEW k \in Keys, CommitThrough(c, k)
  PROVE  Sized'
<1> DEFINE at == [Free EXCEPT !.at = "putting", !.kind = "through", !.keys = {k}]
           n == [at EXCEPT !.loaded[k] = src[k] + 1]
<1>1. /\ src' \in [Keys -> Nat]
      /\ \A j \in Keys : src[j] <= src'[j] /\ src'[j] <= MaxVersion
      /\ \A j \in Keys : items[j].val <= src'[j]
  BY RowMoves DEF CommitThrough
<1>2. UNCHANGED <<told, items, order, epoch>> /\ Goto(c, n)
  <2>1. [Free EXCEPT !.at = "putting", !.kind = "through", !.keys = {k},
                     !.loaded[k] = src[k] + 1] = n
    OBVIOUS
  <2> QED
    BY <2>1 DEF CommitThrough, cache
<1>3. at \in Calls /\ at.loaded = Free.loaded
  <2>1. /\ Free \in Calls /\ {k} \in SUBSET Keys
        /\ "putting" \in Places /\ "through" \in {"none", "one", "batch", "build", "through"}
    BY FreeIsCall DEF Places
  <2>2. at \in Calls
    BY <2>1, FieldUpdates
  <2>3. at.loaded = Free.loaded
    BY <2>1, SMT DEF Calls
  <2> QED
    BY <2>2, <2>3
<1> HIDE DEF at
<1>4. src[k] \in Nat /\ src'[k] = src[k] + 1
  BY SMT DEF CommitThrough, IInv, Typed
<1>5. \A j \in Keys : n.loaded[j] = IF j = k THEN src[k] + 1 ELSE at.loaded[j]
  BY <1>3, <1>4, SMT DEF Calls
<1> HIDE DEF n
<1>6. ASSUME NEW j \in Keys PROVE n.loaded[j] <= src'[j]
  <2>1. Free.loaded[j] = 0
    BY LoadedBefore
  <2>2. src'[j] \in Nat
    BY <1>1
  <2>3. CASE j = k
    BY <1>4, <1>5, <2>3, SMT
  <2>4. CASE j # k
    BY <1>3, <1>5, <2>1, <2>2, <2>4, SMT
  <2> QED
    BY <2>3, <2>4
<1>7. \A b \in Callers, j \in Keys : call'[b].loaded[j] <= src'[j]
  BY <1>1, <1>2, <1>6, CallBounded
<1>8. \A j \in Keys : src'[j] <= MaxVersion /\ items'[j].val <= src'[j]
  BY <1>1, <1>2
<1> QED
  BY <1>2, <1>7, <1>8, StaysListed, BoundedStep DEF Sized

\* The listener tells of rows as they are, once more.
LEMMA InvalidateSized ==
  ASSUME IInv, Sized, NEW S, Invalidate(S)
  PROVE  Sized'
<1>1. /\ epoch < MaxEpoch /\ epoch' = epoch + 1 /\ Drop(S)
      /\ told' = [k \in Keys |-> IF k \in S THEN src[k] ELSE told[k]]
      /\ UNCHANGED <<src, call>>
  BY DEF Invalidate, InvalidateAt
<1>2. Listed' /\ \A k \in Keys : items'[k].val <= src[k]
  BY <1>1, DropListed
<1>3. epoch' <= MaxEpoch
  BY <1>1, VersionsAssumption, SMT DEF IInv, Typed
<1>4. ASSUME NEW k \in Keys PROVE told'[k] >= 1
  <2>1. told[k] >= 1
    BY DEF Sized, Bounded
  <2>2. src[k] >= 1
    BY SMT DEF IInv, Typed
  <2> QED
    BY <1>1, <2>1, <2>2
<1> QED
  BY <1>1, <1>2, <1>3, <1>4 DEF Sized, Bounded

LEMMA InitSized ==
  ASSUME Init
  PROVE  Sized
<1>1. order = <<>> /\ DOMAIN order = {} /\ order \in Seq(Keys) /\ Len(order) = 0
  BY SMT DEF Init
<1>2. Distinct(order) /\ ToSet(order) = {}
  BY <1>1 DEF Distinct, ToSet
<1>3. Resident = {}
  BY DEF Init, Resident
<1>4. Len(order) <= Cap /\ 0 <= MaxEpoch /\ 1 <= MaxVersion
  BY <1>1, VersionsAssumption, SMT
<1>5. \A k \in Keys : src[k] = 1 /\ told[k] = 1 /\ items[k].val = 0
  BY DEF Init, Absent
<1>6. \A c \in Callers, k \in Keys : call[c].loaded[k] = 0
  BY DEF Init, Free
<1>7. Bounded
  <2>1. epoch = 0
    BY DEF Init
  <2> QED
    BY <1>4, <1>5, <1>6, <2>1, SMT DEF Bounded
<1> QED
  BY <1>1, <1>2, <1>3, <1>4, <1>7 DEF Sized, Listed

LEMMA NextSized ==
  ASSUME IInv, Sized, [Next]_vars
  PROVE  Sized'
<1>1. ASSUME NEW k \in Keys, Commit(k) PROVE Sized'
  BY <1>1, CommitSized
<1>2. ASSUME NEW S \in (SUBSET Keys) \ {{}}, Invalidate(S) PROVE Sized'
  BY <1>2, InvalidateSized
<1>3. ASSUME NEW c \in Callers, Begins(c) PROVE Sized'
  BY <1>3, BeginSized, CommitThroughSized DEF Begins
<1>4. ASSUME NEW c \in Callers, CallStep(c) PROVE Sized'
  <2>1. CASE ReadEpoch(c) \/ Claim(c) \/ Await(c) \/ Return(c) \/ LoadFails(c)
    BY <2>1, NoLoadSized
  <2>2. CASE Load(c) \/ Store(c) \/ Retry(c) \/ Put(c)
    BY <2>2, LoadSized, StoreSized, BeginSized, PutSized
  <2>3. ASSUME NEW k \in Keys, Lookup(c, k) \/ LookAgain(c, k) \/ Settle(c, k)
        PROVE  Sized'
    BY <2>3, LookupSized, LookAgainSized, SettleSized
  <2> QED
    BY <1>4, <2>1, <2>2, <2>3 DEF CallStep
<1>5. ASSUME NEW c \in Callers, Cancel(c) PROVE Sized'
  BY <1>5, NoLoadSized
<1>6. CASE UNCHANGED vars
  BY <1>6, CallsSized DEF vars, cache, Sized, Bounded
<1> QED
  BY <1>1, <1>2, <1>3, <1>4, <1>5, <1>6 DEF Next

\* The cache and its calls keep their types; whatever is stored, hit, expired,
\* invalidated or evicted, the LRU list names each resident key once and never more
\* than Cap of them.
THEOREM TypeCorrect == Spec => []TypeOK
<1>1. Init => IInv /\ Sized
  BY InitIInv, InitSized
<1>2. (IInv /\ Sized) /\ [Next]_vars => (IInv /\ Sized)'
  BY NextIInv, NextSized
<1>3. ASSUME IInv, Sized PROVE TypeOK
  <2>1. /\ src \in [Keys -> Nat \ {0}] /\ told \in [Keys -> Nat]
        /\ items \in [Keys -> [val : Nat, hash : Nat]] /\ epoch \in Nat
        /\ \A k \in Keys :
             /\ src[k] <= MaxVersion /\ told[k] >= 1 /\ told[k] <= src[k]
             /\ items[k].val <= src[k] /\ items[k].val >= items[k].hash
        /\ epoch <= MaxEpoch
    BY <1>3 DEF IInv, Typed, Entries, Sized, Bounded
  <2>2. src \in [Keys -> Versions] /\ told \in [Keys -> Versions]
    BY <2>1, VersionsAssumption, SMT DEF Versions
  <2>3. ASSUME NEW k \in Keys
        PROVE  items[k] \in [val : 0..MaxVersion, hash : 0..MaxVersion]
    <3>1. items[k] \in [val : Nat, hash : Nat]
      BY <2>1
    <3>2. items[k].val \in 0..MaxVersion /\ items[k].hash \in 0..MaxVersion
      BY <2>1, <3>1, VersionsAssumption, SMT
    <3> QED
      BY <3>1, <3>2
  <2>4. items \in [Keys -> [val : 0..MaxVersion, hash : 0..MaxVersion]]
    BY <2>1, <2>3
  <2>5. ToSet(order) = Resident /\ Len(order) = Cardinality(Resident) /\ Len(order) <= Cap
    <3>1. order \in Seq(Keys) /\ Distinct(order) /\ ToSet(order) = Resident /\ Len(order) <= Cap
      BY <1>3, ListAndEntries
    <3>2. Len(order) = Cardinality(ToSet(order))
      BY <3>1, ListCounts
    <3> QED
      BY <3>1, <3>2
  <2>6. epoch \in 0..MaxEpoch
    BY <2>1, VersionsAssumption, SMT
  <2>7. ASSUME NEW c \in Callers
        PROVE  /\ call[c].own \subseteq call[c].keys /\ call[c].keys \subseteq Keys
               /\ call[c].epoch <= epoch
               /\ \A k \in Keys : call[c].wait[k] \in Callers \cup {None}
    <3>1. call[c] \in Calls /\ Placed(call[c]) /\ Fresh(call[c])
      BY <1>3, OneCall
    <3>2. call[c].keys \subseteq Keys /\ call[c].wait \in [Keys -> Callers \cup {None}]
      BY <3>1, SMT DEF Calls
    <3> QED
      BY <3>1, <3>2 DEF Placed, Fresh
  <2> QED
    BY <2>2, <2>4, <2>5, <2>6, <2>7 DEF TypeOK
<1> QED
  BY <1>1, <1>2, <1>3, PTL DEF Spec
=============================================================================
