------------------------ MODULE DispatchOutboxProofs ------------------------
(***************************************************************************)
(* The lane's safety for every number of producers and workers, every      *)
(* bound on pts, faults and attempts: IInv is inductive, and it implies    *)
(* the invariants that TLC checks on small instances.                      *)
(***************************************************************************)
EXTENDS DispatchOutbox, WellFoundedInduction, NaturalsInduction, TLAPS

\* A nonempty set of naturals has a least element (the delete trigger's
\* ORDER BY pts LIMIT 1 finds a row whenever one is left).
LEMMA LeastExists ==
  ASSUME NEW S \in SUBSET Nat, S # {}
  PROVE  \E x \in S : \A y \in S : x <= y
<1>1. IsWellFoundedOn(OpToRel(<, Nat), Nat)
  BY NatLessThanWellFounded
<1>2. PICK x \in S : \A y \in S : ~ (<<y, x>> \in OpToRel(<, Nat))
  BY <1>1, WFMin
<1>3. \A y \in S : ~ (y < x)
  BY <1>2 DEF OpToRel
<1> QED
  BY <1>3

\* The head the delete trigger computes is the oldest remaining row.
LEMMA FirstOfIsOldest ==
  ASSUME NEW rows
  PROVE  /\ LiveIn(rows) = {} => FirstOf(rows) = NoHead
         /\ LiveIn(rows) # {} =>
              /\ FirstOf(rows).pts \in LiveIn(rows)
              /\ FirstOf(rows).status = rows[FirstOf(rows).pts].status
              /\ \A q \in LiveIn(rows) : FirstOf(rows).pts <= q
              /\ FirstOf(rows) = [pts |-> FirstOf(rows).pts,
                                  status |-> FirstOf(rows).status]
<1>1. CASE LiveIn(rows) = {}
  BY <1>1 DEF FirstOf
<1>2. CASE LiveIn(rows) # {}
  <2> DEFINE least == CHOOSE q \in LiveIn(rows) : \A r \in LiveIn(rows) : q <= r
  <2>1. LiveIn(rows) \in SUBSET Nat
    BY BoundsAssumption DEF LiveIn, Pts
  <2>2. least \in LiveIn(rows) /\ \A r \in LiveIn(rows) : least <= r
    BY <1>2, <2>1, LeastExists
  <2>3. FirstOf(rows) = [pts |-> least, status |-> rows[least].status]
    BY <1>2 DEF FirstOf
  <2> HIDE DEF least
  <2> QED
    BY <1>2, <2>2, <2>3
<1> QED
  BY <1>1, <1>2

\* The head invariant says exactly that the head is the one the trigger picks.
LEMMA HeadIsFirst ==
  ASSUME TypeOK, HeadInv
  PROVE  LaneDiscoverable
<1>1. CASE Live = {}
  BY <1>1 DEF HeadInv, LaneDiscoverable, FirstOf, Live
<1>2. CASE Live # {}
  <2>1. Live \in SUBSET Nat
    BY BoundsAssumption DEF Live, LiveIn, Pts
  <2>2. FirstOf(row).pts = head.pts
    BY <1>2, <2>1, FirstOfIsOldest DEF HeadInv, Live
  <2>3. FirstOf(row).status = head.status
    BY <1>2, <2>2, FirstOfIsOldest DEF HeadInv, Live
  <2>4. head = [pts |-> head.pts, status |-> head.status]
    BY DEF TypeOK
  <2> QED
    BY <1>2, <2>2, <2>3, <2>4, FirstOfIsOldest DEF LaneDiscoverable, Live
<1> QED
  BY <1>1, <1>2

-----------------------------------------------------------------------------
\* Deleting rows keeps the head invariant: the head moves only if it went.
LEMMA DeleteRowsKeepsHead ==
  ASSUME TypeOK, HeadInv, NEW S, DeleteRows(S)
  PROVE  /\ HeadInv'
         /\ Live' = Live \ S
         /\ row' \in [Pts -> [status : {"none", "pending", "dispatching", "failed"},
                              attempts : Nat, due : BOOLEAN, marks : Nat]]
         /\ head' \in [pts : 0..MaxPts,
                       status : {"none", "pending", "dispatching", "failed"}]
         /\ \A p \in Pts \ S : row'[p] = row[p]
<1>1. row' = [p \in Pts |-> IF p \in S THEN Absent ELSE row[p]]
  BY DEF DeleteRows
<1>2. head' = IF head.pts \in S THEN FirstOf(row') ELSE head
  BY <1>1 DEF DeleteRows
<1>3. Live' = Live \ S
  BY <1>1 DEF Live, LiveIn, Absent
<1>4. row' \in [Pts -> [status : {"none", "pending", "dispatching", "failed"},
                        attempts : Nat, due : BOOLEAN, marks : Nat]]
  BY <1>1 DEF TypeOK, Absent
<1>5. \A p \in Pts \ S : row'[p] = row[p]
  BY <1>1
<1>6. CASE head.pts \in S
  <2>1. head' = FirstOf(row') /\ Live' = LiveIn(row')
    BY <1>2, <1>6 DEF Live
  <2>2. CASE Live' = {}
    <3>1. head' = NoHead
      BY <2>1, <2>2, FirstOfIsOldest
    <3>2. HeadInv'
      BY <3>1, <2>2 DEF HeadInv, NoHead
    <3>3. head' \in [pts : 0..MaxPts,
                     status : {"none", "pending", "dispatching", "failed"}]
      BY <3>1, BoundsAssumption DEF NoHead
    <3> QED
      BY <3>2, <3>3, <1>3, <1>4, <1>5
  <2>3. CASE Live' # {}
    <3>1. HeadInv'
      BY <2>1, <2>3, FirstOfIsOldest DEF HeadInv
    <3>2. head'.pts \in Pts /\ head'.status = row'[head'.pts].status
      BY <3>1, <2>3 DEF HeadInv, Live, LiveIn
    <3>3. head'.status \in {"none", "pending", "dispatching", "failed"}
      BY <3>2, <1>4
    <3>4. head' = [pts |-> head'.pts, status |-> head'.status]
      BY <2>1, <2>3, FirstOfIsOldest
    <3> QED
      BY <3>1, <3>2, <3>3, <3>4, <1>3, <1>4, <1>5, BoundsAssumption DEF Pts
  <2> QED
    BY <2>2, <2>3
<1>7. CASE head.pts \notin S
  <2>1. head' = head
    BY <1>2, <1>7
  <2>2. Live # {} => head.pts \in Live'
    BY <1>3, <1>7 DEF HeadInv
  <2>3. HeadInv'
    BY <2>1, <2>2, <1>3, <1>5 DEF HeadInv, Live, LiveIn
  <2> QED
    BY <2>1, <2>3, <1>3, <1>4, <1>5 DEF TypeOK
<1> QED
  BY <1>6, <1>7

\* Updating a live row to a live status keeps the head and the set of rows.
LEMMA UpdateRowKeepsHead ==
  ASSUME TypeOK, HeadInv, NEW p \in Live, NEW r, UpdateRow(p, r),
         r \in [status : {"pending", "dispatching", "failed"},
                attempts : Nat, due : BOOLEAN, marks : Nat]
  PROVE  /\ HeadInv'
         /\ Live' = Live
         /\ head'.pts = head.pts
         /\ (head' = NoHead) = (head = NoHead)
         /\ row' \in [Pts -> [status : {"none", "pending", "dispatching", "failed"},
                              attempts : Nat, due : BOOLEAN, marks : Nat]]
         /\ head' \in [pts : 0..MaxPts,
                       status : {"none", "pending", "dispatching", "failed"}]
<1>1. p \in Pts
  BY DEF Live, LiveIn
<1>2. row' = [row EXCEPT ![p] = r] /\ r.status # "none"
  BY DEF UpdateRow
<1>3. row' \in [Pts -> [status : {"none", "pending", "dispatching", "failed"},
                        attempts : Nat, due : BOOLEAN, marks : Nat]]
  BY <1>1, <1>2 DEF TypeOK
<1>4. Live' = Live
  BY <1>1, <1>2 DEF Live, LiveIn, TypeOK
<1>5. head' = IF head.pts = p THEN [head EXCEPT !.status = r.status] ELSE head
  BY DEF UpdateRow
<1>6. head' \in [pts : 0..MaxPts,
                 status : {"none", "pending", "dispatching", "failed"}]
      /\ head'.pts = head.pts
  BY <1>5 DEF TypeOK
<1>7. head.pts \in Pts /\ head'.status = row'[head'.pts].status
  BY <1>1, <1>2, <1>5, <1>6 DEF HeadInv, TypeOK, Live, LiveIn
<1>8. head # NoHead /\ head' # NoHead
  BY <1>6, <1>7, BoundsAssumption DEF Pts, NoHead
<1> QED
  BY <1>3, <1>4, <1>6, <1>7, <1>8 DEF HeadInv

-----------------------------------------------------------------------------
\* Nothing is locked, queued or pushed at first.
LEMMA InitIInv == Init => IInv
<1> SUFFICES ASSUME Init PROVE IInv
  OBVIOUS
<1>1. Live = {}
  BY DEF Init, Live, LiveIn, Absent
<1>2. TypeOK
  BY BoundsAssumption DEF Init, TypeOK, Absent, NoHead, NoTx, Idle, Pts
<1>3. LockInv /\ TxInv
  BY OwnersAssumption DEF Init, LockInv, TxInv, NoTx, Idle
<1>4. LogInv /\ HeadInv /\ ItemInv
  BY <1>1 DEF Init, LogInv, HeadInv, ItemInv, NoHead, Idle
<1>5. PushOrder /\ NothingLost
  BY DEF Init, PushOrder, NothingLost
<1> QED
  BY <1>2, <1>3, <1>4, <1>5 DEF IInv

-----------------------------------------------------------------------------
\* Producers.

LEMMA ReserveKeepsIInv ==
  ASSUME IInv, NEW p \in Producers, NEW d \in BOOLEAN, Reserve(p, d)
  PROVE  IInv'
<1> USE DEF Reserve, ReservePts, dbVars, histVars
<1>1. Live' = Live
  BY DEF Live
<1>2. TypeOK'
  BY BoundsAssumption DEF IInv, TypeOK
<1>3. LockInv'
  BY OwnersAssumption DEF IInv, TypeOK, LockInv
<1>4. TxInv'
  <2>1. \A q \in Producers : prod'[q].at # "idle" => q = p
    BY OwnersAssumption DEF IInv, TypeOK, LockInv
  <2>2. prod'[p].pts = wm + 1 /\ prod'[p].at = "reserved" /\ wm < MaxPts
    BY BoundsAssumption DEF IInv, TypeOK
  <2> QED
    BY <2>1, <2>2 DEF IInv, TxInv
<1>5. LogInv' /\ HeadInv' /\ ItemInv'
  BY <1>1 DEF IInv, LogInv, HeadInv, ItemInv
<1>6. PushOrder' /\ NothingLost'
  BY <1>1 DEF IInv, PushOrder, NothingLost
<1> QED
  BY <1>2, <1>3, <1>4, <1>5, <1>6 DEF IInv

LEMMA InsertTaskKeepsIInv ==
  ASSUME IInv, NEW p \in Producers, InsertTask(p)
  PROVE  IInv'
<1> USE DEF InsertTask, InsertTaskHolding, dbVars, histVars
<1>1. Live' = Live
  BY DEF Live
<1>2. TypeOK'
  <2>1. (head = NoHead) \in BOOLEAN
    OBVIOUS
  <2>2. prod' \in [Producers -> [at : {"idle", "reserved", "inserted"},
                             pts : 0..MaxPts, dispatch : BOOLEAN,
                             needHead : BOOLEAN]]
    <3> DEFINE r == [prod[p] EXCEPT !.at = "inserted", !.needHead = (head = NoHead)]
    <3>1. prod[p] \in [at : {"idle", "reserved", "inserted"}, pts : 0..MaxPts,
                       dispatch : BOOLEAN, needHead : BOOLEAN]
      BY DEF IInv, TypeOK
    <3>2. r \in [at : {"idle", "reserved", "inserted"}, pts : 0..MaxPts,
                 dispatch : BOOLEAN, needHead : BOOLEAN]
      BY <2>1, <3>1, Zenon
    <3>3. prod' = [prod EXCEPT ![p] = r]
      OBVIOUS
    <3> HIDE DEF r
    <3> QED
      BY <3>2, <3>3 DEF IInv, TypeOK
  <2> QED
    BY <2>2 DEF IInv, TypeOK
<1>3. LockInv'
  BY DEF IInv, TypeOK, LockInv
<1>4. TxInv'
  BY DEF IInv, TypeOK, TxInv
<1>5. LogInv' /\ HeadInv' /\ ItemInv'
  BY <1>1 DEF IInv, LogInv, HeadInv, ItemInv
<1>6. PushOrder' /\ NothingLost'
  BY <1>1 DEF IInv, PushOrder, NothingLost
<1> QED
  BY <1>2, <1>3, <1>4, <1>5, <1>6 DEF IInv

\* The commit is where the fence matters: the head the trigger saw, or saw
\* missing, is still as it was, so the new row ends up behind a head.
LEMMA CommitTxKeepsIInv ==
  ASSUME IInv, NEW p \in Producers, CommitTx(p)
  PROVE  IInv'
<1> USE DEF CommitTx, EndTx, Complete
<1> DEFINE n == prod[p].pts
           d == prod[p].dispatch
<1>1. n = wm + 1 /\ n \in Pts /\ wm \in Nat /\ n \notin Live /\ prod[p].at # "idle"
  BY BoundsAssumption DEF IInv, TypeOK, TxInv, LogInv, Pts
<1>2. Live' = IF d THEN Live \cup {n} ELSE Live
  BY <1>1 DEF IInv, TypeOK, Live, LiveIn, Pending
<1>3. TypeOK'
  <2>1. row' \in [Pts -> [status : {"none", "pending", "dispatching", "failed"},
                      attempts : Nat, due : BOOLEAN, marks : Nat]]
    BY <1>1 DEF IInv, TypeOK, Pending
  <2>2. head' \in [pts : 0..MaxPts,
                   status : {"none", "pending", "dispatching", "failed"}]
    BY <1>1, BoundsAssumption DEF IInv, TypeOK, Pts
  <2>3. wm' \in 0..MaxPts /\ events' \subseteq Pts /\ enqueued' \subseteq Pts
    BY <1>1, BoundsAssumption DEF IInv, TypeOK, Pts
  <2>4. prod' \in [Producers -> [at : {"idle", "reserved", "inserted"},
                             pts : 0..MaxPts, dispatch : BOOLEAN,
                             needHead : BOOLEAN]]
    BY BoundsAssumption DEF IInv, TypeOK, NoTx
  <2> QED
    BY <2>1, <2>2, <2>3, <2>4 DEF IInv, TypeOK
<1>4. LockInv'
  BY <1>1, OwnersAssumption DEF IInv, TypeOK, LockInv, NoTx
<1>5. \A q \in Producers : prod'[q].at = "idle"
  BY <1>1 DEF IInv, TypeOK, LockInv, NoTx
<1>6. pruner.at = "idle" /\ pruner' = pruner
  BY <1>1, OwnersAssumption DEF IInv, LockInv
<1>7. TxInv'
  BY <1>5, <1>6 DEF TxInv
<1>8. LogInv'
  <2>1. wm' = wm + 1 /\ floor' = floor /\ events' = events \cup {n}
    BY <1>1
  <2>2. events = (floor + 1)..wm /\ floor \in Nat /\ floor <= wm
    BY DEF IInv, LogInv, TypeOK
  <2>3. events' = (floor' + 1)..wm'
    BY <1>1, <2>1, <2>2
  <2>4. \A q \in Live' : q <= wm' /\ floor' < q
    BY <1>1, <1>2, <2>1, <2>2 DEF IInv, LogInv, Live, LiveIn, Pts
  <2> QED
    BY <1>1, <2>1, <2>2, <2>3, <2>4 DEF LogInv
<1>9. HeadInv'
  <2>1. CASE ~d
    BY <1>2, <2>1 DEF IInv, HeadInv
  <2>2. CASE d /\ Live = {}
    <3>1. head = NoHead /\ prod[p].needHead
      BY <2>2 DEF IInv, HeadInv, TxInv
    <3>2. head' = [pts |-> n, status |-> "pending"] /\ Live' = {n}
      BY <3>1, <2>2, <1>2
    <3>3. row'[n].status = "pending"
      BY <1>1, <2>2 DEF IInv, TypeOK, Pending
    <3> QED
      BY <3>2, <3>3, <1>1 DEF HeadInv
  <2>3. CASE d /\ Live # {}
    <3>1. head.pts \in Pts /\ head # NoHead
      BY <2>3, BoundsAssumption DEF IInv, HeadInv, Live, LiveIn, NoHead, Pts
    <3>2. head' = head
      BY <3>1
    <3>3. row'[head.pts] = row[head.pts]
      BY <1>1, <2>3, <3>1 DEF IInv, HeadInv, TypeOK
    <3>4. head.pts <= n
      BY <1>1, <2>3 DEF IInv, HeadInv, LogInv, TypeOK
    <3> QED
      BY <1>2, <2>3, <3>2, <3>3, <3>4 DEF IInv, HeadInv
  <2> QED
    BY <2>1, <2>2, <2>3 DEF IInv, TypeOK
<1>10. ItemInv'
  BY <1>1, <1>2 DEF IInv, ItemInv, TypeOK
<1>11. PushOrder'
  BY <1>1, <1>2 DEF IInv, ItemInv, PushOrder
<1>12. NothingLost'
  BY <1>2 DEF IInv, NothingLost
<1> QED
  BY <1>3, <1>4, <1>7, <1>8, <1>9, <1>10, <1>11, <1>12 DEF IInv

LEMMA AbortTxKeepsIInv ==
  ASSUME IInv, NEW p \in Producers, AbortTx(p)
  PROVE  IInv'
<1> USE DEF AbortTx, EndTx, dbVars, histVars
<1>1. Live' = Live
  BY DEF Live
<1>2. TypeOK'
  BY BoundsAssumption DEF IInv, TypeOK, NoTx
<1>3. LockInv'
  BY OwnersAssumption DEF IInv, TypeOK, LockInv, NoTx
<1>4. TxInv'
  BY DEF IInv, TypeOK, TxInv, NoTx
<1>5. LogInv' /\ HeadInv' /\ ItemInv'
  BY <1>1 DEF IInv, LogInv, HeadInv, ItemInv
<1>6. PushOrder' /\ NothingLost'
  BY <1>1 DEF IInv, PushOrder, NothingLost
<1> QED
  BY <1>2, <1>3, <1>4, <1>5, <1>6 DEF IInv

-----------------------------------------------------------------------------
\* Workers.

\* What a worker claimed was the head: nothing older is queued.
LEMMA ClaimKeepsIInv ==
  ASSUME IInv, NEW w \in Workers, Claim(w)
  PROVE  IInv'
<1> USE DEF Claim, Claimable, lockVars, histVars
<1> DEFINE h == head.pts
           r == [status |-> "dispatching", attempts |-> row[h].attempts + 1,
                  due |-> FALSE, marks |-> row[h].marks]
<1>1. Live # {}
  BY DEF IInv, HeadInv, NoHead
<1>2. h \in Live /\ h \in Pts /\ \A q \in Live : h <= q
  BY <1>1 DEF IInv, HeadInv, Live, LiveIn
<1>3. r \in [status : {"pending", "dispatching", "failed"},
             attempts : Nat, due : BOOLEAN, marks : Nat]
  <2>1. row[h] \in [status : {"none", "pending", "dispatching", "failed"},
                   attempts : Nat, due : BOOLEAN, marks : Nat]
    BY <1>2 DEF IInv, TypeOK
  <2> QED
    BY <2>1
<1>4. UpdateRow(h, r)
  OBVIOUS
<1>5. TypeOK /\ HeadInv
  BY DEF IInv
<1>6. /\ HeadInv' /\ Live' = Live
      /\ (head' = NoHead) = (head = NoHead)
      /\ row' \in [Pts -> [status : {"none", "pending", "dispatching", "failed"},
                           attempts : Nat, due : BOOLEAN, marks : Nat]]
      /\ head' \in [pts : 0..MaxPts,
                    status : {"none", "pending", "dispatching", "failed"}]
  BY <1>2, <1>3, <1>4, <1>5, UpdateRowKeepsHead
<1>7. h \in 0..MaxPts /\ row[h].attempts + 1 \in Nat /\ h \in 1..wm
  <2>1. floor \in Nat /\ wm \in Nat /\ \A q \in Live : floor < q /\ q <= wm
    BY DEF IInv, TypeOK, LogInv
  <2>2. h \in 0..MaxPts /\ row[h].attempts + 1 \in Nat /\ h \in Nat
    BY <1>2, BoundsAssumption DEF IInv, TypeOK, Pts
  <2>3. floor < h /\ h <= wm
    BY <1>2, <2>1
  <2> HIDE DEF h
  <2> QED
    BY <2>1, <2>2, <2>3
<1>8. work' = [work EXCEPT ![w] =
                 [at |-> "claimed", pts |-> h, token |-> row[h].attempts + 1]]
  OBVIOUS
<1> HIDE DEF h, r
<1>9. TypeOK'
  BY <1>6, <1>7, <1>8 DEF IInv, TypeOK
<1>10. LockInv'
  BY <1>8, OwnersAssumption DEF IInv, TypeOK, LockInv
<1>11. TxInv' /\ LogInv'
  BY <1>6 DEF IInv, TxInv, LogInv
<1>12. ItemInv'
  <2>1. ASSUME NEW v \in Workers, work'[v].at # "idle"
        PROVE  /\ work'[v].pts \in 1..wm
               /\ \A p \in Live : work'[v].pts <= p
               /\ work'[v].at \in {"sent", "fenced"} =>
                    work'[v].pts \in pushed \cup Silent
    <3>1. CASE v = w
      BY <3>1, <1>2, <1>7, <1>8 DEF IInv, TypeOK
    <3>2. CASE v # w
      BY <2>1, <3>2, <1>8 DEF IInv, TypeOK, ItemInv
    <3> QED
      BY <3>1, <3>2
  <2> QED
    BY <1>6, <2>1 DEF IInv, ItemInv
<1>13. PushOrder' /\ NothingLost'
  BY <1>6 DEF IInv, PushOrder, NothingLost
<1> QED
  BY <1>6, <1>9, <1>10, <1>11, <1>12, <1>13 DEF IInv

LEMMA LoadKeepsIInv ==
  ASSUME IInv, NEW w \in Workers, Load(w)
  PROVE  IInv'
<1> USE DEF Load, LoadElse, Goto, dbVars, lockVars, histVars
<1>0. PICK at \in {"loaded", "failing"} :
        work' = [work EXCEPT ![w].at = at] /\ work[w].at = "claimed"
  OBVIOUS
<1>1. Live' = Live
  BY DEF Live
<1>2. TypeOK'
  BY <1>0 DEF IInv, TypeOK
<1>3. LockInv'
  BY <1>0, OwnersAssumption DEF IInv, TypeOK, LockInv
<1>4. TxInv' /\ LogInv' /\ HeadInv'
  BY <1>1 DEF IInv, TxInv, LogInv, HeadInv
<1>5. ItemInv'
  BY <1>0, <1>1 DEF IInv, TypeOK, ItemInv
<1>6. PushOrder' /\ NothingLost'
  BY <1>1 DEF IInv, PushOrder, NothingLost
<1> QED
  BY <1>2, <1>3, <1>4, <1>5, <1>6 DEF IInv

LEMMA PushFailsKeepsIInv ==
  ASSUME IInv, NEW w \in Workers, PushFails(w)
  PROVE  IInv'
<1> USE DEF PushFails, Goto, dbVars, lockVars, histVars
<1>1. Live' = Live
  BY DEF Live
<1>2. TypeOK'
  BY DEF IInv, TypeOK
<1>3. LockInv'
  BY OwnersAssumption DEF IInv, TypeOK, LockInv
<1>4. TxInv' /\ LogInv' /\ HeadInv'
  BY <1>1 DEF IInv, TxInv, LogInv, HeadInv
<1>5. ItemInv'
  BY <1>1 DEF IInv, TypeOK, ItemInv
<1>6. PushOrder' /\ NothingLost'
  BY <1>1 DEF IInv, PushOrder, NothingLost
<1> QED
  BY <1>2, <1>3, <1>4, <1>5, <1>6 DEF IInv

LEMMA PushDeferredKeepsIInv ==
  ASSUME IInv, NEW w \in Workers, PushDeferred(w)
  PROVE  IInv'
<1> USE DEF PushDeferred, Retry, Idle, dbVars, lockVars, histVars
<1>1. Live' = Live
  BY DEF Live
<1>2. TypeOK'
  BY BoundsAssumption DEF IInv, TypeOK
<1>3. LockInv'
  BY OwnersAssumption DEF IInv, TypeOK, LockInv
<1>4. TxInv' /\ LogInv' /\ HeadInv'
  BY <1>1 DEF IInv, TxInv, LogInv, HeadInv
<1>5. ItemInv'
  BY <1>1 DEF IInv, TypeOK, ItemInv
<1>6. PushOrder' /\ NothingLost'
  BY <1>1 DEF IInv, PushOrder, NothingLost
<1> QED
  BY <1>2, <1>3, <1>4, <1>5, <1>6 DEF IInv

LEMMA FenceDeliveredKeepsIInv ==
  ASSUME IInv, NEW w \in Workers, FenceDelivered(w)
  PROVE  IInv'
<1> USE DEF FenceDelivered, Goto, dbVars, histVars
<1>1. Live' = Live
  BY DEF Live
<1>2. TypeOK'
  BY DEF IInv, TypeOK
<1>3. LockInv'
  BY OwnersAssumption DEF IInv, TypeOK, LockInv
<1>4. TxInv' /\ LogInv' /\ HeadInv'
  BY <1>1 DEF IInv, TxInv, LogInv, HeadInv
<1>5. ItemInv'
  BY <1>1 DEF IInv, TypeOK, ItemInv
<1>6. PushOrder' /\ NothingLost'
  BY <1>1 DEF IInv, PushOrder, NothingLost
<1> QED
  BY <1>2, <1>3, <1>4, <1>5, <1>6 DEF IInv

LEMMA CrashKeepsIInv ==
  ASSUME IInv, NEW w \in Workers, Crash(w)
  PROVE  IInv'
<1> USE DEF Crash, Retry, Idle, dbVars, histVars
<1>1. Live' = Live
  BY DEF Live
<1>2. TypeOK'
  BY BoundsAssumption DEF IInv, TypeOK
<1>3. LockInv'
  BY OwnersAssumption DEF IInv, TypeOK, LockInv
<1>4. TxInv' /\ LogInv' /\ HeadInv'
  BY <1>1 DEF IInv, TxInv, LogInv, HeadInv
<1>5. ItemInv'
  BY <1>1 DEF IInv, TypeOK, ItemInv
<1>6. PushOrder' /\ NothingLost'
  BY <1>1 DEF IInv, PushOrder, NothingLost
<1> QED
  BY <1>2, <1>3, <1>4, <1>5, <1>6 DEF IInv

\* The pushed update was the head when it was claimed: nothing older waits.
LEMMA PushKeepsIInv ==
  ASSUME IInv, NEW w \in Workers, Push(w)
  PROVE  IInv'
<1> USE DEF Push, Goto, dbVars, lockVars
<1>1. Live' = Live
  BY DEF Live
<1>2. /\ work[w].pts \in 1..wm /\ work[w].pts \in Pts
      /\ \A p \in Live : work[w].pts <= p
  BY BoundsAssumption DEF IInv, TypeOK, ItemInv, Pts
<1>3. TypeOK'
  BY <1>2 DEF IInv, TypeOK
<1>4. LockInv'
  BY OwnersAssumption DEF IInv, TypeOK, LockInv
<1>5. TxInv' /\ LogInv' /\ HeadInv'
  BY <1>1 DEF IInv, TxInv, LogInv, HeadInv
<1>6. ItemInv'
  <2>1. pushed \subseteq pushed' /\ pushed' \subseteq 1..wm
    BY <1>2 DEF IInv, ItemInv
  <2>2. work[w].pts \in pushed' \cup Silent
    OBVIOUS
  <2>3. ASSUME NEW v \in Workers, work'[v].at # "idle"
        PROVE  /\ work'[v].pts \in 1..wm
               /\ \A p \in Live : work'[v].pts <= p
               /\ work'[v].at \in {"sent", "fenced"} =>
                    work'[v].pts \in pushed' \cup Silent
    <3>1. CASE v = w
      BY <3>1, <1>2, <2>2 DEF IInv, TypeOK
    <3>2. CASE v # w
      BY <2>1, <2>3, <3>2 DEF IInv, TypeOK, ItemInv
    <3> QED
      BY <3>1, <3>2
  <2>4. enqueued' \subseteq 1..wm'
    BY DEF IInv, ItemInv
  <2> QED
    BY <1>1, <2>1, <2>3, <2>4 DEF ItemInv
<1>7. PushOrder'
  BY <1>1, <1>2 DEF IInv, PushOrder
<1>8. NothingLost'
  BY <1>1 DEF IInv, NothingLost
<1> QED
  BY <1>3, <1>4, <1>5, <1>6, <1>7, <1>8 DEF IInv

\* A delivered row was the head and its update was pushed.
LEMMA MarkDeliveredKeepsIInv ==
  ASSUME IInv, NEW w \in Workers, MarkDelivered(w)
  PROVE  IInv'
<1> USE DEF MarkDelivered, EndDelivered, Retry, Idle, histVars
<1> DEFINE n == work[w].pts
<1>1. TypeOK /\ HeadInv /\ work[w].at = "fenced" /\ excl = w
  BY DEF IInv, LockInv
<1>2. n \in pushed \cup Silent
  BY <1>1 DEF IInv, ItemInv
<1>3. /\ HeadInv' /\ Live' \subseteq Live /\ Live \ Live' \subseteq {n}
      /\ row' \in [Pts -> [status : {"none", "pending", "dispatching", "failed"},
                           attempts : Nat, due : BOOLEAN, marks : Nat]]
      /\ head' \in [pts : 0..MaxPts,
                    status : {"none", "pending", "dispatching", "failed"}]
  <2>1. CASE Leased(w)
    <3>1. DeleteRows({n})
      BY <2>1
    <3> QED
      BY <1>1, <3>1, DeleteRowsKeepsHead
  <2>2. CASE ~Leased(w)
    BY <1>1, <2>2 DEF HeadInv, Live, TypeOK
  <2> QED
    BY <2>1, <2>2
<1>4. work' = [work EXCEPT ![w] = Idle] /\ excl' = None
  OBVIOUS
<1>5. TypeOK'
  BY <1>3, <1>4, BoundsAssumption DEF IInv, TypeOK
<1>6. LockInv'
  BY <1>1, <1>4, OwnersAssumption DEF IInv, TypeOK, LockInv
<1>7. TxInv'
  <2>1. \A p \in Producers : prod[p].at # "inserted"
    BY <1>1, OwnersAssumption DEF IInv, LockInv
  <2> QED
    BY <2>1 DEF IInv, TxInv
<1>8. LogInv' /\ PushOrder'
  BY <1>3 DEF IInv, LogInv, PushOrder
<1>9. ItemInv'
  BY <1>3, <1>4 DEF IInv, TypeOK, ItemInv
<1>10. NothingLost'
  BY <1>2, <1>3 DEF IInv, NothingLost
<1> QED
  BY <1>3, <1>5, <1>6, <1>7, <1>8, <1>9, <1>10 DEF IInv

LEMMA MarkFailedKeepsIInv ==
  ASSUME IInv, NEW w \in Workers, MarkFailed(w)
  PROVE  IInv'
<1> USE DEF MarkFailed, Retry, Idle, lockVars, histVars
<1> DEFINE n == work[w].pts
           s == IF row[n].attempts >= AttemptLimit THEN "failed" ELSE "pending"
<1>1. TypeOK /\ HeadInv
  BY DEF IInv
<1>2. work[w].at = "failing" /\ n \in Pts
  BY BoundsAssumption DEF IInv, TypeOK, ItemInv, Pts
<1>3. /\ HeadInv' /\ Live' = Live
      /\ (head' = NoHead) = (head = NoHead)
      /\ row' \in [Pts -> [status : {"none", "pending", "dispatching", "failed"},
                           attempts : Nat, due : BOOLEAN, marks : Nat]]
      /\ head' \in [pts : 0..MaxPts,
                    status : {"none", "pending", "dispatching", "failed"}]
  <2>1. CASE Leased(w)
    <3> DEFINE r == [status |-> s, attempts |-> row[n].attempts,
                     due |-> FALSE, marks |-> row[n].marks + 1]
    <3>1. n \in Live
      BY <1>2, <2>1 DEF Leased, LeasedByAnyone, Live, LiveIn
    <3>2. row[n] \in [status : {"none", "pending", "dispatching", "failed"},
                      attempts : Nat, due : BOOLEAN, marks : Nat]
          /\ s \in {"pending", "failed"}
      BY <1>2 DEF IInv, TypeOK
    <3>3. r \in [status : {"pending", "dispatching", "failed"},
                 attempts : Nat, due : BOOLEAN, marks : Nat]
      BY <3>2
    <3>4. UpdateRow(n, r)
      BY <2>1
    <3> HIDE DEF n, r
    <3> QED
      BY <1>1, <3>1, <3>3, <3>4, UpdateRowKeepsHead
  <2>2. CASE ~Leased(w)
    BY <1>1, <2>2 DEF HeadInv, Live, TypeOK
  <2> QED
    BY <2>1, <2>2
<1>4. work' = [work EXCEPT ![w] = Idle]
  OBVIOUS
<1>5. TypeOK'
  BY <1>3, <1>4, BoundsAssumption DEF IInv, TypeOK
<1>6. LockInv'
  BY <1>2, <1>4, OwnersAssumption DEF IInv, TypeOK, LockInv
<1>7. TxInv' /\ LogInv' /\ PushOrder' /\ NothingLost'
  BY <1>3 DEF IInv, TxInv, LogInv, PushOrder, NothingLost
<1>8. ItemInv'
  BY <1>3, <1>4 DEF IInv, TypeOK, ItemInv
<1> QED
  BY <1>3, <1>5, <1>6, <1>7, <1>8 DEF IInv

-----------------------------------------------------------------------------
\* Time and the janitors.

LEMMA TimerEndsKeepsIInv ==
  ASSUME IInv, NEW p \in Pts, TimerEnds(p)
  PROVE  IInv'
<1> USE DEF TimerEnds, lockVars, histVars
<1>1. row' = [row EXCEPT ![p].due = TRUE]
  OBVIOUS
<1>2. \A q \in Pts : row'[q].status = row[q].status
  BY <1>1 DEF IInv, TypeOK
<1>3. Live' = Live
  BY <1>2 DEF Live, LiveIn
<1>4. TypeOK'
  <2>1. row' \in [Pts -> [status : {"none", "pending", "dispatching", "failed"},
                        attempts : Nat, due : BOOLEAN, marks : Nat]]
    <3> DEFINE r == [row[p] EXCEPT !.due = TRUE]
    <3>1. row[p] \in [status : {"none", "pending", "dispatching", "failed"},
                      attempts : Nat, due : BOOLEAN, marks : Nat]
      BY DEF IInv, TypeOK
    <3>2. r \in [status : {"none", "pending", "dispatching", "failed"},
                 attempts : Nat, due : BOOLEAN, marks : Nat]
      BY <3>1
    <3>3. row' = [row EXCEPT ![p] = r]
      BY <1>1
    <3> HIDE DEF r
    <3> QED
      BY <3>2, <3>3 DEF IInv, TypeOK
  <2>2. faults' \in 0..MaxFaults
    BY BoundsAssumption DEF IInv, TypeOK
  <2> QED
    BY <2>1, <2>2 DEF IInv, TypeOK
<1>5. HeadInv'
  BY <1>2, <1>3 DEF IInv, HeadInv, Live, LiveIn
<1>6. LockInv' /\ TxInv' /\ LogInv' /\ ItemInv' /\ PushOrder' /\ NothingLost'
  BY <1>3 DEF IInv, LockInv, TxInv, LogInv, ItemInv, PushOrder, NothingLost
<1> QED
  BY <1>4, <1>5, <1>6 DEF IInv

LEMMA CleanerKeepsIInv ==
  ASSUME IInv, CleanerStep
  PROVE  IInv'
<1>1. CASE ListPoison \/ FencePoison \/ AbortPoison
  <2> USE DEF ListPoison, FencePoison, AbortPoison, dbVars, lockVars, histVars
  <2>1. Live' = Live /\ head' = head /\ row' = row
    BY <1>1 DEF Live
  <2>2. TypeOK'
    BY <1>1, BoundsAssumption DEF IInv, TypeOK
  <2>3. LockInv'
    BY <1>1, OwnersAssumption DEF IInv, TypeOK, LockInv
  <2>4. TxInv' /\ LogInv' /\ HeadInv' /\ ItemInv' /\ PushOrder' /\ NothingLost'
    BY <1>1, <2>1
    DEF IInv, TxInv, LogInv, HeadInv, ItemInv, PushOrder, NothingLost
  <2> QED
    BY <2>2, <2>3, <2>4 DEF IInv
<1>2. CASE DeletePoison
  <2> USE <1>2 DEF DeletePoison
  <2>1. TypeOK /\ HeadInv /\ cleaner = "fenced" /\ excl = Cleaner
    BY DEF IInv, LockInv
  <2>2. /\ HeadInv' /\ Live' \subseteq Live /\ Live \ Live' \subseteq abandoned'
        /\ abandoned \subseteq abandoned' /\ abandoned' \subseteq Pts
        /\ row' \in [Pts -> [status : {"none", "pending", "dispatching", "failed"},
                             attempts : Nat, due : BOOLEAN, marks : Nat]]
        /\ head' \in [pts : 0..MaxPts,
                      status : {"none", "pending", "dispatching", "failed"}]
    <3>1. CASE PoisonReady
      <4>1. DeleteRows({head.pts}) /\ abandoned' = abandoned \cup {head.pts}
        BY <3>1
      <4>2. head.pts \in Live
        BY <3>1, <2>1 DEF PoisonReady, HeadInv, NoHead
      <4> QED
        BY <2>1, <4>1, <4>2, DeleteRowsKeepsHead DEF TypeOK, Live, LiveIn
    <3>2. CASE ~PoisonReady
      BY <2>1, <3>2 DEF HeadInv, Live, TypeOK
    <3> QED
      BY <3>1, <3>2
  <2>3. TypeOK'
    BY <2>2 DEF IInv, TypeOK
  <2>4. LockInv'
    BY <2>1, OwnersAssumption DEF IInv, TypeOK, LockInv
  <2>5. \A p \in Producers : prod[p].at # "inserted"
    BY <2>1, OwnersAssumption DEF IInv, LockInv
  <2>6. TxInv' /\ LogInv' /\ ItemInv' /\ PushOrder' /\ NothingLost'
    BY <2>2, <2>5 DEF IInv, TxInv, LogInv, ItemInv, PushOrder, NothingLost
  <2> QED
    BY <2>2, <2>3, <2>4, <2>6 DEF IInv
<1> QED
  BY <1>1, <1>2 DEF CleanerStep

\* The prune holds the watermark and the fence, so the log and the lane it
\* computed its prefix from are the ones it deletes from.
LEMMA PrunerKeepsIInv ==
  ASSUME IInv, PrunerStep
  PROVE  IInv'
<1>1. CASE (\E c \in Pts : LockPrune(c)) \/ FencePrune \/ AbortPrune
  <2> USE DEF LockPrune, FencePrune, AbortPrune, dbVars, histVars
  <2>1. Live' = Live /\ head' = head /\ row' = row
    BY <1>1 DEF Live
  <2>2. TypeOK'
    <3>1. CASE \E c \in Pts : LockPrune(c)
      BY <3>1, BoundsAssumption DEF IInv, TypeOK, Pts
    <3>2. CASE FencePrune
      BY <3>2 DEF IInv, TypeOK
    <3>3. CASE AbortPrune
      BY <3>3, BoundsAssumption DEF IInv, TypeOK
    <3> QED
      BY <1>1, <3>1, <3>2, <3>3
  <2>3. LockInv'
    BY <1>1, OwnersAssumption DEF IInv, TypeOK, LockInv
  <2>4. TxInv'
    BY <1>1, <2>1 DEF IInv, TypeOK, TxInv
  <2>5. LogInv' /\ HeadInv' /\ ItemInv' /\ PushOrder' /\ NothingLost'
    BY <1>1, <2>1 DEF IInv, LogInv, HeadInv, ItemInv, PushOrder, NothingLost
  <2> QED
    BY <2>2, <2>3, <2>4, <2>5 DEF IInv
<1>2. CASE DeletePrefix
  <2> USE <1>2 DEF DeletePrefix, DeletePrefixAnd, histVars
  <2> DEFINE gone == {p \in Pts : floor < p /\ p <= pruner.cut}
  <2>1. TypeOK /\ HeadInv /\ pruner.at = "fenced" /\ excl = Pruner
        /\ wmOwner = Pruner
    BY DEF IInv, LockInv
  <2>2. floor < pruner.cut /\ pruner.cut <= wm /\ pruner.cut \in 0..MaxPts
        /\ wm \in 0..MaxPts /\ floor \in 0..MaxPts
    BY <2>1 DEF IInv, TxInv, TypeOK
  <2>3. DeleteRows(gone \cap Pts)
    OBVIOUS
  <2>4. /\ HeadInv' /\ Live' = Live \ gone
        /\ row' \in [Pts -> [status : {"none", "pending", "dispatching", "failed"},
                             attempts : Nat, due : BOOLEAN, marks : Nat]]
        /\ head' \in [pts : 0..MaxPts,
                      status : {"none", "pending", "dispatching", "failed"}]
    BY <2>1, <2>3, DeleteRowsKeepsHead
  <2>5. floor' = pruner.cut /\ events' = events \ gone /\ wm' = wm
        /\ enqueued' = enqueued /\ pushed' = pushed /\ abandoned' = abandoned
    OBVIOUS
  <2>6. TypeOK'
    BY <2>2, <2>4, BoundsAssumption DEF IInv, TypeOK
  <2>7. LockInv'
    BY <2>1, OwnersAssumption DEF IInv, TypeOK, LockInv
  <2>8. TxInv'
    BY <2>1, OwnersAssumption DEF IInv, LockInv, TxInv
  <2>9. LogInv'
    <3>1. events' = (floor' + 1)..wm'
      BY <2>2, <2>5, BoundsAssumption DEF IInv, LogInv, Pts
    <3>2. ASSUME NEW p \in Live'
          PROVE  floor' < p /\ p <= wm'
      <4>1. p \in Live /\ p \notin gone /\ p \in Pts
        BY <3>2, <2>4 DEF Live, LiveIn
      <4>2. floor < p /\ p <= wm
        BY <4>1 DEF IInv, LogInv
      <4> QED
        BY <4>1, <4>2, <2>2, <2>5, BoundsAssumption DEF Pts
    <3> QED
      BY <2>2, <2>5, <3>1, <3>2 DEF LogInv
  <2>10. ItemInv' /\ PushOrder'
    BY <2>4, <2>5 DEF IInv, ItemInv, PushOrder
  <2>11. NothingLost'
    <3> SUFFICES ASSUME NEW p \in enqueued
                 PROVE  p \in Live' \cup pushed \cup Silent \cup abandoned
                          \/ p <= floor'
      BY <2>5 DEF NothingLost
    <3>1. p \in Live \cup pushed \cup Silent \cup abandoned \/ p <= floor
      BY DEF IInv, NothingLost
    <3>2. p \in Pts
      BY DEF IInv, TypeOK
    <3>3. p \in gone => p <= floor'
      BY <2>5
    <3>4. p <= floor => p <= floor'
      BY <2>2, <2>5, <3>2, BoundsAssumption DEF Pts
    <3> QED
      BY <2>4, <3>1, <3>3, <3>4
  <2> QED
    BY <2>4, <2>6, <2>7, <2>8, <2>9, <2>10, <2>11 DEF IInv
<1> QED
  BY <1>1, <1>2 DEF PrunerStep

-----------------------------------------------------------------------------
\* Every step of every producer, worker and janitor keeps the invariant.
LEMMA NextIInv == IInv /\ [Next]_vars => IInv'
<1> SUFFICES ASSUME IInv, [Next]_vars PROVE IInv'
  OBVIOUS
<1>1. ASSUME NEW p \in Producers, ProducerStep(p) PROVE IInv'
  BY <1>1, ReserveKeepsIInv, InsertTaskKeepsIInv, CommitTxKeepsIInv, AbortTxKeepsIInv
  DEF ProducerStep
<1>2. ASSUME NEW w \in Workers, WorkerStep(w) PROVE IInv'
  BY <1>2, ClaimKeepsIInv, LoadKeepsIInv, PushKeepsIInv, PushFailsKeepsIInv,
     PushDeferredKeepsIInv, FenceDeliveredKeepsIInv, MarkDeliveredKeepsIInv,
     MarkFailedKeepsIInv, CrashKeepsIInv
  DEF WorkerStep
<1>3. ASSUME NEW p \in Pts, TimerEnds(p) PROVE IInv'
  BY <1>3, TimerEndsKeepsIInv
<1>4. CASE CleanerStep
  BY <1>4, CleanerKeepsIInv
<1>5. CASE PrunerStep
  BY <1>5, PrunerKeepsIInv
<1>6. CASE UNCHANGED vars
  <2> USE <1>6 DEF vars, dbVars, lockVars, procVars, histVars
  <2>1. Live' = Live
    BY DEF Live
  <2>2. TypeOK' /\ LockInv'
    BY DEF IInv, TypeOK, LockInv
  <2>3. TxInv' /\ LogInv' /\ HeadInv' /\ ItemInv' /\ PushOrder' /\ NothingLost'
    BY <2>1 DEF IInv, TxInv, LogInv, HeadInv, ItemInv, PushOrder, NothingLost
  <2> QED
    BY <2>2, <2>3 DEF IInv
<1> QED
  BY <1>1, <1>2, <1>3, <1>4, <1>5, <1>6 DEF Next

\* IInv holds in every reachable state.
THEOREM Inductive == Spec => []IInv
<1> QED
  BY InitIInv, NextIInv, PTL DEF Spec

\* The tables and processes of the lane keep their types.
THEOREM TypeCorrect == Spec => []TypeOK
<1>1. IInv => TypeOK
  BY DEF IInv
<1> QED
  BY Inductive, <1>1, PTL

\* Migration 0186: no interleaving of appends, deliveries, poison cleanup and
\* retention leaves rows in a lane without a head.
THEOREM AlwaysDiscoverable == Spec => []LaneDiscoverable
<1>1. IInv => LaneDiscoverable
  BY HeadIsFirst DEF IInv
<1> QED
  BY Inductive, <1>1, PTL

\* No update is pushed while an older one is queued.
THEOREM PushedInOrder == Spec => []PushOrder
<1>1. IInv => PushOrder
  BY DEF IInv
<1> QED
  BY Inductive, <1>1, PTL

\* No task leaves the outbox without its update being accounted for.
THEOREM LosesNothing == Spec => []NothingLost
<1>1. IInv => NothingLost
  BY DEF IInv
<1> QED
  BY Inductive, <1>1, PTL

\* Tasks are backed by events and the log has no gap above the floor.
THEOREM BackedByLog == Spec => []DurableBacking
<1>1. IInv => DurableBacking
  <2> SUFFICES ASSUME IInv PROVE DurableBacking
    OBVIOUS
  <2>1. /\ events = (floor + 1)..wm /\ floor \in Nat /\ wm \in Nat
        /\ \A p \in Live : floor < p /\ p <= wm
    BY DEF IInv, LogInv, TypeOK
  <2>2. Live \subseteq Nat
    BY BoundsAssumption DEF Live, LiveIn, Pts
  <2> QED
    BY <2>1, <2>2 DEF DurableBacking
<1> QED
  BY Inductive, <1>1, PTL

-----------------------------------------------------------------------------
RowType == [status : {"none", "pending", "dispatching", "failed"},
            attempts : Nat, due : BOOLEAN, marks : Nat]

\* A row that survives a step was there before it, and its attempts never fall.
LEMMA RowsAge ==
  ASSUME IInv, [Next]_vars, NEW n \in 1..wm, n \in Live'
  PROVE  n \in Live /\ row'[n].attempts >= row[n].attempts
<1>1. /\ row \in [Pts -> RowType] /\ n \in Pts /\ row'[n].status # "none"
      /\ row[n].attempts \in Nat
  BY BoundsAssumption DEF IInv, TypeOK, RowType, Pts, Live, LiveIn
<1> SUFFICES row[n].status # "none" /\ row'[n].attempts >= row[n].attempts
  BY <1>1 DEF Live, LiveIn
<1>2. CASE row'[n] = row[n]
  BY <1>1, <1>2
<1>3. ASSUME NEW S \in SUBSET Pts, DeleteRows(S)
      PROVE  row'[n] = row[n]
  BY <1>1, <1>3 DEF DeleteRows, Absent
<1>4. ASSUME NEW p \in Producers, ProducerStep(p)
      PROVE  row'[n] = row[n]
  <2>1. CASE CommitTx(p)
    <3>1. prod[p].pts # n
      BY <2>1 DEF CommitTx, Complete, IInv, TxInv, TypeOK
    <3> QED
      BY <1>1, <2>1, <3>1 DEF CommitTx
  <2> QED
    BY <1>4, <2>1
    DEF ProducerStep, Reserve, ReservePts, InsertTask, InsertTaskHolding, AbortTx, dbVars
<1>5. ASSUME NEW w \in Workers, WorkerStep(w)
      PROVE  row[n].status # "none" /\ row'[n].attempts >= row[n].attempts
  <2>1. CASE Claim(w)
    BY <1>1, <2>1 DEF Claim, UpdateRow, Claimable, IInv, HeadInv, NoHead, Live, LiveIn
  <2>2. CASE MarkFailed(w)
    BY <1>1, <2>2 DEF MarkFailed, UpdateRow, Leased, LeasedByAnyone
  <2>3. CASE MarkDelivered(w)
    <3>1. work[w].pts \in Pts
      BY <2>3, BoundsAssumption DEF MarkDelivered, EndDelivered, IInv, TypeOK, ItemInv, Pts
    <3> QED
      BY <1>2, <1>3, <2>3, <3>1 DEF MarkDelivered, EndDelivered
  <2>4. CASE Load(w) \/ Push(w) \/ PushFails(w) \/ PushDeferred(w)
             \/ FenceDelivered(w) \/ Crash(w)
    BY <1>2, <2>4
    DEF Load, LoadElse, Push, PushFails, PushDeferred, FenceDelivered, Crash, dbVars
  <2> QED
    BY <1>5, <2>1, <2>2, <2>3, <2>4 DEF WorkerStep
<1>6. ASSUME NEW p \in Pts, TimerEnds(p)
      PROVE  row[n].status # "none" /\ row'[n].attempts >= row[n].attempts
  BY <1>1, <1>6 DEF TimerEnds, RowType
<1>7. CASE CleanerStep
  <2>1. CASE DeletePoison /\ PoisonReady
    <3>1. head.pts \in Pts
      BY <2>1 DEF PoisonReady, IInv, HeadInv, NoHead, Live, LiveIn
    <3> QED
      BY <1>2, <1>3, <2>1, <3>1 DEF DeletePoison
  <2> QED
    BY <1>2, <1>7, <2>1
    DEF CleanerStep, ListPoison, FencePoison, DeletePoison, AbortPoison, dbVars
<1>8. CASE PrunerStep
  <2>1. CASE DeletePrefix
    <3>1. DeleteRows({p \in Pts : floor < p /\ p <= pruner.cut} \cap Pts)
      BY <2>1 DEF DeletePrefix, DeletePrefixAnd
    <3> QED
      BY <1>2, <1>3, <3>1
  <2> QED
    BY <1>2, <1>8, <2>1 DEF PrunerStep, LockPrune, FencePrune, AbortPrune, dbVars
<1>9. CASE UNCHANGED vars
  BY <1>2, <1>9 DEF vars, dbVars
<1> QED
  BY <1>2, <1>4, <1>5, <1>6, <1>7, <1>8, <1>9 DEF Next

\* A worker is given an item by Claim alone.
LEMMA ItemsKept ==
  ASSUME IInv, [Next]_vars, NEW w \in Workers, work'[w].at # "idle", ~Claim(w)
  PROVE  work[w].at # "idle" /\ work'[w].pts = work[w].pts
         /\ work'[w].token = work[w].token
<1> USE DEF Goto, Retry, Idle
<1>1. work \in [Workers -> [at : {"idle", "claimed", "loaded", "sent", "fenced",
                                  "failing"}, pts : 0..MaxPts, token : Nat]]
  BY DEF IInv, TypeOK
<1>2. CASE work' = work
  BY <1>2
<1>3. ASSUME NEW v \in Workers, WorkerStep(v)
      PROVE  work[w].at # "idle" /\ work'[w].pts = work[w].pts
             /\ work'[w].token = work[w].token
  <2>1. CASE Claim(v)
    BY <1>1, <2>1 DEF Claim
  <2>2. CASE ~Claim(v)
    BY <1>1, <1>3, <2>2
    DEF WorkerStep, Load, LoadElse, Push, PushFails, PushDeferred, FenceDelivered,
        MarkDelivered, EndDelivered, MarkFailed, Crash
  <2> QED
    BY <2>1, <2>2
<1> QED
  BY <1>2, <1>3
  DEF Next, ProducerStep, Reserve, ReservePts, InsertTask, InsertTaskHolding, CommitTx,
      AbortTx, TimerEnds, CleanerStep, ListPoison, FencePoison, DeletePoison, AbortPoison,
      PrunerStep, LockPrune, FencePrune, DeletePrefix, DeletePrefixAnd, AbortPrune, vars, procVars

\* A claim's token is larger than every token given for the row before.
LEMMA NextTokenInv ==
  ASSUME IInv, TokenInv, [Next]_vars
  PROVE  TokenInv'
<1> USE DEF TokenInv
<1> SUFFICES ASSUME NEW w \in Workers, work'[w].at # "idle", work'[w].pts \in Live'
             PROVE  /\ work'[w].token <= row'[work'[w].pts].attempts
                    /\ \A v \in Workers \ {w} :
                         work'[v].at # "idle" /\ work'[v].pts = work'[w].pts =>
                           work'[v].token # work'[w].token
  OBVIOUS
<1>1. /\ work \in [Workers -> [at : {"idle", "claimed", "loaded", "sent", "fenced",
                                     "failing"}, pts : 0..MaxPts, token : Nat]]
      /\ row \in [Pts -> RowType]
      /\ \A v \in Workers : work[v].at # "idle" => work[v].pts \in 1..wm
  BY DEF IInv, TypeOK, ItemInv, RowType
<1>2. CASE \E c \in Workers : Claim(c)
  <2> PICK c \in Workers : Claim(c)
    BY <1>2
  <2>1. head.pts \in Live /\ head.pts \in Pts
    BY DEF Claim, Claimable, IInv, HeadInv, NoHead, Live, LiveIn
  <2> DEFINE t == row[head.pts].attempts + 1
  <2>2. /\ row' = [row EXCEPT ![head.pts] =
                     [status |-> "dispatching", attempts |-> t, due |-> FALSE,
                      marks |-> row[head.pts].marks]]
        /\ work' = [work EXCEPT ![c] = [at |-> "claimed", pts |-> head.pts, token |-> t]]
    BY DEF Claim, UpdateRow
  <2>3. /\ row'[head.pts].attempts = t
        /\ work'[c].pts = head.pts /\ work'[c].token = t
        /\ \A q \in Pts : q # head.pts => row'[q] = row[q]
        /\ \A v \in Workers : v # c => work'[v] = work[v]
    BY <1>1, <2>1, <2>2
  <2>4. ASSUME NEW v \in Workers, v # c, work[v].at # "idle", work[v].pts = head.pts
        PROVE  work[v].token < t
    BY <1>1, <2>1, <2>4 DEF RowType
  <2>5. CASE w = c
    <3>1. t \in Nat
      BY <1>1, <2>1 DEF RowType
    <3>2. \A v \in Workers \ {c} : work'[v].at # "idle" /\ work'[v].pts = head.pts =>
                                     work'[v].token # t
      BY <1>1, <2>3, <2>4, <3>1
    <3> HIDE DEF t
    <3> QED
      BY <2>3, <2>5, <3>1, <3>2
  <2>6. CASE w # c
    <3>1. work'[w] = work[w] /\ work[w].pts \in Pts
      BY <1>1, <2>3, <2>6, BoundsAssumption DEF IInv, TypeOK, Pts
    <3>2. work[w].pts \in Live
      BY <1>1, <3>1, RowsAge
    <3>3. CASE work[w].pts = head.pts
      <4>1. work[w].token < t /\ t \in Nat /\ work[w].token \in Nat
        BY <1>1, <2>1, <2>4, <2>6, <3>1, <3>3 DEF RowType
      <4>2. work[w].token <= t /\ t # work[w].token
        BY <4>1
      <4> HIDE DEF t
      <4> QED
        BY <2>3, <2>6, <3>1, <3>2, <3>3, <4>2
    <3>4. CASE work[w].pts # head.pts
      BY <2>3, <2>6, <3>1, <3>2, <3>4
    <3> QED
      BY <3>3, <3>4
  <2> QED
    BY <2>5, <2>6
<1>3. CASE ~\E c \in Workers : Claim(c)
  <2>1. /\ work[w].at # "idle" /\ work'[w].pts = work[w].pts
        /\ work'[w].token = work[w].token
    BY <1>3, ItemsKept
  <2>2. work[w].pts \in Live /\ row'[work[w].pts].attempts >= row[work[w].pts].attempts
    BY <1>1, <2>1, RowsAge
  <2>3. work[w].token <= row'[work[w].pts].attempts
    <3>1. work[w].pts \in Pts /\ row[work[w].pts].attempts \in Nat
          /\ work[w].token \in Nat
      BY <1>1, <2>2 DEF Live, LiveIn, RowType
    <3>2. row'[work[w].pts].attempts \in Nat
      BY <3>1, NextIInv DEF IInv, TypeOK
    <3> QED
      BY <2>1, <2>2, <3>1, <3>2
  <2>4. ASSUME NEW v \in Workers \ {w}, work'[v].at # "idle", work'[v].pts = work'[w].pts
        PROVE  work'[v].token # work'[w].token
    BY <1>3, <2>1, <2>2, <2>4, ItemsKept
  <2> QED
    BY <2>1, <2>3, <2>4
<1> QED
  BY <1>2, <1>3

\* While worker w's lease runs, a step of anyone else leaves its row alone or
\* prunes it.
LEMMA LeaseStep ==
  ASSUME IInv, TokenInv, [Next]_vars, NEW w \in Workers, LeaseRuns(w),
         work'[w] = work[w]
  PROVE  \/ row'[work[w].pts] = [row[work[w].pts] EXCEPT !.due = row'[work[w].pts].due]
         \/ work[w].pts <= floor'
<1> DEFINE n == work[w].pts
<1>1. /\ work \in [Workers -> [at : {"idle", "claimed", "loaded", "sent", "fenced",
                                     "failing"}, pts : 0..MaxPts, token : Nat]]
      /\ row \in [Pts -> RowType] /\ n \in 1..wm /\ n \in Pts
  <2>1. work[w].at # "idle"
    BY DEF LeaseRuns
  <2>2. n \in 1..wm /\ wm \in 0..MaxPts
    BY <2>1 DEF IInv, ItemInv, TypeOK
  <2>3. n \in Pts
    BY <2>2, BoundsAssumption DEF Pts
  <2> QED
    BY <2>2, <2>3 DEF IInv, TypeOK, RowType
<1>2. /\ work[w].at # "idle" /\ row[n].status = "dispatching" /\ ~row[n].due
      /\ row[n].attempts = work[w].token /\ n \in Live
  BY <1>1 DEF LeaseRuns, Leased, LeasedByAnyone, Live, LiveIn
<1> HIDE DEF n
<1> DEFINE Same == row'[n] = row[n]
<1>3. row[n] \in RowType
  BY <1>1
<1> SUFFICES \/ row'[n] = [row[n] EXCEPT !.due = row'[n].due]
             \/ n <= floor'
  BY DEF n
<1>4. ASSUME Same PROVE row'[n] = [row[n] EXCEPT !.due = row'[n].due]
  BY <1>3, <1>4 DEF RowType
<1>5. ASSUME NEW p \in Producers, ProducerStep(p) PROVE Same
  <2>1. CASE CommitTx(p)
    <3>1. prod[p].pts # n
      BY <1>1, <2>1 DEF CommitTx, Complete, IInv, TxInv, TypeOK
    <3> QED
      BY <1>1, <2>1, <3>1 DEF CommitTx
  <2> QED
    BY <1>5, <2>1
    DEF ProducerStep, Reserve, ReservePts, InsertTask, InsertTaskHolding, AbortTx, dbVars
<1>6. ASSUME NEW v \in Workers, WorkerStep(v) PROVE Same
  <2>1. CASE Claim(v)
    BY <1>1, <1>2, <2>1 DEF Claim, Claimable, UpdateRow
  <2>2. CASE MarkFailed(v) \/ MarkDelivered(v)
    <3>1. v # w
      BY <1>1, <2>2
      DEF MarkFailed, MarkDelivered, EndDelivered, Retry, Idle
    <3>2. Leased(v) => work[v].pts # n
      BY <1>1, <1>2, <2>2, <3>1
      DEF MarkFailed, MarkDelivered, EndDelivered, TokenInv, Leased, n
    <3> QED
      BY <1>1, <2>2, <3>2
      DEF MarkFailed, MarkDelivered, EndDelivered, UpdateRow, DeleteRows
  <2>3. CASE Load(v) \/ Push(v) \/ PushFails(v) \/ PushDeferred(v)
             \/ FenceDelivered(v) \/ Crash(v)
    BY <2>3
    DEF Load, LoadElse, Push, PushFails, PushDeferred, FenceDelivered, Crash, dbVars
  <2> QED
    BY <1>6, <2>1, <2>2, <2>3 DEF WorkerStep
<1>7. ASSUME NEW p \in Pts, TimerEnds(p)
      PROVE  row'[n] = [row[n] EXCEPT !.due = row'[n].due]
  BY <1>1, <1>3, <1>7 DEF TimerEnds, RowType
<1>8. CASE CleanerStep
  <2>1. CASE DeletePoison /\ PoisonReady
    <3>1. head.pts # n
      BY <1>2, <2>1 DEF PoisonReady, IInv, HeadInv
    <3> QED
      BY <1>1, <1>4, <2>1, <3>1 DEF DeletePoison, DeleteRows
  <2> QED
    BY <1>4, <1>8, <2>1
    DEF CleanerStep, ListPoison, FencePoison, DeletePoison, AbortPoison, dbVars
<1>9. CASE PrunerStep
  <2>1. CASE DeletePrefix
    <3>1. CASE n <= pruner.cut
      BY <2>1, <3>1 DEF DeletePrefix, DeletePrefixAnd
    <3>2. CASE ~(n <= pruner.cut)
      BY <1>1, <1>4, <2>1, <3>2 DEF DeletePrefix, DeletePrefixAnd, DeleteRows
    <3> QED
      BY <3>1, <3>2
  <2> QED
    BY <1>4, <1>9, <2>1 DEF PrunerStep, LockPrune, FencePrune, AbortPrune, dbVars
<1>10. CASE UNCHANGED vars
  BY <1>4, <1>10 DEF vars, dbVars
<1> QED
  BY <1>4, <1>5, <1>6, <1>7, <1>8, <1>9, <1>10 DEF Next

\* A worker whose lease was lost cannot mark the row another worker claimed.
THEOREM LeasesProtect == Spec => LeaseProtected
<1>1. Init => TokenInv
  BY DEF Init, TokenInv, Idle
<1>2. Spec => []TokenInv
  BY <1>1, Inductive, NextTokenInv, PTL DEF Spec
<1> DEFINE Step == \A w \in Workers :
       LeaseRuns(w) /\ work'[w] = work[w] =>
         \/ row'[work[w].pts] = [row[work[w].pts] EXCEPT !.due = row'[work[w].pts].due]
         \/ work[w].pts <= floor'
<1>3. IInv /\ TokenInv /\ [Next]_vars => [Step]_vars
  BY LeaseStep
<1> QED
  BY <1>2, <1>3, Inductive, PTL DEF Spec, LeaseProtected

-----------------------------------------------------------------------------
\* A step that leaves rows, pts, floor and history alone stutters in LaneQueue.
LEMMA LaneStutter ==
  ASSUME UNCHANGED <<row, wm, floor, pushed, abandoned>>
  PROVE  UNCHANGED Lane!queueVars
BY DEF Lane!queueVars, Live

\* The head is the oldest row, as LaneQueue sees it.
LEMMA HeadIsOldest ==
  ASSUME IInv, head.pts \in Live
  PROVE  Lane!Oldest(head.pts)
BY DEF IInv, HeadInv, Lane!Oldest

\* Each step of the tables is a step of the abstract queue.
LEMMA StepRefines ==
  ASSUME IInv, [Next]_vars
  PROVE  [Lane!QNext]_(Lane!queueVars)
<1> DEFINE Goal == [Lane!QNext]_(Lane!queueVars)
<1>0. IInv'
  BY NextIInv
<1>1. ASSUME NEW p \in Producers, ProducerStep(p) PROVE Goal
  <2>1. CASE CommitTx(p)
    <3>1. prod[p].pts = wm + 1 /\ wm < MaxPts /\ prod[p].pts \in Pts
      BY <2>1, BoundsAssumption DEF IInv, TypeOK, TxInv, CommitTx, Complete, Pts
    <3>2. Live' = IF prod[p].dispatch THEN Live \cup {wm + 1} ELSE Live
      BY <3>1, <2>1 DEF IInv, TypeOK, CommitTx, Live, LiveIn, Pending
    <3>3. Lane!Enqueue
      BY <3>1, <3>2, <2>1 DEF CommitTx, Lane!Enqueue
    <3> QED
      BY <3>3 DEF Lane!QNext
  <2>2. CASE ~CommitTx(p)
    BY <1>1, <2>2, LaneStutter
    DEF ProducerStep, Reserve, ReservePts, InsertTask, InsertTaskHolding, AbortTx,
        dbVars, histVars
  <2> QED
    BY <2>1, <2>2
<1>2. ASSUME NEW w \in Workers, WorkerStep(w) PROVE Goal
  <2>1. CASE Claim(w) \/ MarkFailed(w)
    <3>1. Live' = Live
      <4>1. CASE Claim(w)
        <5>1. head.pts \in Live
          BY <4>1 DEF IInv, HeadInv, NoHead, Claim, Claimable
        <5>2. row' = [row EXCEPT ![head.pts] =
                         [status |-> "dispatching",
                          attempts |-> row[head.pts].attempts + 1, due |-> FALSE,
                          marks |-> row[head.pts].marks]]
          BY <4>1 DEF Claim, UpdateRow
        <5>3. row \in [Pts -> [status : {"none", "pending", "dispatching", "failed"},
                               attempts : Nat, due : BOOLEAN, marks : Nat]]
          BY DEF IInv, TypeOK
        <5>4. head.pts \in Pts /\ row[head.pts].status # "none"
          BY <5>1 DEF Live, LiveIn
        <5> QED
          BY <5>2, <5>3, <5>4 DEF Live, LiveIn
      <4>2. CASE MarkFailed(w)
        <5> DEFINE n == work[w].pts
        <5>1. CASE ~Leased(w)
          BY <4>2, <5>1 DEF MarkFailed, Live
        <5>2. CASE Leased(w)
          <6>1. PICK s \in {"failed", "pending"} : row' = [row EXCEPT ![n] =
                  [status |-> s, attempts |-> row[n].attempts, due |-> FALSE,
                   marks |-> row[n].marks + 1]]
            BY <4>2, <5>2 DEF MarkFailed, UpdateRow
          <6>2. n \in Pts
            BY <4>2, <5>2, BoundsAssumption DEF MarkFailed, IInv, ItemInv, TypeOK, Pts
          <6>3. row[n].status = "dispatching"
            BY <5>2 DEF Leased, LeasedByAnyone
          <6>4. row \in [Pts -> [status : {"none", "pending", "dispatching", "failed"},
                                 attempts : Nat, due : BOOLEAN, marks : Nat]]
            BY DEF IInv, TypeOK
          <6> HIDE DEF n
          <6> QED
            BY <6>1, <6>2, <6>3, <6>4 DEF Live, LiveIn
        <5> QED
          BY <5>1, <5>2
      <4> QED
        BY <2>1, <4>1, <4>2
    <3>2. UNCHANGED <<wm, floor, pushed, abandoned>>
      BY <2>1 DEF Claim, MarkFailed, histVars
    <3> QED
      BY <3>1, <3>2 DEF Lane!queueVars
  <2>2. CASE Push(w)
    <3>1. work[w].pts \in 1..wm /\ \A p \in Live : work[w].pts <= p
      BY <2>2 DEF Push, IInv, ItemInv
    <3>2. Live' = Live /\ UNCHANGED <<wm, floor, abandoned>>
      BY <2>2 DEF Push, dbVars, Live
    <3>3. CASE work[w].pts \in Silent
      BY <2>2, <3>2, <3>3 DEF Push, Lane!queueVars
    <3>4. CASE work[w].pts \notin Silent
      <4>1. pushed' = pushed \cup {work[w].pts}
        BY <2>2, <3>4 DEF Push
      <4>2. work[w].pts \in Lane!Updates
        BY <3>1, BoundsAssumption DEF IInv, TypeOK, Lane!Updates
      <4>3. Lane!Send(work[w].pts)
        BY <3>1, <3>2, <4>1 DEF Lane!Send, Lane!Oldest, IInv, TypeOK
      <4> QED
        BY <4>2, <4>3 DEF Lane!QNext
    <3> QED
      BY <3>3, <3>4
  <2>3. CASE MarkDelivered(w)
    <3> DEFINE n == work[w].pts
    <3>1. UNCHANGED <<wm, floor, pushed, abandoned>>
      BY <2>3 DEF MarkDelivered, EndDelivered, histVars
    <3>2. CASE Leased(w)
      <4>1. n \in 1..wm /\ (\A p \in Live : n <= p) /\ n \in pushed \cup Silent
        BY <2>3 DEF MarkDelivered, EndDelivered, IInv, ItemInv
      <4>2. n \in Pts /\ n \in Live
        BY <3>2, <4>1, BoundsAssumption
        DEF Leased, LeasedByAnyone, Live, LiveIn, IInv, TypeOK, Pts
      <4>3. DeleteRows({n}) /\ TypeOK /\ HeadInv
        BY <2>3, <3>2 DEF MarkDelivered, EndDelivered, IInv
      <4>4. Live' = Live \ {n}
        BY <4>3, DeleteRowsKeepsHead
      <4>5. Lane!Settle(n)
        BY <3>1, <4>1, <4>2, <4>4 DEF Lane!Settle, Lane!Oldest
      <4> QED
        BY <4>2, <4>5 DEF Lane!QNext, Lane!Updates, Pts
    <3>3. CASE ~Leased(w)
      BY <2>3, <3>1, <3>3, LaneStutter DEF MarkDelivered, EndDelivered
    <3> QED
      BY <3>2, <3>3
  <2>4. CASE Load(w) \/ PushFails(w) \/ PushDeferred(w) \/ FenceDelivered(w) \/ Crash(w)
    BY <2>4, LaneStutter
    DEF Load, LoadElse, PushFails, PushDeferred, FenceDelivered, Crash, dbVars, histVars
  <2> QED
    BY <1>2, <2>1, <2>2, <2>3, <2>4 DEF WorkerStep
<1>3. ASSUME NEW p \in Pts, TimerEnds(p) PROVE Goal
  <2>1. Live' = Live
    BY <1>3 DEF TimerEnds, IInv, TypeOK, Live, LiveIn
  <2> QED
    BY <1>3, <2>1 DEF TimerEnds, Lane!queueVars, histVars
<1>4. CASE CleanerStep
  <2>1. CASE DeletePoison /\ PoisonReady
    <3>1. head.pts \in Live
      BY <2>1 DEF PoisonReady, IInv, HeadInv, NoHead
    <3>2. DeleteRows({head.pts}) /\ TypeOK /\ HeadInv
      BY <2>1 DEF DeletePoison, IInv
    <3>3. Live' = Live \ {head.pts}
      BY <3>2, DeleteRowsKeepsHead
    <3>4. Lane!GiveUp(head.pts)
      BY <2>1, <3>1, <3>3, HeadIsOldest DEF DeletePoison, Lane!GiveUp
    <3>5. head.pts \in Lane!Updates
      BY <3>1 DEF Lane!Updates, Live, LiveIn, Pts
    <3> QED
      BY <3>4, <3>5 DEF Lane!QNext
  <2>2. CASE ~(DeletePoison /\ PoisonReady)
    BY <1>4, <2>2, LaneStutter
    DEF CleanerStep, ListPoison, FencePoison, DeletePoison, AbortPoison, dbVars, histVars
  <2> QED
    BY <2>1, <2>2
<1>5. CASE PrunerStep
  <2>1. CASE DeletePrefix
    <3>1. /\ floor < pruner.cut /\ pruner.cut <= wm /\ pruner.cut \in 0..MaxPts
          /\ floor \in Nat /\ wm \in 0..MaxPts
      BY <2>1 DEF DeletePrefix, DeletePrefixAnd, IInv, TxInv, TypeOK
    <3>2. DeleteRows({p \in Pts : floor < p /\ p <= pruner.cut} \cap Pts)
          /\ TypeOK /\ HeadInv
      BY <2>1 DEF DeletePrefix, DeletePrefixAnd, IInv
    <3>3. Live' = Live \ ({p \in Pts : floor < p /\ p <= pruner.cut} \cap Pts)
      BY <3>2, DeleteRowsKeepsHead
    <3>4. \A p \in Live : p \in Pts /\ floor < p /\ p \in Nat
      BY BoundsAssumption DEF IInv, LogInv, Live, LiveIn, Pts
    <3>5. Live' = {v \in Live : v > pruner.cut}
      BY <3>1, <3>3, <3>4
    <3>6. UNCHANGED <<wm, pushed, abandoned>> /\ floor' = pruner.cut
      BY <2>1 DEF DeletePrefix, DeletePrefixAnd, histVars
    <3>7. Lane!Trim(pruner.cut)
      BY <3>1, <3>5, <3>6 DEF Lane!Trim
    <3>8. pruner.cut \in Lane!Updates
      BY <3>1, BoundsAssumption DEF Lane!Updates
    <3> QED
      BY <3>7, <3>8 DEF Lane!QNext
  <2>2. CASE ~DeletePrefix
    BY <1>5, <2>2, LaneStutter
    DEF PrunerStep, LockPrune, FencePrune, AbortPrune, dbVars, histVars
  <2> QED
    BY <2>1, <2>2
<1>6. CASE UNCHANGED vars
  BY <1>6, LaneStutter DEF vars, dbVars, histVars
<1> QED
  BY <1>1, <1>2, <1>3, <1>4, <1>5, <1>6 DEF Next

\* The outbox, with its locks, leases, crashes and janitors, implements the
\* queue of LaneQueue.
THEOREM Refinement == Spec => LaneSpec
<1>1. Init => Lane!QInit
  BY DEF Init, Lane!QInit, Live, LiveIn, Absent
<1>2. IInv /\ [Next]_vars => [Lane!QNext]_(Lane!queueVars)
  BY StepRefines
<1> QED
  BY <1>1, <1>2, Inductive, PTL DEF Spec, LaneSpec, Lane!QSpec
=============================================================================
