------------------------ MODULE AccountUpdatesProofs ------------------------
(***************************************************************************)
(* One account's log for every number of devices and handlers, every bound *)
(* on pts and on pages: what a device is told, what retention may take and *)
(* what no commit may undo.  Ordered (types, what a handler may answer)    *)
(* needs no assumption; Baseline needs that nobody signs in over a log-out *)
(* in progress, Covering that nobody repeats a getState in progress.       *)
(***************************************************************************)
EXTENDS AccountUpdates, FiniteSetTheorems, NaturalsInduction, WellFoundedInduction, TLAPS

Answered == {"ready", "written", "committed"}
Stages == {"free", "sent", "observed", "listing", "recheck"} \cup Answered
StatesUpTo(n) == [delivered : 0..n, observed : 0..n]
CallsUpTo(n) ==
  [at : Stages, kind : {"none", "diff", "state", "skip", "save"}, dev : Devices \cup {None},
   from : 0..n, top : 0..n, pts : 0..n, got : SUBSET (1..n), more : BOOLEAN, asked : BOOLEAN]

\* The log is the interval above the floor; a prune in progress is above it too.
Log ==
  /\ wm \in 0..MaxPts /\ floor \in 0..wm /\ pruner \in 0..wm
  /\ pruner # 0 => floor < pruner
  /\ events = (floor + 1)..wm

\* An answer that says "synchronised" was not overtaken.
Honest(r) ==
  r.at = "ready" /\ r.kind = "diff" /\ r.asked /\ r.got = {} /\ ~r.more => r.top <= r.from

\* A handler r under watermark w, floor f and authorizations A: only retention can
\* have emptied its page, and only a device signed in waits for its answer.
Orderly(r, w, f, A) ==
  /\ r.at = "free" => r.kind = "none" /\ ~r.asked
  /\ r.at # "free" => r.kind # "none" /\ r.dev \in Devices
  /\ r.at \in {"sent", "observed"} => r.top = 0
  /\ r.at = "listing" => r.kind = "diff" /\ r.from < w
  /\ r.at = "recheck" => r.kind = "diff" /\ r.from < f
  /\ r.at = "observed" => r.kind = "diff"
  /\ r.asked => r.dev \in A /\ r.kind \in {"diff", "state", "skip"}
  /\ Honest(r)

\* Nobody knows of more than was appended.
Ordered ==
  /\ Log
  /\ auth \subseteq Devices /\ leaving \subseteq Devices
  /\ states \in [Devices -> StatesUpTo(wm)]
  /\ calls \in [Calls -> CallsUpTo(wm)]
  /\ cursor \in [Devices -> 0..wm \cup {None}]
  /\ covered \in [Devices -> SUBSET (1..wm)]
  /\ \A c \in Calls : Orderly(calls[c], wm, floor, auth)

-----------------------------------------------------------------------------
\* What handler r rests on, with the clients' cursors K and what they have covered C:
\* a request carries a covered cursor; only a client that has a cursor, or may start
\* from 0, waits for a difference; a baseline on its way is covered, or its client has
\* no cursor until it comes; a page continues what is covered.
Backed(r, K, C, A) ==
  /\ r.kind = "diff" => 1..r.from \subseteq C[r.dev]
  /\ r.asked /\ r.dev \in Audited /\ r.kind \in {"diff", "skip"} => K[r.dev] # None
  /\ r.kind = "state" /\ r.dev \in Audited /\ r.dev \in A =>
       \/ K[r.dev] = None
       \/ r.at \in Answered /\ 1..r.pts \subseteq C[r.dev]
  /\ r.kind = "diff" /\ r.at \in Answered /\ r.asked =>
       1..r.pts \subseteq C[r.dev] \cup r.got

\* r is a snapshot the client of d waits for.
Snap(r, d) == r.kind = "state" /\ r.dev = d /\ r.asked /\ r.at \in Answered

\* Device d can do without the updates up to n: it has them, or its client has no
\* cursor and gets one only by a snapshot that is not older.
Spared(d, n, K, C, L) ==
  \/ 1..n \subseteq C[d]
  \/ /\ d \in Audited /\ K[d] = None
     /\ \A c \in Calls : Snap(L[c], d) => n <= L[c].pts

OneState ==
  \A b \in Calls : \A c \in Calls :
    calls[b].kind = "state" /\ calls[c].kind = "state" /\ calls[b].dev = calls[c].dev => b = c

NoGap == \A d \in Devices : cursor[d] # None => 1..cursor[d] \subseteq covered[d]

Marked ==
  \A d \in auth :
    /\ Spared(d, states[d].observed, cursor, covered, calls)
    /\ Spared(d, floor, cursor, covered, calls)
    /\ Spared(d, pruner, cursor, covered, calls)

Covering ==
  /\ \A c \in Calls : Backed(calls[c], cursor, covered, auth)
  /\ OneState
  /\ NoGap
  /\ Marked

-----------------------------------------------------------------------------
\* No device is both signed in and about to be cleared, and whoever is signed in has
\* observed what was or is being pruned.
Baseline ==
  /\ auth \cap leaving = {}
  /\ \A d \in auth : floor <= states[d].observed /\ pruner <= states[d].observed

-----------------------------------------------------------------------------
(* Handlers.                                                               *)

Saving(d, pts) == [Free EXCEPT !.at = "written", !.kind = "save", !.dev = d, !.pts = pts]
Request(kind, d, from) ==
  [Free EXCEPT !.at = "sent", !.kind = kind, !.dev = d, !.from = from, !.asked = TRUE]
Looked(r, from) == [r EXCEPT !.at = "observed", !.from = from]
Listing(r, top) == [r EXCEPT !.at = "listing", !.top = top]

\* A handler slot at rest.
LEMMA FreeCall ==
  ASSUME NEW w \in Nat
  PROVE  /\ Free \in CallsUpTo(w)
         /\ Free.at = "free" /\ Free.kind = "none" /\ Free.dev = None /\ Free.from = 0
         /\ Free.top = 0 /\ Free.pts = 0 /\ Free.got = {} /\ Free.more = FALSE
         /\ Free.asked = FALSE
  BY DEF Free, CallsUpTo, Stages, Answered

\* A request on its way.
LEMMA BegunCall ==
  ASSUME NEW d \in Devices, NEW kind \in {"diff", "state"}, NEW from
  PROVE  /\ Request(kind, d, from).at = "sent" /\ Request(kind, d, from).kind = kind
         /\ Request(kind, d, from).dev = d /\ Request(kind, d, from).from = from
         /\ Request(kind, d, from).asked /\ Request(kind, d, from).top = 0
         /\ \A w \in Nat : from \in 0..w => Request(kind, d, from) \in CallsUpTo(w)
  BY FreeCall, 0 \in Nat DEF Request, CallsUpTo, Stages, Answered

\* The origin's state is still to be saved.
LEMMA SavingCall ==
  ASSUME NEW d \in Devices, NEW pts
  PROVE  /\ Saving(d, pts).at = "written" /\ Saving(d, pts).kind = "save"
         /\ Saving(d, pts).dev = d /\ ~ Saving(d, pts).asked
         /\ \A w \in Nat : pts \in 0..w => Saving(d, pts) \in CallsUpTo(w)
  BY FreeCall, 0 \in Nat DEF Saving, CallsUpTo, Stages, Answered

\* A handler that only moves on keeps what it holds.
LEMMA MovedCall ==
  ASSUME NEW w \in Nat, NEW r \in CallsUpTo(w), NEW at \in Stages, NEW x,
         x = [r EXCEPT !.at = at]
  PROVE  /\ x \in CallsUpTo(w) /\ x.at = at
         /\ x.kind = r.kind /\ x.dev = r.dev /\ x.from = r.from /\ x.top = r.top
         /\ x.pts = r.pts /\ x.got = r.got /\ x.more = r.more /\ x.asked = r.asked
  BY DEF CallsUpTo

\* A handler whose client forgot it goes on as before.
LEMMA ForgottenCall ==
  ASSUME NEW w \in Nat, NEW r \in CallsUpTo(w), NEW x, x = [r EXCEPT !.asked = FALSE]
  PROVE  /\ x \in CallsUpTo(w) /\ x.asked = FALSE
         /\ x.at = r.at /\ x.kind = r.kind /\ x.dev = r.dev /\ x.from = r.from
         /\ x.top = r.top /\ x.pts = r.pts /\ x.got = r.got /\ x.more = r.more
  BY DEF CallsUpTo

\* The cursor of a request, looked at.
LEMMA ObservedCall ==
  ASSUME NEW w \in Nat, NEW r \in CallsUpTo(w), NEW from \in 0..w, NEW x,
         x = Looked(r, from)
  PROVE  /\ x \in CallsUpTo(w) /\ x.at = "observed" /\ x.from = from
         /\ x.kind = r.kind /\ x.dev = r.dev /\ x.top = r.top /\ x.asked = r.asked
  BY DEF Looked, CallsUpTo, Stages, Answered

\* The account's pts, read before the page.
LEMMA ListingCall ==
  ASSUME NEW w \in Nat, NEW r \in CallsUpTo(w), NEW top \in 0..w, NEW x,
         x = Listing(r, top)
  PROVE  /\ x \in CallsUpTo(w) /\ x.at = "listing"
         /\ x.kind = r.kind /\ x.dev = r.dev /\ x.from = r.from /\ x.asked = r.asked
  BY DEF Listing, CallsUpTo, Stages, Answered

\* A request that becomes a reset.
LEMMA SkippingCall ==
  ASSUME NEW w \in Nat, NEW r \in CallsUpTo(w), NEW x, x = [r EXCEPT !.kind = "skip"]
  PROVE  /\ x \in CallsUpTo(w) /\ x.kind = "skip"
         /\ x.at = r.at /\ x.dev = r.dev /\ x.from = r.from /\ x.asked = r.asked
  BY DEF CallsUpTo

\* An answer.
LEMMA ReadyCall ==
  ASSUME NEW w \in Nat, NEW r \in CallsUpTo(w), NEW pts \in 0..w,
         NEW got \in SUBSET (1..w), NEW more \in BOOLEAN, NEW x,
         x = Ready(r, pts, got, more)
  PROVE  /\ x \in CallsUpTo(w)
         /\ x.at = "ready" /\ x.pts = pts /\ x.got = got /\ x.more = more
         /\ x.kind = r.kind /\ x.dev = r.dev /\ x.from = r.from /\ x.top = r.top
         /\ x.asked = r.asked
  BY DEF Ready, CallsUpTo, Stages, Answered

\* What a handler knows does not grow with the log.
LEMMA CallsGrow ==
  ASSUME NEW w \in Nat, NEW v \in Nat, w <= v
  PROVE  CallsUpTo(w) \subseteq CallsUpTo(v)
<1>1. 0..w \subseteq 0..v /\ 1..w \subseteq 1..v
  OBVIOUS
<1> QED
  BY <1>1 DEF CallsUpTo

\* The rows of update_states, raised.
LEMMA RaisedRow ==
  ASSUME NEW w \in Nat, NEW s \in StatesUpTo(w), NEW a \in 0..w, NEW b \in 0..w
  PROVE  /\ Raised(s, a, b) \in StatesUpTo(w)
         /\ s.delivered <= Raised(s, a, b).delivered
         /\ Raised(s, a, b).observed = Larger(s.observed, b)
         /\ s.observed <= Raised(s, a, b).observed /\ b <= Raised(s, a, b).observed
  BY DEF Raised, Larger, StatesUpTo

\* Neither does what a row says.
LEMMA RowsGrow ==
  ASSUME NEW w \in Nat, NEW v \in Nat, w <= v
  PROVE  StatesUpTo(w) \subseteq StatesUpTo(v)
  BY DEF StatesUpTo

-----------------------------------------------------------------------------
(* The page.                                                               *)

\* A nonempty set of numbers up to n has a largest one (contiguousPrefix's last event).
LEMMA GreatestExists ==
  ASSUME NEW n \in Nat, NEW S \in SUBSET (0..n), S # {}
  PROVE  \E p \in S : \A q \in S : q <= p
<1> DEFINE T == {x \in 0..n : n - x \in S}
<1>1. IsWellFoundedOn(OpToRel(<, Nat), Nat)
  BY NatLessThanWellFounded
<1>2. T \in SUBSET Nat /\ T # {}
  <2>1. PICK q \in S : TRUE
    OBVIOUS
  <2>2. n - q \in 0..n /\ n - (n - q) = q
    BY <2>1
  <2>3. n - q \in T
    BY <2>2
  <2> QED
    BY <2>3
<1> HIDE DEF T
<1>3. PICK x \in T : \A y \in T : ~ (<<y, x>> \in OpToRel(<, Nat))
  BY <1>1, <1>2, WFMin
<1>4. \A y \in T : ~ (y < x)
  BY <1>2, <1>3 DEF OpToRel
<1>5. x \in 0..n /\ n - x \in S
  BY DEF T
<1>6. ASSUME NEW q \in S
      PROVE  q <= n - x
  <2>1. n - q \in 0..n /\ n - (n - q) = q
    OBVIOUS
  <2>2. n - q \in T
    BY <2>1 DEF T
  <2> QED
    BY <1>4, <1>5, <2>1, <2>2
<1> QED
  BY <1>5, <1>6

\* A page starts behind the cursor and has every update up to its last one.
LEMMA PageIsContiguous ==
  ASSUME Log, NEW from \in 0..wm, Contiguous(from) # {}
  PROVE  /\ Contiguous(from) \in SUBSET (1..wm)
         /\ LastOf(from, Contiguous(from)) \in 0..wm
         /\ 1..LastOf(from, Contiguous(from)) \subseteq 1..from \cup Contiguous(from)
<1> DEFINE got == Contiguous(from)
           last == CHOOSE p \in got : \A q \in got : q <= p
<1>1. events \subseteq 1..wm /\ wm \in Nat /\ from \in Nat
  BY LimitsAssumption DEF Log
<1>2. got \in SUBSET (1..wm) /\ got \in SUBSET (0..wm)
  <2>1. \A p \in got : p \in events
    BY DEF Contiguous, Page
  <2>2. 1..wm \subseteq 0..wm
    BY <1>1
  <2> HIDE DEF got
  <2>3. \A p \in got : p \in 1..wm
    BY <1>1, <2>1
  <2> QED
    BY <2>2, <2>3
<1>3. \E p \in got : \A q \in got : q <= p
  BY <1>1, <1>2, GreatestExists
<1>4. last \in got
  BY <1>3
<1>5. LastOf(from, got) = last
  BY DEF LastOf
<1>6. \A q \in got : q \in Page(from) /\ \A p \in (from + 1)..q : p \in Page(from)
  BY DEF Contiguous
<1>7. ASSUME NEW q \in 1..last, q \notin 1..from
      PROVE  q \in got
  <2>1. q \in (from + 1)..last /\ q \in Nat /\ last \in Nat
    BY <1>1, <1>2, <1>4, <1>7
  <2>2. q \in Page(from)
    BY <1>4, <1>6, <2>1
  <2>3. \A p \in (from + 1)..q : p \in (from + 1)..last
    BY <1>1, <2>1
  <2>4. \A p \in (from + 1)..q : p \in Page(from)
    BY <1>4, <1>6, <2>3
  <2> QED
    BY <2>2, <2>4 DEF Contiguous
<1> QED
  BY <1>2, <1>4, <1>5, <1>7

\* ListAfter finds nothing behind a cursor only when retention took what followed it.
LEMMA EmptyPageIsOvertaken ==
  ASSUME Log, NEW from \in 0..wm, from < wm, Contiguous(from) = {}
  PROVE  from < floor
<1>1. wm \in Nat /\ floor \in Nat /\ from \in Nat /\ PageLimit \in Nat \ {0}
  BY LimitsAssumption DEF Log
<1>2. SUFFICES ASSUME floor <= from
               PROVE  FALSE
  BY <1>1
<1>3. from + 1 \in events
  BY <1>1, <1>2 DEF Log
<1>4. {q \in events : from < q /\ q <= from + 1} = {from + 1}
  BY <1>1, <1>3 DEF Log
<1>5. Cardinality({from + 1}) = 1
  BY FS_Singleton, Zenon
<1>6. from + 1 \in Page(from)
  BY <1>1, <1>3, <1>4, <1>5 DEF Page
<1>7. (from + 1)..(from + 1) = {from + 1}
  BY <1>1
<1>8. from + 1 \in Contiguous(from)
  BY <1>6, <1>7 DEF Contiguous
<1> QED
  BY <1>8

-----------------------------------------------------------------------------
(* Order.                                                                  *)

\* A handler stays in order while the log grows and its client stays signed in.
LEMMA OrderlyLater ==
  ASSUME NEW w \in Nat, NEW v \in Nat, w <= v, NEW f \in Nat, NEW g \in Nat, f <= g,
         NEW r \in CallsUpTo(w), NEW A, NEW B, r.asked => r.dev \in B, Orderly(r, w, f, A)
  PROVE  Orderly(r, v, g, B)
<1>1. r.from \in Nat
  BY DEF CallsUpTo
<1> QED
  BY <1>1 DEF Orderly

\* A slot at rest is in order.
LEMMA OrderlyFree ==
  ASSUME NEW w, NEW f, NEW A
  PROVE  Orderly(Free, w, f, A)
  BY FreeCall, 0 \in Nat DEF Orderly, Honest

\* A handler its client forgot stays in order, whoever is signed in.
LEMMA OrderlyForgotten ==
  ASSUME NEW w \in Nat, NEW f, NEW A, NEW B, NEW r \in CallsUpTo(w), Orderly(r, w, f, A)
  PROVE  Orderly([r EXCEPT !.asked = FALSE], w, f, B)
<1> DEFINE x == [r EXCEPT !.asked = FALSE]
<1>1. /\ x.asked = FALSE
      /\ x.at = r.at /\ x.kind = r.kind /\ x.dev = r.dev /\ x.from = r.from
      /\ x.top = r.top
  BY ForgottenCall
<1> HIDE DEF x
<1>2. Orderly(x, w, f, B)
  BY <1>1 DEF Orderly, Honest
<1> QED
  BY <1>2 DEF x

\* Forgetting d's requests leaves the handlers in order without d.
LEMMA ForgetIsOrderly ==
  ASSUME Ordered, NEW d, Forget(d), NEW B, auth \ {d} \subseteq B
  PROVE  /\ calls' \in [Calls -> CallsUpTo(wm)]
         /\ \A c \in Calls : Orderly(calls'[c], wm, floor, B)
<1>1. wm \in Nat /\ floor \in Nat
  BY LimitsAssumption DEF Ordered, Log
<1>2. ASSUME NEW c \in Calls
      PROVE  calls'[c] \in CallsUpTo(wm) /\ Orderly(calls'[c], wm, floor, B)
  <2> DEFINE r == calls[c]
  <2>1. r \in CallsUpTo(wm) /\ Orderly(r, wm, floor, auth)
    BY DEF Ordered
  <2>2. calls'[c] = IF r.dev # d THEN r
                    ELSE IF r.at = "committed" THEN Free ELSE [r EXCEPT !.asked = FALSE]
    BY DEF Forget
  <2> HIDE DEF r
  <2>3. CASE r.dev # d
    <3>1. r.asked => r.dev \in B
      BY <2>1, <2>3 DEF Orderly
    <3>2. Orderly(r, wm, floor, B)
      BY <1>1, <2>1, <3>1, OrderlyLater
    <3> QED
      BY <2>1, <2>2, <2>3, <3>2
  <2>4. CASE r.dev = d /\ r.at = "committed"
    BY <1>1, <2>2, <2>4, FreeCall, OrderlyFree
  <2>5. CASE r.dev = d /\ r.at # "committed"
    <3>1. Orderly([r EXCEPT !.asked = FALSE], wm, floor, B)
      BY <1>1, <2>1, OrderlyForgotten
    <3>2. [r EXCEPT !.asked = FALSE] \in CallsUpTo(wm)
      BY <1>1, <2>1, ForgottenCall
    <3> QED
      BY <2>2, <2>5, <3>1, <3>2
  <2> QED
    BY <2>3, <2>4, <2>5
<1>3. calls' = [c \in Calls |-> calls'[c]]
  BY DEF Forget
<1> QED
  BY <1>2, <1>3

\* One handler moves, the log and the floor do not fall.
LEMMA OneCallIsOrdered ==
  ASSUME Ordered, NEW c \in Calls, NEW x, calls' = [calls EXCEPT ![c] = x],
         Log', wm <= wm', floor <= floor', UNCHANGED <<auth, leaving, clients>>,
         states' \in [Devices -> StatesUpTo(wm')],
         x \in CallsUpTo(wm'), Orderly(x, wm', floor', auth)
  PROVE  Ordered'
<1>1. wm \in Nat /\ floor \in Nat /\ wm' \in Nat /\ floor' \in Nat
  BY LimitsAssumption DEF Ordered, Log
<1>2. auth' = auth /\ leaving' = leaving /\ cursor' = cursor /\ covered' = covered
  BY DEF clients
<1>3. ASSUME NEW b \in Calls
      PROVE  calls'[b] \in CallsUpTo(wm') /\ Orderly(calls'[b], wm', floor', auth')
  <2>1. CASE b = c
    <3>1. calls'[b] = x
      BY <2>1 DEF Ordered
    <3> QED
      BY <1>2, <3>1
  <2>2. CASE b # c
    <3>1. calls'[b] = calls[b]
      BY <2>2 DEF Ordered
    <3>2. calls[b] \in CallsUpTo(wm) /\ Orderly(calls[b], wm, floor, auth)
      BY DEF Ordered
    <3>3. calls[b].asked => calls[b].dev \in auth
      BY <3>2 DEF Orderly
    <3>4. Orderly(calls[b], wm', floor', auth)
      BY <1>1, <3>2, <3>3, OrderlyLater
    <3> QED
      BY <1>1, <1>2, <3>1, <3>2, <3>4, CallsGrow
  <2> QED
    BY <2>1, <2>2
<1>4. calls' \in [Calls -> CallsUpTo(wm')]
  <2>1. calls' = [b \in Calls |-> calls'[b]]
    BY DEF Ordered
  <2> QED
    BY <1>3, <2>1
<1>5. cursor' \in [Devices -> 0..wm' \cup {None}]
  <2>1. 0..wm \subseteq 0..wm'
    BY <1>1
  <2> QED
    BY <1>2, <2>1 DEF Ordered
<1>6. covered' \in [Devices -> SUBSET (1..wm')]
  <2>1. 1..wm \subseteq 1..wm'
    BY <1>1
  <2> QED
    BY <1>2, <2>1 DEF Ordered
<1> QED
  BY <1>2, <1>3, <1>4, <1>5, <1>6 DEF Ordered

\* Nothing has happened yet.
LEMMA InitIsOrdered == Init => Ordered
<1> SUFFICES ASSUME Init
             PROVE  Ordered
  OBVIOUS
<1>1. Log
  BY LimitsAssumption DEF Init, Log
<1>2. calls \in [Calls -> CallsUpTo(wm)] /\ \A c \in Calls : calls[c] = Free
  BY LimitsAssumption, FreeCall DEF Init
<1>3. \A c \in Calls : Orderly(calls[c], wm, floor, auth)
  BY <1>2, OrderlyFree
<1>4. states \in [Devices -> StatesUpTo(wm)]
  BY DEF Init, StatesUpTo, NoState
<1> QED
  BY <1>1, <1>2, <1>3, <1>4 DEF Init, Ordered

\* The log moves alone: an update is appended, a prune begins, ends or is given up.
LEMMA LogStepIsOrdered ==
  ASSUME Ordered, LogStep
  PROVE  /\ Ordered'
         /\ UNCHANGED <<auth, states, leaving, calls, clients>>
         /\ wm <= wm' /\ floor <= floor'
<1>1. wm \in Nat /\ floor \in Nat /\ pruner \in Nat /\ MaxPts \in Nat
  BY LimitsAssumption DEF Ordered, Log
<1>2. /\ UNCHANGED <<auth, states, leaving, calls, clients>>
      /\ Log' /\ wm <= wm' /\ floor <= floor'
  <2>1. CASE Publish
    <3>1. events' = (floor' + 1)..wm'
      BY <1>1, <2>1 DEF Publish, AppendEvent, Ordered, Log
    <3> QED
      BY <1>1, <2>1, <3>1 DEF Publish, AppendEvent, Ordered, Log
  <2>2. CASE \E n \in Pts : BeginPrune(n)
    BY <1>1, <2>2 DEF BeginPrune, Pts, Ordered, Log
  <2>3. CASE CommitPrune
    <3>1. events' = (floor' + 1)..wm'
      BY <1>1, <2>3 DEF CommitPrune, Ordered, Log
    <3> QED
      BY <1>1, <2>3, <3>1 DEF CommitPrune, Ordered, Log
  <2>4. CASE AbortPrune
    BY <1>1, <2>4 DEF AbortPrune, Ordered, Log
  <2> QED
    BY <2>1, <2>2, <2>3, <2>4 DEF LogStep
<1>3. wm' \in Nat /\ floor' \in Nat
  BY <1>2 DEF Log
<1>4. auth' = auth /\ leaving' = leaving /\ cursor' = cursor /\ covered' = covered
      /\ calls' = calls /\ states' = states
  BY <1>2 DEF clients
<1>5. \A c \in Calls : Orderly(calls'[c], wm', floor', auth')
  <2>1. SUFFICES ASSUME NEW c \in Calls
                 PROVE  Orderly(calls[c], wm', floor', auth)
    BY <1>4
  <2>2. calls[c] \in CallsUpTo(wm) /\ Orderly(calls[c], wm, floor, auth)
    BY DEF Ordered
  <2>3. calls[c].asked => calls[c].dev \in auth
    BY <2>2 DEF Orderly
  <2> QED
    BY <1>1, <1>2, <1>3, <2>2, <2>3, OrderlyLater
<1>6. CallsUpTo(wm) \subseteq CallsUpTo(wm') /\ StatesUpTo(wm) \subseteq StatesUpTo(wm')
  BY <1>1, <1>2, <1>3, CallsGrow, RowsGrow
<1>7. 0..wm \subseteq 0..wm' /\ 1..wm \subseteq 1..wm'
  BY <1>1, <1>2, <1>3
<1>8. /\ states' \in [Devices -> StatesUpTo(wm')]
      /\ calls' \in [Calls -> CallsUpTo(wm')]
      /\ cursor' \in [Devices -> 0..wm' \cup {None}]
      /\ covered' \in [Devices -> SUBSET (1..wm')]
  BY <1>4, <1>6, <1>7 DEF Ordered
<1>9. auth' \subseteq Devices /\ leaving' \subseteq Devices
  BY <1>4 DEF Ordered
<1> QED
  BY <1>2, <1>5, <1>8, <1>9 DEF Ordered

\* Without the log, the order rests on the types of what changes.
LEMMA StillOrdered ==
  ASSUME Ordered, UNCHANGED tables, auth' \subseteq Devices, leaving' \subseteq Devices,
         states' \in [Devices -> StatesUpTo(wm)],
         calls' \in [Calls -> CallsUpTo(wm)],
         cursor' \in [Devices -> 0..wm \cup {None}],
         covered' \in [Devices -> SUBSET (1..wm)],
         \A c \in Calls : Orderly(calls'[c], wm, floor, auth')
  PROVE  Ordered'
<1>1. wm' = wm /\ events' = events /\ floor' = floor /\ pruner' = pruner
  BY DEF tables
<1>2. Log'
  BY <1>1 DEF Ordered, Log
<1> QED
  BY <1>1, <1>2 DEF Ordered

\* Sign-ins, revocations, log-outs and restarts.
LEMMA SigningIsOrdered ==
  ASSUME Ordered, NEW d \in Devices,
         Bind(d) \/ Revoke(d) \/ LogOut(d) \/ ClearAuthKey(d) \/ Restart(d)
  PROVE  Ordered'
<1>1. wm \in Nat /\ floor \in 0..wm
  BY LimitsAssumption DEF Ordered, Log
<1>2. NoState \in StatesUpTo(wm)
  BY <1>1 DEF NoState, StatesUpTo
<1>3. CASE Bind(d)
  <2>1. Raised(states[d], wm, floor) \in StatesUpTo(wm)
    BY <1>1, RaisedRow DEF Ordered
  <2>2. states' \in [Devices -> StatesUpTo(wm)]
    BY <1>3, <2>1 DEF Bind, BindWith, Ordered
  <2>3. /\ calls' \in [Calls -> CallsUpTo(wm)]
        /\ \A c \in Calls : Orderly(calls'[c], wm, floor, auth')
    BY <1>3, ForgetIsOrderly DEF Bind, BindWith
  <2> QED
    BY <1>3, <2>2, <2>3, StillOrdered DEF Bind, BindWith, Ordered
<1>4. CASE Revoke(d)
  <2>1. /\ calls' \in [Calls -> CallsUpTo(wm)]
        /\ \A c \in Calls : Orderly(calls'[c], wm, floor, auth')
    BY <1>4, ForgetIsOrderly DEF Revoke
  <2> QED
    BY <1>2, <1>4, <2>1, StillOrdered DEF Revoke, Ordered, clients
<1>5. CASE LogOut(d)
  <2>1. /\ calls' \in [Calls -> CallsUpTo(wm)]
        /\ \A c \in Calls : Orderly(calls'[c], wm, floor, auth')
    BY <1>5, ForgetIsOrderly DEF LogOut
  <2> QED
    BY <1>5, <2>1, StillOrdered DEF LogOut, Ordered, clients
<1>6. CASE ClearAuthKey(d)
  BY <1>2, <1>6, StillOrdered DEF ClearAuthKey, Ordered, clients
<1>7. CASE Restart(d)
  <2>1. /\ calls' \in [Calls -> CallsUpTo(wm)]
        /\ \A c \in Calls : Orderly(calls'[c], wm, floor, auth')
    BY <1>7, ForgetIsOrderly DEF Restart
  <2> QED
    BY <1>7, <2>1, StillOrdered DEF Restart, Ordered
<1> QED
  BY <1>3, <1>4, <1>5, <1>6, <1>7

\* A statement of handler c that leaves the log alone.
LEMMA StepIsOrdered ==
  ASSUME Ordered, NEW c \in Calls, NEW x, Step(c, x), states' \in [Devices -> StatesUpTo(wm)],
         x \in CallsUpTo(wm), Orderly(x, wm, floor, auth)
  PROVE  Ordered'
<1>1. /\ wm' = wm /\ floor' = floor /\ pruner' = pruner /\ events' = events
      /\ calls' = [calls EXCEPT ![c] = x] /\ UNCHANGED <<auth, leaving, clients>>
  BY DEF Step, tables
<1>2. Log' /\ wm <= wm' /\ floor <= floor'
  BY <1>1, LimitsAssumption DEF Ordered, Log
<1> HIDE DEF Step
<1> QED
  BY <1>1, <1>2, OneCallIsOrdered

\* The answers of a handler in order: what it reads of the log is in order too.
LEMMA AnswerIsOrderly ==
  ASSUME NEW w \in Nat, NEW f, NEW A, NEW r \in CallsUpTo(w), Orderly(r, w, f, A),
         r.at # "free", NEW pts \in 0..w, NEW got \in SUBSET (1..w), NEW more \in BOOLEAN,
         r.kind = "diff" /\ r.asked /\ got = {} /\ ~more => r.top <= r.from
  PROVE  /\ Ready(r, pts, got, more) \in CallsUpTo(w)
         /\ Orderly(Ready(r, pts, got, more), w, f, A)
<1> DEFINE x == Ready(r, pts, got, more)
<1>1. /\ x \in CallsUpTo(w)
      /\ x.at = "ready" /\ x.got = got /\ x.more = more
      /\ x.kind = r.kind /\ x.dev = r.dev /\ x.from = r.from /\ x.top = r.top
      /\ x.asked = r.asked
  BY ReadyCall
<1> HIDE DEF x
<1>2. Orderly(x, w, f, A)
  BY <1>1 DEF Orderly, Honest
<1> QED
  BY <1>1, <1>2 DEF x

\* A request is recorded or asked.
LEMMA AskingIsOrdered ==
  ASSUME Ordered, NEW d \in Devices, NEW c \in Calls,
         Record(d, c) \/ AskDifference(d, c) \/ AskState(d, c)
  PROVE  Ordered'
<1>1. wm \in Nat /\ floor \in 0..wm /\ MaxPts \in Nat
  BY LimitsAssumption DEF Ordered, Log
<1>2. CASE Record(d, c)
  <2> DEFINE x == Saving(d, wm + 1)
  <2>1. /\ wm' = wm + 1 /\ floor' = floor /\ calls' = [calls EXCEPT ![c] = x]
        /\ UNCHANGED <<auth, leaving, clients, states>>
    BY <1>2 DEF Record, AppendEvent, Saving
  <2>2. Log'
    <3>1. events' = (floor' + 1)..wm'
      BY <1>1, <1>2 DEF Record, AppendEvent, Ordered, Log
    <3> QED
      BY <1>1, <1>2, <3>1 DEF Record, AppendEvent, Ordered, Log
  <2>3. /\ x \in CallsUpTo(wm') /\ x.at = "written" /\ x.kind = "save" /\ x.dev = d
        /\ ~ x.asked
    <3>1. wm' \in Nat /\ wm + 1 \in 0..wm' /\ wm + 1 = wm'
      BY <1>1, <2>1
    <3> QED
      BY <3>1, SavingCall
  <2> HIDE DEF x
  <2>4. Orderly(x, wm', floor', auth)
    BY <2>3 DEF Orderly, Honest
  <2>5. states' \in [Devices -> StatesUpTo(wm')] /\ wm <= wm' /\ floor <= floor'
    <3>1. StatesUpTo(wm) \subseteq StatesUpTo(wm')
      BY <1>1, <2>1, RowsGrow
    <3> QED
      BY <1>1, <2>1, <3>1 DEF Ordered
  <2> QED
    BY <2>1, <2>2, <2>3, <2>4, <2>5, OneCallIsOrdered
<1>3. ASSUME NEW kind \in {"diff", "state"}, NEW from \in 0..wm, d \in auth,
             Begin(c, kind, d, from)
      PROVE  Ordered'
  <2> DEFINE x == Request(kind, d, from)
  <2>1. Step(c, x) /\ states' = states
    BY <1>3 DEF Begin, Step, Request
  <2>2. /\ x \in CallsUpTo(wm) /\ x.at = "sent" /\ x.kind = kind /\ x.dev = d
        /\ x.asked /\ x.top = 0
    BY <1>1, BegunCall
  <2> HIDE DEF x
  <2>3. Orderly(x, wm, floor, auth)
    BY <1>3, <2>2 DEF Orderly, Honest
  <2> QED
    BY <2>1, <2>2, <2>3, StepIsOrdered DEF Ordered
<1>4. CASE AskDifference(d, c)
  <2>1. (IF cursor[d] = None THEN 0 ELSE cursor[d]) \in 0..wm
    BY <1>1 DEF Ordered
  <2> QED
    BY <1>3, <1>4, <2>1 DEF AskDifference
<1>5. CASE AskState(d, c)
  <2>1. 0 \in 0..wm
    BY <1>1
  <2> QED
    BY <1>3, <1>5, <2>1 DEF AskState
<1> QED
  BY <1>2, <1>4, <1>5

\* Reading the log for an answer: each of the three statements of getDifference.
LEMMA ReadingIsOrdered ==
  ASSUME Ordered, NEW c \in Calls, Probe(c) \/ List(c) \/ Recheck(c)
  PROVE  Ordered'
<1> DEFINE r == calls[c]
<1>1. wm \in Nat /\ floor \in 0..wm /\ wm \in 0..wm /\ Log
  BY LimitsAssumption DEF Ordered, Log
<1>2. r \in CallsUpTo(wm) /\ Orderly(r, wm, floor, auth)
  BY DEF Ordered
<1>3. r.from \in 0..wm /\ r.top \in 0..wm
  BY <1>2 DEF CallsUpTo
<1>4. SUFFICES \E x : /\ Step(c, x) /\ states' = states
                      /\ x \in CallsUpTo(wm) /\ Orderly(x, wm, floor, auth)
  BY StepIsOrdered DEF Ordered
<1>5. Free \in CallsUpTo(wm) /\ Orderly(Free, wm, floor, auth)
  BY <1>1, FreeCall, OrderlyFree
<1>6. CASE Probe(c)
  <2>1. /\ r.at = "observed"
        /\ Step(c, IF BaselineBroken(r.dev) THEN Free
                   ELSE IF BelowFloor(r) THEN Ready(r, floor, {}, TRUE)
                   ELSE IF r.from >= wm THEN Ready(r, wm, {}, FALSE)
                   ELSE Listing(r, wm))
        /\ states' = states
    BY <1>6 DEF Probe, Listing
  <2> HIDE DEF r
  <2>2. r.kind = "diff" /\ r.top = 0 /\ r.top <= r.from
    BY <1>2, <1>3, <2>1 DEF Orderly
  <2>3. /\ Ready(r, floor, {}, TRUE) \in CallsUpTo(wm)
        /\ Orderly(Ready(r, floor, {}, TRUE), wm, floor, auth)
    BY <1>1, <1>2, <2>1, AnswerIsOrderly
  <2>4. /\ Ready(r, wm, {}, FALSE) \in CallsUpTo(wm)
        /\ Orderly(Ready(r, wm, {}, FALSE), wm, floor, auth)
    BY <1>1, <1>2, <2>1, <2>2, AnswerIsOrderly
  <2>5. ASSUME ~ (r.from >= wm)
        PROVE  /\ Listing(r, wm) \in CallsUpTo(wm)
               /\ Orderly(Listing(r, wm), wm, floor, auth)
    <3> DEFINE x == Listing(r, wm)
    <3>1. /\ x \in CallsUpTo(wm) /\ x.at = "listing"
          /\ x.kind = r.kind /\ x.dev = r.dev /\ x.from = r.from /\ x.asked = r.asked
      BY <1>1, <1>2, ListingCall
    <3>2. x.from < wm
      BY <1>1, <1>3, <2>5, <3>1
    <3> HIDE DEF x
    <3>3. Orderly(x, wm, floor, auth)
      BY <1>2, <2>1, <2>2, <3>1, <3>2 DEF Orderly, Honest
    <3> QED
      BY <3>1, <3>3 DEF x
  <2> QED
    BY <1>5, <2>1, <2>3, <2>4, <2>5
<1>7. CASE List(c)
  <2> DEFINE got == Contiguous(r.from)
  <2>1. /\ r.at = "listing"
        /\ Step(c, IF got = {} THEN [r EXCEPT !.at = "recheck"]
                   ELSE Ready(r, LastOf(r.from, got), got, Cardinality(got) = PageLimit))
        /\ states' = states
    BY <1>7 DEF List, ListThen
  <2> HIDE DEF r
  <2>2. r.kind = "diff" /\ r.from < wm
    BY <1>2, <2>1 DEF Orderly
  <2>3. ASSUME got = {}
        PROVE  /\ [r EXCEPT !.at = "recheck"] \in CallsUpTo(wm)
               /\ Orderly([r EXCEPT !.at = "recheck"], wm, floor, auth)
    <3> DEFINE x == [r EXCEPT !.at = "recheck"]
    <3>1. "recheck" \in Stages
      BY DEF Stages
    <3>2. /\ x \in CallsUpTo(wm) /\ x.at = "recheck"
          /\ x.kind = r.kind /\ x.dev = r.dev /\ x.from = r.from /\ x.asked = r.asked
      BY <1>1, <1>2, <3>1, MovedCall
    <3>3. x.from < floor
      BY <1>1, <1>3, <2>2, <2>3, <3>2, EmptyPageIsOvertaken
    <3> HIDE DEF x
    <3>4. Orderly(x, wm, floor, auth)
      BY <1>2, <2>1, <2>2, <3>2, <3>3 DEF Orderly, Honest
    <3> QED
      BY <3>2, <3>4 DEF x
  <2>4. ASSUME got # {}
        PROVE  LET x == Ready(r, LastOf(r.from, got), got, Cardinality(got) = PageLimit)
               IN  x \in CallsUpTo(wm) /\ Orderly(x, wm, floor, auth)
    <3>1. LastOf(r.from, got) \in 0..wm /\ got \in SUBSET (1..wm)
      BY <1>1, <1>3, <2>4, PageIsContiguous
    <3> HIDE DEF got
    <3> QED
      BY <1>1, <1>2, <2>1, <2>4, <3>1, AnswerIsOrderly
  <2> QED
    BY <2>1, <2>3, <2>4
<1>8. CASE Recheck(c)
  <2>1. /\ r.at = "recheck"
        /\ Step(c, IF BaselineBroken(r.dev) THEN Free
                   ELSE IF BelowFloor(r) THEN Ready(r, floor, {}, TRUE)
                   ELSE Ready(r, r.from, {}, FALSE))
        /\ states' = states
    BY <1>8 DEF Recheck
  <2> HIDE DEF r
  <2>2. /\ Ready(r, floor, {}, TRUE) \in CallsUpTo(wm)
        /\ Orderly(Ready(r, floor, {}, TRUE), wm, floor, auth)
    BY <1>1, <1>2, <2>1, AnswerIsOrderly
  <2>3. ASSUME ~ BelowFloor(r)
        PROVE  /\ Ready(r, r.from, {}, FALSE) \in CallsUpTo(wm)
               /\ Orderly(Ready(r, r.from, {}, FALSE), wm, floor, auth)
    <3>1. r.asked => FALSE
      BY <1>2, <2>1, <2>3 DEF Orderly, BelowFloor
    <3> QED
      BY <1>1, <1>2, <1>3, <2>1, <3>1, AnswerIsOrderly
  <2> QED
    BY <1>5, <2>1, <2>2, <2>3
<1> QED
  BY <1>6, <1>7, <1>8

\* The other statements of a handler, and its loss.
LEMMA HandlingIsOrdered ==
  ASSUME Ordered, NEW c \in Calls,
         Observe(c) \/ TooLong(c) \/ Snapshot(c) \/ Write(c) \/ Commit(c) \/ Lose(c)
  PROVE  Ordered'
<1> DEFINE r == calls[c]
<1>1. wm \in Nat /\ floor \in 0..wm /\ wm \in 0..wm
  BY LimitsAssumption DEF Ordered, Log
<1>2. r \in CallsUpTo(wm) /\ Orderly(r, wm, floor, auth)
  BY DEF Ordered
<1>3. r.from \in 0..wm /\ r.pts \in 0..wm /\ 0 \in 0..wm
  BY <1>1, <1>2 DEF CallsUpTo
<1>4. SUFFICES \E x : /\ Step(c, x) /\ states' \in [Devices -> StatesUpTo(wm)]
                      /\ x \in CallsUpTo(wm) /\ Orderly(x, wm, floor, auth)
  BY StepIsOrdered
<1>5. Free \in CallsUpTo(wm) /\ Orderly(Free, wm, floor, auth)
  BY <1>1, FreeCall, OrderlyFree
<1>6. states \in [Devices -> StatesUpTo(wm)]
  BY DEF Ordered
<1>7. ASSUME NEW a \in 0..wm, NEW b \in 0..wm, r.at # "free",
             states' = [states EXCEPT ![r.dev] = Raised(@, a, b)]
      PROVE  states' \in [Devices -> StatesUpTo(wm)]
  <2>1. r.dev \in Devices
    BY <1>2, <1>7 DEF Orderly
  <2>2. Raised(states[r.dev], a, b) \in StatesUpTo(wm)
    BY <1>1, <1>6, <2>1, RaisedRow
  <2> HIDE DEF r
  <2> QED
    BY <1>6, <1>7, <2>2
<1>8. CASE Observe(c)
  <2> DEFINE from == IF r.from > wm THEN wm ELSE r.from
             x == Looked(r, from)
  <2>1. r.at = "sent" /\ r.kind = "diff" /\ Step(c, x)
    BY <1>8 DEF Observe, Looked
  <2>2. from \in 0..wm
    BY <1>1, <1>3
  <2>3. states' \in [Devices -> StatesUpTo(wm)]
    <3>1. states' = [states EXCEPT ![r.dev] = Raised(@, 0, from)]
      BY <1>8 DEF Observe
    <3> QED
      BY <1>3, <1>7, <2>1, <2>2, <3>1
  <2> HIDE DEF r, from
  <2>4. /\ x \in CallsUpTo(wm) /\ x.at = "observed"
        /\ x.kind = r.kind /\ x.dev = r.dev /\ x.top = r.top /\ x.asked = r.asked
    BY <1>1, <1>2, <2>2, ObservedCall
  <2> HIDE DEF x
  <2>5. Orderly(x, wm, floor, auth)
    BY <1>2, <2>1, <2>4 DEF Orderly, Honest
  <2> QED
    BY <2>1, <2>3, <2>4, <2>5
<1>9. CASE TooLong(c)
  <2> DEFINE k == [r EXCEPT !.kind = "skip"]
  <2>1. r.at = "observed" /\ Step(c, Ready(k, wm, {}, FALSE)) /\ states' = states
    BY <1>9 DEF TooLong
  <2> HIDE DEF r
  <2>2. /\ k \in CallsUpTo(wm) /\ k.kind = "skip"
        /\ k.at = r.at /\ k.dev = r.dev /\ k.from = r.from /\ k.asked = r.asked
    BY <1>1, <1>2, SkippingCall
  <2> HIDE DEF k
  <2> DEFINE x == Ready(k, wm, {}, FALSE)
  <2>3. /\ x \in CallsUpTo(wm) /\ x.at = "ready" /\ x.kind = k.kind
        /\ x.dev = k.dev /\ x.asked = k.asked
    BY <1>1, <2>2, {} \in SUBSET (1..wm) DEF Ready, CallsUpTo, Stages, Answered
  <2> HIDE DEF x
  <2>4. Orderly(x, wm, floor, auth)
    BY <1>2, <2>1, <2>2, <2>3 DEF Orderly, Honest
  <2> QED
    BY <1>6, <2>1, <2>3, <2>4 DEF x
<1>10. CASE Snapshot(c)
  <2>1. /\ r.at = "sent" /\ r.kind = "state" /\ Step(c, Ready(r, wm, {}, FALSE))
        /\ states' = states
    BY <1>10 DEF Snapshot
  <2> HIDE DEF r
  <2>2. /\ Ready(r, wm, {}, FALSE) \in CallsUpTo(wm)
        /\ Orderly(Ready(r, wm, {}, FALSE), wm, floor, auth)
    BY <1>1, <1>2, <2>1, AnswerIsOrderly
  <2> QED
    BY <1>6, <2>1, <2>2
<1>11. ASSUME NEW at \in {"written", "committed"}, r.at \in Answered
       PROVE  /\ [r EXCEPT !.at = at] \in CallsUpTo(wm)
              /\ Orderly([r EXCEPT !.at = at], wm, floor, auth)
  <2> DEFINE x == [r EXCEPT !.at = at]
  <2>1. at \in Stages
    BY DEF Stages, Answered
  <2> HIDE DEF r
  <2>2. /\ x \in CallsUpTo(wm) /\ x.at = at
        /\ x.kind = r.kind /\ x.dev = r.dev /\ x.from = r.from /\ x.asked = r.asked
    BY <1>1, <1>2, <2>1, MovedCall
  <2> HIDE DEF x
  <2>3. Orderly(x, wm, floor, auth)
    BY <1>2, <1>11, <2>2 DEF Orderly, Honest, Answered
  <2> QED
    BY <2>2, <2>3 DEF x
<1>12. CASE Write(c)
  <2>1. /\ r.at = "ready" /\ calls' = [calls EXCEPT ![c].at = "written"]
        /\ UNCHANGED <<tables, auth, leaving, clients>> /\ states' = states
    BY <1>12 DEF Write
  <2>2. Step(c, [r EXCEPT !.at = "written"])
    BY <2>1 DEF Step
  <2> HIDE DEF r
  <2> QED
    BY <1>6, <1>11, <2>1, <2>2 DEF Answered
<1>13. CASE Commit(c)
  <2>1. /\ r.at = "written"
        /\ Step(c, IF r.asked THEN [r EXCEPT !.at = "committed"] ELSE Free)
    BY <1>13 DEF Commit, CommitWith
  <2>2. states' \in [Devices -> StatesUpTo(wm)]
    <3> DEFINE b == IF calls[c].kind = "state" /\ calls[c].dev \in Audited
                    THEN r.pts ELSE 0
    <3>1. states' = [states EXCEPT ![r.dev] = Raised(@, r.pts, b)]
      BY <1>13 DEF Commit, CommitWith
    <3>2. b \in 0..wm
      BY <1>3
    <3> HIDE DEF b, r
    <3> QED
      BY <1>3, <1>7, <2>1, <3>1, <3>2
  <2> HIDE DEF r
  <2> QED
    BY <1>5, <1>11, <2>1, <2>2 DEF Answered
<1>14. CASE Lose(c)
  BY <1>5, <1>6, <1>14 DEF Lose
<1> QED
  BY <1>8, <1>9, <1>10, <1>12, <1>13, <1>14

\* The clients: an answer is read, a pushed update applied.
LEMMA ClientIsOrdered ==
  ASSUME Ordered, (\E c \in Calls : Receive(c)) \/ (\E d \in Devices : ApplyPush(d))
  PROVE  Ordered'
<1>1. wm \in Nat /\ floor \in 0..wm
  BY LimitsAssumption DEF Ordered, Log
<1>2. ASSUME NEW d \in Devices, NEW pts \in 0..wm, NEW got \in SUBSET (1..wm),
             Adopt(d, pts, got)
      PROVE  /\ cursor' \in [Devices -> 0..wm \cup {None}]
             /\ covered' \in [Devices -> SUBSET (1..wm)]
  <2>1. covered[d] \cup got \in SUBSET (1..wm)
    BY DEF Ordered
  <2> QED
    BY <1>2, <2>1 DEF Adopt, Ordered
<1>3. ASSUME NEW c \in Calls, Receive(c)
      PROVE  Ordered'
  <2> DEFINE r == calls[c]
             x == IF r.at = "committed" THEN Free ELSE [r EXCEPT !.asked = FALSE]
  <2>1. /\ r.at \in {"written", "committed"} /\ calls' = [calls EXCEPT ![c] = x]
        /\ UNCHANGED <<tables, auth, states, leaving>>
        /\ \/ Adopt(r.dev, r.pts, IF r.kind = "diff" THEN r.got ELSE 1..r.pts)
           \/ UNCHANGED clients
    BY <1>3 DEF Receive
  <2>2. r \in CallsUpTo(wm) /\ Orderly(r, wm, floor, auth)
    BY DEF Ordered
  <2> HIDE DEF r
  <2>3. r.pts \in 0..wm /\ r.got \in SUBSET (1..wm)
    BY <2>2 DEF CallsUpTo
  <2>4. r.dev \in Devices
    BY <2>1, <2>2 DEF Orderly
  <2>5. (IF r.kind = "diff" THEN r.got ELSE 1..r.pts) \in SUBSET (1..wm)
    <3>1. 1..r.pts \subseteq 1..wm
      BY <1>1, <2>3
    <3> QED
      BY <2>3, <3>1
  <2>6. /\ cursor' \in [Devices -> 0..wm \cup {None}]
        /\ covered' \in [Devices -> SUBSET (1..wm)]
    <3>1. CASE UNCHANGED clients
      BY <3>1 DEF clients, Ordered
    <3>2. CASE Adopt(r.dev, r.pts, IF r.kind = "diff" THEN r.got ELSE 1..r.pts)
      BY <1>2, <2>3, <2>4, <2>5, <3>2
    <3> QED
      BY <2>1, <3>1, <3>2
  <2>7. x \in CallsUpTo(wm) /\ Orderly(x, wm, floor, auth)
    <3>1. /\ Free \in CallsUpTo(wm) /\ Orderly(Free, wm, floor, auth)
          /\ [r EXCEPT !.asked = FALSE] \in CallsUpTo(wm)
          /\ Orderly([r EXCEPT !.asked = FALSE], wm, floor, auth)
      BY <1>1, <2>2, FreeCall, OrderlyFree, OrderlyForgotten, ForgottenCall
    <3> QED
      BY <3>1
  <2> HIDE DEF x
  <2>8. /\ calls' \in [Calls -> CallsUpTo(wm)]
        /\ \A b \in Calls : Orderly(calls'[b], wm, floor, auth')
    BY <2>1, <2>7 DEF Ordered
  <2> QED
    BY <2>1, <2>6, <2>8, StillOrdered DEF Ordered
<1>4. ASSUME NEW d \in Devices, ApplyPush(d)
      PROVE  Ordered'
  <2>1. cursor[d] \in 0..wm /\ cursor[d] < wm
    BY <1>4 DEF ApplyPush, Ordered
  <2>2. cursor[d] + 1 \in 0..wm /\ {cursor[d] + 1} \in SUBSET (1..wm)
    BY <1>1, <2>1
  <2>3. /\ cursor' \in [Devices -> 0..wm \cup {None}]
        /\ covered' \in [Devices -> SUBSET (1..wm)]
    BY <1>2, <1>4, <2>2 DEF ApplyPush
  <2> QED
    BY <1>4, <2>3, StillOrdered DEF ApplyPush, Ordered
<1> QED
  BY <1>3, <1>4

\* A step that changes nothing.
LEMMA StutterIsOrdered ==
  ASSUME Ordered, UNCHANGED vars
  PROVE  Ordered'
  BY DEF vars, tables, clients, Ordered, Log

\* Every action keeps the order.
LEMMA NextIsOrdered ==
  ASSUME Ordered, [Next]_vars
  PROVE  Ordered'
<1>1. CASE LogStep
  BY <1>1, LogStepIsOrdered
<1>2. ASSUME NEW d \in Devices, DeviceStep(d)
      PROVE  Ordered'
  BY <1>2, SigningIsOrdered, ClientIsOrdered, AskingIsOrdered DEF DeviceStep
<1>3. ASSUME NEW c \in Calls, CallStep(c)
      PROVE  Ordered'
  BY <1>3, ReadingIsOrdered, HandlingIsOrdered, ClientIsOrdered DEF CallStep
<1> QED
  BY <1>1, <1>2, <1>3, StutterIsOrdered DEF Next

\* The log, the tables and every handler are in order in every reachable state.
THEOREM Inductive == Spec => []Ordered
  BY InitIsOrdered, NextIsOrdered, PTL DEF Spec

\* The tables, handlers and clients keep their types, and the log has no hole above the
\* retained floor.
THEOREM TypeCorrect == Spec => []TypeOK
<1>1. Ordered => TypeOK
  <2> SUFFICES ASSUME Ordered
               PROVE  TypeOK
    OBVIOUS
  <2>1. wm \in 0..MaxPts /\ MaxPts \in Nat
    BY LimitsAssumption DEF Ordered, Log
  <2>2. StatesUpTo(wm) \subseteq StatesUpTo(MaxPts) /\ CallsUpTo(wm) \subseteq CallsUpTo(MaxPts)
    BY <2>1, RowsGrow, CallsGrow
  <2>3. 0..wm \subseteq 0..MaxPts /\ 1..wm \subseteq Pts
    BY <2>1 DEF Pts
  <2>4. states \in [Devices -> [delivered : 0..MaxPts, observed : 0..MaxPts]]
    BY <2>2 DEF Ordered, StatesUpTo
  <2>5. calls \in [Calls -> CallsUpTo(MaxPts)]
    BY <2>2 DEF Ordered
  <2>6. cursor \in [Devices -> 0..MaxPts \cup {None}] /\ covered \in [Devices -> SUBSET Pts]
    BY <2>3 DEF Ordered
  <2>7. Stages = {"free", "sent", "observed", "listing", "recheck", "ready", "written",
                  "committed"}
    BY DEF Stages, Answered
  <2> QED
    BY <2>4, <2>5, <2>6, <2>7 DEF Ordered, Log, TypeOK, CallsUpTo, Pts
<1> QED
  BY <1>1, Inductive, PTL

\* getDifference never says "synchronised" to a client that waits for the answer and
\* lacks an update the handler saw, although retention runs between its statements.
THEOREM HonestAnswerHolds == Spec => []HonestAnswer
<1>1. Ordered => HonestAnswer
  BY DEF Ordered, Orderly, Honest, HonestAnswer
<1> QED
  BY <1>1, Inductive, PTL

-----------------------------------------------------------------------------
(* Baseline.                                                               *)

Rises(s, t) == s.delivered <= t.delivered /\ s.observed <= t.observed

\* A row is no lower than itself.
LEMMA RisesToItself ==
  ASSUME Ordered, NEW d \in Devices
  PROVE  Rises(states[d], states[d]) /\ states[d].observed \in Nat
<1>1. wm \in Nat /\ states[d] \in StatesUpTo(wm)
  BY LimitsAssumption DEF Ordered, Log
<1> QED
  BY <1>1 DEF StatesUpTo, Rises

\* GREATEST never lowers a row.
LEMMA RaiseRises ==
  ASSUME Ordered, NEW e, NEW a \in 0..wm, NEW b \in 0..wm,
         states' = [states EXCEPT ![e] = Raised(@, a, b)], NEW d \in Devices
  PROVE  Rises(states[d], states'[d])
<1>1. wm \in Nat /\ states \in [Devices -> StatesUpTo(wm)]
  BY LimitsAssumption DEF Ordered, Log
<1>2. CASE d = e
  <2>1. states'[d] = Raised(states[d], a, b)
    BY <1>1, <1>2
  <2>2. Rises(states[d], Raised(states[d], a, b))
    BY <1>1, RaisedRow DEF Rises
  <2> QED
    BY <2>1, <2>2
<1>3. CASE d # e
  BY <1>1, <1>3, RisesToItself
<1> QED
  BY <1>2, <1>3

\* While nobody signs in over a log-out in progress, no row of a device that stays
\* signed in falls.
LEMMA RowsRise ==
  ASSUME Ordered, auth \cap leaving = {}, [Next]_vars, NEW d \in auth \cap auth'
  PROVE  Rises(states[d], states'[d])
<1>1. wm \in Nat /\ floor \in 0..wm /\ wm \in 0..wm /\ 0 \in 0..wm /\ d \in Devices
  BY LimitsAssumption DEF Ordered, Log
<1>2. ASSUME states' = states
      PROVE  Rises(states[d], states'[d])
  BY <1>1, <1>2, RisesToItself
<1>3. CASE LogStep
  BY <1>2, <1>3, LogStepIsOrdered
<1>4. ASSUME NEW e \in Devices, DeviceStep(e)
      PROVE  Rises(states[d], states'[d])
  <2>1. CASE Bind(e)
    <3>1. states' = [states EXCEPT ![e] = Raised(@, wm, floor)]
      BY <2>1 DEF Bind, BindWith
    <3> QED
      BY <1>1, <3>1, RaiseRises
  <2>2. CASE Revoke(e)
    <3>1. d # e /\ states' = [states EXCEPT ![e] = NoState]
      BY <2>2 DEF Revoke
    <3> QED
      BY <1>1, <3>1, RisesToItself DEF Ordered
  <2>3. CASE ClearAuthKey(e)
    <3>1. d # e /\ (states' = states \/ states' = [states EXCEPT ![e] = NoState])
      BY <2>3 DEF ClearAuthKey
    <3> QED
      BY <1>1, <1>2, <3>1, RisesToItself DEF Ordered
  <2>4. CASE LogOut(e) \/ ApplyPush(e) \/ Restart(e)
    BY <1>2, <2>4 DEF LogOut, ApplyPush, Restart
  <2>5. CASE \E c \in Calls : Record(e, c) \/ AskDifference(e, c) \/ AskState(e, c)
    BY <1>2, <2>5 DEF Record, AskDifference, AskState, Begin
  <2> QED
    BY <1>4, <2>1, <2>2, <2>3, <2>4, <2>5 DEF DeviceStep
<1>5. ASSUME NEW c \in Calls, CallStep(c)
      PROVE  Rises(states[d], states'[d])
  <2>1. calls[c] \in CallsUpTo(wm)
    BY DEF Ordered
  <2>2. calls[c].from \in 0..wm /\ calls[c].pts \in 0..wm
    BY <2>1 DEF CallsUpTo
  <2>3. CASE Observe(c)
    <3> DEFINE from == IF calls[c].from > wm THEN wm ELSE calls[c].from
    <3>1. states' = [states EXCEPT ![calls[c].dev] = Raised(@, 0, from)]
      BY <2>3 DEF Observe
    <3>2. from \in 0..wm
      BY <1>1, <2>2
    <3> HIDE DEF from
    <3> QED
      BY <1>1, <3>1, <3>2, RaiseRises
  <2>4. CASE Commit(c)
    <3> DEFINE b == IF calls[c].kind = "state" /\ calls[c].dev \in Audited
                    THEN calls[c].pts ELSE 0
    <3>1. states' = [states EXCEPT ![calls[c].dev] = Raised(@, calls[c].pts, b)]
      BY <2>4 DEF Commit, CommitWith
    <3>2. b \in 0..wm
      BY <1>1, <2>2
    <3> HIDE DEF b
    <3> QED
      BY <1>1, <2>2, <3>1, <3>2, RaiseRises
  <2>5. CASE TooLong(c) \/ Probe(c) \/ List(c) \/ Recheck(c) \/ Snapshot(c) \/ Write(c)
             \/ Lose(c) \/ Receive(c)
    <3>1. states' = states
      BY <2>5 DEF TooLong, Probe, List, ListThen, Recheck, Snapshot, Write, Lose, Receive
    <3> QED
      BY <1>2, <3>1
  <2> QED
    BY <1>5, <2>3, <2>4, <2>5 DEF CallStep
<1>6. CASE UNCHANGED vars
  BY <1>2, <1>6 DEF vars
<1> QED
  BY <1>3, <1>4, <1>5, <1>6 DEF Next

\* Who signs in has observed the floor; a prune takes what everyone observed.
LEMMA NextKeepsBaseline ==
  ASSUME "logout" \notin Impatient, Ordered, Baseline, [Next]_vars
  PROVE  Baseline'
<1>1. /\ wm \in Nat /\ floor \in 0..wm /\ pruner \in 0..wm /\ 0 \in 0..wm
      /\ wm \in 0..wm /\ floor \in Nat /\ pruner \in Nat
  BY LimitsAssumption DEF Ordered, Log
<1>2. \A d \in auth : d \in Devices
  BY DEF Ordered
<1>3. ASSUME NEW d \in auth \cap auth'
      PROVE  states'[d].observed \in Nat /\ states[d].observed <= states'[d].observed
  <2>1. Ordered' /\ d \in Devices
    BY NextIsOrdered DEF Ordered
  <2>2. wm' \in Nat /\ states'[d] \in StatesUpTo(wm')
    BY <2>1, LimitsAssumption DEF Ordered, Log
  <2> QED
    BY <2>2, RowsRise DEF Rises, StatesUpTo, Baseline
<1>4. \A d \in auth : /\ states[d].observed \in Nat /\ floor <= states[d].observed
                      /\ pruner <= states[d].observed
  BY <1>2, RisesToItself DEF Baseline
<1>5. ASSUME auth' \subseteq auth, leaving' \subseteq leaving, floor' = floor, pruner' = pruner
      PROVE  Baseline'
  BY <1>1, <1>3, <1>4, <1>5 DEF Baseline
<1>6. CASE LogStep
  <2>1. UNCHANGED <<auth, states, leaving>>
    BY <1>6, LogStepIsOrdered
  <2>2. CASE Publish \/ AbortPrune
    <3>1. floor' = floor /\ (pruner' = pruner \/ pruner' = 0)
      BY <2>2 DEF Publish, AppendEvent, AbortPrune
    <3> QED
      BY <1>4, <2>1, <3>1 DEF Baseline
  <2>3. ASSUME NEW n \in Pts, BeginPrune(n)
        PROVE  Baseline'
    BY <1>4, <2>1, <2>3 DEF BeginPrune, Confirmed, Baseline
  <2>4. CASE CommitPrune
    BY <1>4, <2>1, <2>4 DEF CommitPrune, Baseline
  <2> QED
    BY <1>6, <2>2, <2>3, <2>4 DEF LogStep
<1>7. ASSUME NEW e \in Devices, DeviceStep(e)
      PROVE  Baseline'
  <2>1. CASE Bind(e)
    <3>1. /\ pruner' = 0 /\ floor' = floor /\ leaving' = leaving /\ e \notin leaving
          /\ auth' = auth \cup {e} /\ states' = [states EXCEPT ![e] = Raised(@, wm, floor)]
      BY <2>1, <1>1 DEF Bind, BindWith, tables
    <3>2. states[e] \in StatesUpTo(wm)
      BY DEF Ordered
    <3>3. /\ floor <= Raised(states[e], wm, floor).observed
          /\ Raised(states[e], wm, floor) \in StatesUpTo(wm)
      BY <1>1, <3>2, RaisedRow
    <3>4. states'[e] = Raised(states[e], wm, floor)
      BY <3>1 DEF Ordered
    <3>5. floor <= states'[e].observed /\ 0 <= states'[e].observed
      BY <1>1, <3>3, <3>4 DEF StatesUpTo
    <3>6. ASSUME NEW d \in auth
          PROVE  floor <= states'[d].observed /\ 0 <= states'[d].observed
      BY <1>1, <1>3, <1>4, <3>1
    <3> QED
      BY <3>1, <3>5, <3>6 DEF Baseline
  <2>2. CASE LogOut(e)
    <3>1. /\ auth' = auth \ {e} /\ leaving' = leaving \cup {e} /\ floor' = floor
          /\ pruner' = pruner
      BY <2>2 DEF LogOut, tables
    <3> QED
      BY <1>1, <1>3, <1>4, <3>1 DEF Baseline
  <2>3. CASE Revoke(e) \/ ClearAuthKey(e) \/ ApplyPush(e) \/ Restart(e)
    <3>1. auth' \subseteq auth /\ leaving' \subseteq leaving /\ floor' = floor /\ pruner' = pruner
      BY <2>3 DEF Revoke, ClearAuthKey, ApplyPush, Restart, tables
    <3> QED
      BY <1>5, <3>1
  <2>4. CASE \E c \in Calls : Record(e, c) \/ AskDifference(e, c) \/ AskState(e, c)
    <3>1. auth' \subseteq auth /\ leaving' \subseteq leaving /\ floor' = floor /\ pruner' = pruner
      BY <2>4 DEF Record, AppendEvent, AskDifference, AskState, Begin, tables
    <3> QED
      BY <1>5, <3>1
  <2> QED
    BY <1>7, <2>1, <2>2, <2>3, <2>4 DEF DeviceStep
<1>8. ASSUME NEW c \in Calls, CallStep(c)
      PROVE  Baseline'
  <2>1. auth' \subseteq auth /\ leaving' \subseteq leaving /\ floor' = floor /\ pruner' = pruner
    BY <1>8 DEF CallStep, Observe, TooLong, Probe, List, ListThen, Recheck, Snapshot, Write,
                Commit, CommitWith, Lose, Receive, Step, tables
  <2> QED
    BY <1>5, <2>1
<1>9. CASE UNCHANGED vars
  <2>1. auth' \subseteq auth /\ leaving' \subseteq leaving /\ floor' = floor /\ pruner' = pruner
    BY <1>9 DEF vars, tables
  <2> QED
    BY <1>5, <2>1
<1> QED
  BY <1>6, <1>7, <1>8, <1>9 DEF Next

\* Baseline holds in every reachable state.
LEMMA BaselineInductive ==
  ASSUME "logout" \notin Impatient
  PROVE  Spec => []Baseline
<1>1. Init => Baseline
  BY DEF Init, Baseline
<1>2. Ordered /\ Baseline /\ [Next]_vars => Baseline'
  BY NextKeepsBaseline
<1> QED
  BY <1>1, <1>2, Inductive, PTL DEF Spec

\* The invariant update_event_retention.go states of authorizations holds as long as no
\* client signs in again while its log-out is still clearing update_states.
THEOREM BaselineStands ==
  ASSUME "logout" \notin Impatient
  PROVE  Spec => []BaselineHolds
<1>1. Ordered /\ Baseline => BaselineHolds
  <2> SUFFICES ASSUME Ordered, Baseline, NEW d \in auth
               PROVE  ~ BaselineBroken(d)
    BY DEF BaselineHolds
  <2>1. floor \in Nat /\ states[d].observed \in Nat /\ floor <= states[d].observed
    BY RisesToItself, LimitsAssumption DEF Ordered, Log, Baseline
  <2> QED
    BY <2>1 DEF BaselineBroken
<1> QED
  BY <1>1, Inductive, BaselineInductive, PTL

\* Under the same proviso no commit, in whatever order the callbacks run, lowers a
\* watermark of a device that stays signed in.
THEOREM NeverBackwardsHolds ==
  ASSUME "logout" \notin Impatient
  PROVE  Spec => NeverBackwards
<1>1. Ordered /\ Baseline /\ [Next]_vars =>
        [\A d \in auth \cap auth' :
           /\ states[d].delivered <= states'[d].delivered
           /\ states[d].observed <= states'[d].observed]_vars
  BY RowsRise DEF Rises, Baseline
<1> QED
  BY <1>1, Inductive, BaselineInductive, PTL DEF Spec, NeverBackwards

-----------------------------------------------------------------------------
(* No gap.                                                                 *)

\* The numbers the arguments about pts rest on.
LEMMA Numbers ==
  ASSUME Ordered
  PROVE  /\ wm \in Nat /\ floor \in Nat /\ pruner \in Nat /\ floor <= wm /\ pruner <= wm
         /\ \A d \in Devices : states[d].observed \in Nat /\ states[d].observed <= wm
         /\ \A c \in Calls : calls[c].pts \in Nat /\ calls[c].pts <= wm
         /\ \A c \in Calls : calls[c].from \in Nat /\ calls[c].from <= wm
<1>1. wm \in Nat /\ floor \in 0..wm /\ pruner \in 0..wm
  BY LimitsAssumption DEF Ordered, Log
<1>2. ASSUME NEW d \in Devices
      PROVE  states[d].observed \in 0..wm
  BY DEF Ordered, StatesUpTo
<1>3. ASSUME NEW c \in Calls
      PROVE  calls[c].pts \in 0..wm /\ calls[c].from \in 0..wm
  <2>1. calls[c] \in CallsUpTo(wm)
    BY DEF Ordered
  <2> QED
    BY <2>1 DEF CallsUpTo
<1> QED
  BY <1>1, <1>2, <1>3

\* Who can do without the updates up to n can do without fewer.
LEMMA SparedLess ==
  ASSUME Ordered, NEW d, NEW n \in Nat, NEW m \in Nat, m <= n,
         Spared(d, n, cursor, covered, calls)
  PROVE  Spared(d, m, cursor, covered, calls)
<1>1. \A c \in Calls : calls[c].pts \in Nat
  BY Numbers
<1>2. 1..m \subseteq 1..n
  OBVIOUS
<1>3. CASE 1..n \subseteq covered[d]
  BY <1>2, <1>3 DEF Spared
<1>4. CASE /\ d \in Audited /\ cursor[d] = None
           /\ \A c \in Calls : Snap(calls[c], d) => n <= calls[c].pts
  BY <1>1, <1>4 DEF Spared
<1> QED
  BY <1>3, <1>4 DEF Spared

\* Nobody needs updates there are none of.
LEMMA SparedNothing ==
  ASSUME NEW d, NEW K, NEW C, NEW L
  PROVE  Spared(d, 0, K, C, L)
  BY DEF Spared

\* A slot at rest rests on nothing.
LEMMA BackedFree ==
  ASSUME NEW K, NEW C, NEW A
  PROVE  Backed(Free, K, C, A)
  BY FreeCall, 0 \in Nat DEF Backed

\* The log and the rows move; the handlers and the clients do not.
LEMMA LogKeepsCovering ==
  ASSUME Ordered, Covering, UNCHANGED <<auth, calls, clients>>,
         \A d \in auth : /\ Spared(d, states'[d].observed, cursor, covered, calls)
                        /\ Spared(d, floor', cursor, covered, calls)
                        /\ Spared(d, pruner', cursor, covered, calls)
  PROVE  Covering'
<1>1. auth' = auth /\ calls' = calls /\ cursor' = cursor /\ covered' = covered
  BY DEF clients
<1>2. Marked'
  BY <1>1 DEF Marked
<1>3. OneState' /\ NoGap'
  BY <1>1 DEF OneState, NoGap, Covering
<1>4. \A c \in Calls : Backed(calls'[c], cursor', covered', auth')
  BY <1>1 DEF Covering
<1> QED
  BY <1>2, <1>3, <1>4 DEF Covering

\* A handler moves; the clients do not.
LEMMA OneCallKeepsCovering ==
  ASSUME Ordered, Covering, NEW c \in Calls, NEW x, calls' = [calls EXCEPT ![c] = x],
         UNCHANGED <<floor, pruner, auth, clients>>,
         Backed(x, cursor, covered, auth),
         x.kind = "state" =>
           \/ calls[c].kind = "state" /\ calls[c].dev = x.dev
           \/ \A b \in Calls : ~ (calls[b].kind = "state" /\ calls[b].dev = x.dev),
         \A d : Snap(x, d) => x.pts = wm \/ (Snap(calls[c], d) /\ x.pts = calls[c].pts),
         \A d \in auth : Spared(d, states'[d].observed, cursor, covered, calls),
         \A d \in auth : states'[d].observed \in Nat /\ states'[d].observed <= wm
  PROVE  Covering'
<1>1. auth' = auth /\ cursor' = cursor /\ covered' = covered /\ floor' = floor
      /\ pruner' = pruner
  BY DEF clients
<1>2. calls'[c] = x /\ \A b \in Calls : b # c => calls'[b] = calls[b]
  BY DEF Ordered
<1>3. \A b \in Calls : Backed(calls'[b], cursor', covered', auth')
  BY <1>1, <1>2 DEF Covering
<1>4. OneState'
  BY <1>2 DEF OneState, Covering
<1>5. NoGap'
  BY <1>1 DEF NoGap, Covering
<1>6. ASSUME NEW d, NEW n \in Nat, n <= wm, Spared(d, n, cursor, covered, calls)
      PROVE  Spared(d, n, cursor, covered, calls')
  <2>1. CASE 1..n \subseteq covered[d]
    BY <2>1 DEF Spared
  <2>2. CASE /\ d \in Audited /\ cursor[d] = None
             /\ \A b \in Calls : Snap(calls[b], d) => n <= calls[b].pts
    <3>1. Snap(x, d) => n <= x.pts
      BY <1>6, <2>2
    <3> QED
      BY <1>2, <2>2, <3>1 DEF Spared
  <2> QED
    BY <1>6, <2>1, <2>2 DEF Spared
<1>7. Marked'
  BY <1>1, <1>6, Numbers DEF Marked, Covering
<1> QED
  BY <1>3, <1>4, <1>5, <1>7 DEF Covering

\* Retention takes only what every device can do without.
LEMMA LogStepKeepsCovering ==
  ASSUME Ordered, Covering, LogStep
  PROVE  Covering'
<1>1. UNCHANGED <<auth, states, leaving, calls, clients>>
  BY LogStepIsOrdered
<1>2. ASSUME NEW d \in auth
      PROVE  /\ Spared(d, states[d].observed, cursor, covered, calls)
             /\ Spared(d, floor, cursor, covered, calls)
             /\ Spared(d, pruner, cursor, covered, calls)
  BY DEF Covering, Marked
<1>3. ASSUME NEW d \in auth
      PROVE  Spared(d, floor', cursor, covered, calls)
  BY <1>2 DEF LogStep, Publish, AppendEvent, BeginPrune, CommitPrune, AbortPrune
<1>4. ASSUME NEW d \in auth
      PROVE  Spared(d, pruner', cursor, covered, calls)
  <2>1. CASE pruner' \in {pruner, 0}
    BY <1>2, <2>1, SparedNothing
  <2>2. CASE \E n \in Pts : BeginPrune(n)
    <3>1. PICK n \in Pts : BeginPrune(n)
      BY <2>2
    <3>2. n \in Nat /\ n <= states[d].observed /\ pruner' = n /\ d \in Devices
      BY <3>1, LimitsAssumption DEF BeginPrune, Confirmed, Pts, Ordered
    <3> QED
      BY <1>2, <3>2, Numbers, SparedLess
  <2> QED
    BY <2>1, <2>2 DEF LogStep, Publish, AppendEvent, CommitPrune, AbortPrune
<1> QED
  BY <1>1, <1>2, <1>3, <1>4, LogKeepsCovering

\* Clearing update_states takes nothing from anyone.
LEMMA ClearKeepsCovering ==
  ASSUME Ordered, Covering, NEW e \in Devices, ClearAuthKey(e)
  PROVE  Covering'
<1>1. /\ UNCHANGED <<auth, calls, clients>> /\ floor' = floor /\ pruner' = pruner
      /\ states' \in {states, [states EXCEPT ![e] = NoState]}
  BY DEF ClearAuthKey, tables
<1>2. ASSUME NEW d \in auth
      PROVE  Spared(d, states'[d].observed, cursor, covered, calls)
  <2>1. states'[d] = states[d] \/ states'[d] = NoState
    BY <1>1 DEF Ordered
  <2>2. NoState.observed = 0
    BY DEF NoState
  <2> QED
    BY <2>1, <2>2, SparedNothing DEF Covering, Marked
<1> QED
  BY <1>1, <1>2, LogKeepsCovering DEF Covering, Marked

\* What is signed in keeps what it observed.
LEMMA ObservedIsSpared ==
  ASSUME Ordered, Covering
  PROVE  \A d \in auth : /\ Spared(d, states[d].observed, cursor, covered, calls)
                        /\ states[d].observed \in Nat /\ states[d].observed <= wm
  BY Numbers DEF Ordered, Covering, Marked

\* A statement of a handler that is no snapshot.
LEMMA StepKeepsCovering ==
  ASSUME Ordered, Covering, NEW c \in Calls, NEW x, Step(c, x), states' = states,
         Backed(x, cursor, covered, auth), x.kind # "state"
  PROVE  Covering'
<1>1. calls' = [calls EXCEPT ![c] = x] /\ UNCHANGED <<floor, pruner, auth, clients>>
  BY DEF Step, tables
<1>2. \A d : ~ Snap(x, d)
  BY DEF Snap
<1> HIDE DEF Step
<1> QED
  BY <1>1, <1>2, ObservedIsSpared, OneCallKeepsCovering

\* An answer is backed when it continues what is covered.
LEMMA AnswerIsBacked ==
  ASSUME NEW w \in Nat, NEW r \in CallsUpTo(w), NEW K, NEW C, NEW A, Backed(r, K, C, A),
         r.kind # "state", NEW pts \in 0..w, NEW got \in SUBSET (1..w), NEW more \in BOOLEAN,
         r.kind = "diff" /\ r.asked => 1..pts \subseteq C[r.dev] \cup got
  PROVE  Backed(Ready(r, pts, got, more), K, C, A) /\ Ready(r, pts, got, more).kind # "state"
<1> DEFINE x == Ready(r, pts, got, more)
<1>1. /\ x.pts = pts /\ x.got = got
      /\ x.kind = r.kind /\ x.dev = r.dev /\ x.from = r.from /\ x.asked = r.asked
  BY ReadyCall
<1> HIDE DEF x
<1>2. Backed(x, K, C, A) /\ x.kind # "state"
  BY <1>1 DEF Backed
<1> QED
  BY <1>2 DEF x

\* The floor given as an answer is covered by whoever waits for it.
LEMMA FloorIsCovered ==
  ASSUME Ordered, Covering, NEW c \in Calls, calls[c].kind = "diff", calls[c].asked
  PROVE  1..floor \subseteq covered[calls[c].dev]
<1>1. calls[c].dev \in auth
  BY DEF Ordered, Orderly
<1>2. Spared(calls[c].dev, floor, cursor, covered, calls)
  BY <1>1 DEF Covering, Marked
<1>3. calls[c].dev \in Audited => cursor[calls[c].dev] # None
  BY DEF Covering, Backed
<1> QED
  BY <1>2, <1>3 DEF Spared

\* What a difference reads is a continuation of what its client covered.
LEMMA ReadingKeepsCovering ==
  ASSUME Ordered, Covering, NEW c \in Calls, Probe(c) \/ List(c) \/ Recheck(c)
  PROVE  Covering'
<1> DEFINE r == calls[c]
<1>1. /\ wm \in Nat /\ floor \in 0..wm /\ wm \in 0..wm /\ Log
      /\ {} \in SUBSET (1..wm)
  BY LimitsAssumption DEF Ordered, Log
<1>2. r \in CallsUpTo(wm) /\ Orderly(r, wm, floor, auth) /\ Backed(r, cursor, covered, auth)
  BY DEF Ordered, Covering
<1>3. r.from \in 0..wm
  BY <1>2 DEF CallsUpTo
<1>4. r.kind = "diff" => 1..r.from \subseteq covered[r.dev]
  BY <1>2 DEF Backed
<1>5. r.kind = "diff" /\ r.asked => 1..floor \subseteq covered[r.dev] \cup {}
  BY FloorIsCovered
<1>6. SUFFICES \E x : /\ Step(c, x) /\ states' = states
                      /\ Backed(x, cursor, covered, auth) /\ x.kind # "state"
  BY StepKeepsCovering
<1>7. Backed(Free, cursor, covered, auth) /\ Free.kind # "state"
  BY BackedFree, FreeCall, 0 \in Nat
<1>8. CASE Probe(c)
  <2>1. /\ r.at = "observed"
        /\ Step(c, IF BaselineBroken(r.dev) THEN Free
                   ELSE IF BelowFloor(r) THEN Ready(r, floor, {}, TRUE)
                   ELSE IF r.from >= wm THEN Ready(r, wm, {}, FALSE)
                   ELSE Listing(r, wm))
        /\ states' = states
    BY <1>8 DEF Probe, Listing
  <2> HIDE DEF r
  <2>2. r.kind = "diff"
    BY <1>2, <2>1 DEF Orderly
  <2>3. /\ Backed(Ready(r, floor, {}, TRUE), cursor, covered, auth)
        /\ Ready(r, floor, {}, TRUE).kind # "state"
    BY <1>1, <1>2, <1>5, <2>2, AnswerIsBacked
  <2>4. ASSUME r.from >= wm
        PROVE  /\ Backed(Ready(r, wm, {}, FALSE), cursor, covered, auth)
               /\ Ready(r, wm, {}, FALSE).kind # "state"
    <3>1. 1..wm \subseteq covered[r.dev] \cup {}
      BY <1>1, <1>3, <1>4, <2>2, <2>4
    <3> QED
      BY <1>1, <1>2, <2>2, <3>1, AnswerIsBacked
  <2>5. Backed(Listing(r, wm), cursor, covered, auth) /\ Listing(r, wm).kind # "state"
    <3> DEFINE x == Listing(r, wm)
    <3>1. /\ x.at = "listing" /\ x.kind = r.kind /\ x.dev = r.dev /\ x.from = r.from
          /\ x.asked = r.asked
      BY <1>1, <1>2, ListingCall
    <3> HIDE DEF x
    <3>2. Backed(x, cursor, covered, auth)
      BY <1>2, <2>2, <3>1 DEF Backed, Answered
    <3> QED
      BY <2>2, <3>1, <3>2 DEF x
  <2> QED
    BY <1>7, <2>1, <2>3, <2>4, <2>5
<1>9. CASE List(c)
  <2> DEFINE got == Contiguous(r.from)
             last == LastOf(r.from, got)
             full == Cardinality(got) = PageLimit
  <2>1. /\ r.at = "listing"
        /\ Step(c, IF got = {} THEN [r EXCEPT !.at = "recheck"] ELSE Ready(r, last, got, full))
        /\ states' = states
    BY <1>9 DEF List, ListThen
  <2> HIDE DEF r
  <2>2. r.kind = "diff"
    BY <1>2, <2>1 DEF Orderly
  <2>3. /\ Backed([r EXCEPT !.at = "recheck"], cursor, covered, auth)
        /\ [r EXCEPT !.at = "recheck"].kind # "state"
    <3> DEFINE x == [r EXCEPT !.at = "recheck"]
    <3>1. "recheck" \in Stages
      BY DEF Stages
    <3>2. /\ x.at = "recheck"
          /\ x.kind = r.kind /\ x.dev = r.dev /\ x.from = r.from /\ x.asked = r.asked
      BY <1>1, <1>2, <3>1, MovedCall
    <3> HIDE DEF x
    <3>3. Backed(x, cursor, covered, auth)
      BY <1>2, <2>2, <3>2 DEF Backed, Answered
    <3> QED
      BY <2>2, <3>2, <3>3 DEF x
  <2>4. ASSUME got # {}
        PROVE  /\ Backed(Ready(r, last, got, full), cursor, covered, auth)
               /\ Ready(r, last, got, full).kind # "state"
    <3>1. last \in 0..wm /\ got \in SUBSET (1..wm) /\ 1..last \subseteq 1..r.from \cup got
      BY <1>1, <1>3, <2>4, PageIsContiguous
    <3>2. full \in BOOLEAN
      OBVIOUS
    <3> HIDE DEF got, last, full
    <3>3. 1..last \subseteq covered[r.dev] \cup got
      BY <1>4, <2>2, <3>1
    <3> QED
      BY <1>1, <1>2, <2>2, <3>1, <3>2, <3>3, AnswerIsBacked
  <2> QED
    BY <2>1, <2>3, <2>4
<1>10. CASE Recheck(c)
  <2>1. /\ r.at = "recheck"
        /\ Step(c, IF BaselineBroken(r.dev) THEN Free
                   ELSE IF BelowFloor(r) THEN Ready(r, floor, {}, TRUE)
                   ELSE Ready(r, r.from, {}, FALSE))
        /\ states' = states
    BY <1>10 DEF Recheck
  <2> HIDE DEF r
  <2>2. r.kind = "diff"
    BY <1>2, <2>1 DEF Orderly
  <2>3. /\ Backed(Ready(r, floor, {}, TRUE), cursor, covered, auth)
        /\ Ready(r, floor, {}, TRUE).kind # "state"
    BY <1>1, <1>2, <1>5, <2>2, AnswerIsBacked
  <2>4. /\ Backed(Ready(r, r.from, {}, FALSE), cursor, covered, auth)
        /\ Ready(r, r.from, {}, FALSE).kind # "state"
    <3>1. 1..r.from \subseteq covered[r.dev] \cup {}
      BY <1>4, <2>2
    <3> QED
      BY <1>1, <1>2, <1>3, <2>2, <3>1, AnswerIsBacked
  <2> QED
    BY <1>7, <2>1, <2>3, <2>4
<1> QED
  BY <1>8, <1>9, <1>10

\* A client asks with the cursor it covered; one that restarts by a snapshot asks for
\* one at a time.
LEMMA AskingKeepsCovering ==
  ASSUME "state" \notin Impatient, Ordered, Covering, NEW d \in Devices, NEW c \in Calls,
         Record(d, c) \/ AskDifference(d, c) \/ AskState(d, c)
  PROVE  Covering'
<1>1. CASE Record(d, c)
  <2> DEFINE x == Saving(d, wm + 1)
  <2>1. /\ calls' = [calls EXCEPT ![c] = x] /\ UNCHANGED <<floor, pruner, auth, clients>>
        /\ states' = states
    BY <1>1 DEF Record, AppendEvent, Saving
  <2>2. x.kind = "save" /\ ~ x.asked
    BY SavingCall
  <2> HIDE DEF x
  <2>3. Backed(x, cursor, covered, auth)
    BY <2>2 DEF Backed
  <2>4. \A e : ~ Snap(x, e)
    BY <2>2 DEF Snap
  <2> QED
    BY <2>1, <2>2, <2>3, <2>4, ObservedIsSpared, OneCallKeepsCovering
<1>2. CASE AskDifference(d, c)
  <2> DEFINE from == IF cursor[d] = None THEN 0 ELSE cursor[d]
             x == Request("diff", d, from)
  <2>1. Step(c, x) /\ states' = states /\ (cursor[d] = None => d \notin Audited)
    BY <1>2 DEF AskDifference, Begin, Step, Request
  <2>2. 1..from \subseteq covered[d]
    BY DEF Covering, NoGap
  <2> HIDE DEF from
  <2>3. x.at = "sent" /\ x.kind = "diff" /\ x.dev = d /\ x.from = from
    BY BegunCall
  <2> HIDE DEF x
  <2>4. Backed(x, cursor, covered, auth)
    BY <2>1, <2>2, <2>3 DEF Backed, Answered
  <2> QED
    BY <2>1, <2>3, <2>4, StepKeepsCovering
<1>3. CASE AskState(d, c)
  <2> DEFINE x == Request("state", d, 0)
  <2>1. /\ calls' = [calls EXCEPT ![c] = x] /\ UNCHANGED <<floor, pruner, auth, clients>>
        /\ states' = states /\ (d \in Audited => cursor[d] = None)
        /\ \A b \in Calls : ~ (calls[b].kind = "state" /\ calls[b].dev = d)
    BY <1>3 DEF AskState, Begin, Request, tables
  <2>2. x.at = "sent" /\ x.kind = "state" /\ x.dev = d
    BY BegunCall
  <2> HIDE DEF x
  <2>3. Backed(x, cursor, covered, auth)
    BY <2>1, <2>2 DEF Backed
  <2>4. \A e : ~ Snap(x, e)
    BY <2>2 DEF Snap, Answered
  <2> QED
    BY <2>1, <2>2, <2>3, <2>4, ObservedIsSpared, OneCallKeepsCovering
<1> QED
  BY <1>1, <1>2, <1>3

\* A cursor carried and a baseline committed are covered, or their client has no cursor.
LEMMA HandlingKeepsCovering ==
  ASSUME Ordered, Covering, NEW c \in Calls,
         Observe(c) \/ TooLong(c) \/ Snapshot(c) \/ Write(c) \/ Commit(c) \/ Lose(c)
  PROVE  Covering'
<1> DEFINE r == calls[c]
<1>1. /\ wm \in Nat /\ floor \in 0..wm /\ wm \in 0..wm /\ 0 \in 0..wm
      /\ {} \in SUBSET (1..wm)
  BY LimitsAssumption DEF Ordered, Log
<1>2. r \in CallsUpTo(wm) /\ Orderly(r, wm, floor, auth) /\ Backed(r, cursor, covered, auth)
  BY DEF Ordered, Covering
<1>3. r.from \in 0..wm /\ r.pts \in 0..wm
  BY <1>2 DEF CallsUpTo
<1>4. Backed(Free, cursor, covered, auth) /\ Free.kind # "state"
  BY BackedFree, FreeCall, 0 \in Nat
<1>5. \A d \in auth : /\ Spared(d, states[d].observed, cursor, covered, calls)
                      /\ states[d].observed \in Nat /\ states[d].observed <= wm
  BY ObservedIsSpared
<1>6. ASSUME NEW a \in 0..wm, NEW b \in 0..wm,
             states' = [states EXCEPT ![r.dev] = Raised(@, a, b)],
             r.dev \in auth => Spared(r.dev, b, cursor, covered, calls)
      PROVE  \A d \in auth : /\ Spared(d, states'[d].observed, cursor, covered, calls)
                            /\ states'[d].observed \in Nat /\ states'[d].observed <= wm
  <2> SUFFICES ASSUME NEW d \in auth
               PROVE  /\ Spared(d, states'[d].observed, cursor, covered, calls)
                      /\ states'[d].observed \in Nat /\ states'[d].observed <= wm
    OBVIOUS
  <2>1. d \in Devices /\ states[d] \in StatesUpTo(wm)
    BY DEF Ordered
  <2> HIDE DEF r
  <2>2. CASE d = r.dev
    <3>1. states'[d] = Raised(states[d], a, b)
      BY <1>6, <2>1, <2>2 DEF Ordered
    <3>2. states'[d].observed = Larger(states[d].observed, b)
      BY <3>1 DEF Raised
    <3>3. states'[d].observed \in {states[d].observed, b}
      BY <3>2 DEF Larger
    <3> QED
      BY <1>1, <1>5, <1>6, <2>2, <3>3
  <2>3. CASE d # r.dev
    <3>1. states'[d] = states[d]
      BY <1>6, <2>1, <2>3 DEF Ordered
    <3> QED
      BY <1>5, <3>1
  <2> QED
    BY <2>2, <2>3
<1>7. CASE Observe(c)
  <2> DEFINE from == IF r.from > wm THEN wm ELSE r.from
             x == Looked(r, from)
  <2>1. /\ r.at = "sent" /\ r.kind = "diff" /\ calls' = [calls EXCEPT ![c] = x]
        /\ states' = [states EXCEPT ![r.dev] = Raised(@, 0, from)]
        /\ UNCHANGED <<floor, pruner, auth, clients>>
    BY <1>7 DEF Observe, Looked, Step, tables
  <2>2. from = r.from
    BY <1>1, <1>3
  <2> HIDE DEF r, from
  <2>3. 1..from \subseteq covered[r.dev]
    BY <1>2, <2>1, <2>2 DEF Backed
  <2>4. x.at = "observed" /\ x.from = from
        /\ x.kind = r.kind /\ x.dev = r.dev /\ x.asked = r.asked
    BY <1>2 DEF Looked, CallsUpTo
  <2> HIDE DEF x
  <2>5. Backed(x, cursor, covered, auth)
    BY <1>2, <2>1, <2>3, <2>4 DEF Backed, Answered
  <2>6. \A e : ~ Snap(x, e)
    BY <2>1, <2>4 DEF Snap
  <2>7. \A d \in auth : /\ Spared(d, states'[d].observed, cursor, covered, calls)
                       /\ states'[d].observed \in Nat /\ states'[d].observed <= wm
    <3>1. Spared(r.dev, from, cursor, covered, calls)
      BY <2>3 DEF Spared
    <3> QED
      BY <1>1, <1>3, <1>6, <2>1, <2>2, <3>1
  <2>8. x.kind # "state"
    BY <2>1, <2>4
  <2> QED
    BY <2>1, <2>5, <2>6, <2>7, <2>8, OneCallKeepsCovering
<1>8. CASE TooLong(c)
  <2> DEFINE k == [r EXCEPT !.kind = "skip"]
             x == Ready(k, wm, {}, FALSE)
  <2>1. r.at = "observed" /\ Step(c, x) /\ states' = states
    BY <1>8 DEF TooLong
  <2> HIDE DEF r
  <2>2. r.kind = "diff"
    BY <1>2, <2>1 DEF Orderly
  <2>3. k \in CallsUpTo(wm) /\ k.kind = "skip" /\ k.dev = r.dev /\ k.asked = r.asked
    BY <1>1, <1>2, SkippingCall
  <2> HIDE DEF k
  <2>4. x.kind = k.kind /\ x.dev = k.dev /\ x.asked = k.asked
    BY <1>1, <2>3 DEF Ready, CallsUpTo, Stages, Answered
  <2> HIDE DEF x
  <2>5. Backed(x, cursor, covered, auth) /\ x.kind # "state"
    BY <1>2, <2>2, <2>3, <2>4 DEF Backed
  <2> QED
    BY <2>1, <2>5, StepKeepsCovering
<1>9. CASE Snapshot(c)
  <2> DEFINE x == Ready(r, wm, {}, FALSE)
  <2>1. /\ r.at = "sent" /\ r.kind = "state" /\ calls' = [calls EXCEPT ![c] = x]
        /\ states' = states /\ UNCHANGED <<floor, pruner, auth, clients>>
    BY <1>9 DEF Snapshot, Step, tables
  <2> HIDE DEF r
  <2>2. x.kind = r.kind /\ x.dev = r.dev /\ x.asked = r.asked /\ x.pts = wm
    BY <1>1, <1>2 DEF Ready, CallsUpTo, Stages, Answered
  <2> HIDE DEF x
  <2>3. Backed(x, cursor, covered, auth)
    BY <1>2, <2>1, <2>2 DEF Backed, Answered
  <2>4. x.kind = "state" => calls[c].kind = "state" /\ calls[c].dev = x.dev
    BY <2>1, <2>2 DEF r
  <2> QED
    BY <1>5, <2>1, <2>2, <2>3, <2>4, OneCallKeepsCovering
<1>10. ASSUME NEW at \in {"written", "committed"}, r.at \in Answered
       PROVE  LET x == [r EXCEPT !.at = at]
              IN  /\ Backed(x, cursor, covered, auth)
                  /\ x.kind = r.kind /\ x.dev = r.dev /\ x.asked = r.asked /\ x.pts = r.pts
  <2> DEFINE x == [r EXCEPT !.at = at]
  <2>1. at \in Stages
    BY DEF Stages, Answered
  <2> HIDE DEF r
  <2>2. /\ x.at = at /\ x.pts = r.pts /\ x.got = r.got
        /\ x.kind = r.kind /\ x.dev = r.dev /\ x.from = r.from /\ x.asked = r.asked
    BY <1>1, <1>2, <2>1, MovedCall
  <2> HIDE DEF x
  <2>3. Backed(x, cursor, covered, auth)
    BY <1>2, <1>10, <2>2 DEF Backed, Answered
  <2> QED
    BY <2>2, <2>3 DEF x
<1>11. CASE Write(c)
  <2> DEFINE x == [r EXCEPT !.at = "written"]
  <2>1. /\ r.at = "ready" /\ calls' = [calls EXCEPT ![c] = x] /\ r.at \in Answered
        /\ UNCHANGED <<floor, pruner, auth, clients>> /\ states' = states
    BY <1>11 DEF Write, tables, Answered
  <2>2. /\ Backed(x, cursor, covered, auth)
        /\ x.kind = r.kind /\ x.dev = r.dev /\ x.asked = r.asked /\ x.pts = r.pts
    BY <1>10, <2>1
  <2> HIDE DEF x
  <2>3. \A d : Snap(x, d) => x.pts = wm \/ (Snap(calls[c], d) /\ x.pts = calls[c].pts)
    BY <2>1, <2>2 DEF Snap
  <2>4. x.kind = "state" => calls[c].kind = "state" /\ calls[c].dev = x.dev
    BY <2>2
  <2> HIDE DEF r
  <2> QED
    BY <1>5, <2>1, <2>2, <2>3, <2>4, OneCallKeepsCovering
<1>12. CASE Commit(c)
  <2> DEFINE b == IF r.kind = "state" /\ r.dev \in Audited THEN r.pts ELSE 0
             x == IF r.asked THEN [r EXCEPT !.at = "committed"] ELSE Free
  <2>1. /\ r.at = "written" /\ calls' = [calls EXCEPT ![c] = x] /\ r.at \in Answered
        /\ UNCHANGED <<floor, pruner, auth, clients>>
        /\ states' = [states EXCEPT ![r.dev] = Raised(@, r.pts, b)]
    BY <1>12 DEF Commit, CommitWith, Step, tables, Answered
  <2>2. /\ Backed(x, cursor, covered, auth)
        /\ \/ x.kind = r.kind /\ x.dev = r.dev /\ x.asked = r.asked /\ x.pts = r.pts
           \/ x.kind = "none"
    BY <1>4, <1>10, <2>1, FreeCall, 0 \in Nat
  <2> HIDE DEF x
  <2>3. \A d : Snap(x, d) => x.pts = wm \/ (Snap(calls[c], d) /\ x.pts = calls[c].pts)
    BY <2>1, <2>2 DEF Snap
  <2>4. x.kind = "state" => calls[c].kind = "state" /\ calls[c].dev = x.dev
    BY <2>2
  <2>5. ASSUME r.dev \in auth
        PROVE  Spared(r.dev, b, cursor, covered, calls)
    <3>1. CASE b = 0
      BY <3>1, SparedNothing
    <3>2. CASE r.kind = "state" /\ r.dev \in Audited /\ b = r.pts
      <4>1. CASE 1..r.pts \subseteq covered[r.dev]
        BY <3>2, <4>1 DEF Spared
      <4>2. CASE cursor[r.dev] = None
        <5>1. ASSUME NEW a \in Calls, Snap(calls[a], r.dev)
              PROVE  b <= calls[a].pts
          <6>1. a = c
            BY <3>2, <5>1 DEF Snap, Covering, OneState
          <6> QED
            BY <1>1, <1>3, <3>2, <6>1
        <5> HIDE DEF r, b
        <5> QED
          BY <3>2, <4>2, <5>1 DEF Spared
      <4> QED
        BY <1>2, <2>5, <3>2, <4>1, <4>2 DEF Backed
    <3> QED
      BY <3>1, <3>2
  <2>6. b \in 0..wm
    BY <1>1, <1>3
  <2> HIDE DEF b
  <2>7. \A d \in auth : /\ Spared(d, states'[d].observed, cursor, covered, calls)
                       /\ states'[d].observed \in Nat /\ states'[d].observed <= wm
    BY <1>3, <1>6, <2>1, <2>5, <2>6
  <2> HIDE DEF r
  <2> QED
    BY <2>1, <2>2, <2>3, <2>4, <2>7, OneCallKeepsCovering
<1>13. CASE Lose(c)
  BY <1>4, <1>13, StepKeepsCovering DEF Lose
<1> QED
  BY <1>7, <1>8, <1>9, <1>11, <1>12, <1>13

\* Handler x is handler r, perhaps without its client, or gone.
Fades(x, r) ==
  \/ x.kind = "none" /\ ~ x.asked
  \/ /\ x.at = r.at /\ x.kind = r.kind /\ x.dev = r.dev /\ x.from = r.from /\ x.pts = r.pts
     /\ x.got = r.got /\ (x.asked => r.asked)

\* A faded handler rests on no more than before,
LEMMA FadedIsBacked ==
  ASSUME NEW x, NEW r, Fades(x, r), NEW K, NEW C, NEW A, Backed(r, K, C, A)
  PROVE  Backed(x, K, C, A)
  BY DEF Fades, Backed

\* it keeps nobody from doing without updates,
LEMMA FadedIsSpared ==
  ASSUME NEW L, NEW M, \A c \in Calls : Fades(M[c], L[c]),
         NEW d, NEW n, NEW K, NEW C, Spared(d, n, K, C, L)
  PROVE  Spared(d, n, K, C, M)
<1>1. \A c \in Calls : Snap(M[c], d) => Snap(L[c], d) /\ M[c].pts = L[c].pts
  BY DEF Fades, Snap
<1> QED
  BY <1>1 DEF Spared

\* and it is no second snapshot.
LEMMA FadedIsOneState ==
  ASSUME OneState, \A c \in Calls : Fades(calls'[c], calls[c])
  PROVE  OneState'
<1>1. \A c \in Calls : calls'[c].kind = "state" =>
        calls[c].kind = "state" /\ calls'[c].dev = calls[c].dev
  BY DEF Fades
<1> QED
  BY <1>1 DEF OneState

\* Every handler may end,
LEMMA FreeFades ==
  ASSUME NEW r
  PROVE  Fades(Free, r)
  BY FreeCall, 0 \in Nat DEF Fades

\* and every client may forget it.
LEMMA ForgottenFades ==
  ASSUME NEW w \in Nat, NEW r \in CallsUpTo(w)
  PROVE  Fades([r EXCEPT !.asked = FALSE], r)
<1> DEFINE x == [r EXCEPT !.asked = FALSE]
<1>1. /\ x.asked = FALSE
      /\ x.at = r.at /\ x.kind = r.kind /\ x.dev = r.dev /\ x.from = r.from /\ x.pts = r.pts
      /\ x.got = r.got
  BY ForgottenCall
<1> HIDE DEF x
<1>2. Fades(x, r)
  BY <1>1 DEF Fades
<1> QED
  BY <1>2 DEF x

\* Forgetting d's requests fades d's handlers and no others.
LEMMA ForgetFades ==
  ASSUME Ordered, NEW d, Forget(d), NEW c \in Calls
  PROVE  /\ Fades(calls'[c], calls[c])
         /\ calls[c].dev # d => calls'[c] = calls[c]
         /\ calls[c].dev = d => ~ calls'[c].asked
<1> DEFINE r == calls[c]
<1>1. r \in CallsUpTo(wm) /\ wm \in Nat
  BY Numbers DEF Ordered
<1>2. calls'[c] = IF r.dev # d THEN r
                  ELSE IF r.at = "committed" THEN Free ELSE [r EXCEPT !.asked = FALSE]
  BY DEF Forget
<1> HIDE DEF r
<1>3. CASE r.dev # d
  <2>1. Fades(r, r)
    BY DEF Fades
  <2> QED
    BY <1>2, <1>3, <2>1 DEF r
<1>4. CASE r.dev = d /\ r.at = "committed"
  BY <1>2, <1>4, FreeFades, FreeCall, 0 \in Nat DEF r
<1>5. CASE r.dev = d /\ r.at # "committed"
  <2> DEFINE x == [r EXCEPT !.asked = FALSE]
  <2>1. x.asked = FALSE /\ Fades(x, r)
    BY <1>1, ForgottenCall, ForgottenFades
  <2> HIDE DEF x
  <2>2. calls'[c] = x
    BY <1>2, <1>5 DEF x
  <2> QED
    BY <1>5, <2>1, <2>2 DEF r
<1> QED
  BY <1>3, <1>4, <1>5

\* A client adopts what continues its cursor, or the snapshot it has waited for.
LEMMA AdoptIsCovered ==
  ASSUME Ordered, Covering, NEW e \in Devices, NEW p \in Nat, NEW got, Adopt(e, p, got),
         1..p \subseteq covered[e] \cup got,
         e \in Audited /\ cursor[e] = None =>
           \E a \in Calls : Snap(calls[a], e) /\ calls[a].pts = p
  PROVE  /\ \A c \in Calls : Backed(calls[c], cursor', covered', auth)
         /\ NoGap'
         /\ \A d \in auth : \A n \in Nat :
              Spared(d, n, cursor, covered, calls) => Spared(d, n, cursor', covered', calls)
<1>1. /\ cursor'[e] = p /\ covered'[e] = covered[e] \cup got /\ p # None
      /\ \A d \in Devices : d # e => cursor'[d] = cursor[d] /\ covered'[d] = covered[d]
  BY LimitsAssumption DEF Adopt, Ordered
<1>2. ASSUME NEW c \in Calls
      PROVE  Backed(calls[c], cursor', covered', auth)
  <2> DEFINE r == calls[c]
  <2>1. Backed(r, cursor, covered, auth) /\ (r.kind # "none" => r.dev \in Devices)
        /\ (r.asked => r.kind # "none")
    BY DEF Covering, Ordered, Orderly
  <2>2. CASE r.dev # e /\ r.kind # "none"
    <3>1. cursor'[r.dev] = cursor[r.dev] /\ covered'[r.dev] = covered[r.dev]
      BY <1>1, <2>1, <2>2
    <3> HIDE DEF r
    <3>2. Backed(r, cursor', covered', auth)
      BY <2>1, <3>1 DEF Backed
    <3> QED
      BY <3>2 DEF r
  <2>3. CASE r.dev = e
    <3>1. ASSUME r.kind = "state", e \in Audited, cursor[e] = None
          PROVE  r.at \in Answered /\ 1..r.pts \subseteq covered'[e]
      <4>1. PICK a \in Calls : Snap(calls[a], e) /\ calls[a].pts = p
        BY <3>1
      <4>2. a = c
        BY <2>3, <3>1, <4>1 DEF Snap, Covering, OneState
      <4> QED
        BY <1>1, <4>1, <4>2 DEF Snap
    <3> HIDE DEF r
    <3>2. Backed(r, cursor', covered', auth)
      BY <1>1, <2>1, <2>3, <3>1 DEF Backed
    <3> QED
      BY <3>2 DEF r
  <2>4. CASE r.kind = "none"
    BY <2>1, <2>4 DEF Backed
  <2> QED
    BY <2>2, <2>3, <2>4
<1>3. NoGap'
  <2> SUFFICES ASSUME NEW d \in Devices, cursor'[d] # None
               PROVE  1..cursor'[d] \subseteq covered'[d]
    BY DEF NoGap
  <2> QED
    BY <1>1 DEF Covering, NoGap
<1>4. ASSUME NEW d \in auth, NEW n \in Nat, Spared(d, n, cursor, covered, calls)
      PROVE  Spared(d, n, cursor', covered', calls)
  <2>1. d \in Devices
    BY DEF Ordered
  <2>2. CASE d # e
    BY <1>1, <1>4, <2>1, <2>2 DEF Spared
  <2>3. CASE d = e /\ 1..n \subseteq covered[d]
    BY <1>1, <2>3 DEF Spared
  <2>4. CASE /\ d = e /\ d \in Audited /\ cursor[d] = None
             /\ \A c \in Calls : Snap(calls[c], d) => n <= calls[c].pts
    <3>1. n <= p
      BY <2>4
    <3>2. 1..n \subseteq 1..p
      BY <3>1
    <3> QED
      BY <1>1, <2>4, <3>2 DEF Spared
  <2> QED
    BY <1>4, <2>2, <2>3, <2>4 DEF Spared
<1> QED
  BY <1>2, <1>3, <1>4

\* The marks of the devices that stay signed in.
LEMMA MarksAreSpared ==
  ASSUME Ordered, Covering, NEW d \in auth
  PROVE  /\ d \in Devices
         /\ states[d].observed \in Nat /\ floor \in Nat /\ pruner \in Nat
         /\ Spared(d, states[d].observed, cursor, covered, calls)
         /\ Spared(d, floor, cursor, covered, calls)
         /\ Spared(d, pruner, cursor, covered, calls)
  BY Numbers DEF Ordered, Covering, Marked

\* What a client takes leaves it no gap.
LEMMA ClientKeepsCovering ==
  ASSUME Ordered, Covering,
         (\E c \in Calls : Receive(c)) \/ (\E d \in Devices : ApplyPush(d))
  PROVE  Covering'
<1>1. ASSUME NEW e \in Devices, NEW p \in Nat, NEW got, Adopt(e, p, got),
             1..p \subseteq covered[e] \cup got,
             e \in Audited /\ cursor[e] = None =>
               \E a \in Calls : Snap(calls[a], e) /\ calls[a].pts = p,
             \A c \in Calls : Fades(calls'[c], calls[c]),
             UNCHANGED <<floor, pruner, auth, states>>
      PROVE  Covering'
  <2>1. /\ \A c \in Calls : Backed(calls[c], cursor', covered', auth)
        /\ NoGap'
        /\ \A d \in auth : \A n \in Nat :
             Spared(d, n, cursor, covered, calls) => Spared(d, n, cursor', covered', calls)
    BY <1>1, AdoptIsCovered
  <2>2. \A c \in Calls : Backed(calls'[c], cursor', covered', auth')
    BY <1>1, <2>1, FadedIsBacked
  <2>3. OneState'
    BY <1>1, FadedIsOneState DEF Covering
  <2>4. ASSUME NEW d \in auth, NEW n \in Nat, Spared(d, n, cursor, covered, calls)
        PROVE  Spared(d, n, cursor', covered', calls')
    <3>1. Spared(d, n, cursor', covered', calls)
      BY <2>1, <2>4
    <3> QED
      BY <1>1, <3>1, FadedIsSpared
  <2>5. Marked'
    BY <1>1, <2>4, MarksAreSpared DEF Marked
  <2> QED
    BY <2>1, <2>2, <2>3, <2>5 DEF Covering
<1>2. ASSUME NEW c \in Calls, Receive(c)
      PROVE  Covering'
  <2> DEFINE r == calls[c]
             x == IF r.at = "committed" THEN Free ELSE [r EXCEPT !.asked = FALSE]
             got == IF r.kind = "diff" THEN r.got ELSE 1..r.pts
  <2>1. /\ r.at \in {"written", "committed"} /\ r.asked /\ calls' = [calls EXCEPT ![c] = x]
        /\ UNCHANGED <<floor, pruner, auth, states>>
        /\ \/ Fits(r) /\ Adopt(r.dev, r.pts, got)
           \/ UNCHANGED clients
    BY <1>2 DEF Receive, tables
  <2>2. /\ r \in CallsUpTo(wm) /\ wm \in Nat
        /\ Orderly(r, wm, floor, auth) /\ Backed(r, cursor, covered, auth)
    BY Numbers DEF Ordered, Covering
  <2>3. r.pts \in Nat /\ r.dev \in Devices
    BY <2>1, <2>2, Numbers DEF Orderly
  <2> HIDE DEF r
  <2>4. Fades(x, r) /\ ~ x.asked
    BY <2>2, FreeFades, ForgottenFades, FreeCall, ForgottenCall, 0 \in Nat
  <2> HIDE DEF x
  <2>5. \A b \in Calls : Fades(calls'[b], calls[b])
    <3>1. \A b \in Calls : Fades(calls[b], calls[b])
      BY DEF Fades
    <3> QED
      BY <2>1, <2>4, <3>1 DEF Ordered, r
  <2>6. CASE UNCHANGED clients
    <3>1. Backed(x, cursor, covered, auth)
      BY <2>2, <2>4, FadedIsBacked
    <3>2. \A d : ~ Snap(x, d)
      BY <2>4 DEF Snap
    <3>3. x.kind = "state" => calls[c].kind = "state" /\ calls[c].dev = x.dev
      BY <2>4 DEF Fades, r
    <3> QED
      BY <2>1, <2>6, <3>1, <3>2, <3>3, ObservedIsSpared, OneCallKeepsCovering
  <2>7. CASE Fits(r) /\ Adopt(r.dev, r.pts, got)
    <3>1. 1..r.pts \subseteq covered[r.dev] \cup got
      <4>1. CASE r.kind = "diff"
        BY <2>1, <2>2, <4>1 DEF Backed, Answered
      <4>2. CASE r.kind # "diff"
        BY <4>2
      <4> QED
        BY <4>1, <4>2
    <3>2. ASSUME r.dev \in Audited, cursor[r.dev] = None
          PROVE  \E a \in Calls : Snap(calls[a], r.dev) /\ calls[a].pts = r.pts
      <4>1. r.kind = "state"
        BY <2>1, <2>2, <3>2 DEF Backed, Orderly
      <4>2. Snap(r, r.dev)
        BY <2>1, <4>1 DEF Snap, Answered
      <4> QED
        BY <4>2 DEF r
    <3> HIDE DEF got
    <3> QED
      BY <1>1, <2>1, <2>3, <2>5, <2>7, <3>1, <3>2
  <2> QED
    BY <2>1, <2>6, <2>7
<1>3. ASSUME NEW d \in Devices, ApplyPush(d)
      PROVE  Covering'
  <2>1. /\ cursor[d] # None /\ Adopt(d, cursor[d] + 1, {cursor[d] + 1})
        /\ UNCHANGED <<floor, pruner, auth, states>> /\ calls' = calls
    BY <1>3 DEF ApplyPush, tables
  <2>2. cursor[d] \in 0..wm /\ wm \in Nat
    BY <2>1, Numbers DEF Ordered
  <2>3. cursor[d] + 1 \in Nat /\ 1..(cursor[d] + 1) \subseteq covered[d] \cup {cursor[d] + 1}
    <3>1. 1..cursor[d] \subseteq covered[d]
      BY <2>1 DEF Covering, NoGap
    <3>2. 1..(cursor[d] + 1) \subseteq 1..cursor[d] \cup {cursor[d] + 1}
      BY <2>2
    <3> QED
      BY <2>2, <3>1, <3>2
  <2>4. \A c \in Calls : Fades(calls'[c], calls[c])
    BY <2>1 DEF Fades
  <2> QED
    BY <1>1, <2>1, <2>3, <2>4
<1> QED
  BY <1>2, <1>3

\* A client whose process restarts, or whose device signs in or out, forgets what it
\* waited for.
LEMMA SigningKeepsCovering ==
  ASSUME Ordered, Covering, NEW e \in Devices,
         Bind(e) \/ Revoke(e) \/ LogOut(e) \/ Restart(e)
  PROVE  Covering'
<1>1. Forget(e) /\ floor' = floor /\ wm' = wm
  BY DEF Bind, BindWith, Revoke, LogOut, Restart, tables
<1>2. ASSUME NEW c \in Calls
      PROVE  /\ Fades(calls'[c], calls[c])
             /\ calls[c].dev # e => calls'[c] = calls[c]
             /\ calls[c].dev = e => ~ calls'[c].asked
             /\ Backed(calls'[c], cursor, covered, auth)
             /\ calls[c].kind # "none" => calls[c].dev \in Devices
  BY <1>1, ForgetFades, FadedIsBacked DEF Covering, Ordered, Orderly
<1>3. OneState'
  BY <1>2, FadedIsOneState DEF Covering
<1>4. ASSUME NEW d \in auth, NEW n \in Nat, Spared(d, n, cursor, covered, calls)
      PROVE  Spared(d, n, cursor, covered, calls')
  BY <1>2, <1>4, FadedIsSpared
<1>5. CASE Bind(e)
  <2>1. /\ pruner' = 0 /\ auth' = auth \cup {e}
        /\ cursor' = [cursor EXCEPT ![e] = None] /\ covered' = [covered EXCEPT ![e] = 1..wm]
        /\ states' = [states EXCEPT ![e] = Raised(@, wm, floor)]
    BY <1>5 DEF Bind, BindWith, tables
  <2>2. /\ cursor'[e] = None /\ covered'[e] = 1..wm
        /\ \A d \in Devices : d # e => cursor'[d] = cursor[d] /\ covered'[d] = covered[d]
                                   /\ states'[d] = states[d]
    BY <2>1 DEF Ordered
  <2>3. ASSUME NEW c \in Calls
        PROVE  Backed(calls'[c], cursor', covered', auth')
    <3> DEFINE x == calls'[c]
    <3>1. CASE x.kind = "none" /\ ~ x.asked
      BY <3>1 DEF Backed
    <3>2. CASE /\ x.kind = calls[c].kind /\ x.dev = calls[c].dev /\ x.from = calls[c].from
               /\ x.kind # "none"
      <4>1. CASE x.dev = e
        <5>1. 1..x.from \subseteq covered'[e]
          BY <2>2, <3>2, Numbers
        <5>2. ~ x.asked
          BY <1>2, <3>2, <4>1
        <5> HIDE DEF x
        <5> QED
          BY <2>2, <4>1, <5>1, <5>2 DEF Backed, x
      <4>2. CASE x.dev # e
        <5>1. /\ cursor'[x.dev] = cursor[x.dev] /\ covered'[x.dev] = covered[x.dev]
              /\ Backed(x, cursor, covered, auth) /\ (x.dev \in auth' => x.dev \in auth)
          BY <1>2, <2>1, <2>2, <3>2, <4>2
        <5> HIDE DEF x
        <5> QED
          BY <5>1 DEF Backed, x
      <4> QED
        BY <4>1, <4>2
    <3>3. x.kind = "none" => ~ x.asked
      BY <1>2 DEF Fades, Ordered, Orderly
    <3> QED
      BY <1>2, <3>1, <3>2, <3>3 DEF Fades
  <2>4. NoGap'
    BY <2>2 DEF NoGap, Covering
  <2>5. ASSUME NEW n \in Nat, n <= wm
        PROVE  Spared(e, n, cursor', covered', calls')
    <3>1. 1..n \subseteq 1..wm
      BY <2>5, Numbers
    <3> QED
      BY <2>2, <3>1 DEF Spared
  <2>6. ASSUME NEW d \in auth, d # e, NEW n \in Nat, Spared(d, n, cursor, covered, calls)
        PROVE  Spared(d, n, cursor', covered', calls')
    <3>1. d \in Devices /\ Spared(d, n, cursor, covered, calls')
      BY <1>4, <2>6 DEF Ordered
    <3> QED
      BY <2>2, <2>6, <3>1 DEF Spared
  <2>7. states'[e].observed \in Nat /\ states'[e].observed <= wm
    <3>1. Ordered'
      BY <1>5, SigningIsOrdered
    <3>2. wm \in Nat /\ states'[e] \in StatesUpTo(wm)
      BY <1>1, <3>1, Numbers DEF Ordered
    <3> QED
      BY <3>2 DEF StatesUpTo
  <2>8. Marked'
    <3> SUFFICES ASSUME NEW d \in auth'
                 PROVE  /\ Spared(d, states'[d].observed, cursor', covered', calls')
                        /\ Spared(d, floor, cursor', covered', calls')
                        /\ Spared(d, 0, cursor', covered', calls')
      BY <1>1, <2>1 DEF Marked
    <3>1. CASE d = e
      BY <2>5, <2>7, <3>1, Numbers, SparedNothing
    <3>2. CASE d # e
      <4>1. d \in auth /\ states'[d] = states[d]
        BY <2>1, <2>2, <3>2 DEF Ordered
      <4> QED
        BY <2>6, <3>2, <4>1, MarksAreSpared, SparedNothing
    <3> QED
      BY <3>1, <3>2
  <2> QED
    BY <1>3, <2>3, <2>4, <2>8 DEF Covering
<1>6. CASE Revoke(e) \/ LogOut(e)
  <2>1. /\ auth' = auth \ {e} /\ pruner' = pruner /\ cursor' = cursor /\ covered' = covered
        /\ states' = states \/ states' = [states EXCEPT ![e] = NoState]
    BY <1>6 DEF Revoke, LogOut, tables, clients
  <2>2. ASSUME NEW c \in Calls
        PROVE  Backed(calls'[c], cursor', covered', auth')
    <3> DEFINE x == calls'[c]
    <3>1. Backed(x, cursor, covered, auth) /\ (x.dev \in auth' => x.dev \in auth)
      BY <1>2, <2>1
    <3> HIDE DEF x
    <3>2. Backed(x, cursor', covered', auth')
      BY <2>1, <3>1 DEF Backed
    <3> QED
      BY <3>2 DEF x
  <2>3. NoGap'
    BY <2>1 DEF NoGap, Covering
  <2>4. Marked'
    <3> SUFFICES ASSUME NEW d \in auth'
                 PROVE  /\ Spared(d, states'[d].observed, cursor, covered, calls')
                        /\ Spared(d, floor, cursor, covered, calls')
                        /\ Spared(d, pruner, cursor, covered, calls')
      BY <1>1, <2>1 DEF Marked
    <3>1. d \in auth /\ states'[d] = states[d]
      BY <2>1 DEF Ordered
    <3> QED
      BY <1>4, <3>1, MarksAreSpared
  <2> QED
    BY <1>3, <2>2, <2>3, <2>4 DEF Covering
<1>7. CASE Restart(e)
  <2>1. /\ auth' = auth /\ pruner' = pruner /\ covered' = covered /\ states' = states
        /\ cursor[e] # None /\ cursor' = [cursor EXCEPT ![e] = None]
    BY <1>7 DEF Restart, tables
  <2>2. /\ cursor'[e] = None
        /\ \A d \in Devices : d # e => cursor'[d] = cursor[d]
    BY <2>1 DEF Ordered
  <2>3. ASSUME NEW c \in Calls
        PROVE  Backed(calls'[c], cursor', covered', auth')
    <3> DEFINE x == calls'[c]
    <3>1. CASE x.kind = "none" /\ ~ x.asked
      BY <3>1 DEF Backed
    <3>2. CASE x.kind = calls[c].kind /\ x.dev = calls[c].dev /\ x.kind # "none"
      <4>1. Backed(x, cursor, covered, auth)
        BY <1>2
      <4>2. (x.dev = e => ~ x.asked) /\ (x.dev # e => cursor'[x.dev] = cursor[x.dev])
        BY <1>2, <2>2, <3>2
      <4> HIDE DEF x
      <4>3. Backed(x, cursor', covered', auth')
        BY <2>1, <2>2, <4>1, <4>2 DEF Backed
      <4> QED
        BY <4>3 DEF x
    <3>3. x.kind = "none" => ~ x.asked
      BY <1>2 DEF Fades, Ordered, Orderly
    <3> QED
      BY <1>2, <3>1, <3>2, <3>3 DEF Fades
  <2>4. NoGap'
    BY <2>1, <2>2 DEF NoGap, Covering
  <2>5. ASSUME NEW d \in auth, NEW n \in Nat, Spared(d, n, cursor, covered, calls)
        PROVE  Spared(d, n, cursor', covered, calls')
    <3>1. d \in Devices /\ Spared(d, n, cursor, covered, calls')
      BY <1>4, <2>5 DEF Ordered
    <3> QED
      BY <2>1, <2>2, <3>1 DEF Spared
  <2>6. Marked'
    BY <1>1, <2>1, <2>5, MarksAreSpared DEF Marked
  <2> QED
    BY <1>3, <2>3, <2>4, <2>6 DEF Covering
<1> QED
  BY <1>5, <1>6, <1>7

\* Every action keeps what the devices can do without covered.
LEMMA NextKeepsCovering ==
  ASSUME "state" \notin Impatient, Ordered, Covering, [Next]_vars
  PROVE  Covering'
<1>1. CASE LogStep
  BY <1>1, LogStepKeepsCovering
<1>2. ASSUME NEW d \in Devices, DeviceStep(d)
      PROVE  Covering'
  BY <1>2, SigningKeepsCovering, ClearKeepsCovering, ClientKeepsCovering, AskingKeepsCovering
  DEF DeviceStep
<1>3. ASSUME NEW c \in Calls, CallStep(c)
      PROVE  Covering'
  BY <1>3, ReadingKeepsCovering, HandlingKeepsCovering, ClientKeepsCovering DEF CallStep
<1>4. CASE UNCHANGED vars
  <2>1. /\ UNCHANGED <<auth, calls, clients>> /\ states' = states /\ floor' = floor
        /\ pruner' = pruner
    BY <1>4 DEF vars, tables
  <2> QED
    BY <2>1, MarksAreSpared, LogKeepsCovering
<1> QED
  BY <1>1, <1>2, <1>3, <1>4 DEF Next

\* Nothing is missing at the start.
LEMMA InitIsCovering == Init => Covering
<1> SUFFICES ASSUME Init
             PROVE  Covering
  OBVIOUS
<1>1. \A c \in Calls : calls[c] = Free
  BY DEF Init
<1>2. \A c \in Calls : Backed(calls[c], cursor, covered, auth)
  BY <1>1, BackedFree
<1>3. OneState
  BY <1>1, FreeCall, 0 \in Nat DEF OneState
<1>4. NoGap /\ Marked
  BY DEF Init, NoGap, Marked
<1> QED
  BY <1>2, <1>3, <1>4 DEF Covering

\* Whatever retention deletes between the statements of whichever handlers, no signed-in
\* client's cursor passes an update it neither received nor replaced by a snapshot, as
\* long as it does not repeat getState while one is in progress.
THEOREM NoSilentGapHolds ==
  ASSUME "state" \notin Impatient
  PROVE  Spec => []NoSilentGap
<1>1. Ordered /\ Covering /\ [Next]_vars => Covering'
  BY NextKeepsCovering
<1>2. Ordered /\ Covering => NoSilentGap
  BY DEF Ordered, Covering, NoGap, NoSilentGap
<1> QED
  BY <1>1, <1>2, InitIsCovering, Inductive, PTL DEF Spec
=============================================================================
