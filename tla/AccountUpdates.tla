--------------------------- MODULE AccountUpdates ---------------------------
(***************************************************************************)
(* One account's durable update log, read by its devices through           *)
(* updates.getState and updates.getDifference, and trimmed by retention.   *)
(*                                                                         *)
(* Retention may delete a prefix once every authorized device has observed *)
(* it: update_states.observed_pts is the cursor a device carried into a    *)
(* request, or the snapshot an audited client asked for.  Handlers read    *)
(* without locks, so the log may be trimmed between any two of their       *)
(* statements, and their commits run after the result is written to the    *)
(* socket, in any order.  Bind, append and prune exclude one another       *)
(* through the watermark row.                                              *)
(***************************************************************************)
EXTENDS Naturals, FiniteSets

CONSTANTS
  Devices,       \* the account's permanent auth keys
  Audited,       \* devices whose client restarts from getState (TDesktop, Android)
  FastSkippers,  \* devices that may send pts_total_limit
  Calls,         \* bound: RPC handlers in progress at a time
  None,          \* the cursor of a client that has none
  MaxPts,        \* bound: the largest pts of a behaviour
  PageLimit,     \* getDifferenceLimit (100 in the code)
  TotalLimit,    \* the pts_total_limit a fast skipper sends
  Impatient      \* what a client may repeat while the server still works on
                 \* the first: "logout" (sign in again), "state" (getState)

ASSUME DevicesAssumption == Audited \subseteq Devices /\ FastSkippers \subseteq Devices
ASSUME LimitsAssumption ==
  /\ MaxPts \in Nat /\ PageLimit \in Nat \ {0} /\ TotalLimit \in Nat \ {0}
  /\ Impatient \subseteq {"logout", "state"}
  /\ None \notin Nat

VARIABLES
  wm,       \* user_update_watermarks.contiguous_pts
  events,   \* user_update_events, by pts
  floor,    \* user_update_retention.retained_through_pts
  pruner,   \* a prune holding the watermark and retention rows, and its cut
  auth,     \* the devices with an authorizations row
  states,   \* each device's update_states row
  leaving,  \* the devices whose logOut has not yet cleared update_states
  calls,    \* the handlers in progress
  cursor,   \* client: its local pts
  covered   \* client: the updates it received, or took as covered by a snapshot

tables == <<wm, events, floor, pruner>>
clients == <<cursor, covered>>
vars == <<tables, auth, states, leaving, calls, clients>>

-----------------------------------------------------------------------------
Pts == 1..MaxPts
Larger(a, b) == IF a >= b THEN a ELSE b

\* A missing row counts as both watermarks at 0.
NoState == [delivered |-> 0, observed |-> 0]

\* Mutated: the last commit wins.
Replaced(s, delivered, observed) ==
  [delivered |-> delivered, observed |-> Larger(s.observed, observed)]

\* An upsert of update_states with GREATEST on both watermarks.
Raised(s, delivered, observed) ==
  [delivered |-> Larger(s.delivered, delivered), observed |-> Larger(s.observed, observed)]

\* A handler: where it stands, what it was asked, the account pts it read, the
\* cursor and events of its answer, and whether the answer says "more follows".
Free == [at |-> "free", kind |-> "none", dev |-> None, from |-> 0, top |-> 0,
         pts |-> 0, got |-> {}, more |-> FALSE, asked |-> FALSE]

Init ==
  /\ wm = 0 /\ events = {} /\ floor = 0
  /\ pruner = 0
  /\ auth = {}
  /\ states = [d \in Devices |-> NoState]
  /\ leaving = {}
  /\ calls = [c \in Calls |-> Free]
  /\ cursor = [d \in Devices |-> None]
  /\ covered = [d \in Devices |-> {}]

\* The client of device d forgets the requests it has in progress.
Forget(d) ==
  calls' = [c \in Calls |->
    IF calls[c].dev # d THEN calls[c]
    ELSE IF calls[c].at = "committed" THEN Free
    ELSE [calls[c] EXCEPT !.asked = FALSE]]

-----------------------------------------------------------------------------
(* The log.                                                                *)

\* Mutated: the watermark passes the event it was advanced for.
AppendPast ==
  /\ pruner = 0
  /\ wm < MaxPts
  /\ wm' = wm + 2
  /\ events' = events \cup {wm + 1}
  /\ UNCHANGED <<floor, pruner>>

AppendEvent ==
  /\ pruner = 0
  /\ wm < MaxPts
  /\ wm' = wm + 1
  /\ events' = events \cup {wm + 1}
  /\ UNCHANGED <<floor, pruner>>

\* An update of the account that no device of it originated.
Publish ==
  /\ AppendEvent
  /\ UNCHANGED <<auth, states, leaving, calls, clients>>

\* recordEventCore: the event commits first, the origin's state is saved after.
Record(d, c) ==
  /\ d \in auth /\ calls[c] = Free
  /\ AppendEvent
  /\ calls' = [calls EXCEPT ![c] =
       [Free EXCEPT !.at = "written", !.kind = "save", !.dev = d, !.pts = wm + 1]]
  /\ UNCHANGED <<auth, states, leaving, clients>>

\* A prefix every authorized device observed.  A device without update_states
\* counts as 0.
Confirmed(n) == auth # {} /\ \A d \in auth : n <= states[d].observed

\* Under the watermark and retention rows, which Bind and appends wait for.
BeginPrune(n) ==
  /\ pruner = 0
  /\ floor < n /\ n <= wm
  /\ Confirmed(n)
  /\ pruner' = n
  /\ UNCHANGED <<wm, events, floor, auth, states, leaving, calls, clients>>

CommitPrune ==
  /\ pruner # 0
  /\ events' = {p \in events : p > pruner}
  /\ floor' = pruner
  /\ pruner' = 0
  /\ UNCHANGED <<wm, auth, states, leaving, calls, clients>>

AbortPrune ==
  /\ pruner # 0
  /\ pruner' = 0
  /\ UNCHANGED <<wm, events, floor, auth, states, leaving, calls, clients>>

-----------------------------------------------------------------------------
(* Authorizations.                                                         *)

BindWith(d, observed) ==
  /\ pruner = 0
  /\ d \in leaving => "logout" \in Impatient
  /\ states[d].delivered <= wm /\ states[d].observed <= wm
  /\ states' = [states EXCEPT ![d] = Raised(@, wm, observed)]
  /\ auth' = auth \cup {d}
  /\ cursor' = [cursor EXCEPT ![d] = None]
  /\ covered' = [covered EXCEPT ![d] = 1..wm]
  /\ Forget(d)
  /\ UNCHANGED <<tables, leaving>>

\* Mutated: a new authorization starts with nothing observed.
BindUnobserved(d) == BindWith(d, 0)

\* bindAuthorization: delivered starts at the watermark, observed at the floor.
\* The client starts over: what precedes its sign-in it loads as history.
Bind(d) == BindWith(d, floor)

\* RevokeByHash, RevokeByUserExcept, or a Bind of the key to another account.
Revoke(d) ==
  /\ d \in auth
  /\ auth' = auth \ {d}
  /\ states' = [states EXCEPT ![d] = NoState]
  /\ Forget(d)
  /\ UNCHANGED <<tables, leaving, clients>>

\* onAuthLogOut deletes the authorization, then, in a later statement of its
\* own, every update_states row of the key.
LogOut(d) ==
  /\ d \in auth
  /\ auth' = auth \ {d}
  /\ leaving' = leaving \cup {d}
  /\ Forget(d)
  /\ UNCHANGED <<tables, states, clients>>

ClearAuthKey(d) ==
  /\ d \in leaving
  /\ leaving' = leaving \ {d}
  /\ states' \in {states, [states EXCEPT ![d] = NoState]}
  /\ UNCHANGED <<tables, auth, calls, clients>>

-----------------------------------------------------------------------------
(* Handlers.  Each action is one database statement of the handler, except *)
(* that Observe and Probe join to theirs the read of the account's state   *)
(* (currentState) that goes before it.                                     *)

Begin(c, kind, d, from) ==
  /\ calls[c] = Free
  /\ calls' = [calls EXCEPT ![c] =
       [Free EXCEPT !.at = "sent", !.kind = kind, !.dev = d, !.from = from,
                    !.asked = TRUE]]
  /\ UNCHANGED <<tables, auth, states, leaving, clients>>

\* A client without a cursor asks from 0, unless it restarts by getState.
AskDifference(d, c) ==
  /\ d \in auth
  /\ cursor[d] = None => d \notin Audited
  /\ Begin(c, "diff", d, IF cursor[d] = None THEN 0 ELSE cursor[d])

\* An audited client asks for a snapshot only when it has no cursor; others may
\* ask at any time, for instance to probe the connection.
AskState(d, c) ==
  /\ d \in auth
  /\ d \in Audited => cursor[d] = None
  /\ "state" \in Impatient \/ ~\E b \in Calls : calls[b].dev = d /\ calls[b].kind = "state"
  /\ Begin(c, "state", d, 0)

Step(c, changes) ==
  /\ calls' = [calls EXCEPT ![c] = changes]
  /\ UNCHANGED <<tables, auth, leaving, clients>>

\* ObserveDifferenceRequest: what the client carries, it owns.
Observe(c) ==
  LET r == calls[c]
      from == IF r.from > wm THEN wm ELSE r.from
  IN  /\ r.at = "sent" /\ r.kind = "diff"
      /\ states' = [states EXCEPT ![r.dev] = Raised(@, 0, from)]
      /\ Step(c, [r EXCEPT !.at = "observed", !.from = from])

Ready(r, pts, got, more) ==
  [r EXCEPT !.at = "ready", !.pts = pts, !.got = got, !.more = more]

\* The reset a client asks for with pts_total_limit.
TooLong(c) ==
  LET r == calls[c]
  IN  /\ r.at = "observed" /\ r.dev \in FastSkippers
      /\ r.from > 0 /\ wm - r.from > TotalLimit
      /\ Step(c, Ready([r EXCEPT !.kind = "skip"], wm, {}, FALSE))
      /\ UNCHANGED states

\* Mutated: the floor is not looked at.
NeverBelowFloor(r) == FALSE

\* retainedPrefixCheckpoint finds a floor above the request's cursor.
BelowFloor(r) == r.dev \in auth /\ r.from < floor

\* It fails fast on a device whose observed cursor is below the floor.
BaselineBroken(d) == d \in auth /\ floor > 0 /\ states[d].observed < floor

\* currentState and the first checkpoint probe.
Probe(c) ==
  LET r == calls[c]
  IN  /\ r.at = "observed"
      /\ Step(c, IF BaselineBroken(r.dev) THEN Free
                 ELSE IF BelowFloor(r) THEN Ready(r, floor, {}, TRUE)
                 ELSE IF r.from >= wm THEN Ready(r, wm, {}, FALSE)
                 ELSE [r EXCEPT !.at = "listing", !.top = wm])
      /\ UNCHANGED states

\* ListAfter: the first PageLimit events after the cursor.
Page(from) ==
  {p \in events : p > from /\ Cardinality({q \in events : from < q /\ q <= p}) <= PageLimit}

\* contiguousPrefix: up to the first gap.
Contiguous(from) == {p \in Page(from) : \A q \in (from + 1)..p : q \in Page(from)}

LastOf(from, got) == IF got = {} THEN from ELSE CHOOSE p \in got : \A q \in got : q <= p

ListThen(c, onNothing) ==
  LET r == calls[c]
      got == Contiguous(r.from)
  IN  /\ r.at = "listing"
      /\ Step(c, IF got = {} THEN onNothing
                 ELSE Ready(r, LastOf(r.from, got), got, Cardinality(got) = PageLimit))
      /\ UNCHANGED states

\* Mutated: an empty page answers at once.
ListUnchecked(c) == ListThen(c, Ready(calls[c], calls[c].from, {}, FALSE))

\* The page; when retention took all of it, the floor is read again.
List(c) == ListThen(c, [calls[c] EXCEPT !.at = "recheck"])

Recheck(c) ==
  LET r == calls[c]
  IN  /\ r.at = "recheck"
      /\ Step(c, IF BaselineBroken(r.dev) THEN Free
                 ELSE IF BelowFloor(r) THEN Ready(r, floor, {}, TRUE)
                 ELSE Ready(r, r.from, {}, FALSE))
      /\ UNCHANGED states

\* onUpdatesGetState.
Snapshot(c) ==
  LET r == calls[c]
  IN  /\ r.at = "sent" /\ r.kind = "state"
      /\ Step(c, Ready(r, wm, {}, FALSE))
      /\ UNCHANGED states

\* The result is written to the socket, whether or not the client reads it.
Write(c) ==
  /\ calls[c].at = "ready"
  /\ calls' = [calls EXCEPT ![c].at = "written"]
  /\ UNCHANGED <<tables, auth, states, leaving, clients>>

CommitWith(c, baseline) ==
  LET r == calls[c]
  IN  /\ r.at = "written"
      /\ states' = [states EXCEPT ![r.dev] =
           Raised(@, r.pts, IF baseline THEN r.pts ELSE 0)]
      /\ Step(c, IF r.asked THEN [r EXCEPT !.at = "committed"] ELSE Free)

\* Mutated: every client's getState is a baseline.
CommitAnyBaseline(c) == CommitWith(c, calls[c].kind = "state")

\* Mutated: every answer sent counts as observed.
CommitAnyAnswer(c) == CommitWith(c, TRUE)

\* CommitDeliveredState, run by the delivery callback; Save for "save".
Commit(c) == CommitWith(c, calls[c].kind = "state" /\ calls[c].dev \in Audited)

\* The handler, its answer or its callback is lost, at any point.
Lose(c) ==
  /\ calls[c].at # "free"
  /\ Step(c, Free)
  /\ UNCHANGED states

-----------------------------------------------------------------------------
(* Clients.                                                                *)

Adopt(d, pts, got) ==
  /\ cursor' = [cursor EXCEPT ![d] = pts]
  /\ covered' = [covered EXCEPT ![d] = @ \cup got]

\* A difference and a reset continue the cursor they were asked from; a snapshot
\* starts a client that has none.
Fits(r) ==
  IF r.kind = "state" THEN cursor[r.dev] = None
  ELSE cursor[r.dev] = r.from \/ (cursor[r.dev] = None /\ r.from = 0)

\* The client reads an answer it still waits for.  A snapshot or a reset stands
\* for all the updates it covers.
Receive(c) ==
  LET r == calls[c]
  IN  /\ r.at \in {"written", "committed"} /\ r.asked
      /\ calls' = [calls EXCEPT ![c] =
           IF r.at = "committed" THEN Free ELSE [r EXCEPT !.asked = FALSE]]
      /\ IF Fits(r)
         THEN Adopt(r.dev, r.pts, IF r.kind = "diff" THEN r.got ELSE 1..r.pts)
         ELSE UNCHANGED clients
      /\ UNCHANGED <<tables, auth, states, leaving>>

\* An update pushed online, or returned to its origin, is applied only when it
\* is the next one.
ApplyPush(d) ==
  /\ d \in auth
  /\ cursor[d] # None /\ cursor[d] < wm
  /\ Adopt(d, cursor[d] + 1, {cursor[d] + 1})
  /\ UNCHANGED <<tables, auth, states, leaving, calls>>

\* An audited client's process restarts without its cursor.
Restart(d) ==
  /\ d \in Audited
  /\ cursor[d] # None
  /\ cursor' = [cursor EXCEPT ![d] = None]
  /\ Forget(d)
  /\ UNCHANGED <<tables, auth, states, leaving, covered>>

-----------------------------------------------------------------------------
LogStep == Publish \/ (\E n \in Pts : BeginPrune(n)) \/ CommitPrune \/ AbortPrune

DeviceStep(d) ==
  \/ Bind(d) \/ Revoke(d) \/ LogOut(d) \/ ClearAuthKey(d)
  \/ ApplyPush(d) \/ Restart(d)
  \/ \E c \in Calls : Record(d, c) \/ AskDifference(d, c) \/ AskState(d, c)

CallStep(c) ==
  \/ Observe(c) \/ TooLong(c) \/ Probe(c) \/ List(c) \/ Recheck(c) \/ Snapshot(c)
  \/ Write(c) \/ Commit(c) \/ Lose(c) \/ Receive(c)

Next ==
  \/ LogStep
  \/ \E d \in Devices : DeviceStep(d)
  \/ \E c \in Calls : CallStep(c)

Spec == Init /\ [][Next]_vars

-----------------------------------------------------------------------------
\* The tables, handlers and clients keep their types, and the log holds every
\* update above the retained floor.
TypeOK ==
  /\ wm \in 0..MaxPts /\ floor \in 0..wm /\ pruner \in 0..wm
  /\ events = (floor + 1)..wm
  /\ auth \subseteq Devices /\ leaving \subseteq Devices
  /\ states \in [Devices -> [delivered : 0..MaxPts, observed : 0..MaxPts]]
  /\ calls \in [Calls ->
       [at : {"free", "sent", "observed", "listing", "recheck", "ready", "written",
               "committed"},
        kind : {"none", "diff", "state", "skip", "save"},
        dev : Devices \cup {None}, from : 0..MaxPts, top : 0..MaxPts,
        pts : 0..MaxPts, got : SUBSET Pts, more : BOOLEAN, asked : BOOLEAN]]
  /\ cursor \in [Devices -> 0..MaxPts \cup {None}]
  /\ covered \in [Devices -> SUBSET Pts]

\* No client's cursor passes an update it neither received nor replaced by a
\* snapshot it asked for: retention never takes an update a device still needs.
NoSilentGap ==
  \A d \in auth : cursor[d] # None => 1..cursor[d] \subseteq covered[d]

\* "Once the retained floor is positive, an authorization that still exists has
\* observed_pts >= floor" (update_event_retention.go:260): getDifference fails
\* for a device that breaks it.
BaselineHolds == \A d \in auth : ~BaselineBroken(d)

\* A client is told it is synchronised only when it has everything the account
\* had when the handler read the log, although the log may be trimmed meanwhile.
HonestAnswer ==
  \A c \in Calls :
    LET r == calls[c]
    IN  r.at = "ready" /\ r.kind = "diff" /\ r.asked /\ r.got = {} /\ ~r.more =>
          r.top <= r.from

\* Commits run in any order, yet no watermark of an authorized device falls.
NeverBackwards ==
  [][\A d \in auth \cap auth' :
       /\ states[d].delivered <= states'[d].delivered
       /\ states[d].observed <= states'[d].observed]_vars

\* The client of d reads an answer to its getDifference.
Heard(d) ==
  \E c \in Calls : calls[c].dev = d /\ calls[c].kind = "diff" /\ Receive(c)

\* A device that stays signed in and hears answers again and again reaches the
\* account's pts, page by page, across prefixes pruned while it reads and
\* whatever other handlers, devices and losses do.  Hearing them is the only
\* fairness it needs: a server that never answers helps nobody, and an answer
\* that is heard but never fits must not exist.
CaughtUp ==
  \A d \in Devices \ Audited :
    []<><<Heard(d)>>_vars =>
      []<>(d \notin auth \/ cursor[d] = wm) \/ []<><<Bind(d)>>_vars
=============================================================================
