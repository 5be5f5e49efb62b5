------------------------- MODULE SecretChatsProofs -------------------------
(***************************************************************************)
(* What holds of secret chats for any number of chats, devices, handlers   *)
(* and faults: a chat is bound once, nothing but the push of a repeated    *)
(* request shows it established to a device that is not one of its two     *)
(* ends, and a device's queue is exact.                                    *)
(***************************************************************************)
EXTENDS SecretChats, FiniteSetTheorems, NaturalsInduction, WellFoundedInduction, TLAPS

Somebody == Devices \cup {None}
ChatRows == [state : {"none", "requested", "normal", "discarded"},
             bound : Somebody, ender : Somebody]
Told == [chat : Chats, user : Users, dev : Somebody]
Messages == [qts : Nat, chat : Chats, rid : RandomIds \cup {None}]
Views == {None, "waiting", "requested", "normal", "discarded"}
Stages == {"write", "tell", "list", "cascade", "lookup", "append"}
Handlers == [n : 1..MaxRunning, kind : Kinds, dev : Devices, chat : Chats \cup {None},
             rid : RandomIds \cup {None}, at : Stages, key : Somebody,
             left : SUBSET Chats, tell : Seq(Told), view : Views]
Differences == [at : {"idle", "read"}, todo : SUBSET Nat, ids : SUBSET Nat, upto : Nat,
                views : [Chats -> Views \cup {"skipped"}]]

\* The devices chat c belongs to under the rows ch.
EndsOf(ch, c) == {Inviter[c], ch[c].bound} \ {None}

\* A row r of chat c: the device bound on the invited side is one of that account's.
Sound(r, c) ==
  /\ r.bound \in DevicesOf(Invited[c]) \cup {None}
  /\ r.state = "normal" => r.bound # None
  /\ r.ender # None <=> r.state = "discarded"

\* An event for a single device is for an end of its chat.
Addressed(e, ch) == e.dev # None => Owner[e.dev] = e.user /\ e.dev \in EndsOf(ch, e.chat)

\* A handler k under the rows ch: it addresses and answers ends only.
Fit(k, ch) ==
  /\ k.kind # "logout" => k.chat \in Chats
  /\ k.kind = "accept" => Owner[k.dev] = Invited[k.chat]
  /\ k.kind = "send" => k.key \in Devices /\ k.key \in EndsOf(ch, k.chat)
  /\ k.at = "tell" => k.tell # <<>>
  /\ k.view = "normal" /\ k.chat \in Chats => k.dev \in EndsOf(ch, k.chat)
  /\ \A i \in DOMAIN k.tell : Addressed(k.tell[i], ch)

\* A queue Q of device d with watermark n: numbered without a gap, without repetition,
\* for an end of each chat.
Pairs(Q) == {<<m.chat, m.rid>> : m \in Q}
Exact(Q, n, d, ch) ==
  /\ Q \subseteq Messages
  /\ {m.qts : m \in Q} = 1..n
  /\ IsFiniteSet(Pairs(Q)) /\ Cardinality(Pairs(Q)) = n
  /\ \A m \in Q : d \in EndsOf(ch, m.chat)

Rows == chat \in [Chats -> ChatRows] /\ \A c \in Chats : Sound(chat[c], c)
Running ==
  /\ calls \subseteq Handlers /\ IsFiniteSet(calls)
  /\ \A k \in calls : Fit(k, chat)
Log == events \in Seq(Told) /\ \A i \in DOMAIN events : Addressed(events[i], chat)
Queues ==
  /\ queue \in [Devices -> SUBSET Messages] /\ reserved \in [Devices -> Nat]
  /\ \A d \in Devices : Exact(queue[d], reserved[d], d, chat)

\* A difference holds events of its reader, and has seen nothing established that is
\* not the reader's.
Reading ==
  /\ reader \in Readers
  /\ diff \in Differences
  /\ diff.todo \subseteq DOMAIN events /\ diff.ids \subseteq DOMAIN events
  /\ \A i \in diff.todo : events[i].dev \in {None, reader}
  /\ \A c \in Chats : diff.views[c] = "normal" => reader \in EndsOf(chat, c)
  /\ diff.upto <= reserved[reader]
  /\ retired \subseteq DOMAIN events
  /\ cursor \in 0..reserved[reader]

\* What reached the reader: established chats are shown to their ends, and pushed to
\* the device that invited or, by a repeated request, to the invited account.
Remembered ==
  /\ shown \in [Chats -> SUBSET {"normal", "discarded"}]
  /\ \A c \in Chats : "normal" \in shown[c] => reader \in EndsOf(chat, c)
  /\ pushed \in [Chats -> SUBSET {"request", "accept"}]
  /\ \A c \in Chats : "accept" \in pushed[c] => reader = Inviter[c]
  /\ \A c \in Chats : "request" \in pushed[c] => Owner[reader] = Invited[c]
Tallied ==
  /\ revoked \subseteq Devices /\ missed \subseteq Chats
  /\ started \in 0..MaxCalls /\ faults \in 0..MaxFaults

IInv == Rows /\ Running /\ Log /\ Queues /\ Reading /\ Remembered /\ Tallied

-----------------------------------------------------------------------------
(* Numbers of handlers.                                                    *)

\* A nonempty set of natural numbers has a least element.
LEMMA LeastExists ==
  ASSUME NEW S \in SUBSET Nat, S # {}
  PROVE  \E x \in S : \A y \in S : x <= y
<1>1. IsWellFoundedOn(OpToRel(<, Nat), Nat)
  BY NatLessThanWellFounded
<1>2. PICK x \in S : \A y \in S : ~ (<<y, x>> \in OpToRel(<, Nat))
  BY <1>1, WFMin
<1>3. \A y \in S : ~ (y < x)
  BY <1>2 DEF OpToRel
<1> QED
  BY <1>3

\* Fewer handlers than the bound leave a number free for another.
LEMMA SomeNumberIsFree ==
  ASSUME NEW C, IsFiniteSet(C), NEW m \in Nat, Cardinality(C) < m, NEW d
  PROVE  \E n \in 1..m : \A k \in C : k.dev = d => k.n # n
<1>1. SUFFICES ASSUME \A n \in 1..m : \E k \in C : k.dev = d /\ k.n = n
               PROVE  FALSE
  OBVIOUS
<1> DEFINE named == {k \in C : k.dev = d /\ k.n \in 1..m}
           number == [k \in named |-> k.n]
<1>2. IsFiniteSet(named) /\ Cardinality(named) <= Cardinality(C)
  BY FS_Subset
<1>3. number \in [named -> 1..m]
  OBVIOUS
<1>4. \A n \in 1..m : \E k \in named : number[k] = n
  BY <1>1
<1>5. number \in Surjection(named, 1..m)
  BY <1>3, <1>4 DEF Surjection
<1>6. Cardinality(1..m) <= Cardinality(named)
  BY <1>2, <1>5, FS_Surjection
<1>7. Cardinality(1..m) = m
  BY FS_Interval
<1>8. Cardinality(C) \in Nat /\ Cardinality(named) \in Nat
  BY <1>2, FS_CardinalityType
<1> QED
  BY <1>2, <1>6, <1>7, <1>8

\* A new handler of a device gets a number below the bound that the device's other
\* handlers do not have.
LEMMA FreeNumber ==
  ASSUME Running, Cardinality(calls) < MaxRunning, NEW d
  PROVE  /\ Free(d) \in 1..MaxRunning
         /\ \A k \in calls : k.dev = d => k.n # Free(d)
<1> DEFINE free == {n \in 1..MaxRunning : \A k \in calls : k.dev = d => k.n # n}
<1>1. free \in SUBSET Nat /\ free # {}
  <2>1. PICK n \in 1..MaxRunning : \A k \in calls : k.dev = d => k.n # n
    BY SomeNumberIsFree, ChatBoundsAssumption DEF Running
  <2> QED
    BY <2>1, ChatBoundsAssumption
<1>2. PICK n \in free : \A i \in free : n <= i
  BY <1>1, LeastExists
<1>3. \A i \in 1..n - 1 : \E k \in calls : k.dev = d /\ k.n = i
  BY <1>2, ChatBoundsAssumption
<1>4. \E i \in 1..MaxRunning :
        /\ \A k \in calls : k.dev = d => k.n # i
        /\ \A j \in 1..i - 1 : \E k \in calls : k.dev = d /\ k.n = j
  BY <1>2, <1>3
<1> QED
  BY <1>4 DEF Free

-----------------------------------------------------------------------------
(* A chat gains ends and never loses one, so whoever was addressed stays.  *)

Grows(ch, ch2) == \A c \in Chats : EndsOf(ch, c) \subseteq EndsOf(ch2, c)

\* An event addressed to an end stays so.
LEMMA StillAddressed ==
  ASSUME NEW ch, NEW ch2, Grows(ch, ch2), NEW e, e \in Told, Addressed(e, ch)
  PROVE  Addressed(e, ch2)
BY DEF Grows, Told, Addressed

\* What a handler says and asks for stays fit when a chat gains an end.
LEMMA StillFit ==
  ASSUME NEW ch, NEW ch2, Grows(ch, ch2), NEW k, k \in Handlers, Fit(k, ch)
  PROVE  Fit(k, ch2)
<1>1. \A i \in DOMAIN k.tell : k.tell[i] \in Told
  BY DEF Handlers
<1>2. \A i \in DOMAIN k.tell : Addressed(k.tell[i], ch2)
  BY <1>1, StillAddressed DEF Fit
<1>3. k.kind # "logout" => k.chat \in Chats
  BY DEF Fit
<1>4. k.kind = "send" => k.key \in Devices /\ k.key \in EndsOf(ch2, k.chat)
  BY <1>3 DEF Fit, Grows
<1>5. k.view = "normal" /\ k.chat \in Chats => k.dev \in EndsOf(ch2, k.chat)
  BY DEF Fit, Grows
<1> QED
  BY <1>2, <1>3, <1>4, <1>5 DEF Fit

\* A queue stays exact.
LEMMA StillExact ==
  ASSUME NEW ch, NEW ch2, Grows(ch, ch2), NEW Q, NEW n, NEW d, Exact(Q, n, d, ch)
  PROVE  Exact(Q, n, d, ch2)
<1>1. \A m \in Q : m.chat \in Chats
  BY DEF Exact, Messages
<1> QED
  BY <1>1 DEF Exact, Grows

\* A row changes soundly: the bound device is kept, or set where there was none.
LEMMA RowChange ==
  ASSUME Rows, NEW c \in Chats, NEW r \in ChatRows, Sound(r, c),
         chat[c].bound # None => r.bound = chat[c].bound,
         chat' = [chat EXCEPT ![c] = r]
  PROVE  Rows' /\ Grows(chat, chat')
<1>1. chat' \in [Chats -> ChatRows] /\ \A x \in Chats : chat'[x] = IF x = c THEN r ELSE chat[x]
  BY DEF Rows
<1>2. \A x \in Chats : Sound(chat'[x], x)
  BY <1>1 DEF Rows
<1>3. \A x \in Chats : EndsOf(chat, x) \subseteq EndsOf(chat', x)
  BY <1>1 DEF EndsOf
<1> QED
  BY <1>1, <1>2, <1>3 DEF Rows, Grows

\* Rows that do not change keep their ends.
LEMMA RowsKept ==
  ASSUME Rows, UNCHANGED chat
  PROVE  Rows' /\ Grows(chat, chat')
BY DEF Rows, Grows, EndsOf

-----------------------------------------------------------------------------
(* Frames: what the parts of the invariant need from a step.               *)

\* A handler is started.
LEMMA Starting ==
  ASSUME Running, Grows(chat, chat'), NEW k, k \in Handlers, Fit(k, chat'), Started(k)
  PROVE  Running'
<1>1. calls' = calls \cup {k}
  BY DEF Started
<1>2. IsFiniteSet(calls')
  BY <1>1, FS_AddElement DEF Running
<1>3. \A x \in calls : Fit(x, chat')
  BY StillFit DEF Running
<1> QED
  BY <1>1, <1>2, <1>3 DEF Running

\* A handler goes on.
LEMMA Continuing ==
  ASSUME Running, Grows(chat, chat'), NEW k, NEW l, l \in Handlers, Fit(l, chat'),
         Becomes(k, l)
  PROVE  Running'
<1>1. calls' = (calls \ {k}) \cup {l}
  BY DEF Becomes
<1>2. IsFiniteSet(calls \ {k})
  BY FS_RemoveElement DEF Running
<1>3. IsFiniteSet(calls')
  BY <1>1, <1>2, FS_AddElement
<1>4. \A x \in calls : Fit(x, chat')
  BY StillFit DEF Running
<1> QED
  BY <1>1, <1>3, <1>4 DEF Running

\* A handler ends.
LEMMA Ending ==
  ASSUME Running, Grows(chat, chat'), NEW k, End(k)
  PROVE  Running'
<1>1. calls' = calls \ {k}
  BY DEF End
<1>2. IsFiniteSet(calls')
  BY <1>1, FS_RemoveElement DEF Running
<1>3. \A x \in calls : Fit(x, chat')
  BY StillFit DEF Running
<1> QED
  BY <1>1, <1>2, <1>3 DEF Running

\* The events written so far.
LEMMA LogKept ==
  ASSUME Log, Grows(chat, chat'), UNCHANGED events
  PROVE  Log'
<1>1. \A i \in DOMAIN events : events[i] \in Told
  BY DEF Log
<1>2. \A i \in DOMAIN events : Addressed(events[i], chat')
  BY <1>1, StillAddressed DEF Log
<1> QED
  BY <1>2 DEF Log

\* The queues.
LEMMA QueuesKept ==
  ASSUME Queues, Grows(chat, chat'), UNCHANGED queueVars
  PROVE  Queues'
<1>1. \A d \in Devices : Exact(queue[d], reserved[d], d, chat')
  BY StillExact DEF Queues
<1> QED
  BY <1>1 DEF Queues, queueVars

\* The difference that is going on.
LEMMA ReadingKept ==
  ASSUME Reading, Grows(chat, chat'), UNCHANGED <<events, reserved, diffVars>>
  PROVE  Reading'
<1>1. \A c \in Chats : diff.views[c] = "normal" => reader \in EndsOf(chat', c)
  BY DEF Reading, Grows
<1> QED
  BY <1>1 DEF Reading, diffVars

\* What the reader was shown.
LEMMA RememberedKept ==
  ASSUME Remembered, Grows(chat, chat'), UNCHANGED <<shownVars, reader>>
  PROVE  Remembered'
<1>1. \A c \in Chats : "normal" \in shown[c] => reader \in EndsOf(chat', c)
  BY DEF Remembered, Grows
<1> QED
  BY <1>1 DEF Remembered, shownVars

\* Steps that change handlers, chats and counters only.
LEMMA ChatsOnly ==
  ASSUME IInv, Rows', Grows(chat, chat'), Running', Tallied',
         UNCHANGED <<events, queueVars, diffVars, shownVars>>
  PROVE  IInv'
<1>1. Log' /\ Queues'
  BY LogKept, QueuesKept DEF IInv
<1>2. Reading'
  BY ReadingKept DEF IInv, queueVars
<1>3. Remembered'
  BY RememberedKept DEF IInv, diffVars
<1> QED
  BY <1>1, <1>2, <1>3 DEF IInv

\* Steps that change handlers and counters only.
LEMMA HandlersOnly ==
  ASSUME IInv, Running', Tallied', UNCHANGED <<chat, events, queueVars, diffVars, shownVars>>
  PROVE  IInv'
BY RowsKept, ChatsOnly DEF IInv

\* One more was started.
LEMMA StartedIsTallied ==
  ASSUME Tallied, NEW d \in Devices, CanStart(d), NEW k, Started(k),
         UNCHANGED <<revoked, missed, faults>>
  PROVE  Tallied'
BY ChatBoundsAssumption DEF Tallied, CanStart, Started

\* Nothing was counted.
LEMMA TalliedKept ==
  ASSUME Tallied, UNCHANGED <<revoked, missed, started, faults>>
  PROVE  Tallied'
BY DEF Tallied

-----------------------------------------------------------------------------
(* Records of handlers.                                                    *)

\* A handler as it is started.
LEMMA NewHandler ==
  ASSUME Running, NEW d \in Devices, CanStart(d), NEW kind \in Kinds,
         NEW c \in Chats \cup {None}, NEW at \in Stages, NEW k, k = Call(kind, d, c, at)
  PROVE  /\ k \in Handlers
         /\ k.kind = kind /\ k.dev = d /\ k.chat = c /\ k.at = at
         /\ k.tell = <<>> /\ k.view = None
<1>1. Free(d) \in 1..MaxRunning
  BY FreeNumber DEF CanStart
<1> QED
  BY <1>1 DEF Call, Handlers, Somebody, Views

\* A handler that has events to write.
LEMMA TellingHandler ==
  ASSUME NEW k, k \in Handlers, NEW list \in Seq(Told), NEW view \in Views,
         NEW l, l = Telling(k, list, view)
  PROVE  /\ l \in Handlers
         /\ l.kind = k.kind /\ l.dev = k.dev /\ l.chat = k.chat /\ l.key = k.key
         /\ l.at = "tell" /\ l.tell = list /\ l.view = view
BY DEF Telling, Handlers, Stages

\* What a chat looks like, and who its other end is.
LEMMA ViewsOfRows ==
  ASSUME Rows, NEW c \in Chats, NEW u
  PROVE  /\ View(c, u) \in Views
         /\ View(c, u) = "normal" => chat[c].state = "normal"
         /\ chat[c].state = "normal" => View(c, u) = "normal"
BY DEF Rows, View, ChatRows, Views

\* The event for the peer is addressed to an end.
LEMMA PeersAreEnds ==
  ASSUME Rows, NEW c \in Chats, NEW u
  PROVE  /\ PeerOf(c, u) \in Users
         /\ PeerBound(c, u) \in Somebody
         /\ PeerBound(c, u) # None =>
              PeerBound(c, u) \in EndsOf(chat, c) /\ Owner[PeerBound(c, u)] = PeerOf(c, u)
         /\ chat[c].state = "normal" => PeerBound(c, u) # None
<1>1. Inviter[c] \in Devices /\ Inviter[c] # None /\ Owner[Inviter[c]] \in Users
  BY ChatsAssumption
<1>2. Invited[c] \in Users /\ Invited[c] # Owner[Inviter[c]]
  BY ChatsAssumption
<1>3. /\ chat[c].bound \in Somebody
      /\ chat[c].bound # None => Owner[chat[c].bound] = Invited[c]
      /\ chat[c].state = "normal" => chat[c].bound # None
  BY DEF Rows, Sound, DevicesOf, Somebody
<1>4. CASE u = Owner[Inviter[c]]
  BY <1>2, <1>3, <1>4 DEF PeerOf, PeerBound, Bound, EndsOf
<1>5. CASE u # Owner[Inviter[c]]
  BY <1>1, <1>3, <1>5 DEF PeerOf, PeerBound, Bound, EndsOf, Somebody
<1> QED
  BY <1>4, <1>5

\* So the event recorded for it is well addressed.
LEMMA ForPeerIsAddressed ==
  ASSUME Rows, NEW c \in Chats, NEW u, NEW e, e = ForPeer(c, u)
  PROVE  e \in Told /\ Addressed(e, chat)
BY PeersAreEnds DEF ForPeer, Told, Addressed

-----------------------------------------------------------------------------
(* The handlers that start.                                                *)

\* One event that says nothing of a device.
LEMMA AccountEvent ==
  ASSUME NEW c \in Chats, NEW u \in Users, NEW ch
  PROVE  LET e == [chat |-> c, user |-> u, dev |-> None]
         IN  e \in Told /\ Addressed(e, ch)
BY DEF Told, Addressed, Somebody

\* A call that is answered with a view of a chat that its device is an end of.
LEMMA TellsOf ==
  ASSUME NEW k, k \in Handlers, k.chat \in Chats, k.kind \in {"request", "accept", "discard"},
         NEW list \in Seq(Told), list # <<>>, NEW view \in Views, NEW ch,
         \A i \in DOMAIN list : Addressed(list[i], ch),
         view = "normal" => k.dev \in EndsOf(ch, k.chat),
         k.kind = "accept" => Owner[k.dev] = Invited[k.chat]
  PROVE  Telling(k, list, view) \in Handlers /\ Fit(Telling(k, list, view), ch)
<1> DEFINE l == Telling(k, list, view)
<1>1. /\ l \in Handlers
      /\ l.kind = k.kind /\ l.dev = k.dev /\ l.chat = k.chat
      /\ l.at = "tell" /\ l.tell = list /\ l.view = view
  BY TellingHandler
<1> HIDE DEF l
<1>2. Fit(l, ch)
  BY <1>1 DEF Fit
<1> QED
  BY <1>1, <1>2 DEF l

\* requestEncryption.
LEMMA RequestKeeps ==
  ASSUME IInv, NEW c \in Chats, Request(c)
  PROVE  IInv'
<1> DEFINE d == Inviter[c]
           invitation == <<[chat |-> c, user |-> Invited[c], dev |-> None]>>
           new == Call("request", d, c, "tell")
<1>1. Rows /\ Running /\ Tallied
  BY DEF IInv
<1>2. d \in Devices /\ d # None /\ Invited[c] \in Users
  BY ChatsAssumption
<1>3. CanStart(d) /\ UNCHANGED <<revoked, events, queueVars, diffVars, shownVars, missed, faults>>
  BY DEF Request, OnlyChats
<1>4. /\ new \in Handlers /\ new.kind = "request" /\ new.dev = d /\ new.chat = c
  BY <1>1, <1>2, <1>3, NewHandler DEF Kinds, Stages
<1>5. invitation \in Seq(Told) /\ invitation # <<>>
      /\ \A ch : \A i \in DOMAIN invitation : Addressed(invitation[i], ch)
  BY <1>2, AccountEvent
<1>6. CASE /\ chat[c].state = "none"
           /\ chat' = [chat EXCEPT ![c].state = "requested"]
           /\ Started(Telling(new, invitation, "waiting"))
  <2> DEFINE r == [chat[c] EXCEPT !.state = "requested"]
  <2>1. r \in ChatRows /\ Sound(r, c) /\ r.bound = chat[c].bound
    BY <1>1, <1>6 DEF Rows, ChatRows, Sound
  <2>2. chat' = [chat EXCEPT ![c] = r]
    BY <1>6
  <2> HIDE DEF r
  <2>3. Rows' /\ Grows(chat, chat')
    BY <1>1, <2>1, <2>2, RowChange
  <2>4. /\ Telling(new, invitation, "waiting") \in Handlers
        /\ Fit(Telling(new, invitation, "waiting"), chat')
    <3> HIDE DEF new, invitation
    <3> QED
      BY <1>4, <1>5, TellsOf DEF Views
  <2>5. Running'
    BY <1>1, <1>6, <2>3, <2>4, Starting
  <2>6. Tallied'
    BY <1>1, <1>2, <1>3, <1>6, StartedIsTallied
  <2> QED
    BY <1>3, <2>3, <2>5, <2>6, ChatsOnly
<1>7. CASE /\ Started(Telling(new, invitation, View(c, Owner[d])))
           /\ UNCHANGED chat
  <2>1. Rows' /\ Grows(chat, chat')
    BY <1>1, <1>7, RowsKept
  <2>2. View(c, Owner[d]) \in Views /\ d \in EndsOf(chat', c)
    BY <1>1, <1>2, <1>7, ViewsOfRows DEF EndsOf
  <2>3. /\ Telling(new, invitation, View(c, Owner[d])) \in Handlers
        /\ Fit(Telling(new, invitation, View(c, Owner[d])), chat')
    <3> HIDE DEF new, invitation
    <3> QED
      BY <1>4, <1>5, <2>2, TellsOf
  <2>4. Running'
    BY <1>1, <1>7, <2>1, <2>3, Starting
  <2>5. Tallied'
    BY <1>1, <1>2, <1>3, <1>7, StartedIsTallied
  <2> QED
    BY <1>3, <2>1, <2>4, <2>5, ChatsOnly
<1> QED
  BY <1>6, <1>7 DEF Request

\* The first query of acceptEncryption and of discardEncryption.
LEMMA ReadsKeep ==
  ASSUME IInv, NEW d \in Devices, NEW c \in Chats, AcceptRead(d, c) \/ DiscardRead(d, c)
  PROVE  IInv'
<1>1. Rows /\ Running /\ Tallied
  BY DEF IInv
<1>2. /\ CanStart(d)
      /\ UNCHANGED <<chat, revoked, events, queueVars, diffVars, shownVars, missed, faults>>
  BY DEF AcceptRead, DiscardRead, OnlyCalls, rows
<1>3. PICK kind \in {"accept", "discard"} :
        /\ kind = "accept" => Owner[d] = Invited[c]
        /\ Started(Call(kind, d, c, "write"))
  BY DEF AcceptRead, DiscardRead
<1> DEFINE k == Call(kind, d, c, "write")
<1>4. /\ k \in Handlers /\ k.kind = kind /\ k.dev = d /\ k.chat = c /\ k.at = "write"
      /\ k.tell = <<>> /\ k.view = None
  BY <1>1, <1>2, NewHandler DEF Kinds, Stages
<1> HIDE DEF k
<1>5. Fit(k, chat')
  BY <1>3, <1>4, ChatsAssumption DEF Fit
<1>6. Grows(chat, chat')
  BY <1>1, <1>2, RowsKept
<1>7. Running'
  BY <1>1, <1>3, <1>4, <1>5, <1>6, Starting DEF k
<1>8. Tallied'
  BY <1>1, <1>2, <1>3, StartedIsTallied
<1> QED
  BY <1>2, <1>7, <1>8, HandlersOnly

\* Signing out begins with the authorisation.
LEMMA RevokeKeeps ==
  ASSUME IInv, NEW d \in Devices, Revoke(d)
  PROVE  IInv'
<1>1. Rows /\ Running /\ Tallied
  BY DEF IInv
<1>2. CanStart(d) /\ UNCHANGED <<chat, events, queueVars, diffVars, shownVars, missed, faults>>
  BY DEF Revoke
<1> DEFINE k == Call("logout", d, None, "list")
<1>3. /\ k \in Handlers /\ k.kind = "logout" /\ k.dev = d /\ k.chat = None /\ k.at = "list"
      /\ k.tell = <<>> /\ k.view = None
  BY <1>1, <1>2, NewHandler DEF Kinds, Stages
<1>4. Started(k)
  BY DEF Revoke
<1> HIDE DEF k
<1>5. Fit(k, chat')
  BY <1>3, ChatsAssumption DEF Fit
<1>6. Grows(chat, chat')
  BY <1>1, <1>2, RowsKept
<1>7. Running'
  BY <1>1, <1>3, <1>4, <1>5, <1>6, Starting
<1>8. Tallied'
  BY <1>1, <1>2, <1>4, ChatBoundsAssumption DEF Tallied, Revoke, Started, CanStart
<1> QED
  BY <1>2, <1>7, <1>8, HandlersOnly

\* sendEncrypted addresses the other end.
LEMMA SendReadKeeps ==
  ASSUME IInv, NEW d \in Devices, NEW c \in Chats, SendRead(d, c)
  PROVE  IInv'
<1>1. Rows /\ Running /\ Tallied
  BY DEF IInv
<1> DEFINE key == PeerBound(c, Owner[d])
           new == Call("send", d, c, "lookup")
<1>2. /\ CanStart(d) /\ chat[c].state = "normal"
      /\ UNCHANGED <<chat, revoked, events, queueVars, diffVars, shownVars, missed, faults>>
  BY DEF SendRead, OnlyCalls, rows
<1>3. PICK r \in RandomIds : Started([new EXCEPT !.rid = r, !.key = key])
  BY DEF SendRead
<1>4. key \in Devices /\ key \in EndsOf(chat, c)
  BY <1>1, <1>2, PeersAreEnds DEF Somebody
<1>5. /\ new \in Handlers /\ new.kind = "send" /\ new.dev = d /\ new.chat = c
      /\ new.at = "lookup" /\ new.tell = <<>> /\ new.view = None
  BY <1>1, <1>2, NewHandler DEF Kinds, Stages
<1> HIDE DEF key, new
<1> DEFINE k == [new EXCEPT !.rid = r, !.key = key]
<1>6. /\ k \in Handlers
      /\ k.kind = "send" /\ k.chat = c /\ k.at = "lookup" /\ k.tell = <<>> /\ k.view = None
      /\ k.key = key
  BY <1>4, <1>5 DEF Handlers, Somebody
<1> HIDE DEF k
<1>7. Fit(k, chat')
  BY <1>2, <1>4, <1>6, ChatsAssumption DEF Fit
<1>8. Grows(chat, chat')
  BY <1>1, <1>2, RowsKept
<1>9. Running'
  BY <1>1, <1>3, <1>6, <1>7, <1>8, Starting DEF k
<1>10. Tallied'
  BY <1>1, <1>2, <1>3, StartedIsTallied
<1> QED
  BY <1>2, <1>9, <1>10, HandlersOnly

-----------------------------------------------------------------------------
(* The steps of a handler that change chats.                               *)

\* A running handler.
LEMMA RunningHandler ==
  ASSUME IInv, NEW k \in calls
  PROVE  k \in Handlers /\ Fit(k, chat)
BY DEF IInv, Running

\* A handler that ends and leaves everything else alone.
LEMMA EndKeeps ==
  ASSUME IInv, NEW k, End(k),
         UNCHANGED <<chat, revoked, events, queueVars, started, diffVars, shownVars, missed, faults>>
  PROVE  IInv'
<1>1. Grows(chat, chat')
  BY RowsKept DEF IInv
<1>2. Running'
  BY <1>1, Ending DEF IInv
<1>3. Tallied'
  BY TalliedKept DEF IInv
<1> QED
  BY <1>2, <1>3, HandlersOnly

\* Ending a chat keeps its ends.
LEMMA DiscardChange ==
  ASSUME Rows, NEW c \in Chats, NEW d \in Devices, chat' = Discarded(c, d)
  PROVE  Rows' /\ Grows(chat, chat')
<1> DEFINE r == [chat[c] EXCEPT !.state = "discarded", !.ender = d]
<1>1. chat[c] \in ChatRows /\ Sound(chat[c], c) /\ d \in Somebody /\ d # None
  BY ChatsAssumption DEF Rows, Somebody
<1>2. r \in ChatRows /\ r.state = "discarded" /\ r.ender = d /\ r.bound = chat[c].bound
  BY <1>1 DEF ChatRows
<1>3. Sound(r, c)
  BY <1>1, <1>2 DEF Sound
<1>4. chat' = [chat EXCEPT ![c] = r]
  BY <1>1 DEF Discarded, Rows, ChatRows
<1> HIDE DEF r
<1> QED
  BY <1>2, <1>3, <1>4, RowChange

\* acceptEncryption binds the device.
LEMMA AcceptWriteKeeps ==
  ASSUME IInv, NEW k \in calls, AcceptWrite(k)
  PROVE  IInv'
<1> DEFINE c == k.chat
           list == <<[chat |-> c, user |-> Owner[Inviter[c]], dev |-> Inviter[c]],
                     [chat |-> c, user |-> Invited[c], dev |-> None]>>
<1>1. Rows /\ Running /\ Tallied /\ k \in Handlers /\ Fit(k, chat)
  BY RunningHandler DEF IInv
<1>2. /\ k.kind = "accept"
      /\ UNCHANGED <<revoked, events, queueVars, started, diffVars, shownVars, missed, faults>>
  BY DEF AcceptWrite, At, OnlyChats
<1>3. c \in Chats /\ k.dev \in Devices /\ k.dev # None /\ Owner[k.dev] = Invited[c]
  BY <1>1, <1>2, ChatsAssumption DEF Fit, Handlers
<1>4. CASE Acceptable(c)
  <2>1. /\ chat' = [chat EXCEPT ![c].state = "normal", ![c].bound = k.dev]
        /\ Becomes(k, Telling(k, list, "normal"))
    BY <1>4 DEF AcceptWrite
  <2> DEFINE r == [chat[c] EXCEPT !.state = "normal", !.bound = k.dev]
  <2>2. r \in ChatRows /\ Sound(r, c) /\ chat[c].bound = None
    BY <1>1, <1>3, <1>4 DEF Rows, ChatRows, Sound, Acceptable, DevicesOf, Somebody
  <2>3. chat' = [chat EXCEPT ![c] = r]
    BY <1>1, <1>3, <2>1 DEF Rows, ChatRows
  <2>4. Rows' /\ Grows(chat, chat')
    <3> HIDE DEF r
    <3> QED
      BY <1>1, <1>3, <2>2, <2>3, RowChange
  <2>5. EndsOf(chat', c) = {Inviter[c], k.dev} \ {None}
    BY <1>1, <1>3, <2>2, <2>3 DEF EndsOf, Rows, ChatRows
  <2>6. /\ list \in Seq(Told) /\ list # <<>>
        /\ \A i \in DOMAIN list : Addressed(list[i], chat')
    BY <1>3, <2>5, ChatsAssumption DEF Told, Somebody, Addressed
  <2>7. k.dev \in EndsOf(chat', c)
    BY <1>3, <2>5
  <2> HIDE DEF list
  <2>8. Telling(k, list, "normal") \in Handlers /\ Fit(Telling(k, list, "normal"), chat')
    BY <1>1, <1>2, <1>3, <2>6, <2>7, TellsOf DEF Views
  <2>9. Running'
    BY <1>1, <2>1, <2>4, <2>8, Continuing
  <2>10. Tallied'
    BY <1>1, <1>2, TalliedKept
  <2> QED
    BY <1>2, <2>4, <2>9, <2>10, ChatsOnly
<1>5. CASE ~ Acceptable(c)
  BY <1>2, <1>5, EndKeeps DEF AcceptWrite
<1> QED
  BY <1>4, <1>5

\* discardEncryption.
LEMMA DiscardWriteKeeps ==
  ASSUME IInv, NEW k \in calls, DiscardWrite(k)
  PROVE  IInv'
<1> DEFINE e == ForPeer(k.chat, Owner[k.dev])
           list == <<e>>
<1>1. Rows /\ Running /\ Tallied /\ k \in Handlers /\ Fit(k, chat)
  BY RunningHandler DEF IInv
<1>2. /\ k.kind = "discard"
      /\ UNCHANGED <<revoked, events, queueVars, started, diffVars, shownVars, missed, faults>>
  BY DEF DiscardWrite, At, OnlyChats
<1>3. k.chat \in Chats /\ k.dev \in Devices
  BY <1>1, <1>2 DEF Fit, Handlers
<1>4. CASE Active(k.chat)
  <2>1. chat' = Discarded(k.chat, k.dev) /\ Becomes(k, Telling(k, list, None))
    BY <1>4 DEF DiscardWrite
  <2>2. Rows' /\ Grows(chat, chat')
    BY <1>1, <1>3, <2>1, DiscardChange
  <2>3. e \in Told /\ Addressed(e, chat')
    BY <1>1, <1>3, <2>2, ForPeerIsAddressed, StillAddressed
  <2>4. /\ list \in Seq(Told) /\ list # <<>>
        /\ \A i \in DOMAIN list : Addressed(list[i], chat')
    <3> HIDE DEF e
    <3> QED
      BY <2>3
  <2> HIDE DEF list
  <2>5. Telling(k, list, None) \in Handlers /\ Fit(Telling(k, list, None), chat')
    BY <1>1, <1>2, <1>3, <2>4, TellsOf, ChatsAssumption DEF Views
  <2>6. Running'
    BY <1>1, <2>1, <2>2, <2>5, Continuing
  <2>7. Tallied'
    BY <1>1, <1>2, TalliedKept
  <2> QED
    BY <1>2, <2>2, <2>6, <2>7, ChatsOnly
<1>5. CASE ~ Active(k.chat)
  BY <1>2, <1>5, EndKeeps DEF DiscardWrite
<1> QED
  BY <1>4, <1>5

\* The sign-out lists what is bound to the device.
LEMMA ListBoundKeeps ==
  ASSUME IInv, NEW k \in calls, ListBound(k)
  PROVE  IInv'
<1>1. Rows /\ Running /\ Tallied /\ k \in Handlers /\ Fit(k, chat)
  BY RunningHandler DEF IInv
<1>2. /\ k.kind = "logout"
      /\ UNCHANGED <<chat, revoked, events, queueVars, started, diffVars, shownVars, missed, faults>>
  BY DEF ListBound, At, OnlyCalls, rows
<1>3. CASE End(k)
  BY <1>2, <1>3, EndKeeps
<1>4. CASE Becomes(k, [k EXCEPT !.at = "cascade", !.left = Listed(k.dev)])
  <2> DEFINE l == [k EXCEPT !.at = "cascade", !.left = Listed(k.dev)]
  <2>1. Listed(k.dev) \in SUBSET Chats
    BY DEF Listed, BoundTo
  <2>2. /\ l \in Handlers /\ l.kind = k.kind /\ l.dev = k.dev /\ l.chat = k.chat
        /\ l.key = k.key /\ l.at = "cascade" /\ l.tell = k.tell /\ l.view = k.view
    BY <1>1, <2>1 DEF Handlers, Stages
  <2> HIDE DEF l
  <2>3. Fit(l, chat')
    BY <1>1, <1>2, <2>2 DEF Fit
  <2>4. Grows(chat, chat')
    BY <1>1, <1>2, RowsKept
  <2>5. Running'
    BY <1>1, <1>4, <2>2, <2>3, <2>4, Continuing DEF l
  <2>6. Tallied'
    BY <1>1, <1>2, TalliedKept
  <2> QED
    BY <1>2, <2>5, <2>6, HandlersOnly
<1> QED
  BY <1>3, <1>4 DEF ListBound

\* One event more to tell of.
LEMMA OneMore ==
  ASSUME NEW list \in Seq(Told), NEW e, e \in Told, NEW ch, Addressed(e, ch),
         \A i \in DOMAIN list : Addressed(list[i], ch)
  PROVE  /\ Append(list, e) \in Seq(Told) /\ Append(list, e) # <<>>
         /\ \A i \in DOMAIN Append(list, e) : Addressed(Append(list, e)[i], ch)
<1>1. \A i \in DOMAIN Append(list, e) :
        Append(list, e)[i] = IF i = Len(list) + 1 THEN e ELSE list[i]
  OBVIOUS
<1>2. DOMAIN Append(list, e) = 1..Len(list) + 1 /\ DOMAIN list = 1..Len(list)
  OBVIOUS
<1> QED
  BY <1>1, <1>2

\* A sign-out goes on with the chats R left and the events list to tell.
LEMMA SignOutGoesOn ==
  ASSUME NEW k, k \in Handlers, k.kind = "logout", NEW ch, Fit(k, ch),
         NEW R \in SUBSET Chats, NEW list \in Seq(Told), NEW at \in {"cascade", "tell"},
         at = "tell" => list # <<>>, \A i \in DOMAIN list : Addressed(list[i], ch),
         NEW l, l = [k EXCEPT !.at = at, !.left = R, !.tell = list]
  PROVE  l \in Handlers /\ Fit(l, ch)
<1>1. /\ l \in Handlers /\ l.kind = "logout" /\ l.dev = k.dev /\ l.chat = k.chat
      /\ l.view = k.view /\ l.at = at /\ l.tell = list
  BY DEF Handlers, Stages
<1> QED
  BY <1>1 DEF Fit

\* Each listed chat is ended, if nobody was faster.
LEMMA CascadeKeeps ==
  ASSUME IInv, NEW k \in calls, Cascade(k)
  PROVE  IInv'
<1>1. Rows /\ Running /\ Tallied /\ k \in Handlers /\ Fit(k, chat)
  BY RunningHandler DEF IInv
<1>2. /\ k.kind = "logout" /\ k.at = "cascade"
      /\ UNCHANGED <<revoked, events, queueVars, started, diffVars, shownVars, missed, faults>>
  BY DEF Cascade, At, OnlyChats
<1>3. PICK c \in k.left :
        LET rest == [k EXCEPT !.left = @ \ {c}]
            told == [rest EXCEPT !.tell = Append(@, ForPeer(c, Owner[k.dev]))]
            next == IF Active(c) THEN told ELSE rest
        IN  /\ chat' = IF Active(c) THEN Discarded(c, k.dev) ELSE chat
            /\ IF next.left # {} THEN Becomes(k, next)
               ELSE IF next.tell # <<>> THEN Becomes(k, [next EXCEPT !.at = "tell"])
               ELSE End(k)
  BY DEF Cascade
<1> DEFINE R == k.left \ {c}
           e == ForPeer(c, Owner[k.dev])
           list == IF Active(c) THEN Append(k.tell, e) ELSE k.tell
<1>4. c \in Chats /\ k.dev \in Devices /\ R \in SUBSET Chats /\ k.tell \in Seq(Told)
  BY <1>1 DEF Handlers
<1>5. Rows' /\ Grows(chat, chat')
  <2>1. CASE Active(c)
    BY <1>1, <1>3, <1>4, <2>1, DiscardChange
  <2>2. CASE ~ Active(c)
    BY <1>1, <1>3, <2>2, RowsKept
  <2> QED
    BY <2>1, <2>2
<1>6. Fit(k, chat')
  BY <1>1, <1>5, StillFit
<1>7. e \in Told /\ Addressed(e, chat')
  BY <1>1, <1>4, <1>5, ForPeerIsAddressed, StillAddressed
<1>8. list \in Seq(Told) /\ \A i \in DOMAIN list : Addressed(list[i], chat')
  <2> HIDE DEF e
  <2> QED
    BY <1>4, <1>6, <1>7, OneMore DEF Fit
<1>9. \/ Becomes(k, [k EXCEPT !.at = "cascade", !.left = R, !.tell = list])
      \/ /\ list # <<>>
         /\ Becomes(k, [k EXCEPT !.at = "tell", !.left = R, !.tell = list])
      \/ End(k)
  <2> DEFINE next == [k EXCEPT !.left = R, !.tell = list]
  <2> HIDE DEF e
  <2>1. IF next.left # {} THEN Becomes(k, next)
        ELSE IF next.tell # <<>> THEN Becomes(k, [next EXCEPT !.at = "tell"])
        ELSE End(k)
    BY <1>1, <1>3 DEF Handlers, e
  <2>2. next.tell = list
    BY <1>1 DEF Handlers
  <2>3. next = [k EXCEPT !.at = "cascade", !.left = R, !.tell = list]
    BY <1>1, <1>2 DEF Handlers
  <2>4. [next EXCEPT !.at = "tell"] = [k EXCEPT !.at = "tell", !.left = R, !.tell = list]
    BY <1>1 DEF Handlers
  <2> HIDE DEF next, R, list
  <2> QED
    BY <2>1, <2>2, <2>3, <2>4
<1> HIDE DEF R, list
<1>10. Running'
  <2>1. CASE Becomes(k, [k EXCEPT !.at = "cascade", !.left = R, !.tell = list])
    <3> DEFINE l == [k EXCEPT !.at = "cascade", !.left = R, !.tell = list]
    <3>1. l \in Handlers /\ Fit(l, chat')
      BY <1>1, <1>2, <1>4, <1>6, <1>8, SignOutGoesOn
    <3> QED
      BY <1>1, <1>5, <2>1, <3>1, Continuing
  <2>2. CASE /\ list # <<>>
             /\ Becomes(k, [k EXCEPT !.at = "tell", !.left = R, !.tell = list])
    <3> DEFINE l == [k EXCEPT !.at = "tell", !.left = R, !.tell = list]
    <3>1. l \in Handlers /\ Fit(l, chat')
      BY <1>1, <1>2, <1>4, <1>6, <1>8, <2>2, SignOutGoesOn
    <3> QED
      BY <1>1, <1>5, <2>2, <3>1, Continuing
  <2>3. CASE End(k)
    BY <1>1, <1>5, <2>3, Ending
  <2> QED
    BY <1>9, <2>1, <2>2, <2>3
<1>11. Tallied'
  BY <1>1, <1>2, TalliedKept
<1> QED
  BY <1>2, <1>5, <1>10, <1>11, ChatsOnly

\* A failed update: the events gathered so far are told.
LEMMA CascadeFailsKeeps ==
  ASSUME IInv, NEW k \in calls, CascadeFails(k)
  PROVE  IInv'
<1>1. Rows /\ Running /\ Tallied /\ k \in Handlers /\ Fit(k, chat)
  BY RunningHandler DEF IInv
<1>2. /\ k.kind = "logout"
      /\ UNCHANGED <<chat, revoked, events, queueVars, started, diffVars, shownVars>>
      /\ IF k.tell = <<>> THEN End(k) ELSE Becomes(k, [k EXCEPT !.at = "tell", !.left = {}])
  BY DEF CascadeFails, At, rows
<1>3. Grows(chat, chat')
  BY <1>1, <1>2, RowsKept
<1>4. Running'
  <2>1. CASE k.tell = <<>>
    BY <1>1, <1>2, <1>3, <2>1, Ending
  <2>2. CASE k.tell # <<>>
    <3> DEFINE l == [k EXCEPT !.at = "tell", !.left = {}]
    <3>1. /\ l \in Handlers /\ l.kind = k.kind /\ l.dev = k.dev /\ l.chat = k.chat
          /\ l.key = k.key /\ l.at = "tell" /\ l.tell = k.tell /\ l.view = k.view
      BY <1>1 DEF Handlers, Stages
    <3> HIDE DEF l
    <3>2. Fit(l, chat')
      BY <1>1, <1>2, <2>2, <3>1 DEF Fit
    <3> QED
      BY <1>1, <1>2, <1>3, <2>2, <3>1, <3>2, Continuing DEF l
  <2> QED
    BY <2>1, <2>2
<1>5. Tallied'
  <2>1. k.left \subseteq Chats
    BY <1>1 DEF Handlers
  <2> QED
    BY <1>1, <2>1, ChatBoundsAssumption DEF Tallied, CascadeFails, rows
<1> QED
  BY <1>2, <1>4, <1>5, HandlersOnly

-----------------------------------------------------------------------------
(* The events and the answer.                                              *)

\* A push that arrives is the accept's at the device that invited, or the request's at
\* the invited account.
LEMMA PushKeeps ==
  ASSUME Remembered, NEW k, Push(k), UNCHANGED reader
  PROVE  /\ pushed' \in [Chats -> SUBSET {"request", "accept"}]
         /\ \A c \in Chats : "accept" \in pushed'[c] => reader' = Inviter[c]
         /\ \A c \in Chats : "request" \in pushed'[c] => Owner[reader'] = Invited[c]
<1>1. CASE UNCHANGED pushed
  BY <1>1 DEF Remembered
<1>2. CASE /\ reader \in Audience(k)
           /\ pushed' = [pushed EXCEPT ![k.chat] = @ \cup {k.kind}]
  <2>1. \/ k.kind = "accept" /\ reader = Inviter[k.chat]
        \/ k.kind = "request" /\ Owner[reader] = Invited[k.chat]
    BY <1>2 DEF Audience
  <2>2. \A c \in Chats : pushed'[c] = IF c = k.chat THEN pushed[c] \cup {k.kind} ELSE pushed[c]
    BY <1>2 DEF Remembered
  <2>3. pushed' \in [Chats -> SUBSET {"request", "accept"}]
    BY <1>2, <2>1 DEF Remembered
  <2> QED
    BY <2>1, <2>2, <2>3 DEF Remembered
<1> QED
  BY <1>1, <1>2 DEF Push

\* After an event, written or not: the next one, or the answer, which shows a chat
\* established only to an end.
LEMMA AfterEventKeeps ==
  ASSUME IInv, NEW k \in calls, k.at = "tell", AfterEvent(k), UNCHANGED <<chat, reader>>
  PROVE  Running' /\ Remembered'
<1>1. Rows /\ Running /\ Remembered /\ k \in Handlers /\ Fit(k, chat)
  BY RunningHandler DEF IInv
<1>2. Grows(chat, chat')
  BY <1>1, RowsKept
<1>3. k.tell \in Seq(Told)
  BY <1>1 DEF Handlers
<1>4. CASE Len(k.tell) > 1
  <2> DEFINE l == [k EXCEPT !.tell = Tail(k.tell)]
  <2>1. /\ Tail(k.tell) \in Seq(Told) /\ Tail(k.tell) # <<>>
        /\ \A i \in DOMAIN Tail(k.tell) :
             i + 1 \in DOMAIN k.tell /\ Tail(k.tell)[i] = k.tell[i + 1]
    <3>1. k.tell # <<>>
      BY <1>3, <1>4
    <3>2. Tail(k.tell) \in Seq(Told) /\ Len(Tail(k.tell)) = Len(k.tell) - 1
      BY <1>3, <3>1
    <3>3. \A i \in 1..Len(k.tell) - 1 : Tail(k.tell)[i] = k.tell[i + 1]
      BY <1>3, <3>1
    <3>4. Len(k.tell) \in Nat /\ DOMAIN k.tell = 1..Len(k.tell)
          /\ DOMAIN Tail(k.tell) = 1..Len(k.tell) - 1
      BY <1>3, <3>2
    <3>5. Tail(k.tell) # <<>>
      <4>1. Len(<<>>) = 0 /\ ~ (0 > 0)
        OBVIOUS
      <4>2. Len(Tail(k.tell)) > 0
        BY <1>4, <3>2, <3>4
      <4> QED
        BY <4>1, <4>2, Zenon
    <3> QED
      BY <3>2, <3>3, <3>4, <3>5
  <2>2. /\ l \in Handlers /\ l.kind = k.kind /\ l.dev = k.dev /\ l.chat = k.chat
        /\ l.key = k.key /\ l.at = "tell" /\ l.tell = Tail(k.tell) /\ l.view = k.view
    BY <1>1, <2>1 DEF Handlers
  <2>3. Becomes(k, l) /\ UNCHANGED shownVars
    BY <1>4 DEF AfterEvent
  <2> HIDE DEF l
  <2>4. \A i \in DOMAIN l.tell : Addressed(l.tell[i], chat')
    BY <1>1, <2>1, <2>2 DEF Fit
  <2>5. Fit(l, chat')
    BY <1>1, <2>1, <2>2, <2>4 DEF Fit
  <2>6. Running'
    BY <1>1, <1>2, <2>2, <2>3, <2>5, Continuing
  <2>7. Remembered'
    BY <1>1, <1>2, <2>3, RememberedKept
  <2> QED
    BY <2>6, <2>7
<1>5. CASE ~ (Len(k.tell) > 1)
  <2>1. /\ End(k) /\ Push(k)
        /\ shown' = IF k.dev = reader /\ k.chat \in Chats
                    THEN [shown EXCEPT ![k.chat] = Shown(k.chat, k.view)]
                    ELSE shown
    BY <1>5 DEF AfterEvent
  <2>2. Running'
    BY <1>1, <1>2, <2>1, Ending
  <2>3. /\ pushed' \in [Chats -> SUBSET {"request", "accept"}]
        /\ \A c \in Chats : "accept" \in pushed'[c] => reader' = Inviter[c]
        /\ \A c \in Chats : "request" \in pushed'[c] => Owner[reader'] = Invited[c]
    BY <1>1, <2>1, PushKeeps
  <2>4. CASE k.dev = reader /\ k.chat \in Chats
    <3>1. /\ shown' \in [Chats -> SUBSET {"normal", "discarded"}]
          /\ \A c \in Chats : shown'[c] = IF c = k.chat THEN Shown(c, k.view) ELSE shown[c]
      BY <1>1, <2>1, <2>4 DEF Remembered, Shown
    <3>2. \A c \in Chats : "normal" \in shown'[c] => reader \in EndsOf(chat, c)
      BY <1>1, <2>4, <3>1 DEF Remembered, Shown, Fit
    <3> QED
      BY <2>2, <2>3, <3>1, <3>2 DEF Remembered
  <2>5. CASE ~ (k.dev = reader /\ k.chat \in Chats)
    <3>1. UNCHANGED shown
      BY <2>1, <2>5
    <3> QED
      BY <1>1, <2>2, <2>3, <3>1 DEF Remembered
  <2> QED
    BY <2>4, <2>5
<1> QED
  BY <1>4, <1>5

\* The event a handler is about to write.
LEMMA FirstToTell ==
  ASSUME IInv, NEW k \in calls, k.at = "tell"
  PROVE  Head(k.tell) \in Told /\ Addressed(Head(k.tell), chat)
<1>1. k \in Handlers /\ Fit(k, chat)
  BY RunningHandler
<1>2. k.tell \in Seq(Told) /\ k.tell # <<>>
  BY <1>1 DEF Handlers, Fit
<1>3. 1 \in DOMAIN k.tell /\ Head(k.tell) = k.tell[1] /\ k.tell[1] \in Told
  BY <1>2
<1> QED
  BY <1>1, <1>3 DEF Fit

\* The event is written.
LEMMA RecordKeeps ==
  ASSUME IInv, NEW k \in calls, Record(k)
  PROVE  IInv'
<1> DEFINE e == Head(k.tell)
<1>1. Rows /\ Log /\ Queues /\ Reading /\ Tallied
  BY DEF IInv
<1>2. /\ k.at = "tell" /\ events' = Append(events, e) /\ AfterEvent(k)
      /\ UNCHANGED <<chat, revoked, queue, reserved, started, diffVars, missed, faults>>
  BY DEF Record, rows, queueVars
<1>3. Running' /\ Remembered'
  BY <1>2, AfterEventKeeps DEF diffVars
<1>4. e \in Told /\ Addressed(e, chat)
  BY <1>2, FirstToTell
<1> HIDE DEF e
<1>5. Rows' /\ Grows(chat, chat')
  BY <1>1, <1>2, RowsKept
<1>6. Log'
  <2>1. /\ events' \in Seq(Told)
        /\ \A i \in DOMAIN events' : Addressed(events'[i], chat)
    BY <1>1, <1>2, <1>4, OneMore DEF Log
  <2> QED
    BY <1>2, <2>1 DEF Log
<1>7. Queues'
  BY <1>1, <1>2, <1>5, QueuesKept DEF queueVars
<1>8. Reading'
  <2>1. DOMAIN events \subseteq DOMAIN events' /\ \A i \in DOMAIN events : events'[i] = events[i]
    BY <1>1, <1>2, <1>4 DEF Log
  <2> QED
    BY <1>1, <1>2, <2>1 DEF Reading, diffVars, EndsOf
<1>9. Tallied'
  BY <1>1, <1>2, TalliedKept
<1> QED
  BY <1>3, <1>5, <1>6, <1>7, <1>8, <1>9 DEF IInv

\* The event is lost.
LEMMA RecordFailsKeeps ==
  ASSUME IInv, NEW k \in calls, RecordFails(k)
  PROVE  IInv'
<1>1. Rows /\ Log /\ Queues /\ Reading /\ Tallied
  BY DEF IInv
<1>2. /\ k.at = "tell" /\ AfterEvent(k)
      /\ faults < MaxFaults /\ faults' = faults + 1
      /\ missed' = missed \cup {Head(k.tell).chat}
      /\ UNCHANGED <<chat, revoked, events, queueVars, started, diffVars>>
  BY DEF RecordFails, rows
<1>3. Running' /\ Remembered'
  BY <1>2, AfterEventKeeps DEF diffVars
<1>4. Head(k.tell).chat \in Chats
  BY <1>2, FirstToTell DEF Told
<1>5. Rows' /\ Grows(chat, chat')
  BY <1>1, <1>2, RowsKept
<1>6. Log' /\ Queues' /\ Reading'
  BY <1>1, <1>2, <1>5, LogKept, QueuesKept, ReadingKept DEF queueVars
<1>7. Tallied'
  BY <1>1, <1>2, <1>4, ChatBoundsAssumption DEF Tallied
<1> QED
  BY <1>3, <1>5, <1>6, <1>7 DEF IInv

-----------------------------------------------------------------------------
(* Messages.                                                               *)

\* The lookup.
LEMMA SendLookupKeeps ==
  ASSUME IInv, NEW k \in calls, SendLookup(k)
  PROVE  IInv'
<1>1. Rows /\ Running /\ Tallied /\ k \in Handlers /\ Fit(k, chat)
  BY RunningHandler DEF IInv
<1>2. /\ k.at = "lookup"
      /\ UNCHANGED <<chat, revoked, events, queueVars, started, diffVars, shownVars, missed, faults>>
  BY DEF SendLookup, At, OnlyCalls, rows
<1>3. CASE End(k)
  BY <1>2, <1>3, EndKeeps
<1>4. CASE Becomes(k, [k EXCEPT !.at = "append"])
  <2> DEFINE l == [k EXCEPT !.at = "append"]
  <2>1. /\ l \in Handlers /\ l.kind = k.kind /\ l.dev = k.dev /\ l.chat = k.chat
        /\ l.key = k.key /\ l.at = "append" /\ l.tell = k.tell /\ l.view = k.view
    BY <1>1 DEF Handlers, Stages
  <2> HIDE DEF l
  <2>2. Fit(l, chat')
    BY <1>1, <1>2, <2>1 DEF Fit
  <2>3. Grows(chat, chat')
    BY <1>1, <1>2, RowsKept
  <2>4. Running'
    BY <1>1, <1>4, <2>1, <2>2, <2>3, Continuing DEF l
  <2>5. Tallied'
    BY <1>1, <1>2, TalliedKept
  <2> QED
    BY <1>2, <2>4, <2>5, HandlersOnly
<1> QED
  BY <1>3, <1>4 DEF SendLookup

\* A message the queue does not have takes the number after the watermark.
LEMMA AppendIsExact ==
  ASSUME NEW Q, NEW n \in Nat, NEW d, NEW ch, Exact(Q, n, d, ch),
         NEW c \in Chats, NEW r \in RandomIds \cup {None}, d \in EndsOf(ch, c),
         ~ \E m \in Q : m.chat = c /\ m.rid = r,
         NEW m, m = [qts |-> n + 1, chat |-> c, rid |-> r]
  PROVE  Exact(Q \cup {m}, n + 1, d, ch)
<1>1. m \in Messages /\ m.qts = n + 1 /\ m.chat = c /\ m.rid = r
  BY DEF Messages
<1>2. Q \cup {m} \subseteq Messages
  BY <1>1 DEF Exact
<1>3. {x.qts : x \in Q \cup {m}} = 1..n + 1
  <2>1. {x.qts : x \in Q \cup {m}} = {x.qts : x \in Q} \cup {n + 1}
    BY <1>1
  <2>2. {x.qts : x \in Q} = 1..n
    BY DEF Exact
  <2> QED
    BY <2>1, <2>2
<1>4. Pairs(Q \cup {m}) = Pairs(Q) \cup {<<c, r>>}
  BY <1>1 DEF Pairs
<1>5. <<c, r>> \notin Pairs(Q)
  BY DEF Pairs
<1>6. IsFiniteSet(Pairs(Q \cup {m})) /\ Cardinality(Pairs(Q \cup {m})) = n + 1
  <2>1. IsFiniteSet(Pairs(Q)) /\ Cardinality(Pairs(Q)) = n
    BY DEF Exact
  <2>2. /\ IsFiniteSet(Pairs(Q) \cup {<<c, r>>})
        /\ Cardinality(Pairs(Q) \cup {<<c, r>>}) = Cardinality(Pairs(Q)) + 1
    BY <1>5, <2>1, FS_AddElement
  <2> QED
    BY <1>4, <2>1, <2>2
<1>7. \A x \in Q \cup {m} : d \in EndsOf(ch, x.chat)
  BY <1>1 DEF Exact
<1> QED
  BY <1>2, <1>3, <1>6, <1>7 DEF Exact

\* The transaction commits, or finds that another one committed the same message.
LEMMA SendAppendKeeps ==
  ASSUME IInv, NEW k \in calls, SendAppend(k)
  PROVE  IInv'
<1>1. Rows /\ Running /\ Log /\ Queues /\ Reading /\ Remembered /\ Tallied
  BY DEF IInv
<1>2. k \in Handlers /\ Fit(k, chat)
  BY RunningHandler
<1>3. /\ k.kind = "send" /\ End(k)
      /\ UNCHANGED <<chat, revoked, events, started, diffVars, shownVars, missed, faults>>
  BY DEF SendAppend, At, rows
<1>4. CASE Conflicts(k)
  BY <1>3, <1>4, EndKeeps DEF SendAppend, AfterConflict
<1>5. CASE ~ Conflicts(k)
  <2> DEFINE d == k.key
             n == reserved[d]
             m == [qts |-> n + 1, chat |-> k.chat, rid |-> k.rid]
  <2>1. /\ reserved' = [reserved EXCEPT ![d] = n + 1]
        /\ queue' = [queue EXCEPT ![d] = queue[d] \cup {m}]
    BY <1>5 DEF SendAppend
  <2>2. /\ d \in Devices /\ d \in EndsOf(chat, k.chat)
        /\ k.chat \in Chats /\ k.rid \in RandomIds \cup {None}
    BY <1>2, <1>3 DEF Fit, Handlers
  <2>3. n \in Nat /\ Exact(queue[d], n, d, chat) /\ m \in Messages
    BY <1>1, <2>2 DEF Queues, Messages
  <2>4. ~ \E x \in queue[d] : x.chat = k.chat /\ x.rid = k.rid
    BY <1>5 DEF Conflicts, Sent
  <2>5. Exact(queue[d] \cup {m}, n + 1, d, chat)
    BY <2>2, <2>3, <2>4, AppendIsExact
  <2>6. Rows' /\ Grows(chat, chat')
    BY <1>1, <1>3, RowsKept
  <2> HIDE DEF m
  <2>7. /\ queue' \in [Devices -> SUBSET Messages]
        /\ \A x \in Devices : queue'[x] = IF x = d THEN queue[d] \cup {m} ELSE queue[x]
    BY <1>1, <2>1, <2>2, <2>3 DEF Queues
  <2>8. /\ reserved' \in [Devices -> Nat]
        /\ \A x \in Devices : reserved'[x] = IF x = d THEN n + 1 ELSE reserved[x]
    BY <1>1, <2>1, <2>2, <2>3 DEF Queues
  <2> HIDE DEF n
  <2>9. Queues'
    BY <1>1, <1>3, <2>5, <2>7, <2>8 DEF Queues
  <2>10. Reading'
    <3>1. reader \in Devices /\ reserved[reader] \in Nat /\ reserved'[reader] \in Nat
      BY <1>1, <2>8, ChatsAssumption DEF Reading, Queues
    <3>2. reserved[reader] <= reserved'[reader]
      BY <2>8, <3>1 DEF n
    <3>3. diff.upto \in Nat
      BY <1>1 DEF Reading, Differences
    <3>4. diff.upto <= reserved'[reader] /\ cursor \in 0..reserved'[reader]
      BY <1>1, <3>1, <3>2, <3>3 DEF Reading
    <3> QED
      BY <1>1, <1>3, <3>4 DEF Reading, diffVars, EndsOf
  <2>11. Log' /\ Remembered'
    BY <1>1, <1>3, <2>6, LogKept, RememberedKept DEF diffVars
  <2>12. Running'
    BY <1>1, <1>3, <2>6, Ending
  <2>13. Tallied'
    BY <1>1, <1>3, TalliedKept
  <2> QED
    BY <2>6, <2>9, <2>10, <2>11, <2>12, <2>13 DEF IInv
<1> QED
  BY <1>4, <1>5

-----------------------------------------------------------------------------
(* The differences of the reader.                                          *)

\* A page of the messages after the cursor ends at or before the watermark.
LEMMA PageIsBounded ==
  ASSUME Queues, Reading, Contiguous
  PROVE  /\ Cardinality(NextQts) \in Nat
         /\ cursor + Cardinality(NextQts) <= reserved[reader]
<1>1. reader \in Devices /\ reserved[reader] \in Nat /\ cursor \in 0..reserved[reader]
  BY ChatsAssumption DEF Reading, Queues
<1>2. {m.qts : m \in queue[reader]} = 1..reserved[reader]
  BY <1>1 DEF Queues, Exact
<1>3. NextQts \in SUBSET (1..reserved[reader])
  BY <1>2 DEF NextQts, FirstOf, Beyond
<1>4. IsFiniteSet(NextQts)
  <2>1. IsFiniteSet(1..reserved[reader])
    BY <1>1, FS_Interval
  <2> QED
    BY <1>3, <2>1, FS_Subset
<1>5. Cardinality(NextQts) \in Nat
  BY <1>4, FS_CardinalityType
<1>6. CASE Cardinality(NextQts) = 0
  BY <1>1, <1>6
<1>7. CASE Cardinality(NextQts) # 0
  <2>1. cursor + Cardinality(NextQts) \in NextQts
    BY <1>1, <1>5, <1>7 DEF Contiguous
  <2> QED
    BY <1>1, <1>3, <1>5, <2>1
<1> QED
  BY <1>5, <1>6, <1>7

\* No difference.
LEMMA IdleDifference ==
  /\ Idle \in Differences
  /\ Idle.todo = {} /\ Idle.ids = {} /\ Idle.upto = 0
  /\ \A c \in Chats : Idle.views[c] = None
BY DEF Idle, Differences, Views

\* What concerns only the difference.
LEMMA DifferenceOnly ==
  ASSUME IInv, Reading', Remembered', Tallied',
         UNCHANGED <<chat, events, queueVars, calls>>
  PROVE  IInv'
<1>1. Rows' /\ Grows(chat, chat')
  BY RowsKept DEF IInv
<1>2. Log' /\ Queues'
  BY <1>1, LogKept, QueuesKept DEF IInv
<1>3. Running'
  BY DEF IInv, Running
<1> QED
  BY <1>1, <1>2, <1>3 DEF IInv

\* The page is listed.
LEMMA StartDiffKeeps ==
  ASSUME IInv, StartDiff,
         UNCHANGED <<rows, events, queueVars, calls, started, reader, missed, faults>>
  PROVE  IInv'
<1>1. Rows /\ Log /\ Queues /\ Reading /\ Remembered /\ Tallied
  BY DEF IInv
<1> DEFINE upto == cursor + Cardinality(NextQts)
           started2 == [Idle EXCEPT !.at = "read", !.todo = Undelivered, !.upto = upto]
<1>2. diff' = started2 /\ UNCHANGED <<retired, cursor, shownVars>> /\ Contiguous
  BY DEF StartDiff
<1>3. upto \in Nat /\ upto <= reserved[reader]
  BY <1>1, <1>2, PageIsBounded, ChatsAssumption DEF Reading, Queues
<1>4. /\ Undelivered \subseteq DOMAIN events /\ Undelivered \subseteq Nat
      /\ \A i \in Undelivered : events[i].dev \in {None, reader}
  BY <1>1 DEF Undelivered, FirstOf, Owed, Log
<1> HIDE DEF upto
<1>5. /\ started2 \in Differences /\ started2.todo = Undelivered /\ started2.ids = {}
      /\ started2.upto = upto /\ started2.views = Idle.views
  BY <1>3, <1>4, IdleDifference DEF Differences
<1> HIDE DEF started2
<1>6. \A c \in Chats : diff'.views[c] # "normal"
  BY <1>2, <1>5, IdleDifference, ChatsAssumption
<1>7. Reading'
  BY <1>1, <1>2, <1>3, <1>4, <1>5, <1>6 DEF Reading, queueVars
<1>8. Remembered'
  BY <1>1, <1>2, RowsKept, RememberedKept DEF rows
<1>9. Tallied'
  BY <1>1, TalliedKept DEF rows
<1> QED
  BY <1>7, <1>8, <1>9, DifferenceOnly DEF rows

\* An event of the reader's shows a chat established only if the reader is an end.
LEMMA ProjectionIsOfEnds ==
  ASSUME Rows, Log, Reading, NEW i \in diff.todo
  PROVE  /\ events[i].chat \in Chats
         /\ Projection(events[i]) \in Views \cup {"skipped"}
         /\ Projection(events[i]) = "normal" => reader \in EndsOf(chat, events[i].chat)
<1> DEFINE e == events[i]
<1>1. e \in Told /\ Addressed(e, chat) /\ e.dev \in {None, reader}
  BY DEF Log, Reading
<1> HIDE DEF e
<1>2. e.chat \in Chats
  BY <1>1 DEF Told
<1>3. View(e.chat, Owner[reader]) \in Views
      /\ (View(e.chat, Owner[reader]) = "normal" => chat[e.chat].state = "normal")
  BY <1>2, ViewsOfRows
<1>4. Projection(e) \in Views \cup {"skipped"}
  BY <1>3 DEF Projection, Views
<1>5. ASSUME Projection(e) = "normal"
      PROVE  reader \in EndsOf(chat, e.chat)
  <2>1. e.dev # None
    BY <1>3, <1>5 DEF Projection
  <2> QED
    BY <1>1, <2>1 DEF Addressed
<1> QED
  BY <1>2, <1>4, <1>5 DEF e

\* One chat is read.
LEMMA ReadEventKeeps ==
  ASSUME IInv, ReadEvent,
         UNCHANGED <<rows, events, queueVars, calls, started, reader, missed, faults>>
  PROVE  IInv'
<1>1. Rows /\ Log /\ Queues /\ Reading /\ Remembered /\ Tallied
  BY DEF IInv
<1>2. PICK i \in diff.todo :
        diff' = [diff EXCEPT !.todo = @ \ {i}, !.ids = @ \cup {i},
                   !.views[events[i].chat] = IF @ = None THEN Projection(events[i]) ELSE @]
  BY DEF ReadEvent
<1>3. UNCHANGED <<retired, cursor, shownVars>>
  BY DEF ReadEvent
<1> DEFINE x == events[i].chat
           p == Projection(events[i])
           views == [diff.views EXCEPT ![x] = IF @ = None THEN p ELSE @]
<1>4. x \in Chats /\ p \in Views \cup {"skipped"} /\ (p = "normal" => reader \in EndsOf(chat, x))
  BY <1>1, ProjectionIsOfEnds
<1>5. diff \in Differences /\ i \in DOMAIN events /\ i \in Nat
  BY <1>1 DEF Reading, Differences
<1>6. diff' = [diff EXCEPT !.todo = @ \ {i}, !.ids = @ \cup {i}, !.views = views]
  BY <1>2, <1>5 DEF Differences
<1> HIDE DEF x, p
<1>7. /\ views \in [Chats -> Views \cup {"skipped"}]
      /\ \A c \in Chats : views[c] = IF c = x /\ diff.views[c] = None THEN p ELSE diff.views[c]
  BY <1>4, <1>5 DEF Differences
<1> HIDE DEF views
<1>8. /\ diff' \in Differences /\ diff'.todo = diff.todo \ {i}
      /\ diff'.ids = diff.ids \cup {i} /\ diff'.upto = diff.upto /\ diff'.views = views
  BY <1>5, <1>6, <1>7 DEF Differences
<1>9. \A c \in Chats : diff'.views[c] = "normal" => reader \in EndsOf(chat, c)
  BY <1>1, <1>4, <1>7, <1>8 DEF Reading
<1>10. Reading'
  BY <1>1, <1>3, <1>5, <1>8, <1>9 DEF Reading, queueVars, rows, EndsOf
<1>11. Remembered'
  BY <1>1, <1>3, RowsKept, RememberedKept DEF rows
<1>12. Tallied'
  BY <1>1, TalliedKept DEF rows
<1> QED
  BY <1>10, <1>11, <1>12, DifferenceOnly DEF rows

\* An answer that arrives shows what the difference has seen.
LEMMA SeenIsRemembered ==
  ASSUME IInv, Seen, UNCHANGED <<chat, reader, reserved>>
  PROVE  Remembered' /\ cursor' \in 0..reserved'[reader]
<1>1. Reading /\ Remembered
  BY DEF IInv
<1>2. diff.upto \in Nat /\ diff.upto <= reserved[reader] /\ cursor' = diff.upto
      /\ reserved[reader] \in Nat
  BY <1>1, ChatsAssumption DEF Reading, Differences, Seen, IInv, Queues
<1>3. /\ shown' \in [Chats -> SUBSET {"normal", "discarded"}]
      /\ \A c \in Chats : shown'[c] = Shown(c, diff.views[c])
  BY <1>1 DEF Seen, Shown, Remembered
<1>4. \A c \in Chats : "normal" \in shown'[c] => reader \in EndsOf(chat, c)
  BY <1>1, <1>3 DEF Shown, Reading, Remembered
<1> QED
  BY <1>1, <1>2, <1>3, <1>4 DEF Remembered, Seen

\* The difference is over, however it ended.
LEMMA BackToIdle ==
  ASSUME IInv, diff' = Idle, UNCHANGED <<chat, reader, reserved, events>>,
         retired' \subseteq DOMAIN events, cursor' \in 0..reserved'[reader]
  PROVE  Reading'
<1>1. \A c \in Chats : Idle.views[c] # "normal"
  BY IdleDifference, ChatsAssumption
<1>2. Reading /\ Queues /\ reserved[reader] \in Nat
  BY ChatsAssumption DEF IInv, Reading, Queues
<1> QED
  BY <1>1, <1>2, IdleDifference DEF Reading

\* Delivered, and its events retired.
LEMMA DeliverKeeps ==
  ASSUME IInv, Deliver,
         UNCHANGED <<rows, events, queueVars, calls, started, reader, missed, faults>>
  PROVE  IInv'
<1>1. Seen /\ diff' = Idle /\ retired' = retired \cup diff.ids
  BY DEF Deliver
<1>2. Remembered' /\ cursor' \in 0..reserved'[reader]
  BY <1>1, SeenIsRemembered DEF rows, queueVars
<1>3. retired' \subseteq DOMAIN events
  BY <1>1 DEF IInv, Reading
<1>4. Reading'
  BY <1>1, <1>2, <1>3, BackToIdle DEF rows, queueVars
<1>5. Tallied'
  BY TalliedKept DEF IInv, rows
<1> QED
  BY <1>2, <1>4, <1>5, DifferenceOnly DEF rows

\* Lost, or delivered and not retired.
LEMMA LoseDiffKeeps ==
  ASSUME IInv, LoseDiff
  PROVE  IInv'
<1>1. /\ diff' = Idle /\ faults < MaxFaults /\ faults' = faults + 1
      /\ UNCHANGED <<chat, revoked, events, queueVars, calls, started, reader, missed, retired>>
  BY DEF LoseDiff, Unseen, rows
<1>2. Remembered' /\ cursor' \in 0..reserved'[reader]
  <2>1. CASE Seen
    BY <1>1, <2>1, SeenIsRemembered DEF queueVars
  <2>2. CASE UNCHANGED <<cursor, shownVars>>
    BY <1>1, <2>2, RowsKept, RememberedKept DEF IInv, Reading, queueVars
  <2> QED
    BY <2>1, <2>2 DEF LoseDiff
<1>3. Reading'
  BY <1>1, <1>2, BackToIdle DEF IInv, Reading, queueVars
<1>4. Tallied'
  BY <1>1, ChatBoundsAssumption DEF IInv, Tallied
<1> QED
  BY <1>1, <1>2, <1>3, <1>4, DifferenceOnly

\* The process dies.
LEMMA CrashKeeps ==
  ASSUME IInv, Crash
  PROVE  IInv'
<1>1. /\ calls' = {} /\ diff' = Idle /\ faults < MaxFaults /\ faults' = faults + 1
      /\ UNCHANGED <<chat, revoked, events, queueVars, started, reader, retired, cursor, shownVars>>
      /\ missed' \subseteq missed \cup Chats
  BY DEF Crash, rows
<1>2. Rows' /\ Grows(chat, chat')
  BY <1>1, RowsKept DEF IInv
<1>3. Log' /\ Queues'
  BY <1>1, <1>2, LogKept, QueuesKept DEF IInv
<1>4. Running'
  BY <1>1, FS_EmptySet DEF Running
<1>5. Reading'
  BY <1>1, BackToIdle DEF IInv, Reading, queueVars
<1>6. Remembered'
  BY <1>1, <1>2, RememberedKept DEF IInv
<1>7. Tallied'
  BY <1>1, ChatBoundsAssumption DEF IInv, Tallied
<1> QED
  BY <1>2, <1>3, <1>4, <1>5, <1>6, <1>7 DEF IInv

-----------------------------------------------------------------------------
\* The empty tables.
LEMMA InitKeeps == Init => IInv
<1> SUFFICES ASSUME Init
             PROVE  IInv
  OBVIOUS
<1>1. Rows
  BY ChatsAssumption DEF Init, Rows, ChatRows, Sound, Somebody
<1>2. Running
  BY FS_EmptySet DEF Init, Running
<1>3. Log
  BY DEF Init, Log
<1>4. Queues
  <2>1. Pairs({}) = {} /\ {m.qts : m \in {}} = {} /\ 1..0 = {}
    BY DEF Pairs
  <2>2. \A d \in Devices : Exact({}, 0, d, chat)
    BY <2>1, FS_EmptySet DEF Exact
  <2> QED
    BY <2>2 DEF Init, Queues
<1>5. Reading
  <2>1. reader \in Devices /\ reserved[reader] = 0
    BY ChatsAssumption DEF Init
  <2> QED
    BY <2>1, IdleDifference, ChatsAssumption DEF Init, Reading
<1>6. Remembered
  BY DEF Init, Remembered
<1>7. Tallied
  BY ChatBoundsAssumption DEF Init, Tallied
<1> QED
  BY <1>1, <1>2, <1>3, <1>4, <1>5, <1>6, <1>7 DEF IInv

\* Every step, one lemma per action.
LEMMA NextKeeps == IInv /\ [Next]_vars => IInv'
<1> SUFFICES ASSUME IInv, [Next]_vars
             PROVE  IInv'
  OBVIOUS
<1>1. ASSUME NEW c \in Chats, Request(c)
      PROVE  IInv'
  BY <1>1, RequestKeeps
<1>2. ASSUME NEW d \in Devices, NEW c \in Chats,
             AcceptRead(d, c) \/ DiscardRead(d, c) \/ SendRead(d, c)
      PROVE  IInv'
  BY <1>2, ReadsKeep, SendReadKeeps
<1>3. ASSUME NEW d \in Devices, Revoke(d)
      PROVE  IInv'
  BY <1>3, RevokeKeeps
<1>4. ASSUME NEW k \in calls, CallStep(k) \/ CascadeFails(k) \/ RecordFails(k)
      PROVE  IInv'
  <2>1. CASE AcceptWrite(k) \/ DiscardWrite(k)
    BY <2>1, AcceptWriteKeeps, DiscardWriteKeeps
  <2>2. CASE ListBound(k) \/ Cascade(k) \/ CascadeFails(k)
    BY <2>2, ListBoundKeeps, CascadeKeeps, CascadeFailsKeeps
  <2>3. CASE Record(k) \/ RecordFails(k)
    BY <2>3, RecordKeeps, RecordFailsKeeps
  <2>4. CASE SendLookup(k) \/ SendAppend(k)
    BY <2>4, SendLookupKeeps, SendAppendKeeps
  <2> QED
    BY <1>4, <2>1, <2>2, <2>3, <2>4 DEF CallStep
<1>5. CASE DiffStep
  BY <1>5, StartDiffKeeps, ReadEventKeeps, DeliverKeeps DEF DiffStep
<1>6. CASE LoseDiff
  BY <1>6, LoseDiffKeeps
<1>7. CASE Crash
  BY <1>7, CrashKeeps
<1>8. CASE UNCHANGED vars
  <2>1. UNCHANGED <<chat, revoked, events, queueVars, calls, started, diffVars, shownVars,
                    missed, faults, reserved>>
    BY <1>8 DEF vars, rows, queueVars
  <2>2. Rows' /\ Grows(chat, chat')
    BY <2>1, RowsKept DEF IInv
  <2>3. Reading' /\ Remembered'
    BY <2>1, <2>2, ReadingKept, RememberedKept DEF IInv, diffVars
  <2>4. Tallied'
    BY <2>1, TalliedKept DEF IInv
  <2> QED
    BY <2>1, <2>3, <2>4, DifferenceOnly
<1> QED
  BY <1>1, <1>2, <1>3, <1>4, <1>5, <1>6, <1>7, <1>8 DEF Next

\* The invariant holds in every reachable state.
THEOREM Inductive == Spec => []IInv
BY InitKeeps, NextKeeps, PTL DEF Spec

\* Rows, events, handlers, differences and counters keep their types; the device bound
\* to a chat is one of the invited account's, and only a chat that is over has an ender.
THEOREM TypeCorrect == Spec => []TypeOK
<1>1. IInv => TypeOK
  <2> SUFFICES ASSUME IInv
               PROVE  TypeOK
    OBVIOUS
  <2>1. \A c \in Chats :
          /\ chat[c].state \in {"none", "requested", "normal", "discarded"}
          /\ chat[c].bound \in DevicesOf(Invited[c]) \cup {None}
          /\ chat[c].state = "normal" => chat[c].bound # None
          /\ chat[c].ender # None <=> chat[c].state = "discarded"
    BY DEF IInv, Rows, ChatRows, Sound
  <2>2. \A i \in DOMAIN events :
          /\ events[i].chat \in Chats /\ events[i].user \in Users
          /\ events[i].dev \in DevicesOf(events[i].user) \cup {None}
    <3> SUFFICES ASSUME NEW i \in DOMAIN events
                 PROVE  /\ events[i].chat \in Chats /\ events[i].user \in Users
                        /\ events[i].dev \in DevicesOf(events[i].user) \cup {None}
      OBVIOUS
    <3>1. events[i] \in Told /\ Addressed(events[i], chat)
      BY DEF IInv, Log
    <3> QED
      BY <3>1 DEF Told, Addressed, DevicesOf, Somebody
  <2>3. \A k \in calls : k.kind \in Kinds /\ k.dev \in Devices /\ k.n \in 1..MaxRunning
    BY DEF IInv, Running, Handlers
  <2> QED
    BY <2>1, <2>2, <2>3 DEF IInv, Reading, Remembered, Tallied, TypeOK
<1> QED
  BY <1>1, Inductive, PTL

\* No answer, no difference and no push of an accept shows an established chat to a
\* device that is not one of its ends, however many devices of the account read the
\* invitation after the accept; the push of a repeated request may, in the invited
\* account only.
THEOREM OnlyRepeatsLeakHolds == Spec => []OnlyRepeatsLeak
<1>1. IInv => OnlyRepeatsLeak
  <2> SUFFICES ASSUME IInv, NEW c \in Chats, reader \notin Ends(c)
               PROVE  /\ "normal" \notin shown[c]
                      /\ pushed[c] \subseteq {"request"}
                      /\ pushed[c] # {} => Owner[reader] = Invited[c]
    BY DEF OnlyRepeatsLeak
  <2>1. Remembered /\ reader # Inviter[c]
    BY ChatsAssumption DEF IInv, Ends
  <2>2. "normal" \notin shown[c]
    BY <2>1 DEF Remembered, Ends, EndsOf
  <2>3. pushed[c] \subseteq {"request"}
    BY <2>1 DEF Remembered
  <2>4. pushed[c] # {} => Owner[reader] = Invited[c]
    BY <2>1, <2>3 DEF Remembered
  <2> QED
    BY <2>2, <2>3, <2>4
<1> QED
  BY <1>1, Inductive, PTL

\* However many copies of a message are appended at once, a queue is numbered up to its
\* watermark without a gap, holds each message once, and only for an end of its chat.
THEOREM QueueExactHolds == Spec => []QueueExact
<1>1. IInv => QueueExact
  BY DEF IInv, Queues, Exact, Pairs, QueueExact, Ends, EndsOf
<1> QED
  BY <1>1, Inductive, PTL

\* A chat changes by compare-and-set: the first accept binds a device for good, and
\* nothing revives a chat that is over.
THEOREM BoundOnceHolds == Spec => BoundOnce
<1>1. IInv /\ [Next]_vars =>
        [\A c \in Chats :
           /\ chat[c].bound # None => chat'[c].bound = chat[c].bound
           /\ chat[c].state = "discarded" => chat'[c] = chat[c]
           /\ chat[c].state = "normal" => chat'[c].state # "requested"]_vars
  <2> SUFFICES ASSUME IInv, Next, NEW c \in Chats
               PROVE  /\ chat[c].bound # None => chat'[c].bound = chat[c].bound
                      /\ chat[c].state = "discarded" => chat'[c] = chat[c]
                      /\ chat[c].state = "normal" => chat'[c].state # "requested"
    OBVIOUS
  <2>1. chat \in [Chats -> ChatRows]
    BY DEF IInv, Rows
  <2>2. ASSUME NEW x \in Chats, Request(x)
        PROVE  \/ chat' = chat
               \/ chat[x].state = "none" /\ chat' = [chat EXCEPT ![x].state = "requested"]
    BY <2>2 DEF Request
  <2>3. ASSUME NEW k \in calls, CallStep(k)
        PROVE  \/ chat' = chat
               \/ \E x \in Chats, d \in Devices :
                    Acceptable(x) /\ chat' = [chat EXCEPT ![x].state = "normal", ![x].bound = d]
               \/ \E x \in Chats, d \in Devices : Active(x) /\ chat' = Discarded(x, d)
    <3>1. k \in Handlers /\ Fit(k, chat)
      BY RunningHandler
    <3>2. k.dev \in Devices /\ k.left \subseteq Chats /\ (k.kind # "logout" => k.chat \in Chats)
      BY <3>1 DEF Handlers, Fit
    <3>3. CASE AcceptWrite(k)
      BY <3>2, <3>3 DEF AcceptWrite, At
    <3>4. CASE DiscardWrite(k)
      BY <3>2, <3>4 DEF DiscardWrite, At
    <3>5. CASE Cascade(k)
      <4>1. PICK x \in k.left : chat' = IF Active(x) THEN Discarded(x, k.dev) ELSE chat
        BY <3>5 DEF Cascade
      <4> QED
        BY <3>2, <4>1
    <3>6. CASE ListBound(k) \/ Record(k) \/ SendLookup(k) \/ SendAppend(k)
      BY <3>6 DEF ListBound, Record, SendLookup, SendAppend, OnlyCalls, rows
    <3> QED
      BY <2>3, <3>3, <3>4, <3>5, <3>6 DEF CallStep
  <2>4. \/ chat' = chat
        \/ \E x \in Chats : chat[x].state = "none" /\ chat' = [chat EXCEPT ![x].state = "requested"]
        \/ \E x \in Chats, d \in Devices :
             Acceptable(x) /\ chat' = [chat EXCEPT ![x].state = "normal", ![x].bound = d]
        \/ \E x \in Chats, d \in Devices : Active(x) /\ chat' = Discarded(x, d)
    <3>1. CASE \E x \in Chats : Request(x)
      BY <2>2, <3>1
    <3>2. CASE \E k \in calls : CallStep(k)
      BY <2>3, <3>2
    <3>3. CASE \/ \E d \in Devices, x \in Chats :
                    AcceptRead(d, x) \/ DiscardRead(d, x) \/ SendRead(d, x)
               \/ \E d \in Devices : Revoke(d)
               \/ \E k \in calls : CascadeFails(k) \/ RecordFails(k)
               \/ DiffStep \/ LoseDiff \/ Crash
      BY <3>3 DEF AcceptRead, DiscardRead, SendRead, OnlyCalls, Revoke, CascadeFails,
                  RecordFails, DiffStep, LoseDiff, Crash, rows
    <3> QED
      BY <3>1, <3>2, <3>3 DEF Next
  <2>5. chat[c] \in ChatRows
    BY <2>1
  <2>6. CASE chat' = chat
    BY <2>5, <2>6 DEF ChatRows
  <2>7. ASSUME NEW x \in Chats, chat[x].state = "none",
               chat' = [chat EXCEPT ![x].state = "requested"]
        PROVE  /\ chat'[c].bound = chat[c].bound
               /\ c # x => chat'[c] = chat[c]
    BY <2>1, <2>5, <2>7 DEF ChatRows
  <2>8. ASSUME NEW x \in Chats, NEW d \in Devices, Acceptable(x),
               chat' = [chat EXCEPT ![x].state = "normal", ![x].bound = d]
        PROVE  c # x => chat'[c] = chat[c]
    BY <2>1, <2>8 DEF ChatRows
  <2>9. ASSUME NEW x \in Chats, NEW d \in Devices, Acceptable(x),
               chat' = [chat EXCEPT ![x].state = "normal", ![x].bound = d]
        PROVE  chat'[x].state = "normal"
    BY <2>1, <2>9 DEF ChatRows
  <2>10. ASSUME NEW x \in Chats, NEW d \in Devices, chat' = Discarded(x, d)
         PROVE  /\ chat'[c].bound = chat[c].bound
                /\ c # x => chat'[c] = chat[c]
                /\ chat'[x].state = "discarded"
    BY <2>1, <2>5, <2>10 DEF ChatRows, Discarded
  <2>11. CASE \E x \in Chats :
                chat[x].state = "none" /\ chat' = [chat EXCEPT ![x].state = "requested"]
    BY <2>7, <2>11
  <2>12. CASE \E x \in Chats, d \in Devices :
                Acceptable(x) /\ chat' = [chat EXCEPT ![x].state = "normal", ![x].bound = d]
    BY <2>8, <2>9, <2>12 DEF Acceptable
  <2>13. CASE \E x \in Chats, d \in Devices : Active(x) /\ chat' = Discarded(x, d)
    BY <2>10, <2>13 DEF Active
  <2> QED
    BY <2>4, <2>6, <2>11, <2>12, <2>13
<1> QED
  BY <1>1, Inductive, PTL DEF Spec, BoundOnce
=============================================================================
