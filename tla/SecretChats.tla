---------------------------- MODULE SecretChats ----------------------------
(***************************************************************************)
(* Secret chats: the server relays what two devices encrypt for each other *)
(* and never reads it.  One device invites an account; every device of the *)
(* account may answer, and the first to accept is bound to the chat, as    *)
(* the inviting device has been from the start.  From then on the chat     *)
(* belongs to these two devices, its ends, and not to the two accounts.    *)
(*                                                                         *)
(* A chat is one row, changed by compare-and-set.  Who has to hear of a    *)
(* change is written after it, as an event for one device or for every     *)
(* device of an account, and is read back by the device's differences,     *)
(* which rebuild what they show from the row as it is by then and retire   *)
(* an event only after their answer was delivered.  Messages have a queue  *)
(* of their own, numbered per receiving device (qts).                      *)
(*                                                                         *)
(* A handler that changed a chat also pushes it to online sessions, which  *)
(* are reached or not.  A push shows the chat as the handler's own query   *)
(* returned it, so it may show what the differences would hide; of these   *)
(* pushes the model follows the ones of an established chat.  A push that  *)
(* a chat is over promises nothing and is left out, as are access hashes,  *)
(* key material, files and read events.                                    *)
(***************************************************************************)
EXTENDS Naturals, Sequences, FiniteSets

CONSTANTS
  Chats,      \* the chats, by the random id their request carries
  Devices,    \* permanent auth keys
  Users,
  RandomIds,  \* of messages
  Owner,      \* the account of each device
  Inviter,    \* the device that requests each chat
  Invited,    \* the account it invites
  Readers,    \* the devices whose differences are followed
  None,       \* no device, no chat, no view
  Page,       \* messages and events one difference carries (1000 in the code)
  MaxCalls,   \* bound: the RPC handlers started
  MaxRunning, \* bound: those that run at once
  MaxFaults   \* bound: crashes, failed writes and lost answers

ASSUME ChatsAssumption ==
  /\ Owner \in [Devices -> Users]
  /\ Inviter \in [Chats -> Devices] /\ Invited \in [Chats -> Users]
  /\ \A c \in Chats : Owner[Inviter[c]] # Invited[c]
  /\ Readers \subseteq Devices /\ Readers # {}
  /\ None \notin Devices /\ None \notin Chats /\ None \notin Users
  /\ None \notin {"normal", "discarded"}
ASSUME ChatBoundsAssumption ==
  Page \in Nat \ {0} /\ MaxCalls \in Nat /\ MaxRunning \in Nat /\ MaxFaults \in Nat

VARIABLES
  chat,      \* secret_chats: the state, the participant's device, and (history)
             \* the device whose call ended it
  events,    \* encrypted_state_events, by id
  queue,     \* encrypted_message_queue of each device
  reserved,  \* secret_qts_watermarks.reserved_qts of each device
  revoked,   \* the devices that logged out
  calls,     \* the running handlers
  started,   \* how many were started
  reader,    \* the one followed: what a difference writes no other device reads
  retired,   \* encrypted_state_event_delivery of the reader: the events it was given
  diff,      \* its running getDifference
  cursor,    \* the qts it has received up to
  shown,     \* history: the views of each chat it was ever given
  pushed,    \* history: the kinds of call that pushed it each chat as established
  missed,    \* history: the chats of which an event was lost
  faults

rows == <<chat, revoked>>
queueVars == <<queue, reserved>>
diffVars == <<reader, retired, diff, cursor>>
shownVars == <<shown, pushed>>
vars == <<rows, events, queueVars, calls, started, diffVars, shownVars, missed, faults>>

-----------------------------------------------------------------------------
Idle == [at |-> "idle", todo |-> {}, ids |-> {}, upto |-> 0,
         views |-> [c \in Chats |-> None]]

Init ==
  /\ chat = [c \in Chats |-> [state |-> "none", bound |-> None, ender |-> None]]
  /\ events = <<>>
  /\ queue = [d \in Devices |-> {}]
  /\ reserved = [d \in Devices |-> 0]
  /\ revoked = {}
  /\ calls = {}
  /\ started = 0
  /\ reader \in Readers
  /\ retired = {}
  /\ diff = Idle
  /\ cursor = 0
  /\ shown = [c \in Chats |-> {}]
  /\ pushed = [c \in Chats |-> {}]
  /\ missed = {}
  /\ faults = 0

DevicesOf(u) == {d \in Devices : Owner[d] = u}
Active(c) == chat[c].state \in {"requested", "normal"}
Ends(c) == {Inviter[c], chat[c].bound} \ {None}

\* The device bound on the side of user u, and the other user and device.
Bound(c, u) == IF u = Owner[Inviter[c]] THEN Inviter[c] ELSE chat[c].bound
PeerOf(c, u) == IF u = Owner[Inviter[c]] THEN Invited[c] ELSE Owner[Inviter[c]]
PeerBound(c, u) == Bound(c, PeerOf(c, u))
IsParticipant(c, u) == u \in {Owner[Inviter[c]], Invited[c]}

\* What a chat looks like to a user: the row as it is now.
View(c, u) ==
  IF chat[c].state \in {"normal", "discarded"} THEN chat[c].state
  ELSE IF u = Owner[Inviter[c]] THEN "waiting" ELSE "requested"

\* An event for the peer of user u: for its bound device, or for its account.
ForPeer(c, u) == [chat |-> c, user |-> PeerOf(c, u), dev |-> PeerBound(c, u)]

-----------------------------------------------------------------------------
(***************************************************************************)
(* The handlers.  A device that is still signed in starts one, and it runs *)
(* in steps, one per query; the first is the step that starts it, for a    *)
(* call that its first query rejects changes nothing.  Those that change a *)
(* chat end by recording the events in `tell' and answering with `view'.   *)
(***************************************************************************)
Kinds == {"request", "accept", "discard", "send", "logout"}
\* The least number that no running call of the device has.
Free(d) == CHOOSE n \in 1..MaxRunning :
             /\ \A k \in calls : k.dev = d => k.n # n
             /\ \A i \in 1..n - 1 : \E k \in calls : k.dev = d /\ k.n = i
Call(kind, d, c, at) ==
  [n |-> Free(d), kind |-> kind, dev |-> d, chat |-> c, rid |-> None, at |-> at,
   key |-> None, left |-> {}, tell |-> <<>>, view |-> None]
Telling(k, list, view) == [k EXCEPT !.at = "tell", !.tell = list, !.view = view]

Started(k) == calls' = calls \cup {k} /\ started' = started + 1
Becomes(k, k2) == calls' = (calls \ {k}) \cup {k2}
End(k) == calls' = calls \ {k}
At(k, kind, at) == k.kind = kind /\ k.at = at

CanStart(d) == started < MaxCalls /\ Cardinality(calls) < MaxRunning /\ d \notin revoked
OnlyCalls == UNCHANGED <<rows, events, queueVars, diffVars, shownVars, missed, faults>>
OnlyChats == UNCHANGED <<revoked, events, queueVars, diffVars, shownVars, missed, faults>>

\* The request is created, or repeats one that is still going on, established ones
\* included: either way the whole account is told, and shown the row the query returned.
Request(c) ==
  LET d == Inviter[c]
      invitation == <<[chat |-> c, user |-> Invited[c], dev |-> None]>>
      new == Call("request", d, c, "tell")
  IN  /\ CanStart(d)
      /\ OnlyChats
      /\ \/ /\ chat[c].state = "none"
            /\ chat' = [chat EXCEPT ![c].state = "requested"]
            /\ Started(Telling(new, invitation, "waiting"))
         \/ /\ Active(c)
            /\ Started(Telling(new, invitation, View(c, Owner[d])))
            /\ UNCHANGED chat

AcceptRead(d, c) ==
  /\ CanStart(d)
  /\ Owner[d] = Invited[c] /\ chat[c].state = "requested"
  /\ Started(Call("accept", d, c, "write"))
  /\ OnlyCalls

\* Mutated: the update does not ask for the state the reader saw.
AcceptableOnceSeen(c) == chat[c].state # "none"
\* Mutated: the update only asks that no device is bound.
AcceptableUnbound(c) == chat[c].bound = None

Acceptable(c) == chat[c].state = "requested" /\ chat[c].bound = None

\* AcceptSecretChat, then the events: for the inviting device, and for every
\* device of the account, those that lost included.
AcceptWrite(k) ==
  /\ At(k, "accept", "write")
  /\ OnlyChats
  /\ UNCHANGED started
  /\ LET c == k.chat
     IN  IF Acceptable(c)
         THEN /\ chat' = [chat EXCEPT ![c].state = "normal", ![c].bound = k.dev]
              /\ Becomes(k, Telling(k, <<
                    [chat |-> c, user |-> Owner[Inviter[c]], dev |-> Inviter[c]],
                    [chat |-> c, user |-> Invited[c], dev |-> None]>>, "normal"))
         ELSE End(k) /\ UNCHANGED chat

\* Before a device is bound any device of the invited account may decline.  Of a
\* chat that is over the update will find nothing to change, whoever calls.
DiscardRead(d, c) ==
  /\ CanStart(d)
  /\ Active(c)
  /\ IsParticipant(c, Owner[d]) /\ Bound(c, Owner[d]) \in {d, None}
  /\ Started(Call("discard", d, c, "write"))
  /\ OnlyCalls

Discarded(c, d) == [chat EXCEPT ![c].state = "discarded", ![c].ender = d]

\* The peer is the one bound in the row the update returns, not in the one read.
DiscardWrite(k) ==
  /\ At(k, "discard", "write")
  /\ OnlyChats
  /\ UNCHANGED started
  /\ IF Active(k.chat)
     THEN /\ chat' = Discarded(k.chat, k.dev)
          /\ Becomes(k, Telling(k, <<ForPeer(k.chat, Owner[k.dev])>>, None))
     ELSE End(k) /\ UNCHANGED chat

-----------------------------------------------------------------------------
BoundTo(d) == {c \in Chats : Active(c) /\ d \in Ends(c)}

\* Signing out: the authorisation goes first, then every chat bound to the device.
\* A device with neither a chat nor a call has nothing to end.
Revoke(d) ==
  /\ CanStart(d)
  /\ BoundTo(d) # {} \/ \E k \in calls : k.dev = d
  /\ revoked' = revoked \cup {d}
  /\ Started(Call("logout", d, None, "list"))
  /\ UNCHANGED <<chat, events, queueVars, diffVars, shownVars, missed, faults>>

\* Mutated: only the chats the device has invited to.
ListedAsInviter(d) == {c \in Chats : Active(c) /\ d = Inviter[c]}

\* ListActiveSecretChatsByAuthKey.
Listed(d) == BoundTo(d)

ListBound(k) ==
  /\ At(k, "logout", "list")
  /\ IF Listed(k.dev) = {}
     THEN End(k)
     ELSE Becomes(k, [k EXCEPT !.at = "cascade", !.left = Listed(k.dev)])
  /\ OnlyCalls
  /\ UNCHANGED started

\* Each listed chat is discarded unless somebody was faster; the events follow
\* when the list is done.
Cascade(k) ==
  /\ At(k, "logout", "cascade")
  /\ OnlyChats
  /\ UNCHANGED started
  /\ \E c \in k.left :
       LET rest == [k EXCEPT !.left = @ \ {c}]
           told == [rest EXCEPT !.tell = Append(@, ForPeer(c, Owner[k.dev]))]
           next == IF Active(c) THEN told ELSE rest
       IN  /\ chat' = IF Active(c) THEN Discarded(c, k.dev) ELSE chat
           /\ IF next.left # {} THEN Becomes(k, next)
              ELSE IF next.tell # <<>> THEN Becomes(k, [next EXCEPT !.at = "tell"])
              ELSE End(k)

\* A failed update ends the list; the chats discarded before it are still told.
CascadeFails(k) ==
  /\ At(k, "logout", "cascade")
  /\ faults < MaxFaults
  /\ faults' = faults + 1
  /\ missed' = missed \cup k.left
  /\ IF k.tell = <<>> THEN End(k) ELSE Becomes(k, [k EXCEPT !.at = "tell", !.left = {}])
  /\ UNCHANGED <<rows, events, queueVars, started, diffVars, shownVars>>

-----------------------------------------------------------------------------
\* Only the views of a chat that began or ended are remembered.
Shown(c, view) == shown[c] \cup ({view} \cap {"normal", "discarded"})

\* The devices to which a call that found or made its chat established pushes it: an
\* accept to the device that invited (to the others it pushes that it is over), a
\* repeated request to the whole account, as it did the first time.
Audience(k) ==
  {d \in Devices : \/ k.kind = "accept" /\ d = Inviter[k.chat]
                   \/ k.kind = "request" /\ Owner[d] = Invited[k.chat]}

\* The push reaches the reader, if it is online, or it does not.
Push(k) ==
  \/ UNCHANGED pushed
  \/ /\ k.view = "normal"
     /\ reader \in Audience(k) \ revoked
     /\ pushed' = [pushed EXCEPT ![k.chat] = @ \cup {k.kind}]

\* After the last event come the push and the call's answer.
AfterEvent(k) ==
  IF Len(k.tell) > 1
  THEN Becomes(k, [k EXCEPT !.tell = Tail(@)]) /\ UNCHANGED shownVars
  ELSE /\ End(k)
       /\ Push(k)
       /\ shown' = IF k.dev = reader /\ k.chat \in Chats
                   THEN [shown EXCEPT ![k.chat] = Shown(k.chat, k.view)]
                   ELSE shown

Record(k) ==
  /\ k.at = "tell"
  /\ events' = Append(events, Head(k.tell))
  /\ AfterEvent(k)
  /\ UNCHANGED <<rows, queueVars, started, diffVars, missed, faults>>

\* recordEncryptionEventBestEffort: a failure is logged and forgotten.
RecordFails(k) ==
  /\ k.at = "tell"
  /\ faults < MaxFaults
  /\ faults' = faults + 1
  /\ missed' = missed \cup {Head(k.tell).chat}
  /\ AfterEvent(k)
  /\ UNCHANGED <<rows, events, queueVars, started, diffVars>>

-----------------------------------------------------------------------------
(***************************************************************************)
(* Messages.  The chat is read, then the message is appended to the queue  *)
(* of the device read from it: a transaction that first looks for the same *)
(* message.  Reserving the qts locks the device's watermark until the      *)
(* commit, so the rest of the transaction is one step; the unique index    *)
(* fails it when a duplicate was committed since the look.                 *)
(***************************************************************************)
SendRead(d, c) ==
  LET u == Owner[d]
  IN  /\ CanStart(d)
      /\ chat[c].state = "normal" /\ Bound(c, u) = d
      /\ \E r \in RandomIds :
           Started([Call("send", d, c, "lookup") EXCEPT !.rid = r, !.key = PeerBound(c, u)])
      /\ OnlyCalls

Sent(k) == \E m \in queue[k.key] : m.chat = k.chat /\ m.rid = k.rid

SendLookup(k) ==
  /\ At(k, "send", "lookup")
  /\ IF Sent(k) THEN End(k) ELSE Becomes(k, [k EXCEPT !.at = "append"])
  /\ OnlyCalls
  /\ UNCHANGED started

\* Mutated: the lookup is all there is against duplicates.
NeverConflicts(k) == FALSE

Conflicts(k) == Sent(k)

\* Mutated: the qts was reserved outside the transaction.
AfterConflictKept(k) ==
  /\ reserved' = [reserved EXCEPT ![k.key] = @ + 1]
  /\ UNCHANGED queue

\* A transaction that fails gives its qts back.
AfterConflict(k) == UNCHANGED queueVars

SendAppend(k) ==
  /\ At(k, "send", "append")
  /\ End(k)
  /\ IF Conflicts(k)
     THEN AfterConflict(k)
     ELSE LET qts == reserved[k.key] + 1
          IN  /\ reserved' = [reserved EXCEPT ![k.key] = qts]
              /\ queue' = [queue EXCEPT ![k.key] =
                             @ \cup {[qts |-> qts, chat |-> k.chat, rid |-> k.rid]}]
  /\ UNCHANGED <<rows, events, started, diffVars, shownVars, missed, faults>>

-----------------------------------------------------------------------------
(***************************************************************************)
(* updates.getDifference: the next page of messages and of the events not  *)
(* retired yet, the chat of each event read afresh, one view per chat; the *)
(* events are retired once the answer was delivered.  A difference that    *)
(* has nothing to fetch changes nothing and is left out.                   *)
(***************************************************************************)
\* The first page of a set of numbers.
FirstOf(S) == {x \in S : Cardinality({y \in S : y < x}) < Page}

\* ListUndeliveredStateEvents: by id, the account's and the device's own.
Owed == {i \in 1..Len(events) : /\ events[i].user = Owner[reader]
                                /\ events[i].dev \in {None, reader}
                                /\ i \notin retired}
Undelivered == FirstOf(Owed)

\* The page after the cursor; a gap in it fails the whole difference.
Beyond == {m.qts : m \in {x \in queue[reader] : x.qts > cursor}}
NextQts == FirstOf(Beyond)
Contiguous == NextQts = cursor + 1 .. cursor + Cardinality(NextQts)

StartDiff ==
  /\ diff.at = "idle"
  /\ reader \notin revoked
  /\ Contiguous
  /\ NextQts # {} \/ Undelivered # {}
  /\ diff' = [Idle EXCEPT !.at = "read", !.todo = Undelivered,
                          !.upto = cursor + Cardinality(NextQts)]
  /\ UNCHANGED <<retired, cursor, shownVars>>

\* Mutated: an event for the account shows the row as it is.
ProjectionAsIs(e) == View(e.chat, Owner[reader])

\* What the reader is shown of a chat: an event for the account says nothing of a
\* chat that the reader is bound to, and of one that another device of the account
\* is bound to only that it is over.
Projection(e) ==
  IF e.dev = None /\ chat[e.chat].state = "normal"
  THEN IF Bound(e.chat, Owner[reader]) = reader THEN "skipped" ELSE "discarded"
  ELSE View(e.chat, Owner[reader])

\* The chat of one event is read: the first event of a chat decides its view.
ReadEvent ==
  /\ diff.at = "read"
  /\ \E i \in diff.todo :
       /\ \A j \in diff.todo : i <= j
       /\ diff' = [diff EXCEPT !.todo = @ \ {i}, !.ids = @ \cup {i},
                     !.views[events[i].chat] = IF @ = None THEN Projection(events[i]) ELSE @]
  /\ UNCHANGED <<retired, cursor, shownVars>>

\* The result is delivered, and MarkStateEventsDelivered, registered to run after
\* that, retires the events: nothing but the next difference reads what it writes.
Answered == diff.at = "read" /\ diff.todo = {}
Seen ==
  /\ shown' = [c \in Chats |-> Shown(c, diff.views[c])]
  /\ UNCHANGED pushed
  /\ cursor' = diff.upto
Deliver ==
  /\ Answered
  /\ Seen
  /\ retired' = retired \cup diff.ids
  /\ diff' = Idle

\* Mutated: the events are retired as the handler returns, delivered or not.
RetiredUnseen == retired' = retired \cup diff.ids

Unseen == UNCHANGED retired

\* The result never arrives, or it does and the events are not retired.
LoseDiff ==
  /\ Answered
  /\ faults < MaxFaults
  /\ faults' = faults + 1
  /\ diff' = Idle
  /\ \/ Unseen /\ UNCHANGED <<cursor, shownVars>>
     \/ diff.ids # {} /\ Seen /\ UNCHANGED retired
  /\ UNCHANGED <<rows, events, queueVars, calls, started, reader, missed>>

\* The process dies: handlers and differences end where they are.
WorksOn(k, c) == IF k.kind = "logout"
                 THEN c \in k.left \/ c \in BoundTo(k.dev) \/ \E i \in DOMAIN k.tell : k.tell[i].chat = c
                 ELSE c = k.chat
Crash ==
  /\ ~(calls = {} /\ diff = Idle)
  /\ faults < MaxFaults
  /\ faults' = faults + 1
  /\ missed' = missed \cup {c \in Chats : \E k \in calls : WorksOn(k, c)}
  /\ calls' = {}
  /\ diff' = Idle
  /\ UNCHANGED <<rows, events, queueVars, started, reader, retired, cursor, shownVars>>

-----------------------------------------------------------------------------
CallStep(k) ==
  \/ AcceptWrite(k) \/ DiscardWrite(k)
  \/ ListBound(k) \/ Cascade(k)
  \/ Record(k)
  \/ SendLookup(k) \/ SendAppend(k)

DiffStep ==
  /\ StartDiff \/ ReadEvent \/ Deliver
  /\ UNCHANGED <<rows, events, queueVars, calls, started, reader, missed, faults>>

Next ==
  \/ \E c \in Chats : Request(c)
  \/ \E d \in Devices, c \in Chats : AcceptRead(d, c) \/ DiscardRead(d, c) \/ SendRead(d, c)
  \/ \E d \in Devices : Revoke(d)
  \/ \E k \in calls : CallStep(k) \/ CascadeFails(k) \/ RecordFails(k)
  \/ DiffStep \/ LoseDiff \/ Crash

Spec == Init /\ [][Next]_vars

(***************************************************************************)
(* A handler that was started runs to its end, and a device that is signed *)
(* in asks for the difference until nothing is left for it.                *)
(***************************************************************************)
FairSpec ==
  /\ Spec
  /\ \A d \in Devices : WF_vars(\E k \in calls : k.dev = d /\ CallStep(k))
  /\ WF_vars(DiffStep)

-----------------------------------------------------------------------------
TypeOK ==
  /\ \A c \in Chats :
       /\ chat[c].state \in {"none", "requested", "normal", "discarded"}
       /\ chat[c].bound \in DevicesOf(Invited[c]) \cup {None}
       /\ chat[c].state = "normal" => chat[c].bound # None
       /\ chat[c].ender # None <=> chat[c].state = "discarded"
  /\ \A i \in DOMAIN events :
       /\ events[i].chat \in Chats /\ events[i].user \in Users
       /\ events[i].dev \in DevicesOf(events[i].user) \cup {None}
  /\ retired \subseteq DOMAIN events /\ diff.ids \subseteq DOMAIN events
  /\ reader \in Readers /\ cursor \in 0..reserved[reader]
  /\ shown \in [Chats -> SUBSET {"normal", "discarded"}]
  /\ pushed \in [Chats -> SUBSET {"request", "accept"}]
  /\ revoked \subseteq Devices /\ missed \subseteq Chats
  /\ \A k \in calls : k.kind \in Kinds /\ k.dev \in Devices /\ k.n \in 1..MaxRunning
  /\ started \in 0..MaxCalls /\ faults \in 0..MaxFaults

\* However many devices accept, decline or are signed out at once, a chat is
\* bound to one device for good, and a chat that ended stays ended.
BoundOnce ==
  [][\A c \in Chats :
       /\ chat[c].bound # None => chat'[c].bound = chat[c].bound
       /\ chat[c].state = "discarded" => chat'[c] = chat[c]
       /\ chat[c].state = "normal" => chat'[c].state # "requested"]_vars

\* No answer and no difference ever shows an established chat to a device that is
\* not one of its ends, however late it reads the invitation, and no push of an accept
\* does.  The push of a request repeated after the accept is the one exception, and
\* shows the chat to no account but the invited one.
OnlyRepeatsLeak ==
  \A c \in Chats : reader \notin Ends(c) =>
    /\ "normal" \notin shown[c]
    /\ pushed[c] \subseteq {"request"}
    /\ pushed[c] # {} => Owner[reader] = Invited[c]

\* A device's queue is numbered without a gap up to its watermark, holds a
\* message once however often it was sent, and holds it only for the other end.
QueueExact ==
  \A d \in Devices :
    /\ {m.qts : m \in queue[d]} = 1..reserved[d]
    /\ Cardinality({<<m.chat, m.rid>> : m \in queue[d]}) = reserved[d]
    /\ \A m \in queue[d] : d \in Ends(m.chat)

\* Who must hear that a chat is over: the end on the other side from the device
\* that ended it; a device of the invited account that another one beat to it; and,
\* if the inviter ended it before anyone accepted, the whole invited account.
MustHear(c, d) ==
  LET ended == chat[c].state = "discarded"
      invited == DevicesOf(Invited[c])
  IN  \/ ended /\ d \in Ends(c) /\ Owner[d] # Owner[chat[c].ender]
      \/ chat[c].bound # None /\ d \in invited \ Ends(c)
      \/ ended /\ chat[c].ender = Inviter[c] /\ chat[c].bound = None /\ d \in invited

\* They do hear of it, whatever answers were lost in between, unless they sign
\* out or the event itself could not be written.
EndIsTold ==
  \A c \in Chats :
    MustHear(c, reader) ~> "discarded" \in shown[c] \/ reader \in revoked \/ c \in missed

\* A chat that is bound to a device when it signs out does not outlive it.
RevokedIsEnded ==
  \A c \in Chats :
    (\E k \in calls : At(k, "logout", "list") /\ c \in BoundTo(k.dev))
      ~> chat[c].state = "discarded" \/ c \in missed

\* A message that was committed reaches its device: nothing another send does,
\* failing included, can wedge the queue before it.
SentIsReceived == []<>(cursor = reserved[reader] \/ reader \in revoked)
=============================================================================
