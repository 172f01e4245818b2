-------------------------- MODULE GoogleChatAdapter -------------------------
(***************************************************************************)
(* The Google Chat adapter (chat-adapter-gchat adapter.py,                 *)
(* thread_utils.py, pubsub.py): events posted directly or pushed through   *)
(* Pub/Sub, and REST calls.  A message is known by its resource name, a    *)
(* thread by its space, its name and whether the space is a direct message.*)
(*                                                                         *)
(* What the adapter keeps: its own user name, which nothing in it sets,    *)
(* and, in the state adapter, the spaces whose event subscription it knows.*)
(***************************************************************************)
EXTENDS AdapterCalls

-----------------------------------------------------------------------------
(***************************************************************************)
(* Google Chat: messages and events (not under src)                        *)
(***************************************************************************)

Place(space, thread) == [space |-> space, thread |-> thread]
Direct == "DM"
Only == 100     \* the one thread of a direct message
Suffix == 0     \* "dm", which is no thread

(* A message in a space opens a thread or stands in one; a direct message    *)
(* has one thread.                                                           *)
(* Messages are numbered in each space. *)
Number(log, place) == 1 + Cardinality({i \in DOMAIN log : log[i].place.space = place.space})

Spots(log, id) == {Place("S1", id), Place(Direct, Only)} \cup {log[i].place : i \in DOMAIN log}
Answers(m, place) == place = m.place

IdOf(m) == <<m.place.space, m.id>>

Event(via, type, m, user) ==
  [via |-> via, type |-> type, space |-> m.place.space, thread |-> m.place.thread,
   name |-> IdOf(m), sender |-> user]

(* The app is told of mentions and direct messages, a subscription of every  *)
(* message, the app's own too: one message may come by both ways.            *)
Sent(m) ==
  {Event("pubsub", "message.created", m, m.by)} \cup
  (IF m.by = Human /\ (m.mention \/ m.place.space = Direct) THEN {Event("http", "MESSAGE", m, m.by)} ELSE {})
Changed(m) == {Event("pubsub", "message.updated", m, m.by)}
Reacted(m, who) == {Event("pubsub", "reaction.created", m, who)}
Pressed(m) == {Event("http", "CARD_CLICKED", m, Human)}

-----------------------------------------------------------------------------
(***************************************************************************)
(* Thread ids                                                              *)
(***************************************************************************)

EncodeThreadId(space, thread, isDM) ==
  <<"gchat", space>> \o (IF thread # Unknown THEN <<thread>> ELSE <<>>) \o (IF isDM THEN <<Suffix>> ELSE <<>>)

IsDM(t) == Len(t) > 2 /\ Last(t) = Suffix

DecodeThreadId(t) ==
  LET clean == IF IsDM(t) THEN Front(t) ELSE t
  IN  [space |-> clean[2], thread |-> IF Len(clean) >= 3 THEN clean[3] ELSE Unknown, isDM |-> IsDM(t)]

ChannelIdFromThreadId(t) == <<"gchat", DecodeThreadId(t).space>>

-----------------------------------------------------------------------------
(***************************************************************************)
(* Events                                                                  *)
(***************************************************************************)

Initial == {[me |-> Unknown]}

IsMe(user, self) == self.me # Unknown /\ user = self.me

(* What Chat is told of a message: its thread, its id, whether it is its own. *)
BuildMessage(e, thread, self) == ProcessMessage(thread, e.name, IsMe(e.sender, self))

MessageEvent(e, self) ==
  {BuildMessage(e, EncodeThreadId(e.space, e.thread, e.space = Direct), self)}

(* CARD_CLICKED is acknowledged and left.                                    *)
DispatchEvent(e, self) == IF e.type = "MESSAGE" THEN MessageEvent(e, self) ELSE {}

(* Reactions are acknowledged and left.                                      *)
DispatchPubsubEvent(e, self) == IF e.type = "message.created" THEN MessageEvent(e, self) ELSE {}

HandleWebhook(e, self) ==
  Calls(self, IF e.via = "pubsub" THEN DispatchPubsubEvent(e, self) ELSE DispatchEvent(e, self))

-----------------------------------------------------------------------------
(***************************************************************************)
(* REST                                                                    *)
(***************************************************************************)

(* Without a thread the message opens one, which bears its name.             *)
PostMessage(t, id) ==
  LET d == DecodeThreadId(t)
  IN  Place(d.space, IF d.thread # Unknown THEN d.thread ELSE IF d.space = Direct THEN Only ELSE id)

(* A message is named by itself: the thread is not looked at.                *)
EditMessage(log, t, id) == {i \in DOMAIN log : IdOf(log[i]) = id}

(* The reactions with an emoji are listed, and all that are found deleted.   *)
AddReaction(log, t, id) == {i \in DOMAIN log : IdOf(log[i]) = id}
RemoveReaction(whose) == whose

(* The direct message is found or set up: its space, and no thread in it.    *)
OpenDM == EncodeThreadId(Direct, Unknown, TRUE)

(* spaces.messages.list: pages from the oldest on, whatever the direction.   *)
FetchMessages(log, t, limit, direction, cursor) ==
  LET d == DecodeThreadId(t)
      listed(m) == /\ m.place.space = d.space
                   /\ d.thread # Unknown => m.place.thread = d.thread
      after(m) == cursor = Unknown \/ m.id > cursor
      rest == SelectSeq(SelectSeq(log, listed), after)
      page == FirstOf(rest, limit)
  IN  FetchResult(page, IF Len(rest) > limit THEN Last(page).id ELSE Unknown)

FetchChannelMessages(log, channel, limit, direction, cursor) ==
  FetchMessages(log, <<"gchat", channel[2]>>, limit, direction, cursor)

(* The first message of each thread on the page.                             *)
ListThreads(log, channel, limit, cursor) ==
  LET page == FetchChannelMessages(log, channel, limit, "backward", cursor)
      first(m) == ~\E n \in ToSet(page.messages) : n.place.thread = m.place.thread /\ n.id < m.id
  IN  FetchResult(SelectSeq(page.messages, first), page.next)
=============================================================================
