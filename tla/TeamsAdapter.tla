---------------------------- MODULE TeamsAdapter ----------------------------
(***************************************************************************)
(* The Teams adapter (chat-adapter-teams adapter.py, thread_id.py):        *)
(* activities of the Bot Framework and its REST calls.  A thread is a      *)
(* conversation at a service URL; the conversation of a channel thread     *)
(* names the message it began with.  Reactions, actions and history are    *)
(* not wired.                                                              *)
(*                                                                         *)
(* What the adapter keeps: its application id and the URL it posts to.     *)
(***************************************************************************)
EXTENDS AdapterCalls

-----------------------------------------------------------------------------
(***************************************************************************)
(* Teams: conversations and activities (not under src)                     *)
(***************************************************************************)

(* messageId: the first message of a thread in a channel.                    *)
Place(service, channel, messageId) ==
  [service |-> service, channel |-> channel, messageId |-> messageId]

Spots(log, id) ==
  {Place("default", "C1", id), Place("default", "D1", Unknown), Place("regional", "D2", Unknown)}
    \cup {log[i].place : i \in DOMAIN log}
Answers(m, place) == place = m.place

IdOf(m) == m.id

Activity(type, m, user) ==
  [type |-> type, serviceUrl |-> m.place.service,
   conversation |-> <<m.place.channel, m.place.messageId>>, id |-> m.id, from |-> user]

(* A bot gets no activity about what it sends itself.                        *)
Sent(m) == IF m.by = Bot THEN {} ELSE {Activity("message", m, m.by)}
Changed(m) == IF m.by = Bot THEN {} ELSE {Activity("messageUpdate", m, m.by)}
Reacted(m, who) == IF who = Bot THEN {} ELSE {Activity("messageReaction", m, who)}
Pressed(m) == {Activity("invoke", m, Human)}

-----------------------------------------------------------------------------

EncodeThreadId(conversation, serviceUrl) == <<"teams", conversation, serviceUrl>>
DecodeThreadId(t) == [conversationId |-> t[2], serviceUrl |-> t[3]]

(* The conversation of a channel or a group begins with "19:".               *)
IsDM(t) == DecodeThreadId(t).conversationId[1] # "C1"

(* The suffix that names a message is stripped.                              *)
ChannelIdFromThreadId(t) ==
  LET d == DecodeThreadId(t) IN EncodeThreadId(<<d.conversationId[1], Unknown>>, d.serviceUrl)

-----------------------------------------------------------------------------
(***************************************************************************)
(* Activities and REST                                                     *)
(***************************************************************************)

Initial == {[me |-> Bot, apiUrl |-> "default"]}

IsMe(user, self) == user = self.me

(* What Chat is told of a message: its thread, its id, whether it is its own. *)
ParseMessage(a, self) ==
  ProcessMessage(EncodeThreadId(a.conversation, a.serviceUrl), a.id, IsMe(a.from, self))

HandleWebhook(a, self) == Calls(self, IF a.type # "message" THEN {} ELSE {ParseMessage(a, self)})

Conversation(service, c) == Place(service, c[1], c[2])

(* A message goes to the configured URL, not to the one of the thread.       *)
PostMessage(t, self) == Conversation(self.apiUrl, DecodeThreadId(t).conversationId)

(* An edit or a deletion goes to the one of the thread.                      *)
EditMessage(log, t, id) ==
  LET d == DecodeThreadId(t)
  IN  {i \in DOMAIN log : log[i].id = id /\ log[i].place = Conversation(d.serviceUrl, d.conversationId)}

(* Reactions raise. *)
AddReaction(log, t, id) == {}
RemoveReaction(whose)   == {}

(* A conversation is made at the configured URL.                             *)
OpenDM(self) == EncodeThreadId(<<"D1", Unknown>>, self.apiUrl)
=============================================================================
