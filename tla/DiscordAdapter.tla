--------------------------- MODULE DiscordAdapter ---------------------------
(***************************************************************************)
(* The Discord adapter (chat-adapter-discord adapter.py, thread_id.py):    *)
(* events forwarded from the gateway, interactions, and REST calls.  A     *)
(* thread is a channel of its own inside another channel; a mention opens  *)
(* one on the message.                                                     *)
(*                                                                         *)
(* What the adapter keeps: the parents of the threads it has looked up.    *)
(* Its user id is the application id, which it is configured with.         *)
(***************************************************************************)
EXTENDS AdapterCalls

-----------------------------------------------------------------------------
(***************************************************************************)
(* Discord: messages and events (not under src)                            *)
(***************************************************************************)

(* thread: the thread channel a message is in, if it is in one.  A thread    *)
(* that is opened on a message takes the identifier of the message.          *)
Place(guild, channel, thread) == [guild |-> guild, channel |-> channel, thread |-> thread]

Spots(log, id) ==
  {Place("G1", 101, Unknown), Place("@me", 102, Unknown)} \cup {log[i].place : i \in DOMAIN log}

(* An answer is looked for where the message is, or in its thread.           *)
Answers(m, place) ==
  place = m.place \/ (m.place.thread = Unknown /\ place = [m.place EXCEPT !.thread = m.id])

ChannelOf(place) == IF place.thread # Unknown THEN place.thread ELSE place.channel

Event(type, m, user) ==
  [type |-> type, guild |-> m.place.guild, channel |-> ChannelOf(m.place),
   parent |-> m.place.channel, inThread |-> m.place.thread # Unknown,
   id |-> m.id, user |-> user, mention |-> m.mention]

Sent(m) == {Event("GATEWAY_MESSAGE_CREATE", m, m.by)}
Changed(m) == {Event("GATEWAY_MESSAGE_UPDATE", m, m.by)}
Reacted(m, who) == {Event("GATEWAY_MESSAGE_REACTION_ADD", m, who)}
Pressed(m) == {Event("MESSAGE_COMPONENT", m, Human)}

(* A command is given in a channel or in a thread.                           *)
Commanded(place) ==
  {[type |-> "APPLICATION_COMMAND", guild |-> place.guild, channel |-> ChannelOf(place),
    parent |-> place.channel, inThread |-> place.thread # Unknown, user |-> Human]}

IdOf(m) == m.id

-----------------------------------------------------------------------------
(***************************************************************************)
(* Thread ids                                                              *)
(***************************************************************************)

EncodeThreadId(guild, channel, thread) ==
  IF thread = Unknown THEN <<"discord", guild, channel>> ELSE <<"discord", guild, channel, thread>>

DecodeThreadId(t) ==
  [guild |-> t[2], channel |-> t[3], thread |-> IF Len(t) = 4 THEN t[4] ELSE Unknown]

ChannelIdFromThreadId(t) == SubSeq(t, 1, 3)

IsDM(t) == DecodeThreadId(t).guild = "@me"

-----------------------------------------------------------------------------
(***************************************************************************)
(* Gateway events and interactions                                         *)
(***************************************************************************)

Initial == {[me |-> Bot, parents |-> {}]}

IsMe(user, self) == user = self.me

(* The parent of a thread is cached, or looked up, which may fail.           *)
ResolveThreadParent(e, self, up) == up \/ e.channel \in self.parents
LookUp(e, self, up) ==
  IF e.inThread /\ up THEN [self EXCEPT !.parents = @ \cup {e.channel}] ELSE self

ThreadOf(e, self, up) ==
  IF e.inThread /\ ResolveThreadParent(e, self, up)
    THEN EncodeThreadId(e.guild, e.parent, e.channel)
    ELSE EncodeThreadId(e.guild, e.channel, Unknown)

(* Discord opens no thread in a direct message or on a message in a thread.  *)
CreateThread(e, up) == up /\ e.guild # "@me" /\ ~e.inThread

(* What Chat is told of a message: its thread, its id, whether it is its own. *)
BuildGatewayMessage(e, thread, self) == ProcessMessage(thread, e.id, IsMe(e.user, self))

ForwardedMessage(e, self, up) ==
  LET found == e.inThread /\ ResolveThreadParent(e, self, up)
      thread == IF ~found /\ e.mention /\ CreateThread(e, up)
                  THEN EncodeThreadId(e.guild, e.channel, e.id)
                  ELSE ThreadOf(e, self, up)
  IN  {BuildGatewayMessage(e, thread, self)}

ForwardedReaction(e, self, up) ==
  {ProcessReaction(ThreadOf(e, self, up), e.id, IsMe(e.user, self))}

(* An interaction names the parent of its channel itself.                    *)
InteractionThread(e) ==
  IF e.inThread THEN EncodeThreadId(e.guild, e.parent, e.channel)
  ELSE EncodeThreadId(e.guild, e.channel, Unknown)

ComponentInteraction(e, self) == {ProcessAction(InteractionThread(e), e.id, IsMe(e.user, self))}

ApplicationCommand(e, self) == {ProcessSlashCommand(InteractionThread(e), IsMe(e.user, self))}

HandleWebhook(e, self, up) ==
  CASE e.type = "GATEWAY_MESSAGE_CREATE" -> Calls(LookUp(e, self, up), ForwardedMessage(e, self, up))
    [] e.type \in {"GATEWAY_MESSAGE_REACTION_ADD", "GATEWAY_MESSAGE_REACTION_REMOVE"} ->
         Calls(LookUp(e, self, up), ForwardedReaction(e, self, up))
    [] e.type = "MESSAGE_COMPONENT" -> Calls(self, ComponentInteraction(e, self))
    [] e.type = "APPLICATION_COMMAND" -> Calls(self, ApplicationCommand(e, self))
    [] OTHER -> Calls(self, {})

-----------------------------------------------------------------------------
(***************************************************************************)
(* REST                                                                    *)
(***************************************************************************)

(* The channel a request names: the thread's, if there is one.               *)
Target(t) == LET d == DecodeThreadId(t) IN IF d.thread # Unknown THEN d.thread ELSE d.channel

(* The place whose channel bears an identifier.                              *)
PlaceOf(log, guild, channel) ==
  LET threads == {p \in {log[i].place : i \in DOMAIN log} : p.thread = channel}
  IN  IF threads # {} THEN CHOOSE p \in threads : TRUE ELSE Place(guild, channel, Unknown)

PostMessage(log, t) ==
  LET d == DecodeThreadId(t)
  IN  IF d.thread # Unknown THEN Place(d.guild, d.channel, d.thread)
      ELSE PlaceOf(log, d.guild, d.channel)

(* Mutant: the context of a slash command is not looked at. *)
PostChannelMessageAlone(log, channel, context) == PlaceOf(log, channel[2], channel[3])

(* What is posted to a channel is posted to the parent of a thread, but in   *)
(* the context of a slash command there it is the response to the command.   *)
PostChannelMessage(log, channel, context) ==
  IF context = channel THEN PostMessage(log, context)
  ELSE PlaceOf(log, channel[2], channel[3])

EditMessage(log, t, id) ==
  {i \in DOMAIN log : log[i].id = id /\ ChannelOf(log[i].place) = Target(t)}

AddReaction(log, t, id) ==
  {i \in DOMAIN log : log[i].id = id /\ ChannelOf(log[i].place) = Target(t)}
RemoveReaction(whose) == whose \cap {Bot}

OpenDM == EncodeThreadId("@me", 102, Unknown)

(* Mutant: backward, the cursor is the newest message of the page. *)
PageFromNewest(messages, limit, direction, cursor) ==
  LET before(m) == m.id < cursor
      page == IF cursor = Unknown THEN LastOf(messages, limit)
              ELSE LastOf(SelectSeq(messages, before), limit)
  IN  FetchResult(page, IF Len(page) < limit THEN Unknown ELSE Last(page).id)

(* Discord gives the newest messages, or the newest before the cursor, or    *)
(* the first ones after it, and always the newest first.                     *)
Page(messages, limit, direction, cursor) ==
  LET before(m) == m.id < cursor
      after(m) == m.id > cursor
      page == IF cursor = Unknown THEN LastOf(messages, limit)
              ELSE IF direction = "backward" THEN LastOf(SelectSeq(messages, before), limit)
              ELSE FirstOf(SelectSeq(messages, after), limit)
  IN  FetchResult(page, IF Len(page) < limit THEN Unknown
                        ELSE IF direction = "backward" THEN Head(page).id ELSE Last(page).id)

FetchMessages(log, t, limit, direction, cursor) ==
  LET here(m) == ChannelOf(m.place) = Target(t)
  IN  Page(SelectSeq(log, here), limit, direction, cursor)

FetchChannelMessages(log, channel, limit, direction, cursor) ==
  LET here(m) == ChannelOf(m.place) = channel[3]
  IN  Page(SelectSeq(log, here), limit, direction, cursor)
=============================================================================
