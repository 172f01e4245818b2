---------------------------- MODULE SlackAdapter ----------------------------
(***************************************************************************)
(* The Slack adapter (chat-adapter-slack adapter.py): the Events API,      *)
(* interactivity and slash commands, by webhook or Socket Mode, and the    *)
(* Web API calls it makes.  A message is known by its timestamp, a thread  *)
(* by its channel and the timestamp of its first message.                  *)
(*                                                                         *)
(* What the adapter keeps: its bot user id and bot id, where it knows them.*)
(***************************************************************************)
EXTENDS AdapterCalls

-----------------------------------------------------------------------------
(***************************************************************************)
(* Slack: messages and their events (not under src)                        *)
(***************************************************************************)

Place(channel, ts) == [channel |-> channel, threadTs |-> ts]

(* A message stands in a channel, or in the thread of one that does.         *)
Spots(log, id) ==
  {Place("C1", Unknown), Place("D1", Unknown)} \cup
  {Place(log[i].place.channel, log[i].id) : i \in {j \in DOMAIN log : log[j].place.threadTs = Unknown}}

Root(m) == IF m.place.threadTs = Unknown THEN m.id ELSE m.place.threadTs
Answers(m, place) == place = Place(m.place.channel, Root(m))

IdOf(m) == m.id

Event(kind, type, m, user, subtype) ==
  [kind |-> kind, type |-> type, subtype |-> subtype, channel |-> m.place.channel,
   ts |-> m.id, threadTs |-> m.place.threadTs, user |-> user,
   botId |-> IF user = Bot THEN Bot ELSE Unknown]

(* A mention leads to two events about one message.                          *)
Sent(m) ==
  {Event("event_callback", "message", m, m.by, "none")} \cup
  (IF m.mention THEN {Event("event_callback", "app_mention", m, m.by, "none")} ELSE {})
Changed(m) == {Event("event_callback", "message", m, m.by, "message_changed")}
Reacted(m, who) == {Event("event_callback", "reaction_added", m, who, "none")}
Pressed(m) == {Event("interactivity", "block_actions", m, Human, "none")}

(* Commands are not available in threads.                                    *)
Commanded(place) ==
  IF place.threadTs # Unknown THEN {}
  ELSE {[kind |-> "slash_command", channel |-> place.channel, user |-> Human]}

-----------------------------------------------------------------------------
(***************************************************************************)
(* Thread ids                                                              *)
(***************************************************************************)

EncodeThreadId(channel, ts) == <<"slack", channel, ts>>

DecodeThreadId(t) == [channel |-> t[2], threadTs |-> IF Len(t) = 3 THEN t[3] ELSE Unknown]

ChannelIdFromThreadId(t) == <<"slack", DecodeThreadId(t).channel>>

IsDM(t) == DecodeThreadId(t).channel = "D1"

-----------------------------------------------------------------------------
(***************************************************************************)
(* Webhooks and Socket Mode                                                *)
(***************************************************************************)

(* auth.test tells both ids unless it fails; with a configured user id it is *)
(* not asked, and the bot id stays unknown.                                  *)
Initial ==
  {self \in [me : {Bot, Unknown}, botId : {Bot, Unknown}] : self.me = Unknown => self.botId = Unknown}

(* Mutant: the author is compared with the bot id. *)
IsMeByBotId(user, self) == self.botId # Unknown /\ user = self.botId

IsMe(user, self) == self.me # Unknown /\ user = self.me

Ignored(e, self) ==
  \/ e.subtype \in {"message_changed", "message_deleted", "channel_join", "channel_leave"}
  \/ e.botId # Unknown /\ e.botId = self.botId

MessageEvent(e, self) ==
  LET thread == EncodeThreadId(e.channel, IF e.threadTs # Unknown THEN e.threadTs ELSE e.ts)
  IN  IF Ignored(e, self) THEN {} ELSE {ProcessMessage(thread, e.ts, IsMe(e.user, self))}

(* The item of a reaction has no thread: the message is taken for the root.  *)
ReactionEvent(e, self) ==
  {ProcessReaction(EncodeThreadId(e.channel, e.ts), e.ts, IsMe(e.user, self))}

BlockActions(e, self) ==
  LET thread == EncodeThreadId(e.channel, IF e.threadTs # Unknown THEN e.threadTs ELSE e.ts)
  IN  {ProcessAction(thread, e.ts, IsMe(e.user, self))}

SlashCommand(e, self) == {ProcessSlashCommand(<<"slack", e.channel>>, IsMe(e.user, self))}

DispatchEnvelope(e, self) ==
  CASE e.kind = "slash_command" -> SlashCommand(e, self)
    [] e.kind = "interactivity" -> IF e.type = "block_actions" THEN BlockActions(e, self) ELSE {}
    [] e.kind = "event_callback" ->
         IF e.type \in {"app_mention", "message"} THEN MessageEvent(e, self)
         ELSE IF e.type \in {"reaction_added", "reaction_removed"} THEN ReactionEvent(e, self)
         ELSE {}

HandleWebhook(e, self) == Calls(self, DispatchEnvelope(e, self))

-----------------------------------------------------------------------------
(***************************************************************************)
(* The Web API                                                             *)
(***************************************************************************)

PostMessage(t) == LET d == DecodeThreadId(t) IN Place(d.channel, d.threadTs)

PostChannelMessage(channel) == PostMessage(EncodeThreadId(channel[2], Unknown))

(* chat.update and chat.delete name a channel and a timestamp.               *)
EditMessage(log, t, id) ==
  {i \in DOMAIN log : log[i].id = id /\ log[i].place.channel = DecodeThreadId(t).channel}

(* reactions.add and reactions.remove name a message so too, and a bot       *)
(* removes only what is its own.                                             *)
AddReaction(log, t, id) ==
  {i \in DOMAIN log : log[i].id = id /\ log[i].place.channel = DecodeThreadId(t).channel}
RemoveReaction(whose) == whose \cap {Bot}

OpenDM == EncodeThreadId("D1", Unknown)

(* conversations.replies: pages from the oldest on, whatever the direction.  *)
FetchMessages(log, t, limit, direction, cursor) ==
  LET d == DecodeThreadId(t)
      ofThread(m) == m.place.channel = d.channel /\ Root(m) = d.threadTs
      after(m) == cursor = Unknown \/ m.id > cursor
      rest == SelectSeq(SelectSeq(log, ofThread), after)
      page == FirstOf(rest, limit)
  IN  FetchResult(page, IF Len(rest) > limit THEN Last(page).id ELSE Unknown)

(* conversations.history: top-level messages, the newest first.              *)
FetchChannelMessages(log, t, limit, direction, cursor) ==
  LET top(m) == m.place.channel = DecodeThreadId(t).channel /\ m.place.threadTs = Unknown
      before(m) == cursor = Unknown \/ m.id < cursor
      rest == Reverse(SelectSeq(SelectSeq(log, top), before))
      page == FirstOf(rest, limit)
  IN  FetchResult(page, IF Len(rest) > limit THEN Last(page).id ELSE Unknown)

(* Messages with replies, on the same pages.                                 *)
ListThreads(log, t, limit, cursor) ==
  LET page == FetchChannelMessages(log, t, limit, "backward", cursor)
      answered(m) == \E i \in DOMAIN log : log[i].place.threadTs = m.id
  IN  FetchResult(SelectSeq(page.messages, answered), page.next)
=============================================================================
