--------------------------- MODULE TelegramAdapter --------------------------
(***************************************************************************)
(* The Telegram adapter (chat-adapter-telegram adapter.py, thread_id.py):  *)
(* updates, by webhook or polling, the Bot API calls, and the messages it  *)
(* keeps in memory because the Bot API has no history.  A thread is a chat *)
(* or a topic of one; a message is known by its chat and its number in it. *)
(*                                                                         *)
(* What the adapter keeps: its bot user id, if getMe has told it, and the  *)
(* cached messages.  TelegramPolling models its polling loop.              *)
(***************************************************************************)
EXTENDS AdapterCalls, Integers

-----------------------------------------------------------------------------
(***************************************************************************)
(* Telegram: messages and updates (not under src)                          *)
(***************************************************************************)

Place(chat, topic) == [chat |-> chat, topic |-> topic]

(* A private chat, and a group with a topic besides its general one.         *)
Private == 100
Group == -100
(* Messages are numbered in each chat. *)
Number(log, place) == 1 + Cardinality({i \in DOMAIN log : log[i].place.chat = place.chat})

Spots(log, id) == {Place(Private, Unknown), Place(Group, Unknown), Place(Group, 7)}

Answers(m, place) == place = m.place

Update(type, m, user) ==
  [type |-> type, chat |-> m.place.chat, topic |-> m.place.topic, number |-> m.id, user |-> user]

(* A bot gets no updates about what it does itself.                          *)
Sent(m) == IF m.by = Bot THEN {} ELSE {Update("message", m, m.by)}
Changed(m) == IF m.by = Bot THEN {} ELSE {Update("edited_message", m, m.by)}
Reacted(m, who) == IF who = Bot THEN {} ELSE {Update("message_reaction", m, who)}
Pressed(m) == {Update("callback_query", m, Human)}

-----------------------------------------------------------------------------
(***************************************************************************)
(* Thread and message ids                                                  *)
(***************************************************************************)

EncodeThreadId(chat, topic) ==
  IF topic = Unknown THEN <<"telegram", chat>> ELSE <<"telegram", chat, topic>>

DecodeThreadId(t) == [chat |-> t[2], topic |-> IF Len(t) = 3 THEN t[3] ELSE Unknown]

ChannelIdFromThreadId(t) == <<"telegram", DecodeThreadId(t).chat>>

IsDM(t) == DecodeThreadId(t).chat = Private

(* Mutant: the number alone. *)
EncodeMessageIdShort(chat, number) == <<0, number>>

EncodeMessageId(chat, number) == <<chat, number>>

IdOf(m) == EncodeMessageId(m.place.chat, m.id)

-----------------------------------------------------------------------------
(***************************************************************************)
(* Updates                                                                 *)
(***************************************************************************)

(* initialize goes on without its own id if getMe fails.                     *)
Initial == {[me |-> me] : me \in {Bot, Unknown}}

IsMe(user, self) == user = self.me

(* What Chat is told of a message: its thread, its id, whether it is its own. *)
ParseTelegramMessage(u, thread, id, self) == ProcessMessage(thread, id, IsMe(u.user, self))

IncomingMessage(u, thread, id, self) == {ParseTelegramMessage(u, thread, id, self)}

CallbackQuery(u, thread, id, self) == {ProcessAction(thread, id, IsMe(u.user, self))}

(* One call for each reaction that is new or gone; here, for the one.        *)
MessageReaction(u, thread, id, self) == {ProcessReaction(thread, id, IsMe(u.user, self))}

ProcessUpdate(u, self) ==
  LET thread == EncodeThreadId(u.chat, u.topic)
      id == EncodeMessageId(u.chat, u.number)
  IN CASE u.type \in {"message", "edited_message", "channel_post", "edited_channel_post"} ->
            IncomingMessage(u, thread, id, self)
       [] u.type = "callback_query" -> CallbackQuery(u, thread, id, self)
       [] u.type = "message_reaction" -> MessageReaction(u, thread, id, self)

HandleWebhook(u, self) == Calls(self, ProcessUpdate(u, self))

-----------------------------------------------------------------------------
(***************************************************************************)
(* The Bot API and the cache                                               *)
(***************************************************************************)

PostMessage(t) == LET d == DecodeThreadId(t) IN Place(d.chat, d.topic)

(* An id with another chat raises.                                           *)
EditMessage(log, t, id) ==
  {i \in DOMAIN log : IdOf(log[i]) = id /\ id[1] = DecodeThreadId(t).chat}

(* What a bot sets are its own reactions, and it removes them all.           *)
AddReaction(log, t, id) ==
  {i \in DOMAIN log : IdOf(log[i]) = id /\ id[1] = DecodeThreadId(t).chat}
RemoveReaction(whose) == whose \cap {Bot}

(* Backward, the cursor is the first message of the page before; forward,    *)
(* the last one.  A cursor that is not found starts again.                   *)
PaginateMessages(messages, limit, direction, cursor) ==
  LET known == \E i \in DOMAIN messages : messages[i].id = cursor
      at == CHOOSE i \in DOMAIN messages : messages[i].id = cursor
      last == IF direction = "forward" THEN 0 ELSE IF known THEN at - 1 ELSE Len(messages)
      first == IF direction = "backward" THEN IF last > limit THEN last - limit + 1 ELSE 1
               ELSE IF known THEN at + 1 ELSE 1
      end == IF direction = "backward" THEN last
             ELSE IF first + limit - 1 < Len(messages) THEN first + limit - 1 ELSE Len(messages)
      page == SubSeq(messages, first, end)
      more == IF direction = "backward" THEN first > 1 ELSE end < Len(messages)
  IN  FetchResult(page, IF ~more \/ page = <<>> THEN Unknown
                        ELSE IF direction = "backward" THEN Head(page).id ELSE Last(page).id)

(* What comes in and what is posted is cached, in the order of the dates; a  *)
(* message takes the place of its older version.                             *)
CacheMessage(cache, m) ==
  LET older(c) == c.id <= m.id /\ IdOf(c) # IdOf(m)
      newer(c) == c.id > m.id
  IN  SelectSeq(cache, older) \o <<m>> \o SelectSeq(cache, newer)

(* The messages of the log are the cached ones.                              *)
FetchMessages(log, t, limit, direction, cursor) ==
  LET ofThread(m) == EncodeThreadId(m.place.chat, m.place.topic) = t
  IN  PaginateMessages(SelectSeq(log, ofThread), limit, direction, cursor)

(* The chat of a thread is compared with the whole channel id.               *)
FetchChannelMessages(log, channel, limit, direction, cursor) ==
  LET ofChannel(m) == <<m.place.chat>> = channel
  IN  PaginateMessages(SelectSeq(log, ofChannel), limit, direction, cursor)
=============================================================================
