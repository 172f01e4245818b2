------------------------------ MODULE Adapters ------------------------------
(***************************************************************************)
(* The eight adapters behind the one interface that Chat sees.  A logged   *)
(* message has an id, its author (by), its place and whether it mentions   *)
(* the bot; self is what the adapter keeps.                                *)
(***************************************************************************)
EXTENDS AdapterCalls

Slack    == INSTANCE SlackAdapter
Discord  == INSTANCE DiscordAdapter
GChat    == INSTANCE GoogleChatAdapter
GitHub   == INSTANCE GitHubAdapter
Linear   == INSTANCE LinearAdapter
Teams    == INSTANCE TeamsAdapter
Telegram == INSTANCE TelegramAdapter
WhatsApp == INSTANCE WhatsAppAdapter

Platforms == {"slack", "discord", "gchat", "github", "linear", "teams", "telegram", "whatsapp"}

-----------------------------------------------------------------------------
(***************************************************************************)
(* The platform                                                            *)
(***************************************************************************)

(* Where the next message may stand, and its identifier there. *)
Spots(p, log) ==
  LET id == Len(log) + 1 IN
  CASE p = "slack" -> Slack!Spots(log, id)       [] p = "discord" -> Discord!Spots(log, id)
    [] p = "gchat" -> GChat!Spots(log, id)       [] p = "github" -> GitHub!Spots(log, id)
    [] p = "linear" -> Linear!Spots(log, id)     [] p = "teams" -> Teams!Spots(log, id)
    [] p = "telegram" -> Telegram!Spots(log, id) [] p = "whatsapp" -> WhatsApp!Spots(log, id)

NewId(p, log, place) ==
  CASE p = "gchat" -> GChat!Number(log, place)
    [] p = "telegram" -> Telegram!Number(log, place)
    [] OTHER -> Len(log) + 1

IdOf(p, m) ==
  CASE p = "gchat" -> GChat!IdOf(m) [] p = "telegram" -> Telegram!IdOf(m) [] OTHER -> m.id

(* Whether what stands at a place answers a message.                         *)
Answers(p, m, place) ==
  CASE p = "slack" -> Slack!Answers(m, place) [] p = "discord" -> Discord!Answers(m, place)
    [] OTHER -> place = m.place

(* The events of a message: that it was sent, changed, reacted to, and a     *)
(* button in it pressed; and those of a command given at its place.          *)
Sent(p, m) ==
  CASE p = "slack" -> Slack!Sent(m)       [] p = "discord" -> Discord!Sent(m)
    [] p = "gchat" -> GChat!Sent(m)       [] p = "github" -> GitHub!Sent(m)
    [] p = "linear" -> Linear!Sent(m)     [] p = "teams" -> Teams!Sent(m)
    [] p = "telegram" -> Telegram!Sent(m) [] p = "whatsapp" -> WhatsApp!Sent(m)

Changed(p, m) ==
  CASE p = "slack" -> Slack!Changed(m)       [] p = "discord" -> Discord!Changed(m)
    [] p = "gchat" -> GChat!Changed(m)       [] p = "github" -> GitHub!Changed(m)
    [] p = "linear" -> Linear!Changed(m)     [] p = "teams" -> Teams!Changed(m)
    [] p = "telegram" -> Telegram!Changed(m) [] p = "whatsapp" -> WhatsApp!Changed(m)

Reacted(p, m, who) ==
  CASE p = "slack" -> Slack!Reacted(m, who)   [] p = "discord" -> Discord!Reacted(m, who)
    [] p = "gchat" -> GChat!Reacted(m, who)   [] p = "linear" -> Linear!Reacted(m, who)
    [] p = "teams" -> Teams!Reacted(m, who)   [] p = "telegram" -> Telegram!Reacted(m, who)
    [] p = "whatsapp" -> WhatsApp!Reacted(m, who) [] OTHER -> {}

Pressed(p, m) ==
  CASE p = "slack" -> Slack!Pressed(m)     [] p = "discord" -> Discord!Pressed(m)
    [] p = "gchat" -> GChat!Pressed(m)     [] p = "linear" -> Linear!Pressed(m)
    [] p = "teams" -> Teams!Pressed(m)     [] p = "telegram" -> Telegram!Pressed(m)
    [] p = "whatsapp" -> WhatsApp!Pressed(m) [] OTHER -> {}

Commanded(p, m) ==
  CASE p = "slack" -> Slack!Commanded(m.place) [] p = "discord" -> Discord!Commanded(m.place)
    [] OTHER -> {}

-----------------------------------------------------------------------------
(***************************************************************************)
(* The adapter                                                             *)
(***************************************************************************)

Initial(p) ==
  CASE p = "slack" -> Slack!Initial       [] p = "discord" -> Discord!Initial
    [] p = "gchat" -> GChat!Initial       [] p = "github" -> GitHub!Initial
    [] p = "linear" -> Linear!Initial     [] p = "teams" -> Teams!Initial
    [] p = "telegram" -> Telegram!Initial [] p = "whatsapp" -> WhatsApp!Initial

(* up: whether the requests the handler makes to the platform succeed.       *)
HandleWebhook(p, e, self, up) ==
  CASE p = "slack" -> Slack!HandleWebhook(e, self)
    [] p = "discord" -> Discord!HandleWebhook(e, self, up)
    [] p = "gchat" -> GChat!HandleWebhook(e, self)
    [] p = "github" -> GitHub!HandleWebhook(e, self)
    [] p = "linear" -> Linear!HandleWebhook(e, self)
    [] p = "teams" -> Teams!HandleWebhook(e, self)
    [] p = "telegram" -> Telegram!HandleWebhook(e, self)
    [] p = "whatsapp" -> WhatsApp!HandleWebhook(e, self)

(* Where what is posted to a thread comes to stand; Unknown if it raises.    *)
PostMessage(p, log, t, self) ==
  LET id == Len(log) + 1 IN
  CASE p = "slack" -> Slack!PostMessage(t)
    [] p = "discord" -> Discord!PostMessage(log, t)
    [] p = "gchat" -> GChat!PostMessage(t, id)
    [] p = "github" -> GitHub!PostMessage(t, self)
    [] p = "linear" -> Linear!PostMessage(log, t, id)
    [] p = "teams" -> Teams!PostMessage(t, self)
    [] p = "telegram" -> Telegram!PostMessage(t)
    [] p = "whatsapp" -> WhatsApp!PostMessage(t, self)

(* A post of a slash command's handler, to the channel of the command.       *)
PostChannelMessage(p, log, channel) ==
  CASE p = "slack" -> Slack!PostChannelMessage(channel)
    [] p = "discord" -> Discord!PostChannelMessage(log, channel, channel)

ChannelIdFromThreadId(p, t) ==
  CASE p = "slack" -> Slack!ChannelIdFromThreadId(t)
    [] p = "discord" -> Discord!ChannelIdFromThreadId(t)
    [] p = "gchat" -> GChat!ChannelIdFromThreadId(t)
    [] p = "github" -> GitHub!ChannelIdFromThreadId(t)
    [] p = "linear" -> Linear!ChannelIdFromThreadId(t)
    [] p = "teams" -> Teams!ChannelIdFromThreadId(t)
    [] p = "telegram" -> Telegram!ChannelIdFromThreadId(t)
    [] p = "whatsapp" -> WhatsApp!ChannelIdFromThreadId(t)

(* The messages an edit in a thread changes.                                 *)
EditMessage(p, log, t, id, self) ==
  CASE p = "slack" -> Slack!EditMessage(log, t, id)
    [] p = "discord" -> Discord!EditMessage(log, t, id)
    [] p = "gchat" -> GChat!EditMessage(log, t, id)
    [] p = "github" -> GitHub!EditMessage(log, t, id, self)
    [] p = "linear" -> Linear!EditMessage(log, t, id)
    [] p = "teams" -> Teams!EditMessage(log, t, id)
    [] p = "telegram" -> Telegram!EditMessage(log, t, id)
    [] p = "whatsapp" -> WhatsApp!EditMessage(log, t, id)

(* The messages the bot reacts to; and, of those who have reacted to a       *)
(* message with an emoji, whose reactions it asks to have removed.           *)
AddReaction(p, log, t, id, self) ==
  CASE p = "slack" -> Slack!AddReaction(log, t, id)
    [] p = "discord" -> Discord!AddReaction(log, t, id)
    [] p = "gchat" -> GChat!AddReaction(log, t, id)
    [] p = "github" -> GitHub!AddReaction(log, t, id, self)
    [] p = "linear" -> Linear!AddReaction(log, t, id)
    [] p = "teams" -> Teams!AddReaction(log, t, id)
    [] p = "telegram" -> Telegram!AddReaction(log, t, id)
    [] p = "whatsapp" -> WhatsApp!AddReaction(log, t, id, self)

RemoveReaction(p, whose, self, up) ==
  CASE p = "slack" -> Slack!RemoveReaction(whose)
    [] p = "discord" -> Discord!RemoveReaction(whose)
    [] p = "gchat" -> GChat!RemoveReaction(whose)
    [] p = "github" -> GitHub!RemoveReaction(whose, self, up)
    [] p = "linear" -> Linear!RemoveReaction(whose)
    [] p = "teams" -> Teams!RemoveReaction(whose)
    [] p = "telegram" -> Telegram!RemoveReaction(whose)
    [] p = "whatsapp" -> WhatsApp!RemoveReaction(whose)

(* Chat tells by a user id alone on which of four platforms it is.           *)
Inferred == {"slack", "discord", "gchat", "teams"}

(* The thread of a direct message with a person, and where it is.            *)
OpenDM(p, self) ==
  CASE p = "slack" -> Slack!OpenDM [] p = "discord" -> Discord!OpenDM
    [] p = "gchat" -> GChat!OpenDM [] p = "teams" -> Teams!OpenDM(self)

IsDM(p, t) ==
  CASE p = "slack" -> Slack!IsDM(t) [] p = "discord" -> Discord!IsDM(t)
    [] p = "gchat" -> GChat!IsDM(t) [] p = "teams" -> Teams!IsDM(t)

Direct(p) ==
  CASE p = "slack" -> Slack!Place("D1", Unknown)
    [] p = "discord" -> Discord!Place("@me", 102, Unknown)
    [] p = "gchat" -> GChat!Place(GChat!Direct, GChat!Only)
    [] p = "teams" -> Teams!Place("default", "D1", Unknown)

FetchMessages(p, log, t, limit, direction, cursor) ==
  CASE p = "slack" -> Slack!FetchMessages(log, t, limit, direction, cursor)
    [] p = "discord" -> Discord!FetchMessages(log, t, limit, direction, cursor)
    [] p = "gchat" -> GChat!FetchMessages(log, t, limit, direction, cursor)
    [] p = "github" -> GitHub!FetchMessages(log, t, limit, direction, cursor)
    [] p = "linear" -> Linear!FetchMessages(log, t, limit, direction, cursor)
    [] p = "telegram" -> Telegram!FetchMessages(log, t, limit, direction, cursor)
    [] p = "whatsapp" -> WhatsApp!FetchMessages(log, t, limit, direction, cursor)

=============================================================================
