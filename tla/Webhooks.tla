------------------------------ MODULE Webhooks ------------------------------
(***************************************************************************)
(* A chat on one platform: people write, the platform delivers events, the *)
(* adapter turns them into calls of Chat, and a handler answers each event *)
(* it gets with one post (chat.py 520-565, 640-653, 713-915, 1001-1029).   *)
(*                                                                         *)
(* The platform may deliver any event at any time, again, late or never.   *)
(***************************************************************************)
EXTENDS Adapters

CONSTANT MaxLog   \* messages there will be (a bound)

VARIABLES
  platform,  \* the platform of the adapter
  self,      \* what the adapter keeps
  log,       \* the messages on the platform, in the order they were sent
  seen,      \* the dedupe marks, and the message each was set for
  replies    \* auxiliary: the posts of the handler

vars == <<platform, self, log, seen, replies>>

Init ==
  /\ platform \in Platforms
  /\ self \in Initial(platform)
  /\ log = <<>> /\ seen = {} /\ replies = {}

Message(by, place, mention) ==
  [id |-> NewId(platform, log, place), by |-> by, place |-> place, mention |-> mention]

Write(place, mention) ==
  /\ Len(log) < MaxLog
  /\ place \in Spots(platform, log)
  /\ log' = Append(log, Message(Human, place, mention))
  /\ UNCHANGED <<platform, self, seen, replies>>

(* The events about a message, and whose they are. *)
EventsOf(m) ==
  {[event |-> e, by |-> m.by] : e \in Sent(platform, m) \cup Changed(platform, m)} \cup
  (UNION {{[event |-> e, by |-> who] : e \in Reacted(platform, m, who)} : who \in {Bot, Human}}) \cup
  {[event |-> e, by |-> Human] : e \in Pressed(platform, m) \cup Commanded(platform, m)}

-----------------------------------------------------------------------------
(***************************************************************************)
(* Chat                                                                    *)
(***************************************************************************)

(* The handler posts once; a post that raises leaves nothing.                *)
Post(call, i, by, up) ==
  LET place == IF call.to = "slash" THEN PostChannelMessage(platform, log, call.thread)
               ELSE PostMessage(platform, log, call.thread, self')
  IN  IF place = Unknown THEN UNCHANGED <<log, replies>>
      ELSE /\ log' = Append(log, Message(Bot, place, FALSE))
           /\ replies' = replies \cup
                {[to |-> call.to, about |-> i, thread |-> call.thread, by |-> by,
                  at |-> Len(log) + 1, up |-> up]}

IsDuplicate(call) == \E s \in seen : s.id = call.id

HandleMessage(call, i, by, up) ==
  IF IsDuplicate(call) THEN UNCHANGED <<log, seen, replies>>
  ELSE Post(call, i, by, up) /\ seen' = seen \cup {[id |-> call.id, about |-> i]}

(* Reactions, actions and commands are not deduplicated.                     *)
HandleEvent(call, i, by, up) == Post(call, i, by, up) /\ UNCHANGED seen

Handle(call, i, by, up) ==
  IF call.isMe THEN UNCHANGED <<log, seen, replies>>
  ELSE IF call.to = "message" THEN HandleMessage(call, i, by, up)
  ELSE HandleEvent(call, i, by, up)

(* A delivery, its tasks run to the end; what adapters do for one event      *)
(* leads to at most one call.                                                *)
Deliver(i, e, up) ==
  LET done == HandleWebhook(platform, e.event, self, up) IN
  /\ Len(log) < MaxLog
  /\ e \in EventsOf(log[i])
  /\ self' = done.self
  /\ IF done.calls = {} THEN UNCHANGED <<log, seen, replies>>
     ELSE \E call \in done.calls : Handle(call, i, e.by, up)
  /\ UNCHANGED platform

(* Only Discord's adapter asks the platform anything first.                  *)
Outcomes == IF platform = "discord" THEN BOOLEAN ELSE {TRUE}

Next ==
  \/ \E place \in Spots(platform, log), mention \in BOOLEAN : Write(place, mention)
  \/ \E i \in DOMAIN log, up \in Outcomes : \E e \in EventsOf(log[i]) : Deliver(i, e, up)

Spec == Init /\ [][Next]_vars

-----------------------------------------------------------------------------
(***************************************************************************)
(* Properties                                                              *)
(***************************************************************************)

(* The bot does not answer itself, where its adapter knows who it is: not    *)
(* its messages, which the platforms send back, nor its own reactions.       *)
NoSelfReply == \A r \in replies : self.me # Unknown => r.by # Bot

(* Slack reactions are answered in a thread of the message reacted to, and   *)
(* WhatsApp and Teams post where they are configured to.                     *)
Served(r) ==
  LET place == log[r.about].place IN
  CASE platform = "slack"    -> r.to # "reaction"
    [] platform = "whatsapp" -> place.number = self.phoneNumberId
    [] platform = "teams"    -> place.service = self.apiUrl
    [] OTHER -> TRUE

(* An answer comes to stand where the event was: the thread id that was made *)
(* of the event leads the post back, whatever was mentioned, opened, edited, *)
(* delivered twice, or could not be looked up.                               *)
RepliesLand ==
  \A r \in replies : Served(r) =>
    IF r.to = "slash" THEN log[r.at].place = log[r.about].place
    ELSE Answers(platform, log[r.about], log[r.at].place)

(* Every prompt of a Linear agent session makes a thread id of its own.      *)
InSession(r) == platform = "linear" /\ log[r.about].place.session # Unknown

(* Calls of process_message that events about a message lead to.             *)
MessageCalls(m) ==
  {c \in UNION {HandleWebhook(platform, e.event, self, TRUE).calls : e \in EventsOf(m)} :
     c.to = "message"}

(* What is posted to a direct message that the bot opens reaches the person, *)
(* and an answer is heard in its thread; on Slack in a thread of its own,    *)
(* and on Google Chat in the one that the space has.                         *)
DirectAnswered ==
  platform \in Inferred =>
    LET t == OpenDM(platform, self) IN
    /\ IsDM(platform, t)
    /\ PostMessage(platform, log, t, self) = Direct(platform)
    /\ \A m \in ToSet(log) : m.place = Direct(platform) =>
         \A c \in MessageCalls(m) :
           IsDM(platform, c.thread) /\ (platform \in {"discord", "teams"} => c.thread = t)

(* Who writes where the bot has answered is heard in the thread of the       *)
(* answer, the one a handler would have subscribed to; a mention may open a  *)
(* thread of its own.  So is who answers in a direct message.                *)
FollowUpsFound ==
  /\ \A r, s \in replies :
       /\ r.to \in {"message", "action"} /\ s.to = "message"
       /\ r.up /\ s.up /\ Served(r) /\ ~InSession(r)
       /\ s.about > r.at /\ ~log[s.about].mention
       /\ log[s.about].place = log[r.at].place
       => s.thread = r.thread
  /\ DirectAnswered

(* An edit returns a SentMessage of the channel: edited again, it is looked  *)
(* for in the channel, which Slack, Google Chat, Linear and Telegram do not  *)
(* tell from the thread; GitHub has no such channel.                         *)
EditedAgain(r) ==
  \/ platform \in {"slack", "gchat", "linear", "telegram"}
  \/ platform \in {"discord", "teams"} /\ ChannelIdFromThreadId(platform, r.thread) = r.thread

(* What the bot has posted it can edit, with what the post returned: the     *)
(* edit reaches this message and no other; and so does one of what the edit  *)
(* returned, where the platform knows a message by its channel.              *)
EditsReach ==
  \A r \in replies :
    platform # "whatsapp" /\ Served(r) /\ ~InSession(r) =>
      /\ EditMessage(platform, log, r.thread, IdOf(platform, log[r.at]), self) = {r.at}
      /\ EditedAgain(r) =>
           EditMessage(platform, log, ChannelIdFromThreadId(platform, r.thread),
                       IdOf(platform, log[r.at]), self) = {r.at}

(* Discord's adapter looks for a message that has opened a thread in it, but *)
(* the message is in the channel.                                            *)
OpensThread(r) == platform = "discord" /\ ChannelIdFromThreadId(platform, r.thread) # r.thread
                  /\ log[r.about].place.thread = Unknown

(* So does a reaction of the bot to it, and to the message that it answers;  *)
(* and of the reactions to a message it asks to have only its own removed,   *)
(* except on Google Chat, and on GitHub while it does not know who it is.    *)
ReactionsReach ==
  /\ \A r \in replies :
       platform # "teams" /\ Served(r) =>
         /\ ~InSession(r) =>
              AddReaction(platform, log, r.thread, IdOf(platform, log[r.at]), self) = {r.at}
         /\ r.to # "slash" /\ ~OpensThread(r) =>
              AddReaction(platform, log, r.thread, IdOf(platform, log[r.about]), self) = {r.about}
  /\ \A whose \in SUBSET {Bot, Human, Unknown}, up \in BOOLEAN :
       platform \notin {"gchat", "linear", "teams"} /\ (platform = "github" /\ self.me = Unknown => up) =>
         RemoveReaction(platform, whose, self, up) = whose \cap {Bot}

(* Edits and reactions reach the messages they are meant for.                *)
EditReaches == EditsReach /\ ReactionsReach

(* No message is answered twice, though some come by several events; and     *)
(* none is taken for another: where it is dropped, the mark was set for it.  *)
HandledOnce ==
  /\ \A r, s \in replies :
       r.to = "message" /\ s.to = "message" /\ r.about = s.about => r = s
  /\ \A i \in DOMAIN log : \A c \in MessageCalls(log[i]) :
       \A s \in seen : s.id = c.id => s.about = i
=============================================================================
