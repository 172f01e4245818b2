------------------------------- MODULE Paging -------------------------------
(***************************************************************************)
(* Iterating the messages of a thread or a channel, or the threads of a    *)
(* channel (thread.py 227-297, channel.py 322-396), over the pages an      *)
(* adapter fetches, while messages arrive and are deleted.  Where pages    *)
(* yield nothing, the history that Chat keeps for the platforms without    *)
(* one is iterated.                                                        *)
(***************************************************************************)
EXTENDS Adapters

CONSTANTS
  MaxMessages,   \* messages there will be (a bound)
  DefaultLimit,  \* messages on a page if the iterator names no limit
  AllLimit       \* the limit that all_messages names

VARIABLES
  platform, view,  \* the adapter, and the iterator: messages, all, channel or threads
  log,        \* the messages the adapter can fetch
  history,    \* the messages Chat has kept, for the platforms that need it
  present,    \* the messages, or threads, there when the iteration began
  gone,       \* the messages deleted since
  cursor,     \* the cursor of the next page
  phase,      \* "idle", "iterating" or "ended"
  yielded     \* what the iterator has yielded

vars == <<platform, view, log, history, present, gone, cursor, phase, yielded>>

(* Where the messages of the view stand, and the thread or channel it is of. *)
Home(id) ==
  CASE platform = "slack" -> Slack!Place("C1", IF view \in {"channel", "threads"} \/ id = 1 THEN Unknown ELSE 1)
    [] platform = "discord" -> Discord!Place("G1", 101, Unknown)
    [] platform = "gchat" -> GChat!Place("S1", 1)
    [] platform = "github" -> GitHub!Issue("r1")
    [] platform = "linear" -> Linear!Place("I1", 1, Unknown)
    [] platform = "telegram" -> Telegram!Place(Telegram!Group, Unknown)
    [] platform = "whatsapp" -> WhatsApp!Place("own", "u1")

Thread ==
  CASE platform = "slack" -> Slack!EncodeThreadId("C1", 1)
    [] platform = "discord" -> Discord!EncodeThreadId("G1", 101, Unknown)
    [] platform = "gchat" -> GChat!EncodeThreadId("S1", 1, FALSE)
    [] platform = "github" -> GitHub!EncodeThreadId("r1", 1, "issue", Unknown)
    [] platform = "linear" -> Linear!EncodeThreadId("I1", 1, Unknown)
    [] platform = "telegram" -> Telegram!EncodeThreadId(Telegram!Group, Unknown)
    [] platform = "whatsapp" -> WhatsApp!EncodeThreadId("own", "u1")

Channel ==
  CASE platform = "slack" -> Slack!ChannelIdFromThreadId(Thread)
    [] platform = "discord" -> Discord!ChannelIdFromThreadId(Thread)
    [] platform = "gchat" -> GChat!ChannelIdFromThreadId(Thread)
    [] platform = "telegram" -> Telegram!ChannelIdFromThreadId(Thread)

(* Teams has no history at all; the others have no history of a channel.     *)
(* Threads are listed on Slack and Google Chat: on Discord a channel's id is *)
(* refused, on Telegram compared with that of a chat, which it never is, and *)
(* GitHub lists pull requests.                                               *)
Views ==
  ((Platforms \ {"teams"}) \X {"messages", "all"}) \cup
  ({"slack", "discord", "gchat", "telegram"} \X {"channel"}) \cup
  ({"slack", "gchat"} \X {"threads"})

Persists == platform \in {"telegram", "whatsapp"}

(* For the threads of a channel, messages also stand in threads of others:   *)
(* on Slack of those at the top.                                             *)
Homes(id) ==
  IF view # "threads" THEN {Home(id)}
  ELSE IF platform = "slack" THEN {Home(id)} \cup {Slack!Place("C1", m.id) : m \in {n \in ToSet(log) : n.place = Home(n.id)}}
  ELSE {GChat!Place("S1", id)} \cup {m.place : m \in ToSet(log)}

(* The threads there are, each by its message, or by its name.               *)
ThreadOf(m) == IF platform = "slack" THEN m.place.threadTs ELSE m.place.thread
Threads(messages) == {ThreadOf(messages[i]) : i \in DOMAIN messages} \ {Unknown}

Message(id, place) == [id |-> id, by |-> Human, place |-> place, mention |-> FALSE]
Ids(messages) == {messages[i].id : i \in DOMAIN messages}

Init ==
  /\ \E v \in Views : platform = v[1] /\ view = v[2]
  /\ log = <<>> /\ history = <<>> /\ present = {} /\ gone = {}
  /\ cursor = Unknown /\ phase = "idle" /\ yielded = <<>>

(* Telegram may be late with an update; a message is cached in its place.    *)
Arrive(id, place) ==
  /\ place \in Homes(id)
  /\ id \notin Ids(log) \cup gone
  /\ platform # "telegram" => \A n \in 1..(id - 1) : n \in Ids(log) \cup gone
  /\ log' = IF platform = "telegram" THEN Telegram!CacheMessage(log, Message(id, place))
            ELSE Append(log, Message(id, place))
  /\ history' = IF Persists THEN Append(history, Message(id, place)) ELSE history
  /\ UNCHANGED <<platform, view, present, gone, cursor, phase, yielded>>

(* A message is deleted, but not the first one of a thread; where threads    *)
(* are listed none is.                                                       *)
Delete(id) ==
  /\ view # "threads" /\ id \in Ids(log) \ {1}
  /\ gone' = gone \cup {id}
  /\ LET kept(m) == m.id # id IN log' = SelectSeq(log, kept)
  /\ UNCHANGED <<platform, view, history, present, cursor, phase, yielded>>

Begin ==
  /\ phase = "idle"
  /\ phase' = "iterating" /\ present' = IF view = "threads" THEN Threads(log) ELSE Ids(log)
  /\ UNCHANGED <<platform, view, log, history, gone, cursor, yielded>>

-----------------------------------------------------------------------------

FetchChannelMessages(direction) ==
  CASE platform = "slack" -> Slack!FetchChannelMessages(log, Channel, DefaultLimit, direction, cursor)
    [] platform = "discord" -> Discord!FetchChannelMessages(log, Channel, DefaultLimit, direction, cursor)
    [] platform = "gchat" -> GChat!FetchChannelMessages(log, Channel, DefaultLimit, direction, cursor)
    [] platform = "telegram" -> Telegram!FetchChannelMessages(log, Channel, DefaultLimit, direction, cursor)

ListThreads ==
  IF platform = "slack" THEN Slack!ListThreads(log, Channel, DefaultLimit, cursor)
  ELSE GChat!ListThreads(log, Channel, DefaultLimit, cursor)

Fetch ==
  CASE view = "messages" -> FetchMessages(platform, log, Thread, DefaultLimit, "backward", cursor)
    [] view = "all" -> FetchMessages(platform, log, Thread, AllLimit, "forward", cursor)
    [] view = "channel" -> FetchChannelMessages("backward")
    [] view = "threads" -> ListThreads

(* Backward, each page of messages is yielded from its end; a thread of      *)
(* Slack is known by its first message.                                      *)
Yielded(messages) ==
  [i \in DOMAIN messages |->
     CASE view = "all" -> messages[i].id
       [] view = "threads" -> IF platform = "slack" THEN messages[i].id ELSE ThreadOf(messages[i])
       [] OTHER -> messages[Len(messages) - i + 1].id]

(* One page.  The bound on yielded stops the iterations that do not end.     *)
NextPage ==
  LET result == Fetch
      more == result.next # Unknown /\ result.messages # <<>>
      pages == yielded \o Yielded(result.messages)
  IN  /\ phase = "iterating" /\ Len(yielded) < 2 * MaxMessages
      /\ yielded' = IF ~more /\ pages = <<>> /\ Persists THEN Yielded(history) ELSE pages
      /\ cursor' = result.next
      /\ phase' = IF more THEN "iterating" ELSE "ended"
      /\ UNCHANGED <<platform, view, log, history, present, gone>>

Next ==
  \/ \E id \in 1..MaxMessages : Delete(id) \/ \E place \in Homes(id) : Arrive(id, place)
  \/ Begin \/ NextPage

Spec == Init /\ [][Next]_vars

-----------------------------------------------------------------------------
(***************************************************************************)
(* Properties                                                              *)
(***************************************************************************)

InOrder(ids) ==
  \A i, j \in DOMAIN ids : i < j => IF view = "all" THEN ids[i] < ids[j] ELSE ids[i] > ids[j]

(* The iterators whose adapter pages the way it is asked to.  Telegram finds *)
(* its cursor by the message, and begins again if that has been deleted.     *)
Orderly ==
  \/ <<platform, view>> \in {<<"discord", "messages">>, <<"discord", "channel">>,
                             <<"slack", "all">>, <<"gchat", "all">>, <<"slack", "threads">>,
                             <<"whatsapp", "messages">>, <<"whatsapp", "all">>}
  \/ platform = "telegram" /\ view # "channel" /\ gone = {}

(* A page without threads ends the iteration, though others may follow.      *)
EndedEarly == view = "threads" /\ cursor # Unknown

(* Over any number of pages, with messages that arrive and are deleted in    *)
(* between, the iterator yields each message once and in the order it        *)
(* promises, and misses none that was there from the beginning to the end.   *)
(* Nor does it miss a thread, unless a page had none; Slack's come by the    *)
(* age of their messages, and Google Chat's once for each page they are on.  *)
HistoryComplete ==
  /\ Orderly => InOrder(yielded)
  /\ (Orderly \/ view = "threads") /\ phase = "ended" /\ ~EndedEarly =>
       present \ gone \subseteq ToSet(yielded)

(* Violated.  thread.py 229 says of messages: "Iterate messages newest first *)
(* (backward from most recent)."                                             *)
NewestFirst == view = "messages" => InOrder(yielded)
=============================================================================
