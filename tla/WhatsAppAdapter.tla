--------------------------- MODULE WhatsAppAdapter --------------------------
(***************************************************************************)
(* The WhatsApp adapter (chat-adapter-whatsapp adapter.py, thread_id.py):  *)
(* webhooks of the Cloud API, and its messages endpoint.  A thread is a    *)
(* business phone number and a user.  Messages can be neither edited nor   *)
(* deleted, and there is no history but the one Chat keeps.                *)
(*                                                                         *)
(* What the adapter keeps: the phone number it is configured with.         *)
(***************************************************************************)
EXTENDS AdapterCalls

-----------------------------------------------------------------------------
(***************************************************************************)
(* WhatsApp: messages and webhooks (not under src)                         *)
(***************************************************************************)

Place(number, user) == [number |-> number, user |-> user]

(* Two users, one of whom writes to another number of the business as well.  *)
Spots(log, id) == {Place("own", "u1"), Place("own", "u2"), Place("other", "u1")}
Answers(m, place) == place = m.place

IdOf(m) == m.id

Inbound(type, m, id) ==
  [type |-> type, phoneNumberId |-> m.place.number, from |-> m.place.user,
   id |-> id, messageId |-> m.id]

(* A business gets no message it has sent itself, only its delivery status.  *)
Sent(m) == IF m.by = Bot THEN {Inbound("status", m, m.id)} ELSE {Inbound("text", m, m.id)}
Changed(m) == {}
Reacted(m, who) == IF who = Bot THEN {} ELSE {Inbound("reaction", m, Unknown)}
Pressed(m) == {Inbound("interactive", m, m.id), Inbound("button", m, m.id)}

-----------------------------------------------------------------------------

EncodeThreadId(number, user) == <<"whatsapp", number, user>>
DecodeThreadId(t) == [phoneNumberId |-> t[2], userWaId |-> t[3]]
ChannelIdFromThreadId(t) == t

-----------------------------------------------------------------------------
(***************************************************************************)
(* Inbound and outbound                                                    *)
(***************************************************************************)

Initial == {[me |-> "own", phoneNumberId |-> "own"]}

IsMe(user, self) == user = self.me

ThreadOf(in) == EncodeThreadId(in.phoneNumberId, in.from)

HandleReaction(in, self) == {ProcessReaction(ThreadOf(in), in.messageId, IsMe(in.from, self))}
HandleInteractiveReply(in, self) == {ProcessAction(ThreadOf(in), in.id, IsMe(in.from, self))}
HandleButtonResponse(in, self) == {ProcessAction(ThreadOf(in), in.id, IsMe(in.from, self))}

(* What Chat is told of a message: its thread, its id, whether it is its own. *)
BuildMessage(in, self) == ProcessMessage(ThreadOf(in), in.id, IsMe(in.from, self))

HandleInboundMessage(in, self) ==
  CASE in.type = "reaction" -> HandleReaction(in, self)
    [] in.type = "interactive" -> HandleInteractiveReply(in, self)
    [] in.type = "button" -> HandleButtonResponse(in, self)
    [] OTHER -> {BuildMessage(in, self)}

(* Statuses come beside the messages, and are not looked at.                 *)
HandleWebhook(in, self) == Calls(self, IF in.type = "status" THEN {} ELSE HandleInboundMessage(in, self))

(* Every request is made for the configured number.                          *)
PostMessage(t, self) == Place(self.phoneNumberId, DecodeThreadId(t).userWaId)

EditMessage(log, t, id) == {}

(* A reaction is sent as a message is, an empty one to remove it.            *)
AddReaction(log, t, id, self) ==
  {i \in DOMAIN log : log[i].id = id /\ log[i].place = PostMessage(t, self)}
RemoveReaction(whose) == whose \cap {Bot}
FetchMessages(log, t, limit, direction, cursor) == FetchResult(<<>>, Unknown)
=============================================================================
