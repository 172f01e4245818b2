---------------------------- MODULE LinearAdapter ---------------------------
(***************************************************************************)
(* The Linear adapter (chat-adapter-linear adapter.py, thread_id.py):      *)
(* comments on issues, sessions with an agent, and GraphQL calls.  A       *)
(* thread is an issue or the comments under one of its comments, in agent  *)
(* mode within a session.                                                  *)
(*                                                                         *)
(* What the adapter keeps: its mode, its own user id if it knows it, and,  *)
(* for many tenants, the organizations that have installed it.             *)
(***************************************************************************)
EXTENDS AdapterCalls

-----------------------------------------------------------------------------
(***************************************************************************)
(* Linear: comments and webhooks (not under src)                           *)
(***************************************************************************)

Place(issue, root, session) == [issue |-> issue, root |-> root, session |-> session]

(* A comment opens a thread, or stands under a comment that did; one that    *)
(* mentions the agent opens a session.                                       *)
Spots(log, id) == {Place("I1", id, Unknown), Place("I1", id, id)} \cup {log[i].place : i \in DOMAIN log}
Answers(m, place) == place = m.place

IdOf(m) == m.id

Event(type, action, m, user) ==
  [type |-> type, action |-> action, issue |-> m.place.issue, id |-> m.id,
   parentId |-> IF m.place.root = m.id THEN Unknown ELSE m.place.root,
   session |-> m.place.session, user |-> user]

(* A comment that opens a session leads to an event of its own, one in it to *)
(* a prompt; the agent's own activities lead to none.                        *)
Sent(m) ==
  IF m.place.session = Unknown THEN {Event("Comment", "create", m, m.by)}
  ELSE IF m.by = Bot THEN {}
  ELSE {Event("AgentSessionEvent", IF m.place.session = m.id THEN "created" ELSE "prompted", m, m.by)}
Changed(m) == {Event("Comment", "update", m, m.by)}
Reacted(m, who) == {Event("Reaction", "create", m, who)}
Pressed(m) == {}

-----------------------------------------------------------------------------
(***************************************************************************)
(* Thread ids                                                              *)
(***************************************************************************)

EncodeThreadId(issue, comment, session) ==
  <<"linear", issue>> \o (IF comment # Unknown THEN <<"c", comment>> ELSE <<>>)
                      \o (IF session # Unknown THEN <<"s", session>> ELSE <<>>)

DecodeThreadId(t) ==
  [issue |-> t[2],
   comment |-> IF Len(t) >= 4 /\ t[3] = "c" THEN t[4] ELSE Unknown,
   session |-> IF Len(t) = 6 THEN t[6] ELSE IF Len(t) = 4 /\ t[3] = "s" THEN t[4] ELSE Unknown]

ChannelIdFromThreadId(t) == <<"linear", DecodeThreadId(t).issue>>

-----------------------------------------------------------------------------
(***************************************************************************)
(* Webhooks                                                                *)
(***************************************************************************)

(* The identity is asked for once, with the default token: it may fail, and  *)
(* with many tenants there is no default token.                              *)
Initial ==
  {self \in [mode : {"comments", "agent-sessions"}, me : {Bot, Unknown}, tenants : BOOLEAN, installed : BOOLEAN] :
     self.installed = self.tenants /\ (self.tenants => self.me = Unknown)}

IsMe(user, self) == user = self.me

(* What Chat is told of a comment: its thread, its id, whether it is its own. *)
ParseMessage(e, thread, self) == ProcessMessage(thread, e.id, IsMe(e.user, self))

CommentCreated(e, self) ==
  LET root == IF e.parentId # Unknown THEN e.parentId ELSE e.id
  IN  {ParseMessage(e, EncodeThreadId(e.issue, root, Unknown), self)}

(* The thread of a session message bears the message's own id.  Of sessions  *)
(* that begin, only those of the default user are taken.                     *)
AgentSessionEvent(e, self) ==
  IF e.action = "created" /\ self.me # Bot THEN {}
  ELSE {ParseMessage(e, EncodeThreadId(e.issue, e.id, e.session), self)}

HandleWebhook(e, self) ==
  Calls(self,
    IF self.tenants /\ ~self.installed THEN {}
    ELSE IF e.type = "Comment" /\ self.mode = "comments" /\ e.action = "create"
      THEN CommentCreated(e, self)
    ELSE IF e.type = "AgentSessionEvent" /\ self.mode = "agent-sessions"
      THEN AgentSessionEvent(e, self)
    ELSE {})

-----------------------------------------------------------------------------
(***************************************************************************)
(* GraphQL                                                                 *)
(***************************************************************************)

(* A comment without a parent opens a thread of its own.  An activity shows  *)
(* up where its session is.                                                  *)
PostMessage(log, t, id) ==
  LET d == DecodeThreadId(t)
      sessions == {p \in {log[i].place : i \in DOMAIN log} : p.session = d.session}
  IN  IF d.session # Unknown THEN CHOOSE p \in sessions : TRUE
      ELSE Place(d.issue, IF d.comment # Unknown THEN d.comment ELSE id, Unknown)

(* Activities of a session cannot be changed: the call raises.               *)
EditMessage(log, t, id) ==
  {i \in DOMAIN log : log[i].id = id /\ DecodeThreadId(t).session = Unknown}

(* A reaction names the comment alone, and none can be removed.              *)
AddReaction(log, t, id) == {i \in DOMAIN log : log[i].id = id}
RemoveReaction(whose) == {}

(* The comment with its replies, or the comments of the issue, always from   *)
(* the first on: the cursor is given to the caller, and never looked at.     *)
FetchMessages(log, t, limit, direction, cursor) ==
  LET d == DecodeThreadId(t)
      root(m) == m.id = d.comment
      reply(m) == m.place.root = d.comment /\ m.id # d.comment
      ofIssue(m) == m.place.issue = d.issue
      nodes == IF d.comment # Unknown THEN SelectSeq(log, reply) ELSE SelectSeq(log, ofIssue)
      page == FirstOf(nodes, limit)
  IN  FetchResult(IF d.comment # Unknown THEN SelectSeq(log, root) \o page ELSE page,
                  IF Len(nodes) > limit THEN Last(page).id ELSE Unknown)
=============================================================================
