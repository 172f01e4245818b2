---------------------------- MODULE GitHubAdapter ---------------------------
(***************************************************************************)
(* The GitHub adapter (chat-adapter-github adapter.py and thread_id.py).   *)
(* A thread is an issue, the conversation of a pull request, or a review   *)
(* thread, which bears the identifier of its first comment.                *)
(*                                                                         *)
(* What the adapter keeps: how it authenticates, its own user id if it     *)
(* knows it, and the repositories whose installation is stored.            *)
(***************************************************************************)
EXTENDS AdapterCalls

-----------------------------------------------------------------------------
(***************************************************************************)
(* GitHub: comments and their webhooks (not under src)                     *)
(***************************************************************************)

Issue(r)       == [repo |-> r, number |-> 1, kind |-> "issue", root |-> Unknown]
Pull(r)        == [repo |-> r, number |-> 2, kind |-> "pull", root |-> Unknown]
Review(r, id)  == [repo |-> r, number |-> 2, kind |-> "review", root |-> id]

(* A comment replies where others are, or opens a review thread.             *)
Spots(log, id) ==
  {Issue("r1"), Issue("r2"), Pull("r1"), Review("r1", id)} \cup {log[i].place : i \in DOMAIN log}

Answers(m, place) == place = m.place

IdOf(m) == m.id

Sent(m) ==
  {[action |-> "created", type |-> IF m.place.kind = "review" THEN "pull_request_review_comment" ELSE "issue_comment",
    repository |-> m.place.repo, number |-> m.place.number,
    isPull |-> m.place.kind # "issue", id |-> m.id, sender |-> m.by,
    inReplyTo |-> IF m.place.root = m.id THEN Unknown ELSE m.place.root]}

(* Edits come with another action; reactions and buttons with no event.      *)
Changed(m) == {[e EXCEPT !.action = "edited"] : e \in Sent(m)}

-----------------------------------------------------------------------------
(***************************************************************************)
(* Thread ids                                                              *)
(***************************************************************************)

EncodeThreadId(repo, number, type, reviewCommentId) ==
  IF type = "issue" THEN <<"github", repo, "issue", number>>
  ELSE IF reviewCommentId # Unknown THEN <<"github", repo, number, "rc", reviewCommentId>>
  ELSE <<"github", repo, number>>

DecodeThreadId(t) ==
  CASE Len(t) = 5 -> [repo |-> t[2], number |-> t[3], type |-> "pr", reviewCommentId |-> t[5]]
    [] Len(t) = 4 -> [repo |-> t[2], number |-> t[4], type |-> "issue", reviewCommentId |-> Unknown]
    [] Len(t) = 3 -> [repo |-> t[2], number |-> t[3], type |-> "pr", reviewCommentId |-> Unknown]

ChannelIdFromThreadId(t) == <<"github", DecodeThreadId(t).repo>>

-----------------------------------------------------------------------------
(***************************************************************************)
(* Webhooks                                                                *)
(***************************************************************************)

(* initialize asks GET /user with a token or a fixed installation, and goes  *)
(* on without its own id if that fails.                                      *)
Initial ==
  {self \in [mode : {"token", "installation", "tenants"}, me : {Bot, Unknown}, installations : {{}}] :
     self.mode = "tenants" => self.me = Unknown}

IsMe(e, self) == e.sender = self.me

(* What Chat is told of a comment: its thread, its id, whether it is its own. *)
ParseComment(e, thread, self) == ProcessMessage(thread, e.id, IsMe(e, self))

IssueComment(e, self) ==
  LET thread == EncodeThreadId(e.repository, e.number, IF e.isPull THEN "pr" ELSE "issue", Unknown)
  IN  IF IsMe(e, self) THEN {} ELSE {ParseComment(e, thread, self)}

(* Mutant: in_reply_to_id is not looked at. *)
ReviewCommentAlone(e, self) ==
  IF IsMe(e, self) THEN {}
  ELSE {ParseComment(e, EncodeThreadId(e.repository, e.number, "pr", e.id), self)}

ReviewComment(e, self) ==
  LET root   == IF e.inReplyTo # Unknown THEN e.inReplyTo ELSE e.id
      thread == EncodeThreadId(e.repository, e.number, "pr", root)
  IN  IF IsMe(e, self) THEN {} ELSE {ParseComment(e, thread, self)}

StoreInstallation(e, self) ==
  IF self.mode = "tenants"
    THEN [self EXCEPT !.installations = @ \cup {e.repository}] ELSE self

HandleWebhook(e, self) ==
  LET kept == StoreInstallation(e, self)
  IN  Calls(kept, IF e.action # "created" THEN {}
                  ELSE IF e.type = "issue_comment" THEN IssueComment(e, kept)
                  ELSE ReviewComment(e, kept))

-----------------------------------------------------------------------------
(***************************************************************************)
(* Posting and editing                                                     *)
(***************************************************************************)

(* Without a stored installation the call raises before any request.         *)
Authorized(repo, self) == self.mode = "tenants" => repo \in self.installations

(* The endpoint the comment is created at, and so its place.                 *)
PostMessage(t, self) ==
  LET d == DecodeThreadId(t) IN
  IF ~Authorized(d.repo, self) THEN Unknown
  ELSE IF d.reviewCommentId # Unknown THEN Review(d.repo, d.reviewCommentId)
  ELSE IF d.number = 1 THEN Issue(d.repo) ELSE Pull(d.repo)

(* Mutant: every comment is looked for among those of the issues. *)
EditMessageOfIssue(log, t, id, self) ==
  {i \in DOMAIN log : /\ log[i].id = id /\ Authorized(DecodeThreadId(t).repo, self)
                      /\ log[i].place.repo = DecodeThreadId(t).repo
                      /\ log[i].place.kind # "review"}

(* The comment an edit or a deletion changes: review comments and other      *)
(* comments are different tables.                                            *)
EditMessage(log, t, id, self) ==
  LET d == DecodeThreadId(t) IN
  {i \in DOMAIN log : /\ log[i].id = id /\ Authorized(d.repo, self)
                      /\ log[i].place.repo = d.repo
                      /\ (log[i].place.kind = "review") = (d.reviewCommentId # Unknown)}

AddReaction(log, t, id, self) ==
  LET d == DecodeThreadId(t) IN
  {i \in DOMAIN log : /\ log[i].id = id /\ Authorized(d.repo, self)
                      /\ log[i].place.repo = d.repo
                      /\ (log[i].place.kind = "review") = (d.reviewCommentId # Unknown)}

(* GET /user is asked again when the own id is not known (up: it answers);   *)
(* not known, it is that of a reaction whose user GitHub does not know.      *)
RemoveReaction(whose, self, up) ==
  whose \cap {IF self.me = Unknown /\ up THEN Bot ELSE self.me}

-----------------------------------------------------------------------------
(***************************************************************************)
(* History: one request, and no cursor                                     *)
(***************************************************************************)

FetchMessages(log, t, limit, direction, cursor) ==
  LET d == DecodeThreadId(t)
      ofReview(m) == m.place.repo = d.repo /\ m.place.number = d.number /\ m.place.kind = "review"
      ofThread(m) == m.place.root = d.reviewCommentId
      ofIssue(m)  == m.place.repo = d.repo /\ m.place.number = d.number /\ m.place.kind # "review"
      found == IF d.reviewCommentId # Unknown
                 THEN SelectSeq(FirstOf(SelectSeq(log, ofReview), PerPage), ofThread)
                 ELSE FirstOf(SelectSeq(log, ofIssue), limit)
  IN  FetchResult(IF direction = "backward" THEN LastOf(found, limit) ELSE FirstOf(found, limit), Unknown)
=============================================================================
