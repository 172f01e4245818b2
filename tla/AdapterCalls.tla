---------------------------- MODULE AdapterCalls ----------------------------
(***************************************************************************)
(* What the adapters of the platforms share: who writes, what an adapter   *)
(* passes to Chat, and pages of messages.                                  *)
(***************************************************************************)
EXTENDS Naturals, Sequences, SequencesExt

CONSTANTS
  Bot, Human,   \* who writes on the platform
  Unknown,      \* an author, identifier or cursor that the adapter lacks
  PerPage       \* the largest page of messages a platform gives

ASSUME CallsAssumption ==
  Bot # Human /\ Unknown \notin {Bot, Human} /\ PerPage \in Nat \ {0}

(* The events an adapter hands to Chat.process_message, process_reaction,    *)
(* process_action and process_slash_command; isMe is the author's is_me.     *)
ProcessMessage(thread, id, isMe) ==
  [to |-> "message", thread |-> thread, id |-> id, isMe |-> isMe]
ProcessReaction(thread, id, isMe) ==
  [to |-> "reaction", thread |-> thread, id |-> id, isMe |-> isMe]
ProcessAction(thread, id, isMe) ==
  [to |-> "action", thread |-> thread, id |-> id, isMe |-> isMe]
ProcessSlashCommand(thread, isMe) ==
  [to |-> "slash", thread |-> thread, id |-> Unknown, isMe |-> isMe]

(* A delivery leads to calls, and may change what the adapter keeps.         *)
Calls(self, calls) == [self |-> self, calls |-> calls]

(* A page of messages in chronological order, and the cursor of the next.    *)
FetchResult(messages, next) == [messages |-> messages, next |-> next]

FirstOf(s, n) == SubSeq(s, 1, IF n < Len(s) THEN n ELSE Len(s))
LastOf(s, n)  == SubSeq(s, IF n < Len(s) THEN Len(s) - n + 1 ELSE 1, Len(s))

=============================================================================
