----------------------------- MODULE ChatTasks ------------------------------
(***************************************************************************)
(* What runs on as tasks of the chat: the polling loop of Telegram, the    *)
(* post of a stream with its editor, and the events with their handlers.   *)
(* They share no data.                                                     *)
(***************************************************************************)
EXTENDS AdapterCalls, TelegramPolling

CONSTANTS NoMessage, MaxChunks, Handlers, Arrivals, Modals, MaxEvents, ContextTTL, MaxOptions

VARIABLES
  phase, way, text, got, editor, stopped, sending, last, shown,
  tasks, views, contexts, missing

Streaming == INSTANCE Streaming
Events    == INSTANCE Events

(* What stands for no message is no content. *)
ASSUME StreamsAssumption == MaxChunks \in Nat /\ NoMessage \notin Streaming!Contents

ASSUME EventsAssumption ==
  /\ MaxOptions \in Nat /\ MaxEvents \in Nat /\ ContextTTL \in Nat \ {0}
  /\ Handlers \in [Events!Kinds -> Seq(SUBSET STRING)]
  /\ Arrivals \subseteq [kind : Events!Kinds \ {"submit", "close"}, name : STRING,
                          origin : Events!Origins, trigger : BOOLEAN]
  /\ Modals \subseteq Seq(Events!Inputs)
=============================================================================
