----------------------------- MODULE Platforms ------------------------------
(***************************************************************************)
(* Seven small worlds about the platforms, one in each behaviour: the      *)
(* webhooks of a chat, the pages of an iterator, the polling loop of       *)
(* Telegram, the post of a stream, a card, events with modals, and tokens. *)
(* They share no data.                                                     *)
(***************************************************************************)
EXTENDS ChatTasks, TokenGrants

CONSTANTS MaxLog, MaxMessages, DefaultLimit, AllLimit,
  ContentTypes, ControlTypes, MaxParts, RowSize, ReplyButtons

VARIABLES world,
  platform, log,
  self, seen, replies,
  view, history, present, gone, cursor, yielded,
  made, children, message, form, posted

Webhooks == INSTANCE Webhooks
Paging   == INSTANCE Paging
Cards    == INSTANCE Cards
Tokens   == INSTANCE LinearTokens

webhookVars   == <<self, seen, replies>>
pagingVars    == <<view, history, present, gone, cursor, yielded>>
streamingVars == <<way, text, got, editor, stopped, sending, last, shown>>
cardVars      == <<made, children, message, form, posted>>
eventVars     == <<tasks, views, contexts, missing>>
tokenVars     == <<grant, lives, accepted, revoked, stored, step, held, fresh, lost>>
mcvars == <<world, platform, log, phase, webhookVars, pagingVars, streamingVars, cardVars, eventVars, tokenVars, vars>>

NoWebhooks  == self = <<>> /\ seen = {} /\ replies = {}
NoPaging    == view = "none" /\ history = <<>> /\ present = {} /\ gone = {} /\ cursor = Unknown /\ yielded = <<>>
NoStreaming == way = "none" /\ text = <<>> /\ got = <<>> /\ editor = "none" /\ stopped = FALSE
               /\ sending = <<>> /\ last = <<>> /\ shown = NoMessage
NoCards     == made = <<>> /\ children = <<>> /\ message = NoMessage /\ form = "none" /\ posted = 0
NoEvents    == tasks = <<>> /\ views = <<>> /\ contexts = {} /\ missing = {}
NoTokens    == grant = [mode |-> "credentials", told |-> FALSE, refresh |-> "none"] /\ lives = <<>> /\ accepted = {} /\ revoked = {} /\ stored = Absent
               /\ step = <<>> /\ held = <<>> /\ fresh = TRUE /\ lost = FALSE
NoPlatform  == platform = "none" /\ log = <<>>

Worlds == {"webhooks", "paging", "streaming", "cards", "polling", "events", "tokens"}

PlatformsInit ==
  /\ world \in Worlds
  /\ Init /\ NoEvents
  /\ IF world = "tokens" THEN Tokens!Init ELSE NoTokens
  /\ \/ world = "webhooks" /\ Webhooks!Init /\ phase = "idle" /\ NoPaging /\ NoStreaming /\ NoCards
     \/ world = "paging" /\ Paging!Init /\ NoWebhooks /\ NoStreaming /\ NoCards
     \/ world = "streaming" /\ Streaming!Init /\ NoPlatform /\ NoWebhooks /\ NoPaging /\ NoCards
     \/ world = "cards" /\ Cards!Init /\ log = <<>> /\ phase = "idle" /\ NoWebhooks /\ NoPaging /\ NoStreaming
     \/ world \in {"polling", "events", "tokens"}
        /\ NoPlatform /\ phase = "idle" /\ NoWebhooks /\ NoPaging /\ NoStreaming /\ NoCards

InWebhooks  == world = "webhooks" /\ UNCHANGED <<world, phase, pagingVars, streamingVars, cardVars, eventVars, tokenVars, vars>>
InPaging    == world = "paging" /\ UNCHANGED <<world, webhookVars, streamingVars, cardVars, eventVars, tokenVars, vars>>
InPolling   == world = "polling"
               /\ UNCHANGED <<world, platform, log, phase, webhookVars, pagingVars, streamingVars, cardVars, eventVars, tokenVars>>
InStreaming == world = "streaming" /\ UNCHANGED <<world, platform, log, webhookVars, pagingVars, cardVars, eventVars, tokenVars, vars>>
InCards     == world = "cards" /\ UNCHANGED <<world, log, phase, webhookVars, pagingVars, streamingVars, eventVars, tokenVars, vars>>
InEvents    == world = "events"
               /\ UNCHANGED <<world, platform, log, phase, webhookVars, pagingVars, streamingVars, cardVars, tokenVars, vars>>
InTokens    == world = "tokens"
               /\ UNCHANGED <<world, platform, log, phase, webhookVars, pagingVars, streamingVars, cardVars, eventVars, vars>>

PlatformsNext ==
  \/ InWebhooks /\ Webhooks!Next
  \/ InPaging /\ Paging!Next
  \/ InPolling /\ Next
  \/ InStreaming /\ Streaming!Next
  \/ InCards /\ Cards!Next
  \/ InEvents /\ Events!Next
  \/ InTokens /\ Tokens!Next

(* The fairness of TelegramPolling and of Streaming.                         *)
PlatformsFairness ==
  /\ \A c \in Callers : WF_mcvars(InPolling /\ Proceed(c)) /\ WF_mcvars(InPolling /\ Run(c))
  /\ WF_mcvars(InStreaming /\ Streaming!SourceSteps)
  /\ WF_mcvars(InStreaming /\ Streaming!PostSteps)
  /\ WF_mcvars(InStreaming /\ Streaming!EditorSteps)

PlatformsSpec == PlatformsInit /\ [][PlatformsNext]_mcvars /\ PlatformsFairness

(* One world alone, for the runs that show a violation.                      *)
PagingSpec    == PlatformsInit /\ world = "paging" /\ [][PlatformsNext]_mcvars
StreamingSpec == PlatformsInit /\ world = "streaming" /\ [][PlatformsNext]_mcvars

(* Variables have their types. *)
PlatformsTypeOK ==
  /\ TypeOK
  /\ world = "streaming" => Streaming!TypeOK
  /\ world = "events" => Events!TypeOK

(* The properties of the modules, each in its world; those of the polling    *)
(* loop and of the tokens are as they stand.                                 *)
NoSelfReply         == world = "webhooks" => Webhooks!NoSelfReply
RepliesLand         == world = "webhooks" => Webhooks!RepliesLand
FollowUpsFound      == world = "webhooks" => Webhooks!FollowUpsFound
EditReaches         == world = "webhooks" => Webhooks!EditReaches
HandledOnce         == world = "webhooks" => Webhooks!HandledOnce
HistoryComplete     == world = "paging" => Paging!HistoryComplete
NewestFirst         == world = "paging" => Paging!NewestFirst
FinalShown          == world = "streaming" => Streaming!FinalShown
RawTextShown        == world = "streaming" => Streaming!RawTextShown
CardArrives         == world = "cards" => Cards!CardArrives
ModalReturns        == world = "events" => Events!ModalReturns
HandlersRun         == world = "events" => Events!HandlersRun

(* What was begun comes to its end: calls of stop_polling return, and the    *)
(* post of a stream is over once its source is.                              *)
TasksEnd == StopsReturn /\ (world = "streaming" => Streaming!StreamEnds)
=============================================================================
