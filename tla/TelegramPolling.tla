-------------------------- MODULE TelegramPolling ---------------------------
(***************************************************************************)
(* Long polling of the Telegram adapter                                    *)
(* (chat-adapter-telegram adapter.py 396-453 and 1588-1646).               *)
(*                                                                         *)
(* start_polling sets _polling_active, may call deleteWebhook, and creates *)
(* the loop; stop_polling clears the flag, sets the stop event and awaits  *)
(* the task it finds.  Flag, event and task are fields of the adapter: the *)
(* loop looks at the flag, and takes the event that is there when it       *)
(* begins.  The server forgets the updates below the offset of a request.  *)
(***************************************************************************)
EXTENDS Naturals, FiniteSets

CONSTANTS
  Callers,      \* calls of start_polling and stop_polling, one each
  Nobody,       \* no task, no event
  Limit,        \* updates in one answer
  MaxUpdates    \* updates there will be (a bound)

ASSUME PollingAssumption ==
  Nobody \notin Callers /\ Limit \in Nat \ {0} /\ MaxUpdates \in Nat

(* A loop and its event bear the name of the call that made them. *)
Loops == Callers

VARIABLES
  active,       \* _polling_active
  mode,         \* _runtime_mode
  stopEvent,    \* _polling_stop_event
  task,         \* _polling_task
  isSet,        \* the events that are set
  loop,         \* per loop: where it is
  event,        \* per loop: the stop event it has taken
  offset,       \* per loop: the offset of its next request, 0 for none
  call,         \* per call: where it is
  before,       \* per start: the mode it found
  joins,        \* per stop: the task it awaits
  arrived,      \* updates the server has got, numbered from 1
  confirmed,    \* the server has forgotten the updates below this one
  processed,    \* the updates given to _process_update
  overlap       \* auxiliary: a call met another, or a start was cancelled

fields == <<active, mode, stopEvent, task, isSet>>
loops  == <<loop, event, offset>>
calls  == <<call, before, joins, overlap>>
server == <<arrived, confirmed, processed>>
vars   == <<fields, loops, calls, server>>

Running(l) == loop[l] \in {"created", "requesting", "waiting"}
Pending(c) == call[c] \in {"resetting", "joining"}

Init ==
  /\ active = FALSE /\ mode = "webhook"
  /\ stopEvent = Nobody /\ task = Nobody /\ isSet = {}
  /\ loop = [l \in Loops |-> "none"]
  /\ event = [l \in Loops |-> Nobody]
  /\ offset = [l \in Loops |-> 0]
  /\ call = [c \in Callers |-> "idle"]
  /\ before = [c \in Callers |-> "webhook"]
  /\ joins = [c \in Callers |-> Nobody]
  /\ arrived = 0 /\ confirmed = 1 /\ processed = {}
  /\ overlap = FALSE

-----------------------------------------------------------------------------
(***************************************************************************)
(* start_polling                                                           *)
(***************************************************************************)

Meets == overlap' = (overlap \/ \E c \in Callers : Pending(c))

(* create_task: the loop takes no step yet. *)
CreateLoop(c) ==
  /\ mode' = "polling"
  /\ stopEvent' = c
  /\ task' = c
  /\ loop' = [loop EXCEPT ![c] = "created"]
  /\ UNCHANGED <<isSet, event, offset>>

StartActive(c) ==
  /\ call[c] = "idle" /\ active
  /\ call' = [call EXCEPT ![c] = "returned"]
  /\ Meets
  /\ UNCHANGED <<fields, loops, before, joins, server>>

(* delete_webhook is set: the call awaits deleteWebhook.                     *)
StartResetting(c) ==
  /\ call[c] = "idle" /\ ~active
  /\ active' = TRUE
  /\ call' = [call EXCEPT ![c] = "resetting"]
  /\ before' = [before EXCEPT ![c] = mode]
  /\ Meets
  /\ UNCHANGED <<mode, stopEvent, task, isSet, loops, joins, server>>

StartAtOnce(c) ==
  /\ call[c] = "idle" /\ ~active
  /\ active' = TRUE
  /\ call' = [call EXCEPT ![c] = "returned"]
  /\ CreateLoop(c)
  /\ Meets
  /\ UNCHANGED <<before, joins, server>>

(* Nothing looks at the flag again before the loop is created.               *)
ResetReturns(c) ==
  /\ call[c] = "resetting"
  /\ call' = [call EXCEPT ![c] = "returned"]
  /\ CreateLoop(c)
  /\ UNCHANGED <<active, before, joins, overlap, server>>

ResetFails(c) ==
  /\ call[c] = "resetting"
  /\ active' = FALSE
  /\ mode' = before[c]
  /\ call' = [call EXCEPT ![c] = "raised"]
  /\ UNCHANGED <<stopEvent, task, isSet, loops, before, joins, overlap, server>>

(* CancelledError is no Exception: the flag stays set, and no loop runs.     *)
StartCancelled(c) ==
  /\ call[c] = "resetting"
  /\ call' = [call EXCEPT ![c] = "raised"]
  /\ overlap' = TRUE
  /\ UNCHANGED <<fields, loops, before, joins, server>>

-----------------------------------------------------------------------------
(***************************************************************************)
(* stop_polling                                                            *)
(***************************************************************************)

StopInactive(c) ==
  /\ call[c] = "idle" /\ ~active
  /\ call' = [call EXCEPT ![c] = "returned"]
  /\ Meets
  /\ UNCHANGED <<fields, loops, before, joins, server>>

SetStop == isSet' = IF stopEvent = Nobody THEN isSet ELSE isSet \cup {stopEvent}

(* Mutant: stop signals the loop and does not await it. *)
StopLoose(c) ==
  /\ call[c] = "idle" /\ active
  /\ active' = FALSE
  /\ SetStop
  /\ call' = [call EXCEPT ![c] = "returned"]
  /\ task' = Nobody /\ stopEvent' = Nobody
  /\ Meets
  /\ UNCHANGED <<mode, loops, before, joins, server>>

Stop(c) ==
  /\ call[c] = "idle" /\ active
  /\ active' = FALSE
  /\ SetStop
  /\ IF task = Nobody
       THEN /\ call' = [call EXCEPT ![c] = "returned"]
            /\ stopEvent' = Nobody
            /\ UNCHANGED joins
       ELSE /\ call' = [call EXCEPT ![c] = "joining"]
            /\ joins' = [joins EXCEPT ![c] = task]
            /\ UNCHANGED stopEvent
  /\ Meets
  /\ UNCHANGED <<mode, task, loops, before, server>>

(* Whatever task and event are there by now are forgotten.                   *)
StopReturns(c) ==
  /\ call[c] = "joining"
  /\ ~Running(joins[c])
  /\ call' = [call EXCEPT ![c] = "returned"]
  /\ task' = Nobody /\ stopEvent' = Nobody
  /\ UNCHANGED <<active, mode, isSet, loops, before, joins, overlap, server>>

(* The cancellation goes on into the awaited loop, which ends; suppress keeps *)
(* it from the caller.                                                        *)
StopCancelled(c) ==
  /\ call[c] = "joining"
  /\ Running(joins[c])
  /\ loop' = [loop EXCEPT ![joins[c]] = "ended"]
  /\ UNCHANGED <<fields, event, offset, calls, server>>

-----------------------------------------------------------------------------
(***************************************************************************)
(* _polling_loop                                                           *)
(***************************************************************************)

(* The head of the loop: it asks for updates as long as the flag is set.     *)
LoopHead(l) == loop' = [loop EXCEPT ![l] = IF active THEN "requesting" ELSE "ended"]

LoopBegins(l) ==
  /\ loop[l] = "created"
  /\ event' = [event EXCEPT ![l] = stopEvent]
  /\ LoopHead(l)
  /\ UNCHANGED <<fields, offset, calls, server>>

(* Mutant: the server takes whatever offset comes. *)
ConfirmedRaw(l) == offset[l]

(* The server forgets what is below the offset, then looks what it has.      *)
Confirmed(l) == IF offset[l] > confirmed THEN offset[l] ELSE confirmed

Answer(l) == LET first == Confirmed(l)
             IN  {u \in first..arrived : u < first + Limit}

(* Mutant: the next request confirms one update more than was received. *)
NextOffsetEager(l, updates) ==
  IF updates = {} THEN offset[l] ELSE (CHOOSE u \in updates : \A v \in updates : v <= u) + 2

NextOffset(l, updates) ==
  IF updates = {} THEN offset[l] ELSE (CHOOSE u \in updates : \A v \in updates : v <= u) + 1

(* Each update of the answer goes to _process_update, whose errors are       *)
(* logged, before the head of the loop is reached again.                     *)
UpdatesCome(l) ==
  /\ loop[l] = "requesting"
  /\ confirmed' = Confirmed(l)
  /\ processed' = processed \cup Answer(l)
  /\ offset' = [offset EXCEPT ![l] = NextOffset(l, Answer(l))]
  /\ LoopHead(l)
  /\ UNCHANGED <<fields, event, calls, arrived>>

(* The request fails before or after the server has taken it.  The loop waits *)
(* for its event, with a timeout, unless it found no event when it began.     *)
RequestFails(l) ==
  /\ loop[l] = "requesting"
  /\ confirmed' \in {confirmed, Confirmed(l)}
  /\ loop' = [loop EXCEPT ![l] =
       IF ~active THEN "ended" ELSE IF event[l] = Nobody THEN "requesting" ELSE "waiting"]
  /\ UNCHANGED <<fields, event, offset, calls, arrived, processed>>

StopWakes(l) ==
  /\ loop[l] = "waiting"
  /\ event[l] \in isSet
  /\ loop' = [loop EXCEPT ![l] = "ended"]
  /\ UNCHANGED <<fields, event, offset, calls, server>>

BackoffOver(l) ==
  /\ loop[l] = "waiting"
  /\ LoopHead(l)
  /\ UNCHANGED <<fields, event, offset, calls, server>>

(* The bound MaxUpdates ends the flow of updates. *)
UpdateArrives ==
  /\ arrived < MaxUpdates
  /\ arrived' = arrived + 1
  /\ UNCHANGED <<fields, loops, calls, confirmed, processed>>

-----------------------------------------------------------------------------

Begin(c) == StartActive(c) \/ StartResetting(c) \/ StartAtOnce(c) \/ StopInactive(c) \/ Stop(c)
Proceed(c) == ResetReturns(c) \/ ResetFails(c) \/ StopReturns(c)
Run(l) == LoopBegins(l) \/ UpdatesCome(l) \/ RequestFails(l) \/ StopWakes(l) \/ BackoffOver(l)

Next ==
  \/ \E c \in Callers : Begin(c) \/ Proceed(c) \/ StartCancelled(c) \/ StopCancelled(c)
  \/ \E l \in Loops : Run(l)
  \/ UpdateArrives

Spec == Init /\ [][Next]_vars

(* Requests to Telegram end, and the event loop runs what is ready.          *)
Fairness == \A c \in Callers : WF_vars(Proceed(c)) /\ WF_vars(Run(c))
FairSpec == Spec /\ Fairness

-----------------------------------------------------------------------------
(***************************************************************************)
(* Properties                                                              *)
(***************************************************************************)

TypeOK ==
  /\ active \in BOOLEAN /\ mode \in {"webhook", "polling"} /\ overlap \in BOOLEAN
  /\ stopEvent \in Callers \cup {Nobody} /\ task \in Loops \cup {Nobody}
  /\ isSet \subseteq Callers
  /\ loop \in [Loops -> {"none", "created", "requesting", "waiting", "ended"}]
  /\ event \in [Loops -> Callers \cup {Nobody}]
  /\ offset \in [Loops -> Nat]
  /\ call \in [Callers -> {"idle", "resetting", "joining", "returned", "raised"}]
  /\ before \in [Callers -> {"webhook", "polling"}]
  /\ joins \in [Callers -> Loops \cup {Nobody}]
  /\ arrived \in Nat /\ confirmed \in Nat \ {0} /\ processed \subseteq Nat

(* What the server has forgotten has been processed, whichever loops run,    *)
(* fail, are stopped or started again, and whatever answers are lost.        *)
NoUpdateLost == \A u \in 1..(confirmed - 1) : u \in processed

(* As long as calls do not overlap, at most one loop runs, and none after a  *)
(* stop has returned: stop_polling awaits the loop it signals.               *)
OneLoop ==
  ~overlap => \A l \in Loops : Running(l) =>
    /\ \A m \in Loops : Running(m) => m = l
    /\ active \/ \E c \in Callers : call[c] = "joining"

(* A stop that meets no other call returns. *)
StopsReturn ==
  \A c \in Callers : call[c] = "joining" ~> (call[c] # "joining" \/ overlap)

-----------------------------------------------------------------------------
(***************************************************************************)
(* The inductive invariants                                                *)
(***************************************************************************)

(* No loop asks for more than what follows the updates processed.            *)
OffsetsBacked == \A l \in Loops : \A u \in 1..(offset[l] - 1) : u \in processed

(* As long as calls do not overlap, the task that the adapter knows is the   *)
(* loop that runs, and the one that a stop awaits; none runs beside a reset. *)
TaskIsLoop ==
  /\ \A c, d \in Callers : Pending(c) /\ Pending(d) => c = d
  /\ \A l \in Loops : Running(l) => task = l
  /\ \A c \in Callers : call[c] = "joining" => joins[c] = task /\ ~active
  /\ \A c \in Callers : call[c] = "resetting" => active /\ \A l \in Loops : ~Running(l)

UpdatesInv == TypeOK /\ NoUpdateLost /\ OffsetsBacked
LoopsInv   == TypeOK /\ OneLoop /\ (~overlap => TaskIsLoop)
=============================================================================
