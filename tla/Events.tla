------------------------------- MODULE Events -------------------------------
(***************************************************************************)
(* Reactions, actions and commands run their handlers; a handler may open  *)
(* a modal, and the user submits or closes it (chat.py 544-650, 716-976,   *)
(* adapter.py of Slack 892-1005, 1291-1311).                               *)
(*                                                                         *)
(* Every event is a task of its own; a step is what a task does between    *)
(* two awaits.                                                             *)
(***************************************************************************)
EXTENDS AdapterCalls

CONSTANTS
  Handlers,   \* for each kind of event, the filters of its handlers in the order of registration
  Arrivals,   \* the events that may come: kind, name, where from, and whether with a trigger
  Modals,     \* the modals handlers open, each a sequence of inputs
  MaxOptions, \* options of a radio select that Slack is given: 10
  MaxEvents,  \* events there will be (a bound)
  ContextTTL  \* MODAL_CONTEXT_TTL_MS, in ticks

VARIABLES
  tasks,     \* the events, in the order they came
  views,     \* the modals that were opened on the platform
  contexts,  \* what is stored for a modal: where it was opened
  missing    \* auxiliary: the keys of contexts that were not stored, or have run out

vars == <<tasks, views, contexts, missing>>

Openers == {"action", "command"}
Kinds   == {"reaction", "submit", "close"} \cup Openers

Init == tasks = <<>> /\ views = <<>> /\ contexts = {} /\ missing = {}

-----------------------------------------------------------------------------
(***************************************************************************)
(* Handlers                                                                *)
(***************************************************************************)

(* An empty filter takes every event. *)
Matches(filter, name) == filter = {} \/ name \in filter

(* Mutant: a catch-all ends the search. *)
UpTo(kind, i) == {j \in 1..i : Handlers[kind][j] = {}}
MatchingFirst(kind, name) ==
  {i \in DOMAIN Handlers[kind] : Matches(Handlers[kind][i], name) /\ UpTo(kind, i) \subseteq {i}}

Matching(kind, name) == {i \in DOMAIN Handlers[kind] : Matches(Handlers[kind][i], name)}

(* The handlers of a task that have not run. *)
Ahead(t) == {i \in Matching(t.kind, t.name) : t.ran = <<>> \/ i > Last(t.ran).handler}

Task(e, view, form, values) ==
  [kind |-> e.kind, name |-> e.name, origin |-> e.origin, trigger |-> e.trigger, view |-> view,
   form |-> form, values |-> values,
   pc |-> IF view = 0 THEN "run" ELSE "get", related |-> Unknown, ran |-> <<>>]

OnView(kind, v, form, values) ==
  Task([kind |-> kind, name |-> views[v].callback, origin |-> Unknown, trigger |-> FALSE], v, form, values)

Step(n, pc) == tasks' = [tasks EXCEPT ![n].pc = pc]

(* A handler ends; what comes next depends on how.                           *)
Ran(n, how, pc) ==
  tasks' = [tasks EXCEPT ![n].pc = pc,
              ![n].ran = Append(@, [handler |-> Min(Ahead(tasks[n])), how |-> how])]

(* An event of one's own is skipped and is not listed here; a thread is made *)
(* of an action's thread id if it has one, else it comes from nowhere.       *)
Receive(e) ==
  /\ Len(tasks) < MaxEvents
  /\ tasks' = Append(tasks, Task(e, 0, <<>>, <<>>))
  /\ UNCHANGED <<views, contexts, missing>>

Running(n) == tasks[n].pc = "run"

(* No handler is left: a submit that none has answered clears the view.      *)
Finish(n) ==
  /\ Running(n) /\ Ahead(tasks[n]) = {}
  /\ Step(n, "done")
  /\ views' = IF tasks[n].kind = "submit" THEN [views EXCEPT ![tasks[n].view].open = FALSE] ELSE views
  /\ UNCHANGED <<contexts, missing>>

HandlerReturns(n) ==
  /\ Running(n) /\ Ahead(tasks[n]) # {}
  /\ Ran(n, "returns", "run")
  /\ UNCHANGED <<views, contexts, missing>>

(* An exception ends the event, but for a submit, whose next handler runs.   *)
HandlerRaises(n) ==
  /\ Running(n) /\ Ahead(tasks[n]) # {}
  /\ Ran(n, "raises", IF tasks[n].kind = "submit" THEN "run" ELSE "done")
  /\ UNCHANGED <<views, contexts, missing>>

(* The first answer to a submit is the response; with errors the view stays. *)
HandlerAnswers(n) ==
  /\ Running(n) /\ Ahead(tasks[n]) # {} /\ tasks[n].kind = "submit"
  /\ Ran(n, "answers", "done")
  /\ UNCHANGED <<views, contexts, missing>>

-----------------------------------------------------------------------------
(***************************************************************************)
(* A modal is opened                                                       *)
(***************************************************************************)

(* The id of a context, a uuid, goes with the view as its private metadata:  *)
(* no opening of a modal has that of another.                                *)
Opening(n) == <<n, Len(tasks[n].ran)>>
EncodeModalMetadata(context) == [c |-> context, m |-> Unknown]
DecodeModalMetadata(raw) == raw.c

(* Select and RadioSelect raise when they have no options.                   *)
Builds(modal) == \A i \in DOMAIN modal : modal[i].options # <<>>

(* An input has a type, the options it may take (of a text, what a person    *)
(* may type) and the initial one; a radio select shows the first of them.    *)
ShownOptions(input) ==
  ToSet(IF input.type = "radio_select" THEN FirstOf(input.options, MaxOptions) ELSE input.options)
ModalChildToBlock(input) ==
  [type |-> input.type, options |-> ShownOptions(input),
   initial |-> IF input.initial \in ShownOptions(input) THEN input.initial ELSE Unknown]
ModalToSlackView(modal) == [i \in DOMAIN modal |-> ModalChildToBlock(modal[i])]

(* Mutant: the key is made of the modal's callback id. *)
ContextKeyByCallback(context, callback) == callback

ContextKey(context, callback) == context

(* Without a trigger there is only a warning.                                *)
OpenModal(n) ==
  /\ Running(n) /\ Ahead(tasks[n]) # {} /\ tasks[n].kind \in Openers
  /\ IF tasks[n].trigger THEN Step(n, "store") ELSE Ran(n, "returns", "run")
  /\ UNCHANGED <<views, contexts, missing>>

StoreContext(n) ==
  LET key == ContextKey(Opening(n), tasks[n].name) IN
  /\ tasks[n].pc = "store"
  /\ \/ contexts' = {c \in contexts : c.key # key} \cup
                      {[key |-> key, origin |-> tasks[n].origin, left |-> ContextTTL]}
        /\ missing' = missing
     \/ UNCHANGED contexts /\ missing' = missing \cup {key}
  /\ Step(n, "open")
  /\ UNCHANGED views

OpenView(n) ==
  /\ tasks[n].pc = "open"
  /\ \/ /\ \E modal \in {modal \in Modals : Builds(modal)} :
             views' = Append(views, [callback |-> tasks[n].name, by |-> n, open |-> TRUE, modal |-> modal,
                                     blocks |-> ModalToSlackView(modal), metadata |-> EncodeModalMetadata(Opening(n))])
        /\ Ran(n, "returns", "run")
     \/ views' = views /\ Ran(n, "raises", "done")
  /\ UNCHANGED <<contexts, missing>>

Tick ==
  /\ contexts # {}
  /\ contexts' = {[c EXCEPT !.left = @ - 1] : c \in {c \in contexts : c.left > 1}}
  /\ missing' = missing \cup {c.key : c \in {c \in contexts : c.left = 1}}
  /\ UNCHANGED <<tasks, views>>

-----------------------------------------------------------------------------
(***************************************************************************)
(* The user submits it or closes it                                        *)
(***************************************************************************)

(* What a person leaves in the form: an input is as it was, or one of the    *)
(* options, or empty.                                                        *)
FormsOf(blocks) ==
  {form \in [DOMAIN blocks -> (UNION {b.options : b \in ToSet(blocks)}) \cup {Unknown}] :
     \A i \in DOMAIN blocks : form[i] \in blocks[i].options \cup {blocks[i].initial, Unknown}}

(* The state of an input on Slack: the value typed, or the option selected.  *)
ActionState(block, answer) ==
  IF block.type = "text_input" THEN [type |-> block.type, value |-> answer]
  ELSE [type |-> block.type, selected |-> answer]

FlatValues(states) ==
  [i \in DOMAIN states |->
     IF states[i].type \in {"select", "radio_select"} THEN states[i].selected ELSE states[i].value]

(* A submit may be sent twice before it is answered.                         *)
Submit(v, form) ==
  /\ Len(tasks) < MaxEvents /\ views[v].open
  /\ LET states == [i \in DOMAIN form |-> ActionState(views[v].blocks[i], form[i])] IN
     tasks' = Append(tasks, OnView("submit", v, form, FlatValues(states)))
  /\ UNCHANGED <<views, contexts, missing>>

Close(v) ==
  /\ Len(tasks) < MaxEvents /\ views[v].open
  /\ views' = [views EXCEPT ![v].open = FALSE]
  /\ tasks' = Append(tasks, OnView("close", v, <<>>, <<>>))
  /\ UNCHANGED <<contexts, missing>>

KeyOf(t) == ContextKey(DecodeModalMetadata(views[t.view].metadata), t.name)

(* A store that fails fails the webhook, or ends the close.                  *)
GetContext(n) ==
  /\ tasks[n].pc = "get"
  /\ \/ /\ ~\E c \in contexts : c.key = KeyOf(tasks[n])
        /\ Step(n, "run")
     \/ \E c \in contexts : /\ c.key = KeyOf(tasks[n])
                            /\ tasks' = [tasks EXCEPT ![n] = [@ EXCEPT !.pc = "delete", !.related = c.origin]]
     \/ Step(n, "failed")
  /\ UNCHANGED <<views, contexts, missing>>

DeleteContext(n) ==
  /\ tasks[n].pc = "delete"
  /\ \/ contexts' = {c \in contexts : c.key # KeyOf(tasks[n])} /\ Step(n, "run")
     \/ UNCHANGED contexts /\ Step(n, "failed")
  /\ UNCHANGED <<views, missing>>

Next ==
  \/ \E e \in Arrivals : Receive(e)
  \/ \E n \in DOMAIN tasks :
       \/ HandlerReturns(n) \/ HandlerRaises(n) \/ HandlerAnswers(n) \/ Finish(n)
       \/ OpenModal(n) \/ StoreContext(n) \/ OpenView(n)
       \/ GetContext(n) \/ DeleteContext(n)
  \/ \E v \in DOMAIN views : Close(v) \/ \E form \in FormsOf(views[v].blocks) : Submit(v, form)
  \/ Tick

Spec == Init /\ [][Next]_vars

-----------------------------------------------------------------------------
(***************************************************************************)
(* Properties                                                              *)
(***************************************************************************)

OfView(t) == {u \in ToSet(tasks) : u.view = t.view}

InputTypes == {"text_input", "select", "radio_select"}
Inputs     == [type : InputTypes, options : Seq(STRING), initial : STRING \cup {Unknown}]
Origins == STRING \cup {Unknown}
Answers == STRING \cup {Unknown}

TaskSet ==
  [kind : Kinds, name : STRING, origin : Origins, trigger : BOOLEAN,
   view : 0..Len(views), form : Seq(Answers), values : Seq(Answers),
   pc : {"run", "store", "open", "get", "delete", "done", "failed"}, related : Origins,
   ran : Seq([handler : Nat, how : {"returns", "raises", "answers"}])]

ViewSet ==
  [callback : STRING, by : DOMAIN tasks, open : BOOLEAN, modal : Modals,
   blocks : Seq([type : InputTypes, options : SUBSET STRING, initial : Answers]),
   metadata : [c : (DOMAIN tasks) \X Nat, m : {Unknown}]]

(* A task is about a view if it is a submit or a close.                      *)
TasksOK ==
  /\ tasks \in Seq(TaskSet) /\ views \in Seq(ViewSet)
  /\ \A n \in DOMAIN tasks : (tasks[n].view = 0) = (tasks[n].kind \notin {"submit", "close"})

ContextsOK ==
  /\ contexts \subseteq [key : (DOMAIN tasks) \X Nat, origin : Origins, left : 1..ContextTTL]
  /\ missing \subseteq (DOMAIN tasks) \X Nat

TypeOK == TasksOK /\ ContextsOK

(* A submit or a close comes with the thread or channel its own modal was    *)
(* opened from: if not, the context was not stored, has run out, or went to  *)
(* an earlier event of the view.                                             *)
Related ==
  \A t \in ToSet(tasks) :
    t.view # 0 /\ t.pc \in {"run", "done"} =>
      LET by == views[t.view].by IN
      \/ t.related = tasks[by].origin
      \/ /\ t.related = Unknown
         /\ \/ KeyOf(t) \in missing
            \/ \E u \in OfView(t) : u # t /\ u.related = tasks[by].origin

(* A submit has a value for each input of the modal: what the form held,     *)
(* which is one of the options the handler gave, or none; an initial option  *)
(* is there from the start, unless a radio select has no room for it.        *)
Filled ==
  \A t \in ToSet(tasks) :
    t.kind = "submit" =>
      /\ DOMAIN t.values = DOMAIN views[t.view].modal
      /\ \A i \in DOMAIN t.values :
           LET input == views[t.view].modal[i] IN
           /\ t.values[i] = t.form[i]
           /\ t.values[i] \in ToSet(input.options) \cup {Unknown}
           /\ input.initial \in ToSet(input.options) \ {views[t.view].blocks[i].initial} =>
                input.type = "radio_select" /\ ToSet(FirstOf(input.options, MaxOptions)) # ToSet(input.options)

(* The handler of a submit or a close gets what was filled in, and is told   *)
(* where the modal was opened from.                                          *)
ModalReturns == Related /\ Filled

(* A handler runs for each event that it is registered for, in the order of  *)
(* registration and once: only an exception (or, for a submit, an answer)    *)
(* keeps it from those that come after.                                      *)
HandlersRun ==
  \A t \in ToSet(tasks) :
    LET ended == \E i \in DOMAIN t.ran :
                   t.ran[i].how = (IF t.kind = "submit" THEN "answers" ELSE "raises") IN
    /\ \A i, j \in DOMAIN t.ran : i < j => t.ran[i].handler < t.ran[j].handler
    /\ t.pc = "done" /\ ~ended =>
         {t.ran[i].handler : i \in DOMAIN t.ran} =
           {i \in DOMAIN Handlers[t.kind] : Handlers[t.kind][i] = {} \/ t.name \in Handlers[t.kind][i]}

-----------------------------------------------------------------------------
(***************************************************************************)
(* What makes them inductive                                               *)
(***************************************************************************)

(* A task has run the handlers up to the last that ran, and is done when     *)
(* none is ahead, or one has ended it.                                       *)
InOrder(t) ==
  LET end == IF t.kind = "submit" THEN "answers" ELSE "raises" IN
  /\ \A i, j \in DOMAIN t.ran : i < j => t.ran[i].handler < t.ran[j].handler
  /\ {t.ran[i].handler : i \in DOMAIN t.ran} = Matching(t.kind, t.name) \ Ahead(t)
  /\ t.pc = "done" => Ahead(t) = {} \/ \E i \in DOMAIN t.ran : t.ran[i].how = end
  /\ t.pc \in {"store", "open"} => t.kind \in Openers /\ Ahead(t) # {}
  /\ t.pc \in {"get", "delete", "failed"} => t.view # 0

RanInOrder == \A n \in DOMAIN tasks : InOrder(tasks[n])

Id(v)         == DecodeModalMetadata(views[v].metadata)
OpenedFrom(v) == tasks[views[v].by].origin
Kept(id)      == id \in missing \/ \E c \in contexts : c.key = id

(* Each view is the work of a handler that has run.                          *)
OpenedOnce ==
  \A v \in DOMAIN views :
    /\ Id(v)[1] = views[v].by /\ Id(v)[2] < Len(tasks[views[v].by].ran)
    /\ \A w \in DOMAIN views : Id(v) = Id(w) => v = w

(* A context is stored with its task's origin; for a view it is stored,      *)
(* missing, or with an event of the view.                                    *)
ContextsKept ==
  /\ \A c \in contexts : c.key[1] \in DOMAIN tasks /\ c.origin = tasks[c.key[1]].origin
  /\ \A n \in DOMAIN tasks : tasks[n].pc = "open" => Kept(Opening(n))
  /\ \A v \in DOMAIN views :
       Kept(Id(v)) \/ \E n \in DOMAIN tasks : tasks[n].view = v /\ tasks[n].related = OpenedFrom(v)

(* What an event of a view has got.                                          *)
RelatedSoFar ==
  \A n \in DOMAIN tasks :
    LET t == tasks[n] IN
    t.view # 0 =>
      \/ t.related = OpenedFrom(t.view)
      \/ /\ t.related = Unknown /\ t.pc # "delete"
         /\ t.pc \in {"run", "done"} =>
              \/ Id(t.view) \in missing
              \/ \E m \in DOMAIN tasks : tasks[m].view = t.view /\ tasks[m].related = OpenedFrom(t.view)

(* A view shows what the handler gave, and a submit what the view allows.    *)
FormsFilled ==
  /\ \A v \in DOMAIN views : views[v].blocks = ModalToSlackView(views[v].modal)
  /\ \A n \in DOMAIN tasks :
       tasks[n].kind = "submit" =>
         tasks[n].form \in FormsOf(views[tasks[n].view].blocks) /\ tasks[n].values = tasks[n].form

IndInv == TasksOK /\ ContextsOK /\ RanInOrder /\ OpenedOnce /\ ContextsKept /\ RelatedSoFar /\ FormsFilled
=============================================================================
