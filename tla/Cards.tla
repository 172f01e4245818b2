------------------------------- MODULE Cards --------------------------------
(***************************************************************************)
(* A card, built part by part, posted to a thread, and the post edited     *)
(* while the card grows (cards.py and the cards.py of the adapters).       *)
(*                                                                         *)
(* A message on the platform has a text, a body (the parts of a card that  *)
(* are shown, by their ids) and rows of controls that can be pressed.      *)
(***************************************************************************)
EXTENDS AdapterCalls

CONSTANTS
  ContentTypes,  \* of text, fields, image, divider, link and table, those used
  ControlTypes,  \* of button, link-button, select and radio_select, those used
  MaxParts,      \* parts there will be in a card (a bound)
  RowSize,       \* buttons in an action row of Discord: 5
  ReplyButtons,  \* _MAX_REPLY_BUTTONS of WhatsApp: 3
  NoMessage      \* nothing posted yet

VARIABLES
  platform,
  made,      \* the parts made so far; each has its number for an id
  children,  \* the children of the card
  message,   \* the message as the platform has it
  form,      \* auxiliary: what was last posted, or handed to an edit,
  posted     \* and how many parts the card had then

vars == <<platform, made, children, message, form, posted>>

Content  == {"text", "fields", "image", "divider", "link", "table"}
Controls == {"button", "link-button", "select", "radio_select"}

(* A card by itself, one without title, subtitle and image, one wrapped as   *)
(* {"card": ...}, or a text.                                                 *)
Forms     == {"titled", "untitled", "wrapped", "text"}
CardForms == Forms \ {"text"}

Nothing == [text |-> Unknown, body |-> Unknown, rows |-> Unknown]
Empty   == [text |-> "", body |-> <<>>, rows |-> <<>>]

-----------------------------------------------------------------------------
(***************************************************************************)
(* The parts of a card                                                     *)
(***************************************************************************)

Element(type, id)        == [type |-> type, id |-> id]
Container(type, inner)   == [type |-> type, children |-> inner]
Control(type, id, value) == [type |-> type, id |-> id, value |-> value]

OfType(s, types) == SelectSeq(s, LAMBDA e : e.type \in types)
Ids(s) == [i \in DOMAIN s |-> s[i].id]

(* Mutant: only the sections of the card itself are looked into.             *)
LeavesOnce(s) ==
  FlattenSeq([i \in DOMAIN s |-> IF s[i].type = "section" THEN OfType(s[i].children, Content \cup {"actions"})
                                 ELSE <<s[i]>>])

(* Sections are looked into, to any depth: one is a part itself.             *)
Unnested(s) ==
  FlattenSeq([i \in DOMAIN s |-> IF s[i].type = "section" THEN s[i].children ELSE <<s[i]>>])
Leaves(s) ==
  LET unnested[depth \in 0..MaxParts] == IF depth = 0 THEN s ELSE Unnested(unnested[depth - 1])
  IN  unnested[MaxParts]

Body(s, types)    == Ids(OfType(Leaves(s), types))
ActionsOf(s)      == OfType(Leaves(s), {"actions"})
EachActions(s, Row(_)) ==
  FlattenSeq([i \in DOMAIN ActionsOf(s) |-> Row(ActionsOf(s)[i].children)])

Buttons == {"button", "link-button"}
Selects == Controls \ Buttons

-----------------------------------------------------------------------------
(***************************************************************************)
(* What an adapter sends for a card                                        *)
(***************************************************************************)

Sends(text, body, rows) == [text |-> text, body |-> body, rows |-> rows]
TextOnly(text) == Sends(text, Unknown, Unknown)

(* Blocks come of a titled card alone; anything else is sent as its JSON.    *)
BlockRow(row) == <<row>>
CardToBlockKit(s) == Sends("fallback", Body(s, Content), EachActions(s, BlockRow))
PostableToSlack(f, s) == IF f = "titled" THEN CardToBlockKit(s) ELSE TextOnly("json")

(* Buttons between two selects share a list; a select is a widget.           *)
WidgetStarts(row) ==
  {i \in DOMAIN row : i = 1 \/ row[i].type \in Selects \/ row[i - 1].type \in Selects}
Widgets(row) ==
  LET starts == SetToSortSeq(WidgetStarts(row), <)
      End(k) == IF k = Len(starts) THEN Len(row) ELSE starts[k + 1] - 1 IN
  [k \in DOMAIN starts |-> SubSeq(row, starts[k], End(k))]
CardToGoogleCard(s) == Sends("", Body(s, Content), EachActions(s, Widgets))
PostableToGChat(f, s) == IF f \in {"titled", "untitled"} THEN CardToGoogleCard(s) ELSE TextOnly("")

(* Inputs stand where they are made, actions below the card; inputs need a   *)
(* button to submit them, __auto_submit if their element has none.           *)
AutoSubmit == Control("button", 0, Unknown)
AdaptiveInputs(row) == OfType(row, Selects)
AdaptiveActions(row) ==
  OfType(row, Buttons) \o
    (IF AdaptiveInputs(row) # <<>> /\ OfType(row, {"button"}) = <<>> THEN <<AutoSubmit>> ELSE <<>>)
CardToAdaptiveCard(s) ==
  Sends("", Body(s, Content), <<EachActions(s, AdaptiveInputs), EachActions(s, AdaptiveActions)>>)

(* Images are left out, fields are kept apart, selects are dropped.          *)
DiscordBody(s) == Body(s, Content \ {"image", "fields"}) \o Body(s, {"fields"})
ActionRows(row) ==
  LET buttons == OfType(row, Buttons) IN
  [k \in 1..((Len(buttons) + RowSize - 1) \div RowSize) |->
     FirstOf(SubSeq(buttons, (k - 1) * RowSize + 1, Len(buttons)), RowSize)]
CardToDiscordPayload(s) ==
  LET rows == EachActions(s, ActionRows) IN
  Sends("", DiscordBody(s), IF rows = <<>> THEN Unknown ELSE rows)

(* Controls are labels in the text.                                          *)
CardToGitHubMarkdown(s) == Sends("markdown", Body(s, Content), <<>>)
CardToLinearMarkdown(s) == Sends("markdown", Body(s, Content), <<>>)

(* The first element with actions, and at most three buttons with an id.     *)
FindActions(s) == IF ActionsOf(s) = <<>> THEN <<>> ELSE ActionsOf(s)[1].children
ExtractReplyButtons(s) == FirstOf(OfType(FindActions(s), {"button"}), ReplyButtons)
BuildBodyText(s)    == Body(s, {"text", "fields"})
CardToWhatsAppText(s) == Sends("", Body(s, {"text", "fields", "image", "divider"}), <<>>)
CardToWhatsApp(s) ==
  IF ExtractReplyButtons(s) # <<>>
  THEN Sends("", BuildBodyText(s), <<ExtractReplyButtons(s)>>)
  ELSE CardToWhatsAppText(s)

(* card_to_fallback_text has no parameter bold_format: a card raises.        *)
CardToTelegram(s) == Nothing

-----------------------------------------------------------------------------

Sent(f, s) ==
  CASE f = "text" /\ platform \in {"slack", "gchat", "discord"} -> TextOnly("text")
    [] f = "text" /\ platform \notin {"slack", "gchat", "discord"} -> Sends("text", <<>>, <<>>)
    [] platform = "slack" -> PostableToSlack(f, s)
    [] platform = "gchat" -> PostableToGChat(f, s)
    [] f # "text" /\ platform = "teams" -> CardToAdaptiveCard(s)
    [] f # "text" /\ platform = "discord" -> CardToDiscordPayload(s)
    [] f # "text" /\ platform = "github" -> CardToGitHubMarkdown(s)
    [] f # "text" /\ platform = "linear" -> CardToLinearMarkdown(s)
    [] f # "text" /\ platform = "whatsapp" -> CardToWhatsApp(s)
    [] f # "text" /\ platform = "telegram" -> CardToTelegram(s)

Raises(f) == f # "text" /\ platform = "telegram"

(* What an update does not name stays as it was.                             *)
Patch(old, sent) == [part \in DOMAIN sent |-> IF sent[part] = Unknown THEN old[part] ELSE sent[part]]

Init ==
  /\ platform \in {"slack", "discord", "gchat", "github", "linear", "teams", "telegram", "whatsapp"}
  /\ made = <<>> /\ children = <<>>
  /\ message = NoMessage /\ form = "none" /\ posted = 0

(* One more part; the message is as it was. *)
Make(type, value) ==
  /\ Len(made) < MaxParts
  /\ made' = Append(made, [type |-> type, value |-> value])
  /\ UNCHANGED <<platform, message, form, posted>>

Say(type) ==
  /\ Make(type, Unknown)
  /\ children' = Append(children, Element(type, Len(made')))

(* A control of its own, or one more in the last element with actions.       *)
Offer(type, value) ==
  /\ Make(type, value)
  /\ LET control == Control(type, Len(made'), value) IN
     \/ children' = Append(children, Container("actions", <<control>>))
     \/ /\ children # <<>> /\ Last(children).type = "actions"
        /\ children' = ReplaceAt(children, Len(children),
                         Container("actions", Append(Last(children).children, control)))

(* The children from the n-th on become a section. *)
Nest(n) ==
  /\ Make("section", Unknown)
  /\ children' = Append(SubSeq(children, 1, n - 1), Container("section", SubSeq(children, n, Len(children))))

Send(f, old) ==
  /\ ~Raises(f)
  /\ message' = Patch(old, Sent(f, children))
  /\ form' = f /\ posted' = Len(made)
  /\ UNCHANGED <<platform, made, children>>

(* A post that raises leaves no message; one of WhatsApp cannot be edited.   *)
Post(f) == message = NoMessage /\ Send(f, Empty)
Edit(f) == message # NoMessage /\ platform # "whatsapp" /\ Send(f, message)

Next ==
  \/ \E type \in ContentTypes : Say(type)
  \/ \E type \in ControlTypes, value \in {"value", Unknown} : (type # "button" => value = Unknown) /\ Offer(type, value)
  \/ \E n \in DOMAIN children : Nest(n)
  \/ \E f \in Forms : Post(f) \/ Edit(f)

Spec == Init /\ [][Next]_vars

-----------------------------------------------------------------------------
(***************************************************************************)
(* A control is pressed                                                    *)
(***************************************************************************)

Action(id, value) == [actionId |-> id, value |-> value]

(* The id and value of a callback: "chat:" and JSON, or any other string.    *)
EncodeCallbackData(id, value) == [a |-> id, v |-> value]
DecodeCallbackData(data) == Action(data.a, data.v)

(* Where adapters hand the press on to Chat; the label stands in on WhatsApp *)
(* for a value, and Discord gives the id for the value.  The choice made in  *)
(* a select of Slack is in the raw event only.                               *)
Press(c) ==
  CASE platform = "slack" ->
         Action(IF c.type = "link-button" THEN <<"link", c.id>> ELSE c.id, c.value)
    [] platform = "discord" -> Action(c.id, c.id)
    [] platform = "whatsapp" ->
         LET decoded == DecodeCallbackData(EncodeCallbackData(c.id, c.value)) IN
         [decoded EXCEPT !.value = IF @ = Unknown THEN <<"label", c.id>> ELSE @]

-----------------------------------------------------------------------------
(***************************************************************************)
(* Properties                                                              *)
(***************************************************************************)

(* Telegram's adapter raises for every card; Slack's takes only a card with  *)
(* a title, subtitle or image of its own, and neither it nor Google Chat's   *)
(* takes a card that is wrapped.                                             *)
TakesCard ==
  /\ form \in CardForms
  /\ platform = "slack" => form = "titled"
  /\ platform = "gchat" => form # "wrapped"

Shown ==
  CASE platform = "discord"  -> Content \ {"image"}
    [] platform = "whatsapp" -> {"text", "fields"}
    [] OTHER -> Content

(* The parts of some types, in the order they were made.                     *)
PartsOf(types) == SelectSeq([i \in 1..posted |-> i], LAMBDA i : made[i].type \in types)

(* What a card says is there, in its order, however it is nested, and after  *)
(* an edit nothing older is.                                                 *)
TextArrives ==
  TakesCard =>
    \A type \in Shown :
      SelectSeq(message.body, LAMBDA i : made[i].type = type) = PartsOf({type})

Offers == FlattenSeq(message.rows)

(* The controls that can be pressed are those the card offers, except for    *)
(* selects on Discord and what does not fit on WhatsApp; and a press comes   *)
(* back with the id the control was given, and the value if it has one.      *)
ControlsReturn ==
  LET offered == SelectSeq(Offers, LAMBDA c : c # AutoSubmit) IN
  TakesCard =>
    /\ platform \in {"slack", "gchat"} => Ids(offered) = PartsOf(Controls)
    /\ platform = "teams" => \A types \in {Buttons, Selects} : Ids(OfType(offered, types)) = PartsOf(types)
    /\ platform = "discord" /\ PartsOf(Buttons) # <<>> =>
         Ids(offered) = PartsOf(Buttons) /\ \A row \in ToSet(message.rows) : Len(row) \in 1..RowSize
    /\ platform = "whatsapp" =>
         Len(offered) <= ReplyButtons /\ ToSet(Ids(offered)) \subseteq ToSet(PartsOf({"button"}))
    /\ platform \in {"slack", "discord", "whatsapp"} =>
         \A c \in {c \in ToSet(offered) : c.type = "button"} :
           /\ Press(c).actionId = c.id
           /\ made[c.id].value # Unknown /\ platform # "discord" => Press(c).value = made[c.id].value

(* A card that an adapter takes arrives, and can be answered.                *)
CardArrives == TextArrives /\ ControlsReturn
=============================================================================
