------------------------------ MODULE Streaming -----------------------------
(***************************************************************************)
(* One post of a stream to a thread (thread.py 356-520,                    *)
(* from_full_stream.py, streaming_markdown.py) and the ways it takes: the  *)
(* stream methods of the adapters, or, for an adapter without one, the     *)
(* fallback, whose editor task edits while chunks come in.                 *)
(*                                                                         *)
(* A content is the sequence of chunks it is made of.  The editor and the  *)
(* post share the renderer, last_edit_content and the stop event.          *)
(***************************************************************************)
EXTENDS Naturals, Sequences, FiniteSets, SequencesExt

CONSTANTS
  NoMessage,   \* nothing shown
  MaxChunks    \* chunks of a stream (a bound)

VARIABLES
  way,       \* how the message is streamed
  text,      \* the text that has come in: tasks have none
  got,       \* what has come in, structured chunks by their str()
  phase,     \* where the post is
  editor,    \* where the editor task is
  stopped,   \* the stop event is set
  sending,   \* the content of the editor's request
  last,      \* last_edit_content
  shown      \* what the message on the platform shows

vars == <<way, text, got, phase, editor, stopped, sending, last, shown>>

(* Slack edits by time and at the end; Discord and Google Chat also when the *)
(* source fails; Teams edits with each chunk; GitHub, Linear and WhatsApp    *)
(* post once; Telegram raises; without a stream method there is the          *)
(* fallback, which first posts a placeholder or not.                         *)
Native == {"slack", "discord", "teams", "once", "telegram"}
Fallback == {"placeholder", "bare"}

-----------------------------------------------------------------------------
(***************************************************************************)
(* Contents                                                                *)
(***************************************************************************)

(* Words, blanks, a row of a table that is not confirmed yet up to its end   *)
(* ("row") or within it ("cell"), the beginning of a link ("link", from its  *)
(* bracket on) and its end ("linked"), a marker like two asterisks, and      *)
(* structured chunks: text and tasks.                                        *)
Kinds == {"word", "blank", "cell", "row", "link", "linked", "mark", "markdown", "task"}

Strip(content) == {content[i] : i \in DOMAIN content} \ {"blank"}
Placeholder == <<"dots">>

(* Discord and Google Chat take str() of a structured chunk.                 *)
Accumulated == IF way = "discord" THEN got ELSE text

GetText == text

(* remend: a text is cut where the first link begins that does not end, with *)
(* the blanks before it; a marker that is not closed is.                     *)
Number(content, kind, places) == Cardinality({i \in places : content[i] = kind})
Unclosed(content) ==
  {i \in DOMAIN content :
     /\ content[i] = "link"
     /\ \A j \in i..Len(content) : Number(content, "linked", i..j) < Number(content, "link", i..j)}

StripUnclosedLinks(content) ==
  IF Unclosed(content) = {} THEN content
  ELSE SubSeq(content, 1, Max({n \in 0..Len(content) : /\ \A i \in Unclosed(content) : n < i
                                                       /\ n = 0 \/ content[n] # "blank"}))

Remend(content) ==
  LET cut == StripUnclosedLinks(content) IN
  IF Number(cut, "mark", DOMAIN cut) % 2 = 1 THEN Append(cut, "mark") ELSE cut

(* The renderer holds back rows at the end, until the stream is finished; of *)
(* the first one it shows what has come in until its end has.                *)
CommittablePrefix(content) ==
  LET table(n) == \A i \in (n + 1)..Len(content) : content[i] \in {"cell", "row"}
      start == CHOOSE n \in 0..Len(content) : table(n) /\ \A m \in 0..(n - 1) : ~table(m)
  IN  IF \E i \in (start + 1)..Len(content) : content[i] = "row" THEN SubSeq(content, 1, start) ELSE content

Render == Remend(CommittablePrefix(text))
Finish == Remend(GetText)

-----------------------------------------------------------------------------

Init ==
  /\ way \in Native \cup Fallback
  /\ text = <<>> /\ got = <<>> /\ sending = <<>> /\ last = <<>>
  /\ phase = "begun" /\ editor = "none" /\ stopped = FALSE
  /\ shown = NoMessage

Show(content) == shown' = content
NoEditor == UNCHANGED <<editor, stopped, sending, last>>

(* A request succeeds, or fails before or after it has taken effect.         *)
Fails(content) == shown' \in {shown, content}

Raise == phase' = "raised"

(* The next chunk comes in.                                                  *)
Chunk(k) ==
  /\ Len(got) < MaxChunks
  /\ text' = IF k = "task" THEN text ELSE Append(text, k)
  /\ got' = Append(got, IF k \in {"markdown", "task"} THEN "raw" ELSE k)

-----------------------------------------------------------------------------
(***************************************************************************)
(* stream of the adapters                                                  *)
(***************************************************************************)

NativeBegins ==
  /\ phase = "begun" /\ way \in Native
  /\ CASE way = "telegram" -> Raise /\ UNCHANGED shown
       [] way \in {"teams", "once"} -> phase' = "reading" /\ UNCHANGED shown
       [] OTHER -> \/ phase' = "reading" /\ Show(Placeholder)
                   \/ Raise /\ Fails(Placeholder)
  /\ NoEditor /\ UNCHANGED <<way, text, got>>

(* A chunk is added, a structured one to a string of Slack's in vain; then   *)
(* the message may be due for an edit.                                       *)
NativeChunk(k) ==
  /\ phase = "reading" /\ way \in Native
  /\ way = "teams" => k = "task"
  /\ Chunk(k)
  /\ IF way = "slack" /\ k \in {"markdown", "task"} THEN Raise
     ELSE \/ phase' = "reading"
          \/ way \in {"slack", "discord"} /\ phase' = "editing"
  /\ NoEditor /\ UNCHANGED <<way, shown>>

(* Teams posts the first text and edits with each other one.                 *)
TeamsChunk(k) ==
  /\ phase = "reading" /\ way = "teams" /\ k # "task"
  /\ Chunk(k)
  /\ \/ phase' = "reading" /\ Show(text')
     \/ Raise /\ Fails(text')
  /\ NoEditor /\ UNCHANGED way

Current == IF Accumulated = <<>> THEN Placeholder ELSE Accumulated

NativeEdit ==
  /\ phase = "editing" /\ way \in Native
  /\ \/ phase' = "reading" /\ Show(Current)
     \/ phase' = (IF way = "discord" THEN "failing" ELSE "raised") /\ Fails(Current)
  /\ NoEditor /\ UNCHANGED <<way, text, got>>

NativeSourceEnds ==
  /\ phase = "reading" /\ way \in Native
  /\ phase' = IF way = "teams" THEN "returned" ELSE "finishing"
  /\ NoEditor /\ UNCHANGED <<way, text, got, shown>>

NativeSourceFails ==
  /\ phase = "reading" /\ way \in Native
  /\ phase' = IF way = "discord" THEN "failing" ELSE "raised"
  /\ NoEditor /\ UNCHANGED <<way, text, got, shown>>

(* The last edit, or the only post.                                          *)
Final == IF way = "once" THEN GetText ELSE Current

NativeFinal ==
  /\ phase \in {"finishing", "failing"} /\ way \in Native
  /\ \/ phase' = (IF phase = "failing" THEN "raised" ELSE "returned") /\ Show(Final)
     \/ Raise /\ Fails(Final)
  /\ NoEditor /\ UNCHANGED <<way, text, got>>

-----------------------------------------------------------------------------
(***************************************************************************)
(* _fallback_stream                                                        *)
(***************************************************************************)

(* create_task(_edit_loop()): the loop waits out an interval first.          *)
StartEditor == editor' = "waiting" /\ UNCHANGED <<stopped, sending>>

FallbackBegins ==
  /\ phase = "begun" /\ way \in Fallback
  /\ IF way = "bare"
       THEN phase' = "reading" /\ NoEditor /\ UNCHANGED shown
       ELSE \/ phase' = "reading" /\ Show(Placeholder) /\ last' = Placeholder /\ StartEditor
            \/ Raise /\ Fails(Placeholder) /\ NoEditor
  /\ UNCHANGED <<way, text, got>>

(* renderer.push; the first text that can be shown is posted.                *)
FallbackChunk(k) ==
  /\ phase = "reading" /\ way \in Fallback
  /\ Chunk(k)
  /\ phase' = IF shown = NoMessage /\ Strip(Render') # {} THEN "posting" ELSE "reading"
  /\ NoEditor /\ UNCHANGED <<way, shown>>

FirstPost ==
  /\ phase = "posting"
  /\ \/ phase' = "reading" /\ Show(Render) /\ last' = Render /\ StartEditor
     \/ Raise /\ Fails(Render) /\ stopped' = TRUE /\ UNCHANGED <<editor, sending, last>>
  /\ UNCHANGED <<way, text, got>>

(* Mutant: the editor is stopped at the end of the source, not if it fails. *)
FallbackSourceEndsOnly(outcome) ==
  /\ phase = "reading" /\ way \in Fallback
  /\ phase' = outcome
  /\ stopped' = (outcome = "ending")
  /\ UNCHANGED <<way, text, got, editor, sending, last, shown>>

(* The finally clause: stop, and wait for the editor.                        *)
FallbackSourceEnds(outcome) ==
  /\ phase = "reading" /\ way \in Fallback
  /\ phase' = outcome
  /\ stopped' = TRUE
  /\ UNCHANGED <<way, text, got, editor, sending, last, shown>>

EditorOver == editor \in {"none", "ended"}

Joined == EditorOver

Joins ==
  /\ phase \in {"ending", "failing"} /\ way \in Fallback
  /\ Joined
  /\ phase' = IF phase = "failing" THEN "raised"
              ELSE IF shown = NoMessage THEN "placing" ELSE "finishing"
  /\ UNCHANGED <<way, text, got, editor, stopped, sending, last, shown>>

(* No text could be shown before: the post is of the whole text, or of " ".  *)
LatePost ==
  LET content == IF Strip(GetText) # {} THEN GetText ELSE <<"blank">> IN
  /\ phase = "placing"
  /\ \/ phase' = "finishing" /\ Show(content) /\ last' = GetText
     \/ Raise /\ Fails(content) /\ UNCHANGED last
  /\ UNCHANGED <<way, text, got, editor, stopped, sending>>

(* Mutant: the rows that are held back are not flushed before the last edit. *)
FinalNeededLoose == Strip(Render) # {} /\ Render # last

FinalNeeded == Strip(Finish) # {} /\ Finish # last

FallbackFinal ==
  /\ phase = "finishing" /\ way \in Fallback
  /\ IF ~FinalNeeded THEN phase' = "returned" /\ UNCHANGED shown
     ELSE \/ phase' = "returned" /\ Show(GetText)
          \/ Raise /\ Fails(GetText)
  /\ NoEditor /\ UNCHANGED <<way, text, got>>

-----------------------------------------------------------------------------
(***************************************************************************)
(* _edit_loop                                                              *)
(***************************************************************************)

EditorStops ==
  /\ editor = "waiting" /\ stopped
  /\ editor' = "ended"
  /\ UNCHANGED <<way, text, got, phase, stopped, sending, last, shown>>

(* The interval is over: an edit, if there is something new to show.         *)
EditorDue ==
  /\ editor = "waiting"
  /\ Strip(Render) # {} /\ Render # last
  /\ editor' = "editing" /\ sending' = Render
  /\ UNCHANGED <<way, text, got, phase, stopped, last, shown>>

EditorWaits == editor' = IF stopped THEN "ended" ELSE "waiting"

EditorEdited ==
  /\ editor = "editing"
  /\ Show(sending) /\ last' = sending
  /\ EditorWaits
  /\ UNCHANGED <<way, text, got, phase, stopped, sending>>

(* A failure is logged.                                                      *)
EditorFailed ==
  /\ editor = "editing"
  /\ Fails(sending)
  /\ EditorWaits
  /\ UNCHANGED <<way, text, got, phase, stopped, sending, last>>

-----------------------------------------------------------------------------

SourceSteps ==
  \/ \E k \in Kinds : NativeChunk(k) \/ TeamsChunk(k) \/ FallbackChunk(k)
  \/ NativeSourceEnds \/ NativeSourceFails
  \/ \E outcome \in {"ending", "failing"} : FallbackSourceEnds(outcome)

PostSteps ==
  \/ NativeBegins \/ NativeEdit \/ NativeFinal
  \/ FallbackBegins \/ FirstPost \/ Joins \/ LatePost \/ FallbackFinal

EditorSteps == EditorStops \/ EditorEdited \/ EditorFailed

Next == SourceSteps \/ PostSteps \/ EditorSteps \/ EditorDue

Spec == Init /\ [][Next]_vars

(* The source ends or fails, requests end, and the event loop runs what is   *)
(* ready.  The editor need not come to an edit.                              *)
Fairness == WF_vars(SourceSteps) /\ WF_vars(PostSteps) /\ WF_vars(EditorSteps)
FairSpec == Spec /\ Fairness

-----------------------------------------------------------------------------
(***************************************************************************)
(* Properties                                                              *)
(***************************************************************************)

Contents == Seq(Kinds \cup {"raw", "dots"})

TypeOK ==
  /\ way \in Native \cup Fallback
  /\ text \in Seq(Kinds \ {"task"}) /\ got \in Seq(Kinds \cup {"raw"})
  /\ Len(text) <= Len(got) /\ Len(got) <= MaxChunks
  /\ phase \in {"begun", "reading", "posting", "editing", "ending", "failing",
                "placing", "finishing", "returned", "raised"}
  /\ editor \in {"none", "waiting", "editing", "ended"} /\ stopped \in BOOLEAN
  /\ {sending, last} \subseteq Contents /\ shown \in Contents \cup {NoMessage}

(* When a post has ended its editor task has: no late edit takes it back.    *)
EditorIsOver == phase \in {"returned", "raised"} => EditorOver

(* When a post has returned, its message shows the text of the SentMessage,  *)
(* but for str() of structured chunks, for blanks, which leave a             *)
(* placeholder, and for Markdown that the renderer has to heal.              *)
WholeShown ==
  phase = "returned" /\ Strip(GetText) # {} /\ (way = "discord" => Accumulated = GetText)
  /\ (way \in Fallback => Finish = GetText)
  => shown = GetText

(* Markdown that ends open is shown as it is, or healed, when an edit or the *)
(* first post came to that before; what is cut off to nothing leaves the     *)
(* placeholder.  Edits that fail after they have taken effect may add blanks.*)
HealedShown ==
  phase = "returned" /\ way \in Fallback /\ Finish # GetText
  => \/ shown = GetText
     \/ LET words(content) == SelectSeq(content, LAMBDA kind : kind # "blank") IN
        words(shown) = IF Strip(Finish) = {} THEN Placeholder ELSE words(Finish)

(* So a post shows in the end what was said, however edits, requests and the *)
(* source fail.                                                              *)
FinalShown == EditorIsOver /\ WholeShown /\ HealedShown

(* What the renderer's description says: the final edit has the raw text     *)
(* (streaming_markdown.py 17-18), so that the message shows it, unless there *)
(* is nothing to show.                                                       *)
RawTextShown ==
  phase = "returned" /\ way \in Fallback /\ Strip(Finish) # {} => shown = GetText

(* A post of a stream ends.                                                  *)
StreamEnds == <>(phase \in {"returned", "raised"})

-----------------------------------------------------------------------------
(***************************************************************************)
(* What makes EditorIsOver and WholeShown inductive                        *)
(***************************************************************************)

(* There is an editor only from the first post of a fallback until the post  *)
(* joins it.                                                                 *)
EditorInTime ==
  /\ way \in Native \/ shown = NoMessage => editor = "none" /\ last = <<>>
  /\ phase \in {"begun", "posting", "placing"} => shown = NoMessage
  /\ phase \in {"posting", "placing"} => way \in Fallback
  /\ phase \in {"placing", "finishing", "returned", "raised"} => EditorOver

(* What was or is being shown came in, but for a marker that closes another. *)
CameIn(content) ==
  \/ content = Placeholder \/ Len(content) <= Len(text)
  \/ Len(content) = Len(text) + 1 /\ content[Len(content)] = "mark"

(* Once the last content is the whole text, perhaps with a marker closed, so *)
(* is what the renderer shows: the editor has nothing more to show, and its  *)
(* last edit has succeeded.                                                  *)
IsText(content) == content \in {text, Append(text, "mark")}

LastIsShown ==
  /\ CameIn(last) /\ CameIn(sending)
  /\ editor \in {"waiting", "editing"} /\ IsText(last) => Render = last
  /\ editor = "editing" => ~IsText(last) /\ (IsText(sending) => Render = sending)
  /\ way \in Fallback /\ IsText(last) /\ Strip(last) # {} /\ phase \notin {"returned", "raised"} => shown = last

(* Teams shows what has come in, and has no edits but those of the chunks.   *)
TeamsShows ==
  way = "teams" =>
    /\ phase # "editing"
    /\ phase \in {"begun", "reading"} => text = <<>> \/ shown = text

IndInv == TypeOK /\ EditorInTime /\ LastIsShown /\ TeamsShows /\ EditorIsOver /\ WholeShown
=============================================================================
