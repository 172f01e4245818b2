--------------------------- MODULE PlatformsProofs ---------------------------
(***************************************************************************)
(* What the modules of the tasks keep holds in their worlds: each world    *)
(* takes the steps of its own module and leaves alone the data of others.  *)
(***************************************************************************)
EXTENDS Platforms, ChatTasksProofs

(* Each in its world.                                                        *)
WorldsInv ==
  /\ TypeOK
  /\ world = "streaming" => Streaming!IndInv
  /\ world = "events" => Events!IndInv

LEMMA WorldsStart == PlatformsInit => WorldsInv
<1> SUFFICES ASSUME PlatformsInit PROVE WorldsInv
  OBVIOUS
<1>1. Init /\ NoEvents
  BY Zenon DEF PlatformsInit
<1>2. TypeOK
  BY <1>1, InitType, Zenon
<1>3. world = "streaming" => Streaming!IndInv
  <2>1. world = "streaming" => Streaming!Init
    BY DEF PlatformsInit
  <2> QED
    BY <2>1, StreamStarts, Zenon
<1>4. Events!IndInv
  BY <1>1, EventsStart, Zenon DEF NoEvents, Events!Init
<1> QED
  BY <1>2, <1>3, <1>4, Zenon DEF WorldsInv

(* A step of a world is one of its module, and a stutter of the others.      *)
LEMMA WorldsStep ==
  ASSUME [PlatformsNext]_mcvars
  PROVE  /\ UNCHANGED world /\ [Next]_vars
         /\ world = "streaming" => Streaming!Next \/ UNCHANGED Streaming!vars
         /\ world = "events" => Events!Next \/ UNCHANGED Events!vars
<1> SUFFICES /\ UNCHANGED world /\ [Next]_vars
             /\ world = "streaming" => Streaming!Next \/ UNCHANGED Streaming!vars
             /\ world = "events" => Events!Next \/ UNCHANGED Events!vars
  OBVIOUS
<1>1. CASE UNCHANGED mcvars
  BY <1>1, Zenon DEF mcvars, streamingVars, eventVars, Streaming!vars, Events!vars
<1>2. CASE InWebhooks
  BY <1>2 DEF InWebhooks
<1>3. CASE InPaging
  BY <1>3 DEF InPaging
<1>4. CASE InPolling /\ Next
  BY <1>4 DEF InPolling
<1>5. CASE InStreaming /\ Streaming!Next
  BY <1>5 DEF InStreaming
<1>6. CASE InCards
  BY <1>6 DEF InCards
<1>7. CASE InEvents /\ Events!Next
  BY <1>7 DEF InEvents
<1>8. CASE InTokens
  BY <1>8 DEF InTokens
<1> QED
  BY <1>1, <1>2, <1>3, <1>4, <1>5, <1>6, <1>7, <1>8, Zenon DEF PlatformsNext

LEMMA WorldsKeep == WorldsInv /\ [PlatformsNext]_mcvars => WorldsInv'
<1> SUFFICES ASSUME WorldsInv, [PlatformsNext]_mcvars PROVE WorldsInv'
  OBVIOUS
<1>1. /\ UNCHANGED world /\ [Next]_vars
      /\ world = "streaming" => Streaming!Next \/ UNCHANGED Streaming!vars
      /\ world = "events" => Events!Next \/ UNCHANGED Events!vars
  BY WorldsStep, Zenon
<1>2. TypeOK'
  BY <1>1, NextType, Zenon DEF WorldsInv
<1>3. world' = "streaming" => Streaming!IndInv'
  BY <1>1, StreamKeeps, Zenon DEF WorldsInv
<1>4. world' = "events" => Events!IndInv'
  BY <1>1, EventsKeep, EventsRest, Zenon DEF WorldsInv
<1> QED
  BY <1>2, <1>3, <1>4, Zenon DEF WorldsInv

(* Each world keeps what its module keeps.                                   *)
THEOREM WorldsHold == PlatformsSpec => []WorldsInv
<1> QED
  BY WorldsStart, WorldsKeep, PTL DEF PlatformsSpec

-----------------------------------------------------------------------------
(* The types of the polling loop, of the post of a stream, and of events,    *)
(* modals and their contexts are kept whatever the others do.                *)
THEOREM PlatformTypesKept == PlatformsSpec => []PlatformsTypeOK
<1>1. WorldsInv => PlatformsTypeOK
  BY Zenon DEF WorldsInv, PlatformsTypeOK, Streaming!IndInv, Events!IndInv, Events!TypeOK
<1> QED
  BY <1>1, WorldsHold, PTL

(* No editor outlives the post of a stream, and a post that has returned is  *)
(* shown to its last word, as long as the renderer leaves the text as it is: *)
(* all of FinalShown but what becomes of Markdown that ends open.            *)
THEOREM StreamsShown ==
  PlatformsSpec => [](world = "streaming" => Streaming!EditorIsOver /\ Streaming!WholeShown)
<1>1. WorldsInv => (world = "streaming" => Streaming!EditorIsOver /\ Streaming!WholeShown)
  BY Zenon DEF WorldsInv, Streaming!IndInv
<1> QED
  BY <1>1, WorldsHold, PTL

(* The handlers of an event run in the order of registration, once each, and *)
(* all of them unless one raises or, for a submit, answers.                  *)
THEOREM HandlersRunInOrder == PlatformsSpec => []HandlersRun
<1>1. WorldsInv => HandlersRun
  BY HandlersHaveRun, Zenon DEF WorldsInv, HandlersRun
<1> QED
  BY <1>1, WorldsHold, PTL

(* What a user submits comes to its handlers with the values of the form,    *)
(* and with the thread or channel that very modal was opened from.           *)
THEOREM ModalsComeBack == PlatformsSpec => []ModalReturns
<1>1. WorldsInv => ModalReturns
  BY ModalsReturn, Zenon DEF WorldsInv, ModalReturns
<1> QED
  BY <1>1, WorldsHold, PTL
=============================================================================
