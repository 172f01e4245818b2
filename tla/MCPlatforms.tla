---------------------------- MODULE MCPlatforms -----------------------------
(* The values of the runs. *)
EXTENDS Platforms

CONSTANTS c1, c2, c3

(* A catch-all, and a handler of its own for one name; openers have no other.*)
MCHandlers ==
  [kind \in {"reaction", "action", "command", "submit", "close"} |->
     IF kind \in {"action", "command"} THEN <<{"known"}>> ELSE <<{}, {"known"}>>]

Arrival(kind, name, origin, trigger) ==
  [kind |-> kind, name |-> name, origin |-> origin, trigger |-> trigger]
MCArrivals ==
  {Arrival("reaction", "known", "thread", FALSE), Arrival("action", "known", "thread", TRUE),
   Arrival("action", "known", Unknown, FALSE), Arrival("command", "known", "channel", TRUE)}

(* A form with a text and a choice, of which the second option has no room.  *)
Input(type, options, initial) == [type |-> type, options |-> options, initial |-> initial]
MCModals ==
  {<<Input("text_input", <<"typed">>, Unknown), Input("radio_select", <<"first", "second">>, "second")>>}

Grant(modeOf, told, refresh) == [mode |-> modeOf, told |-> told, refresh |-> refresh]
MCGrants ==
  {Grant("tenants", TRUE, "rotates"), Grant("tenants", FALSE, "fixed"), Grant("tenants", TRUE, "none"),
   Grant("credentials", TRUE, "none")}
=============================================================================
