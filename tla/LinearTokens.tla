---------------------------- MODULE LinearTokens ----------------------------
(***************************************************************************)
(* The tokens of the Linear adapter (adapter.py 526-708, 1436-1544): the   *)
(* installation of one organization, which the processes of a bot share in *)
(* the state, or the token for its client's credentials, which one process *)
(* keeps in the adapter.  Either is looked at before it is used, and asked *)
(* for anew when it is about to run out, by any number of callers at once. *)
(*                                                                         *)
(* The server numbers the access tokens it grants.  A refresh token bears  *)
(* the number of the access token it came with.                            *)
(***************************************************************************)
EXTENDS TokenGrants, Sequences

vars == <<grant, lives, accepted, revoked, stored, step, held, fresh, lost>>

Installation(access, refresh, left) == [access |-> access, refresh |-> refresh, left |-> left]

Goto(c, s, i) == step' = [step EXCEPT ![c] = s] /\ held' = [held EXCEPT ![c] = i]
End(c) == Goto(c, "idle", Absent)
Acts(c, i) == End(c) /\ fresh' = (fresh /\ lives[i.access] > 0)

Init ==
  /\ grant \in Grants
  /\ stored = Installation(1, IF grant.refresh = "none" THEN Absent ELSE 1, Lifetime)
  /\ lives = <<Lifetime>> /\ accepted = {stored.refresh} \ {Absent} /\ revoked = {}
  /\ step = [c \in Askers |-> "idle"] /\ held = [c \in Askers |-> Absent]
  /\ fresh = TRUE /\ lost = FALSE

-----------------------------------------------------------------------------
(***************************************************************************)
(* Callers                                                                 *)
(***************************************************************************)

(* A webhook runs its handlers with the installation it finds, as it is.     *)
Webhook(c) ==
  /\ Tenants /\ step[c] = "idle" /\ stored # Absent
  /\ Goto(c, "handler", stored)
  /\ UNCHANGED <<grant, lives, accepted, revoked, stored, fresh, lost>>

(* In a handler the installation is the one it runs with, otherwise that of  *)
(* the state.                                                                *)
GetInstallation(c) == IF step[c] = "handler" THEN held[c] ELSE stored

(* The time to refresh has come.                                             *)
Due(i) ==
  IF Tenants THEN i.refresh # Absent /\ (grant.told => i.left <= Buffer)
  ELSE grant.told /\ i.left < Buffer

(* with_installation, or a request in no installation's name.                *)
Begin(c) ==
  /\ step[c] \in {"idle", "handler"} /\ GetInstallation(c) # Absent
  /\ IF Due(GetInstallation(c)) THEN Goto(c, "asks", GetInstallation(c)) /\ UNCHANGED fresh
     ELSE Acts(c, GetInstallation(c))
  /\ UNCHANGED <<grant, lives, accepted, revoked, stored, lost>>

(* (mutant: the refresh token of the answer is not taken over) *)
RefreshedAccess(i, answer) == i.refresh

(* The refresh token of what is made of an installation and the answer.      *)
Refreshed(i, answer) == IF answer.refresh # Absent THEN answer.refresh ELSE i.refresh

(* The server answers, then the answer is stored and the caller goes on.     *)
Refresh(c) ==
  LET n == Len(lives) + 1
      answer == [refresh |-> IF grant.refresh = "rotates" THEN n ELSE Absent] IN
  /\ step[c] = "asks" /\ n <= MaxTokens
  /\ Tenants => held[c].refresh \in accepted
  /\ lives' = Append(lives, Lifetime)
  /\ accepted' = IF grant.refresh = "rotates" THEN (accepted \ {held[c].refresh}) \cup {n} ELSE accepted
  /\ Goto(c, "answered", Installation(n, Refreshed(held[c], answer), Lifetime))
  /\ UNCHANGED <<grant, revoked, stored, fresh, lost>>

Store(c) ==
  /\ step[c] = "answered"
  /\ stored' = held[c]
  /\ Acts(c, held[c])
  /\ UNCHANGED <<grant, lives, accepted, revoked, lost>>

(* The server takes a refresh token no longer; or its answer, or the process *)
(* that has it, is lost.  Either way the call raises.                        *)
Refused(c) ==
  /\ step[c] = "asks" /\ Tenants /\ held[c].refresh \notin accepted
  /\ End(c)
  /\ UNCHANGED <<grant, lives, accepted, revoked, stored, fresh, lost>>

AnswerLost(c) ==
  /\ step[c] = "answered" /\ End(c) /\ lost' = TRUE
  /\ UNCHANGED <<grant, lives, accepted, revoked, stored, fresh>>

HandlersEnd(c) ==
  /\ step[c] = "handler" /\ End(c)
  /\ UNCHANGED <<grant, lives, accepted, revoked, stored, fresh, lost>>

(* The bot is installed (again): the code is exchanged, then the answer      *)
(* stored, unless something fails in between.                                *)
Install(c) ==
  LET n == Len(lives) + 1
      refresh == IF grant.refresh = "none" THEN Absent ELSE n IN
  /\ Tenants /\ step[c] = "idle" /\ n <= MaxTokens
  /\ lives' = Append(lives, Lifetime) /\ accepted' = accepted \cup ({refresh} \ {Absent})
  /\ Goto(c, "installs", Installation(n, refresh, Lifetime))
  /\ UNCHANGED <<grant, revoked, stored, fresh, lost>>

SetInstallation(c) ==
  /\ step[c] = "installs" /\ stored' = held[c] /\ lost' = FALSE /\ End(c)
  /\ UNCHANGED <<grant, lives, accepted, revoked, fresh>>

InstallFails(c) ==
  /\ step[c] = "installs" /\ End(c)
  /\ UNCHANGED <<grant, lives, accepted, revoked, stored, fresh, lost>>

-----------------------------------------------------------------------------
(***************************************************************************)
(* Revocation, and time                                                    *)
(***************************************************************************)

Revoke ==
  /\ Tenants /\ revoked' = DOMAIN lives /\ accepted' = {}
  /\ UNCHANGED <<grant, lives, stored, step, held, fresh, lost>>

(* The webhook of a revocation comes when it comes.                          *)
DeleteInstallation ==
  /\ revoked # {} /\ stored # Absent /\ stored' = Absent
  /\ UNCHANGED <<grant, lives, accepted, revoked, step, held, fresh, lost>>

Less(n) == IF n = 0 THEN 0 ELSE n - 1
Older(i) == IF i = Absent THEN Absent ELSE [i EXCEPT !.left = Less(i.left)]

(* What stands between answer and storing, requests with a timeout of 30 s   *)
(* and a call of the state, takes less time than the buffer.                 *)
Tick ==
  /\ \A c \in Askers : step[c] \in {"answered", "installs"} => lives[held[c].access] > Lifetime - Buffer + 1
  /\ lives' = [n \in DOMAIN lives |-> Less(lives[n])]
  /\ stored' = Older(stored)
  /\ held' = [c \in Askers |-> IF step[c] = "handler" THEN Older(held[c]) ELSE held[c]]
  /\ UNCHANGED <<grant, accepted, revoked, step, fresh, lost>>

Next ==
  \/ \E c \in Askers :
       \/ Webhook(c) \/ Begin(c) \/ Refresh(c) \/ Store(c) \/ Refused(c) \/ AnswerLost(c)
       \/ HandlersEnd(c) \/ Install(c) \/ SetInstallation(c) \/ InstallFails(c)
  \/ Revoke \/ DeleteInstallation \/ Tick

Spec == Init /\ [][Next]_vars

-----------------------------------------------------------------------------
(***************************************************************************)
(* Properties                                                              *)
(***************************************************************************)

(* Variables have their types. *)
TypeOK ==
  /\ grant \in Grants /\ lives \in Seq(Nat) /\ accepted \subseteq Nat /\ revoked \subseteq Nat
  /\ stored \in Installations \cup {Absent}
  /\ step \in [Askers -> {"idle", "handler", "asks", "answered", "installs"}]
  /\ held \in [Askers -> Installations \cup {Absent}]
  /\ fresh \in BOOLEAN /\ lost \in BOOLEAN

-----------------------------------------------------------------------------
(***************************************************************************)
(* The inductive invariant                                                 *)
(***************************************************************************)

(* An installation names a token the server has granted, with the refresh    *)
(* token that this server gives.                                             *)
Granted(i) ==
  /\ i \in Installations /\ i.access \in DOMAIN lives
  /\ i.refresh = Absent <=> grant.refresh = "none"
  /\ grant.refresh = "rotates" => i.refresh = i.access

(* What an installation says is left of its token is wrong by less than the  *)
(* buffer.                                                                   *)
Close(i) == i.left < lives[i.access] + Buffer

(* Whoever has a new installation that is not stored yet is alone with it,   *)
(* and the server still takes its refresh token.                             *)
HasNew(c) == step[c] \in {"answered", "installs"}
NewIsOwn ==
  \A c \in Askers : HasNew(c) =>
    /\ \A d \in Askers \ {c} : step[d] # "idle" => held[d].access # held[c].access
    /\ stored # Absent => stored.access # held[c].access
    /\ held[c].refresh # Absent /\ held[c].access \notin revoked => held[c].refresh \in accepted

(* If the refresh token that is stored is spent, somebody has its successor, *)
(* unless it was lost.                                                       *)
SpentIsReplaced ==
  stored # Absent /\ stored.refresh # Absent /\ stored.access \notin revoked
  => stored.refresh \in accepted \/ lost \/ \E c \in Askers : step[c] = "answered"

IndInv ==
  /\ TypeOK
  /\ stored # Absent => Granted(stored) /\ Close(stored)
  /\ \A c \in Askers :
       /\ step[c] # "idle" => Granted(held[c])
       /\ step[c] = "handler" => Close(held[c])
       /\ HasNew(c) => held[c].left = Lifetime /\ Close(held[c])
  /\ NewIsOwn /\ SpentIsReplaced /\ BeginsFresh

=============================================================================
