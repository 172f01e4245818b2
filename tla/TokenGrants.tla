---------------------------- MODULE TokenGrants -----------------------------
(***************************************************************************)
(* The state of LinearTokens, what the adapter and its server may be set   *)
(* up for, and what the tokens promise.                                    *)
(***************************************************************************)
EXTENDS Naturals

CONSTANTS
  Askers,       \* who calls the adapter
  Grants,       \* what the adapter and the server may be set up for
  Absent,       \* no installation, no refresh token
  Lifetime,     \* ticks an access token is good for
  Buffer,       \* ticks before its end from which a token is refreshed
  MaxTokens     \* access tokens there will be (a bound)

(* Refresh tokens may be missing, stay the same, or be good for one use.     *)
ASSUME GrantsAssumption ==
  Grants \subseteq [mode : {"tenants"}, told : BOOLEAN, refresh : {"none", "fixed", "rotates"}]
                   \cup [mode : {"credentials"}, told : BOOLEAN, refresh : {"none"}]

ASSUME TokensAssumption ==
  Lifetime \in Nat /\ Buffer \in 1..(Lifetime - 1) /\ MaxTokens \in Nat \ {0}

(* LinearInstallation (types.py 29-36). *)
Installations == [access : Nat \ {0}, refresh : Nat \cup {Absent}, left : Nat]

ASSUME AbsentAssumption == Absent \notin Nat \cup Installations

VARIABLES
  grant,        \* mode of the adapter; whether the server tells lifetimes; its refresh tokens
  lives,        \* the server: what is left of each access token
  accepted,     \* the server: the refresh tokens it takes
  revoked,      \* the server: the access tokens whose grant was revoked
  stored,       \* the installation, or the default token
  step,         \* per caller: where it is
  held,         \* per caller: the installation it has in hand
  fresh,        \* auxiliary: who has begun to act had a token with time left
  lost          \* auxiliary: the answer to a refresh was lost since the last installation

(* is_multi_tenant *)
Tenants == grant.mode = "tenants"

-----------------------------------------------------------------------------
(* However many refresh, install or raise at once, the installation that is  *)
(* left can be refreshed, unless it was revoked or an answer was lost.       *)
Refreshable ==
  stored # Absent /\ stored.refresh # Absent /\ stored.access \notin revoked /\ ~lost
  /\ (\A c \in Askers : step[c] # "answered")
  => stored.refresh \in accepted

(* Who asks for a token gets one that is good, where it can be refreshed and *)
(* the adapter knows when it ends; a webhook does not ask.                   *)
BeginsFresh ==
  (IF Tenants THEN grant.refresh # "none" ELSE grant.told) => fresh

(* Tokens stay good: those that are stored, and those that are handed out.   *)
TokensGood == Refreshable /\ BeginsFresh
=============================================================================
