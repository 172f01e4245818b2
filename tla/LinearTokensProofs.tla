------------------------- MODULE LinearTokensProofs -------------------------
(***************************************************************************)
(* What LinearTokens guarantees for any number of callers and tokens, and  *)
(* any lifetime and buffer.                                                *)
(***************************************************************************)
EXTENDS LinearTokens, TLAPS

USE TokensAssumption, AbsentAssumption

LEMMA InitInv ==
  Init => IndInv
<1> SUFFICES ASSUME Init PROVE IndInv
  OBVIOUS
<1> DEFINE refresh == IF grant.refresh = "none" THEN Absent ELSE 1
<1>1. stored = Installation(1, refresh, Lifetime) /\ stored \in Installations
  BY DEF Init, Installation, Installations
<1>2. Lifetime \in Nat \ {0} /\ lives = <<Lifetime>> /\ DOMAIN lives = {1} /\ lives[1] = Lifetime /\ lives \in Seq(Nat)
  BY DEF Init
<1>3. accepted = {refresh} \ {Absent} /\ accepted \subseteq Nat /\ grant \in Grants
  BY <1>1 DEF Init, Installation
<1>4. TypeOK
  BY <1>1, <1>2, <1>3 DEF Init, TypeOK
<1>5. Granted(stored) /\ Close(stored)
  BY <1>1, <1>2 DEF Granted, Close, Installation
<1>6. stored.refresh # Absent => stored.refresh \in accepted
  BY <1>1, <1>3 DEF Installation
<1> QED
  BY <1>4, <1>5, <1>6 DEF Init, IndInv, NewIsOwn, HasNew, SpentIsReplaced, BeginsFresh

(* What stays granted when tokens are added or grow older.                   *)
LEMMA GrantedStays ==
  ASSUME IndInv, NEW i, Granted(i), UNCHANGED grant, DOMAIN lives \subseteq DOMAIN lives'
  PROVE  Granted(i)'
BY DEF Granted

-----------------------------------------------------------------------------
(***************************************************************************)
(* Callers                                                                 *)
(***************************************************************************)

LEMMA WebhookInv ==
  ASSUME IndInv, NEW c \in Askers, Webhook(c)
  PROVE  IndInv'
<1>1. /\ stored # Absent /\ step' = [step EXCEPT ![c] = "handler"] /\ held' = [held EXCEPT ![c] = stored]
      /\ UNCHANGED <<grant, lives, accepted, revoked, stored, fresh, lost>> /\ step[c] = "idle"
  BY DEF Webhook, Goto
<1>2. TypeOK'
  BY <1>1 DEF IndInv, TypeOK
<1>3. NewIsOwn'
  BY <1>1 DEF IndInv, TypeOK, NewIsOwn, HasNew
<1> QED
  BY <1>1, <1>2, <1>3 DEF IndInv, TypeOK, Granted, Close, HasNew, SpentIsReplaced, BeginsFresh, Tenants

(* Who ends a call holds nothing, and disturbs nobody.                       *)
LEMMA EndInv ==
  ASSUME IndInv, NEW c \in Askers, End(c),
         UNCHANGED <<grant, lives, accepted, revoked, stored>>,
         fresh' \in BOOLEAN, BeginsFresh',
         lost' \in BOOLEAN, step[c] = "answered" \/ lost => lost'
  PROVE  IndInv'
<1>1. step' = [step EXCEPT ![c] = "idle"] /\ held' = [held EXCEPT ![c] = Absent]
  BY DEF End, Goto
<1>2. TypeOK'
  BY <1>1 DEF IndInv, TypeOK
<1>3. \A d \in Askers : step'[d] # "idle" => d # c /\ step'[d] = step[d] /\ held'[d] = held[d]
  BY <1>1 DEF IndInv, TypeOK
<1>4. NewIsOwn'
  BY <1>3 DEF IndInv, NewIsOwn, HasNew
<1>5. SpentIsReplaced'
  BY <1>1 DEF IndInv, TypeOK, SpentIsReplaced
<1> QED
  BY <1>2, <1>3, <1>4, <1>5 DEF IndInv, Granted, Close, HasNew

(* A token that is not due is good, for it has more left than the buffer.    *)
LEMMA NotDueIsGood ==
  ASSUME IndInv, NEW i, Granted(i), Close(i), ~Due(i),
         IF Tenants THEN grant.refresh # "none" ELSE grant.told
  PROVE  lives[i.access] > 0
<1>1. i.left \in Nat /\ lives[i.access] \in Nat
  BY DEF IndInv, TypeOK, Granted, Installations
<1>2. CASE Tenants
  <2>1. i.left > Buffer
    BY <1>1, <1>2 DEF Due, Granted
  <2> QED
    BY <1>1, <2>1 DEF Close
<1>3. CASE ~Tenants
  <2>1. i.left >= Buffer
    BY <1>1, <1>3 DEF Due
  <2> QED
    BY <1>1, <2>1 DEF Close
<1> QED
  BY <1>2, <1>3

LEMMA BeginInv ==
  ASSUME IndInv, NEW c \in Askers, Begin(c)
  PROVE  IndInv'
<1> DEFINE i == GetInstallation(c)
<1>1. i # Absent /\ Granted(i) /\ Close(i)
  BY DEF Begin, GetInstallation, IndInv
<1>2. UNCHANGED <<grant, lives, accepted, revoked, stored, lost>> /\ step[c] \in {"idle", "handler"}
  BY DEF Begin
<1>3. CASE Due(i)
  <2>1. step' = [step EXCEPT ![c] = "asks"] /\ held' = [held EXCEPT ![c] = i] /\ fresh' = fresh
    BY <1>3 DEF Begin, Goto
  <2>2. TypeOK'
    BY <1>1, <1>2, <2>1 DEF IndInv, TypeOK, Granted
  <2>3. \A d \in Askers \ {c} : step'[d] = step[d] /\ held'[d] = held[d]
    BY <2>1 DEF IndInv, TypeOK
  <2>4. step'[c] = "asks" /\ held'[c] = i
    BY <2>1 DEF IndInv, TypeOK
  <2>5. NewIsOwn'
    BY <1>1, <1>2, <2>3, <2>4 DEF IndInv, NewIsOwn, HasNew, GetInstallation
  <2>6. SpentIsReplaced' /\ BeginsFresh'
    BY <1>2, <2>1, <2>3 DEF IndInv, SpentIsReplaced, BeginsFresh, Tenants
  <2>7. \A d \in Askers :
          /\ step'[d] # "idle" => Granted(held[d])'
          /\ step'[d] = "handler" => Close(held[d])'
          /\ HasNew(d)' => held'[d].left = Lifetime /\ Close(held[d])'
    BY <1>1, <1>2, <2>3, <2>4 DEF IndInv, Granted, Close, HasNew
  <2> QED
    BY <1>2, <2>2, <2>5, <2>6, <2>7 DEF IndInv, Granted, Close
<1>4. CASE ~Due(i)
  <2>1. End(c) /\ fresh' = (fresh /\ lives[i.access] > 0)
    BY <1>4 DEF Begin, Acts
  <2>2. BeginsFresh'
    BY <1>1, <1>2, <1>4, <2>1, NotDueIsGood DEF IndInv, BeginsFresh, Tenants
  <2> QED
    BY <1>2, <2>1, <2>2, EndInv DEF IndInv, TypeOK
<1> QED
  BY <1>3, <1>4

(* A new token is alone, for its number is new; and of the refresh tokens    *)
(* that were accepted only the one it was got with goes.                     *)
LEMMA NewTokenInv ==
  ASSUME IndInv, NEW c \in Askers, NEW s \in {"answered", "installs"}, NEW refresh \in Nat \cup {Absent},
         step[c] # "answered", Goto(c, s, Installation(Len(lives) + 1, refresh, Lifetime)),
         lives' = Append(lives, Lifetime),
         UNCHANGED <<grant, revoked, stored, fresh, lost>>,
         refresh = Absent <=> grant.refresh = "none",
         grant.refresh = "rotates" => refresh = Len(lives) + 1,
         accepted' \subseteq Nat, refresh # Absent => refresh \in accepted',
         \A r \in accepted \ accepted' :
           s = "answered" /\ grant.refresh = "rotates" /\ step[c] = "asks" /\ r = held[c].refresh
  PROVE  IndInv'
<1>1. PICK n : n = Len(lives) + 1
  OBVIOUS
<1>2. PICK new : new = Installation(n, refresh, Lifetime)
  OBVIOUS
<1>3. /\ n \in Nat \ {0} /\ n # Absent /\ n \notin DOMAIN lives /\ DOMAIN lives = 1..Len(lives)
      /\ Lifetime \in Nat
  BY <1>1 DEF IndInv, TypeOK
<1>4. /\ lives' \in Seq(Nat) /\ DOMAIN lives' = 1..n /\ lives'[n] = Lifetime
      /\ \A k \in DOMAIN lives : lives'[k] = lives[k]
  BY <1>1, <1>3 DEF IndInv, TypeOK
<1>5. /\ step'[c] = s /\ held'[c] = new
      /\ \A d \in Askers \ {c} : step'[d] = step[d] /\ held'[d] = held[d]
  BY <1>1, <1>2 DEF Goto, IndInv, TypeOK
<1>6. new \in Installations /\ Granted(new)' /\ new.access = n /\ new.refresh = refresh
  BY <1>1, <1>2, <1>3, <1>4 DEF Granted, Installation, Installations
<1>7. TypeOK'
  BY <1>1, <1>2, <1>3, <1>4, <1>6 DEF Goto, IndInv, TypeOK
<1>8. \A i : Granted(i) => Granted(i)' /\ i.access # n /\ (Close(i) => Close(i)')
  BY <1>3, <1>4 DEF Granted, Close
<1>9. NewIsOwn'
  <2> SUFFICES ASSUME NEW a \in Askers, HasNew(a)'
               PROVE  /\ \A d \in Askers \ {a} : step'[d] # "idle" => held'[d].access # held'[a].access
                      /\ stored' # Absent => stored'.access # held'[a].access
                      /\ held'[a].refresh # Absent /\ held'[a].access \notin revoked'
                           => held'[a].refresh \in accepted'
    BY DEF NewIsOwn
  <2>1. CASE a = c
    <3>1. \A d \in Askers \ {c} : step'[d] # "idle" => held'[d].access # n
      BY <1>5, <1>8 DEF IndInv
    <3>2. stored' # Absent => stored'.access # n
      BY <1>8 DEF IndInv
    <3> QED
      BY <2>1, <1>5, <1>6, <3>1, <3>2
  <2>2. CASE a # c
    <3>1. HasNew(a) /\ held'[a] = held[a] /\ Granted(held[a]) /\ held[a].access # n
      BY <1>5, <1>8, <2>2 DEF HasNew, IndInv
    <3>2. step[c] = "asks" => held[a].access # held[c].access /\ Granted(held[c])
      BY <2>2, <3>1 DEF IndInv, NewIsOwn
    <3>3. held[a].refresh \in accepted => held[a].refresh \in accepted'
      BY <3>1, <3>2 DEF Granted
    <3>4. \A d \in Askers \ {a} : step'[d] # "idle" => held'[d].access # held'[a].access
      BY <1>5, <1>6, <3>1 DEF IndInv, NewIsOwn
    <3> QED
      BY <3>1, <3>3, <3>4 DEF IndInv, NewIsOwn
  <2> QED
    BY <2>1, <2>2
<1>10. SpentIsReplaced'
  <2>1. CASE s = "answered"
    BY <1>5, <2>1 DEF SpentIsReplaced
  <2>2. CASE s # "answered"
    <3>1. accepted \subseteq accepted'
      BY <2>2
    <3>2. step[c] # "answered"
      OBVIOUS
    <3> QED
      BY <1>5, <3>1, <3>2 DEF IndInv, SpentIsReplaced
  <2> QED
    BY <2>1, <2>2
<1>11. Close(new)' /\ new.left = Lifetime
  BY <1>2, <1>3, <1>4, <1>6 DEF Close, Installation
<1>12. \A d \in Askers :
         /\ step'[d] # "idle" => Granted(held[d])'
         /\ step'[d] = "handler" => Close(held[d])'
         /\ HasNew(d)' => held'[d].left = Lifetime /\ Close(held[d])'
  <2> SUFFICES ASSUME NEW d \in Askers
               PROVE  /\ step'[d] # "idle" => Granted(held[d])'
                      /\ step'[d] = "handler" => Close(held[d])'
                      /\ HasNew(d)' => held'[d].left = Lifetime /\ Close(held[d])'
    OBVIOUS
  <2>1. CASE d = c
    BY <2>1, <1>5, <1>6, <1>11 DEF Granted, Close
  <2>2. CASE d # c
    BY <2>2, <1>5, <1>8 DEF IndInv, Granted, Close, HasNew
  <2> QED
    BY <2>1, <2>2
<1>13. stored' # Absent => Granted(stored)' /\ Close(stored)'
  BY <1>8 DEF IndInv, Granted, Close
<1> QED
  BY <1>7, <1>9, <1>10, <1>12, <1>13 DEF IndInv, BeginsFresh, Tenants

LEMMA RefreshInv ==
  ASSUME IndInv, NEW c \in Askers, Refresh(c)
  PROVE  IndInv'
<1> DEFINE rotates == grant.refresh = "rotates"
           n == Len(lives) + 1
           refresh == IF rotates THEN n ELSE held[c].refresh
<1>1. step[c] = "asks" /\ Granted(held[c]) /\ UNCHANGED <<grant, revoked, stored, fresh, lost>>
  BY DEF Refresh, IndInv
<1>2. n \in Nat \ {0} /\ n # Absent
  BY DEF IndInv, TypeOK
<1>3. refresh \in Nat \cup {Absent} /\ (refresh = Absent <=> grant.refresh = "none")
  BY <1>1, <1>2 DEF Granted, Installations
<1>4. Goto(c, "answered", Installation(n, refresh, Lifetime)) /\ lives' = Append(lives, Lifetime)
  BY <1>2 DEF Refresh, Refreshed
<1>5. accepted' = IF rotates THEN (accepted \ {held[c].refresh}) \cup {n} ELSE accepted
  BY DEF Refresh
<1>6. accepted' \subseteq Nat
  BY <1>2, <1>5 DEF IndInv, TypeOK
<1>7. refresh # Absent => refresh \in accepted'
  <2>1. ~Tenants => grant.refresh = "none"
    BY GrantsAssumption DEF IndInv, TypeOK, Tenants
  <2> QED
    BY <1>1, <1>3, <1>5, <2>1 DEF Refresh
<1> QED
  BY <1>1, <1>3, <1>4, <1>5, <1>6, <1>7, NewTokenInv

LEMMA InstallInv ==
  ASSUME IndInv, NEW c \in Askers, Install(c)
  PROVE  IndInv'
<1> DEFINE n == Len(lives) + 1
           refresh == IF grant.refresh = "none" THEN Absent ELSE n
<1>1. n \in Nat \ {0} /\ n # Absent
  BY DEF IndInv, TypeOK
<1>2. /\ step[c] = "idle" /\ UNCHANGED <<grant, revoked, stored, fresh, lost>>
      /\ Goto(c, "installs", Installation(n, refresh, Lifetime)) /\ lives' = Append(lives, Lifetime)
      /\ accepted' = accepted \cup ({refresh} \ {Absent})
  BY DEF Install
<1>3. accepted' \subseteq Nat
  BY <1>1, <1>2 DEF IndInv, TypeOK
<1> QED
  BY <1>1, <1>2, <1>3, NewTokenInv

(* What is stored is new, so that its refresh token is accepted.             *)
LEMMA StoredInv ==
  ASSUME IndInv, NEW c \in Askers, HasNew(c), stored' = held[c], End(c),
         UNCHANGED <<grant, lives, accepted, revoked>>,
         fresh' \in BOOLEAN, BeginsFresh', lost' \in BOOLEAN
  PROVE  IndInv'
<1>1. step' = [step EXCEPT ![c] = "idle"] /\ held' = [held EXCEPT ![c] = Absent]
  BY DEF End, Goto
<1>2. Granted(held[c]) /\ Close(held[c])
  BY DEF IndInv, HasNew
<1>3. TypeOK'
  BY <1>1, <1>2 DEF IndInv, TypeOK, Granted
<1>4. \A d \in Askers : step'[d] # "idle" => d # c /\ step'[d] = step[d] /\ held'[d] = held[d]
  BY <1>1 DEF IndInv, TypeOK
<1>5. NewIsOwn'
  BY <1>4 DEF IndInv, NewIsOwn, HasNew
<1>6. SpentIsReplaced'
  BY DEF IndInv, NewIsOwn, SpentIsReplaced
<1> QED
  BY <1>2, <1>3, <1>4, <1>5, <1>6 DEF IndInv, Granted, Close, HasNew

LEMMA StoreInv ==
  ASSUME IndInv, NEW c \in Askers, Store(c)
  PROVE  IndInv'
<1>1. HasNew(c) /\ stored' = held[c] /\ End(c) /\ UNCHANGED <<grant, lives, accepted, revoked, lost>>
      /\ fresh' = (fresh /\ lives[held[c].access] > 0)
  BY DEF Store, Acts, HasNew
<1>2. lives[held[c].access] > 0
  <2>1. Granted(held[c]) /\ held[c].left = Lifetime /\ Close(held[c])
    BY <1>1 DEF IndInv, HasNew
  <2>2. lives[held[c].access] \in Nat
    BY <2>1 DEF Granted, IndInv, TypeOK
  <2> QED
    BY <2>1, <2>2 DEF Close
<1>3. fresh' \in BOOLEAN /\ BeginsFresh' /\ lost' \in BOOLEAN
  BY <1>1, <1>2 DEF IndInv, TypeOK, BeginsFresh, Tenants
<1> QED
  BY <1>1, <1>3, StoredInv

LEMMA SetInstallationInv ==
  ASSUME IndInv, NEW c \in Askers, SetInstallation(c)
  PROVE  IndInv'
<1>1. HasNew(c) /\ stored' = held[c] /\ End(c) /\ lost' = FALSE
      /\ UNCHANGED <<grant, lives, accepted, revoked, fresh>>
  BY DEF SetInstallation, HasNew
<1>2. fresh' \in BOOLEAN /\ BeginsFresh'
  BY <1>1 DEF IndInv, TypeOK, BeginsFresh, Tenants
<1> QED
  BY <1>1, <1>2, StoredInv

(* The other ways in which a call ends.                                      *)
LEMMA CallEndsInv ==
  ASSUME IndInv, NEW c \in Askers,
         Refused(c) \/ AnswerLost(c) \/ HandlersEnd(c) \/ InstallFails(c)
  PROVE  IndInv'
<1>1. End(c) /\ UNCHANGED <<grant, lives, accepted, revoked, stored, fresh>>
  BY DEF Refused, AnswerLost, HandlersEnd, InstallFails
<1>2. lost' \in BOOLEAN /\ (step[c] = "answered" \/ lost => lost')
  BY DEF Refused, AnswerLost, HandlersEnd, InstallFails, IndInv, TypeOK
<1>3. fresh' \in BOOLEAN /\ BeginsFresh'
  BY <1>1 DEF IndInv, TypeOK, BeginsFresh, Tenants
<1> QED
  BY <1>1, <1>2, <1>3, EndInv

-----------------------------------------------------------------------------
(***************************************************************************)
(* Revocation, and time                                                    *)
(***************************************************************************)

LEMMA RevokeInv ==
  ASSUME IndInv, Revoke
  PROVE  IndInv'
<1>1. revoked' = DOMAIN lives /\ accepted' = {} /\ UNCHANGED <<grant, lives, stored, step, held, fresh, lost>>
  BY DEF Revoke
<1>2. TypeOK'
  BY <1>1 DEF IndInv, TypeOK
<1>3. \A i : Granted(i) => i.access \in revoked'
  BY <1>1 DEF Granted
<1>4. NewIsOwn'
  BY <1>1, <1>3 DEF IndInv, NewIsOwn, HasNew
<1>5. SpentIsReplaced'
  BY <1>1, <1>3 DEF IndInv, SpentIsReplaced
<1> QED
  BY <1>1, <1>2, <1>4, <1>5 DEF IndInv, Granted, Close, HasNew, BeginsFresh, Tenants

LEMMA DeleteInv ==
  ASSUME IndInv, DeleteInstallation
  PROVE  IndInv'
BY DEF DeleteInstallation, IndInv, TypeOK, Granted, Close, HasNew, NewIsOwn, SpentIsReplaced, BeginsFresh, Tenants

LEMMA TickInv ==
  ASSUME IndInv, Tick
  PROVE  IndInv'
<1>1. /\ lives' = [n \in DOMAIN lives |-> Less(lives[n])] /\ stored' = Older(stored)
      /\ held' = [c \in Askers |-> IF step[c] = "handler" THEN Older(held[c]) ELSE held[c]]
      /\ UNCHANGED <<grant, accepted, revoked, step, fresh, lost>>
  BY DEF Tick
<1>2. \A n \in Nat : Less(n) \in Nat
  BY DEF Less
<1>3. lives' \in Seq(Nat) /\ DOMAIN lives' = DOMAIN lives
  <2>1. Len(lives) \in Nat /\ DOMAIN lives = 1..Len(lives) /\ \A n \in 1..Len(lives) : lives[n] \in Nat
    BY DEF IndInv, TypeOK
  <2> QED
    BY <1>1, <1>2, <2>1
<1>4. \A i \in Installations \cup {Absent} : Older(i) \in Installations \cup {Absent}
  BY <1>2 DEF Older, Installations
<1>5. TypeOK'
  BY <1>1, <1>3, <1>4 DEF IndInv, TypeOK
<1>6. \A i : Granted(i) => Granted(i)'
  BY <1>1, <1>3 DEF Granted
<1>7. ASSUME NEW i, Granted(i), NEW j, j = Older(i)
      PROVE  /\ Granted(j)' /\ j.access = i.access /\ j.refresh = i.refresh
             /\ Close(i) => Close(j)'
  <2>1. j = [i EXCEPT !.left = Less(i.left)]
    BY <1>7 DEF Older, Granted
  <2>2. j \in Installations /\ j.access = i.access /\ j.refresh = i.refresh /\ j.left = Less(i.left)
    BY <1>2, <1>7, <2>1 DEF Granted, Installations
  <2>3. Granted(j)'
    BY <1>1, <1>3, <1>7, <2>2 DEF Granted
  <2>4. lives[i.access] \in Nat /\ i.left \in Nat /\ lives'[i.access] = Less(lives[i.access])
    BY <1>1, <1>7 DEF Granted, Installations, IndInv, TypeOK
  <2>5. Close(i) => Close(j)'
    BY <2>2, <2>4 DEF Close, Less
  <2> QED
    BY <2>2, <2>3, <2>5
<1>8. \A c \in Askers : /\ step'[c] = step[c]
                         /\ held'[c] = IF step[c] = "handler" THEN Older(held[c]) ELSE held[c]
  BY <1>1
<1>9. \A c \in Askers : step[c] # "idle" => /\ Granted(held[c])' /\ held'[c].access = held[c].access
                                           /\ held'[c].refresh = held[c].refresh
  BY <1>6, <1>7, <1>8 DEF IndInv, Granted
<1>10. \A c \in Askers : step[c] = "handler" => Close(held[c])'
  BY <1>7, <1>8 DEF IndInv, Close
<1>11. ASSUME NEW c \in Askers, HasNew(c)
       PROVE  held'[c].left = Lifetime /\ Close(held[c])'
  <2>1. held'[c] = held[c] /\ Granted(held[c]) /\ held[c].left = Lifetime
    BY <1>8, <1>11 DEF HasNew, IndInv
  <2>2. lives[held[c].access] \in Nat /\ lives'[held[c].access] = Less(lives[held[c].access])
    BY <1>1, <2>1 DEF Granted, IndInv, TypeOK
  <2>3. lives[held[c].access] > Lifetime - Buffer + 1
    BY <1>11 DEF Tick, HasNew
  <2> QED
    BY <2>1, <2>2, <2>3 DEF Close, Less
<1>12. stored # Absent => /\ Granted(stored)' /\ Close(stored)'
                          /\ stored'.access = stored.access /\ stored'.refresh = stored.refresh
  BY <1>1, <1>7 DEF IndInv, Granted, Close
<1>13. stored' # Absent => stored # Absent
  BY <1>1 DEF Older
<1>14. NewIsOwn'
  BY <1>1, <1>8, <1>9, <1>12, <1>13 DEF IndInv, NewIsOwn, HasNew
<1>15. SpentIsReplaced'
  BY <1>1, <1>12, <1>13 DEF IndInv, SpentIsReplaced
<1> QED
  BY <1>1, <1>5, <1>8, <1>9, <1>10, <1>11, <1>12, <1>13, <1>14, <1>15
     DEF IndInv, HasNew, BeginsFresh, Tenants

-----------------------------------------------------------------------------
(***************************************************************************)
(* The theorems                                                            *)
(***************************************************************************)

LEMMA NextInv ==
  IndInv /\ [Next]_vars => IndInv'
<1> SUFFICES ASSUME IndInv, [Next]_vars PROVE IndInv'
  OBVIOUS
<1>1. ASSUME NEW c \in Askers,
             \/ Webhook(c) \/ Begin(c) \/ Refresh(c) \/ Store(c) \/ Refused(c) \/ AnswerLost(c)
             \/ HandlersEnd(c) \/ Install(c) \/ SetInstallation(c) \/ InstallFails(c)
      PROVE  IndInv'
  BY <1>1, WebhookInv, BeginInv, RefreshInv, StoreInv, CallEndsInv, InstallInv, SetInstallationInv
<1>2. CASE Revoke \/ DeleteInstallation \/ Tick
  BY <1>2, RevokeInv, DeleteInv, TickInv
<1>3. CASE UNCHANGED vars
  BY <1>3 DEF vars, IndInv, TypeOK, Granted, Close, HasNew, NewIsOwn, SpentIsReplaced, BeginsFresh, Tenants
<1> QED
  BY <1>1, <1>2, <1>3 DEF Next

LEMMA InvHolds == Spec => []IndInv
<1> QED
  BY InitInv, NextInv, PTL DEF Spec

(* Variables have their types.                                               *)
THEOREM TypesKept == Spec => []TypeOK
<1>1. IndInv => TypeOK
  BY DEF IndInv
<1> QED
  BY <1>1, InvHolds, PTL

(* Refreshes, installations and failures of any number of callers leave an   *)
(* installation that can be refreshed, and who asks for a token gets one     *)
(* with time left.                                                           *)
THEOREM TokensStayGood == Spec => []TokensGood
<1>1. IndInv => TokensGood
  BY DEF IndInv, SpentIsReplaced, TokensGood, Refreshable
<1> QED
  BY <1>1, InvHolds, PTL

=============================================================================
