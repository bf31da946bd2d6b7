---------------------------- MODULE Admin_proofs ----------------------------
(***************************************************************************)
(* What administrators and the scheduler do, for every set of names, files,*)
(* buses, dates and runs, and every bound of calls, uploads and faults:    *)
(* driver accounts, the catalog of routes, the fleet that refers to it,    *)
(* and the retraining of models.                                           *)
(***************************************************************************)
EXTENDS DriverAccounts, FleetAdmin, Retraining, FiniteSetTheorems, TLAPS

-----------------------------------------------------------------------------
(* Driver accounts: a call and what it leaves.                              *)

LEMMA CallKinds ==
    ASSUME AccountsTypeOK
    PROVE  /\ NoCall \notin AddCall \union EndCall /\ NoCall.kind = "none"
           /\ \A w \in AddCall : /\ w.kind = "add" /\ w.username \in Usernames
                                 /\ w.license \in Licenses
           /\ \A w \in EndCall : w.kind = "deactivate" /\ w.driver \in Calls
           /\ \A c \in Calls :
                 /\ call[c].kind = "none" <=> call[c] = NoCall
                 /\ call[c].kind = "add" => call[c] \in AddCall
                 /\ call[c].kind = "deactivate" => call[c] \in EndCall
                 /\ call[c].kind \in {"none", "add", "deactivate"}
<1>1. NoCall.kind = "none"
  BY DEF NoCall
<1>2. \A w \in AddCall : /\ w.kind = "add" /\ w.username \in Usernames
                         /\ w.license \in Licenses
  BY DEF AddCall
<1>3. \A w \in EndCall : w.kind = "deactivate" /\ w.driver \in Calls
  BY DEF EndCall
<1>4. \A c \in Calls : call[c] \in AddCall \union EndCall \union {NoCall}
  BY DEF AccountsTypeOK
<1>5. QED
  BY <1>1, <1>2, <1>3, <1>4

LEMMA CallNumbers ==
    ASSUME AccountsTypeOK
    PROVE  /\ MaxCalls \in Nat /\ MaxFaults \in Nat /\ calls \in Nat
           /\ \A c \in Calls : c \in Nat /\ c # 0 /\ c <= MaxCalls
           /\ calls < MaxCalls => calls + 1 \in Calls
BY AccountsAssumption DEF AccountsTypeOK, Calls

(* What is known of call c whatever it is.                                  *)
Stage(c) ==
    /\ call[c] = NoCall <=> c > calls
    /\ call[c] = NoCall => NotYet(c)
    /\ call[c].kind = "add" => AddsItsOwn(c)
    /\ call[c].kind = "deactivate" => TakesFromInactive(c)
    /\ license[c] # "none" => profile[c] # "none"

LEMMA StagesAre == CallsInStages <=> \A c \in Calls : Stage(c)
BY DEF CallsInStages, Stage

(* Facts of a state in which the invariant holds.                           *)
LEMMA AccountFacts ==
    ASSUME AccountsTypeOK, CallsInStages, NEW c \in Calls
    PROVE  /\ call[c].kind = "none" => NotYet(c)
           /\ profile[c] # "none" => /\ call[c].kind = "add"
                                     /\ errand[c] = "done" /\ auth[c] = c
           /\ account[c] # "none" => call[c].kind = "add"
           /\ license[c] # "none" => profile[c] # "none"
           /\ (call[c].kind = "add" /\ pc[c] = "waiting")
                 => auth[c] = c /\ errand[c] # "none"
           /\ (call[c].kind = "add" /\ errand[c] # "none") => auth[c] = c
           /\ (call[c].kind = "deactivate" /\ errand[c] = "done") =>
                 /\ profile[call[c].driver] = "inactive"
                 /\ call[c].driver \in Calls
                 /\ auth[call[c].driver] = call[c].driver
<1>1. Stage(c)
  BY StagesAre
<1>2. /\ call[c].kind = "none" <=> call[c] = NoCall
      /\ call[c].kind \in {"none", "add", "deactivate"}
      /\ call[c].kind = "deactivate" => call[c].driver \in Calls
  BY CallKinds
<1>3. \A d \in Calls : profile[d] # "none" =>
         call[d].kind = "add" /\ errand[d] = "done" /\ auth[d] = d
  <2> SUFFICES ASSUME NEW d \in Calls, profile[d] # "none"
               PROVE  call[d].kind = "add" /\ errand[d] = "done" /\ auth[d] = d
    OBVIOUS
  <2>1. Stage(d) /\ call[d].kind \in {"none", "add", "deactivate"}
        /\ (call[d].kind = "none" <=> call[d] = NoCall)
    BY StagesAre, CallKinds
  <2>2. call[d].kind = "add"
    BY <2>1 DEF Stage, NotYet, TakesFromInactive
  <2>3. QED
    BY <2>1, <2>2 DEF Stage, AddsItsOwn
<1>4. account[c] # "none" => call[c].kind = "add"
  BY <1>1, <1>2 DEF Stage, NotYet, TakesFromInactive
<1>5. call[c].kind = "none" => NotYet(c)
  BY <1>1, <1>2 DEF Stage
<1>6. call[c].kind = "add" => AddsItsOwn(c)
  BY <1>1 DEF Stage
<1>7. (call[c].kind = "deactivate" /\ errand[c] = "done") =>
         profile[call[c].driver] = "inactive"
  BY <1>1 DEF Stage, TakesFromInactive
<1>8. license[c] # "none" => profile[c] # "none"
  BY <1>1 DEF Stage
<1>9. QED
  BY <1>2, <1>3, <1>4, <1>5, <1>6, <1>7, <1>8 DEF AddsItsOwn

-----------------------------------------------------------------------------
(* Types, and the licenses.                                                 *)

LEMMA AccountTypesKept ==
    ASSUME AccountsTypeOK, CallsInStages, [AccountsNext]_accountsVars
    PROVE  AccountsTypeOK'
<1>1. /\ admin \in BOOLEAN /\ calls \in 0 .. MaxCalls
      /\ call \in [Calls -> AddCall \union EndCall \union {NoCall}]
      /\ pc \in [Calls -> {"new", "waiting", "ended"}]
      /\ errand \in [Calls -> {"none", "pending", "done", "refused"}]
      /\ answer \in [Calls -> {0, 200, 400, 404, 500, 503}]
      /\ auth \in [Calls -> 0 .. MaxCalls]
      /\ account \in [Calls -> {"none", "bare", "enabled", "disabled"}]
      /\ profile \in [Calls -> {"none", "active", "inactive"}]
      /\ license \in [Calls -> Licenses \union {"none"}]
      /\ \A c, d \in Calls : (license[c] = license[d] /\ license[c] # "none")
                                => c = d
      /\ faults \in 0 .. MaxFaults
      /\ unsettled \subseteq Calls /\ unheard \subseteq Calls
  BY DEF AccountsTypeOK
<1>2. /\ MaxCalls \in Nat /\ MaxFaults \in Nat
      /\ \A c \in Calls : c \in 0 .. MaxCalls
  BY CallNumbers
<1> SUFFICES
      /\ admin' \in BOOLEAN /\ calls' \in 0 .. MaxCalls
      /\ call' \in [Calls -> AddCall \union EndCall \union {NoCall}]
      /\ pc' \in [Calls -> {"new", "waiting", "ended"}]
      /\ errand' \in [Calls -> {"none", "pending", "done", "refused"}]
      /\ answer' \in [Calls -> {0, 200, 400, 404, 500, 503}]
      /\ auth' \in [Calls -> 0 .. MaxCalls]
      /\ account' \in [Calls -> {"none", "bare", "enabled", "disabled"}]
      /\ profile' \in [Calls -> {"none", "active", "inactive"}]
      /\ license' \in [Calls -> Licenses \union {"none"}]
      /\ \A c, d \in Calls :
            (license'[c] = license'[d] /\ license'[c] # "none") => c = d
      /\ faults' \in 0 .. MaxFaults
      /\ unsettled' \subseteq Calls /\ unheard' \subseteq Calls
  BY DEF AccountsTypeOK
<1>3. \A c \in Calls : \A what \in AddCall \union EndCall :
         Arrives(c, what) =>
            /\ calls' \in 0 .. MaxCalls
            /\ call' \in [Calls -> AddCall \union EndCall \union {NoCall}]
  BY <1>1, <1>2 DEF Arrives
<1>4. \A c \in Calls : \A s \in {200, 400, 404, 500, 503} :
         AnswersCall(c, s) =>
            /\ answer' \in [Calls -> {0, 200, 400, 404, 500, 503}]
            /\ pc' \in [Calls -> {"new", "waiting", "ended"}]
  BY <1>1 DEF AnswersCall
<1>5. \A c \in Calls :
         Asks(c) =>
            /\ pc' \in [Calls -> {"new", "waiting", "ended"}]
            /\ errand' \in [Calls -> {"none", "pending", "done", "refused"}]
  BY <1>1 DEF Asks
<1>6. Fault => faults' \in 0 .. MaxFaults
  BY <1>1, <1>2 DEF Fault
<1>7. \A c \in Calls : Unsettled(c) => unsettled' \subseteq Calls
  BY <1>1 DEF Unsettled
<1>8. ASSUME NEW c \in Calls, NEW what \in AddCall,
             \/ CreateUser(c, what) \/ RefuseUser(c, what)
             \/ CreateUserFails(c, what) \/ AssignRoleFails(c, what)
      PROVE  AccountsTypeOK'
  <2>1. CASE CreateUser(c, what)
    BY <1>1, <1>2, <1>3, <1>5, <2>1 DEF CreateUser, AccountsTypeOK
  <2>2. CASE RefuseUser(c, what)
    BY <1>1, <1>3, <1>4, <2>2 DEF RefuseUser, AccountsTypeOK
  <2>3. CASE CreateUserFails(c, what)
    BY <1>1, <1>3, <1>4, <1>6, <1>7, <2>3 DEF CreateUserFails, AccountsTypeOK
  <2>4. CASE AssignRoleFails(c, what)
    BY <1>1, <1>3, <1>4, <1>6, <1>7, <2>4 DEF AssignRoleFails, AccountsTypeOK
  <2>5. QED
    BY <1>8, <2>1, <2>2, <2>3, <2>4
<1>9. ASSUME NEW c \in Calls, NEW d \in Calls, AskDeactivate(c, d)
      PROVE  AccountsTypeOK'
  <2>1. [kind |-> "deactivate", driver |-> d] \in EndCall
    BY DEF EndCall
  <2>2. QED
    BY <1>1, <1>3, <1>5, <1>9, <2>1 DEF AskDeactivate, AccountsTypeOK
<1>10. ASSUME NEW c \in Calls, FleetCreates(c)
       PROVE  AccountsTypeOK'
  <2>1. CASE UNCHANGED <<profile, license>>
    BY <1>1, <1>10, <2>1 DEF FleetCreates, AccountsTypeOK
  <2>2. CASE /\ ~LicenseTaken(call[c].license, c)
             /\ profile' = [profile EXCEPT ![c] = "active"]
             /\ license' = [license EXCEPT ![c] = call[c].license]
    <3>1. call[c].license \in Licenses
      BY <1>10, CallKinds DEF FleetCreates
    <3>2. \A d \in Calls \ {c} : license[d] # "none" =>
                                    license[d] # call[c].license
      BY <2>2, AccountFacts DEF LicenseTaken
    <3>3. \A b, d \in Calls :
             (license'[b] = license'[d] /\ license'[b] # "none") => b = d
      BY <1>1, <2>2, <3>2
    <3>4. QED
      BY <1>1, <1>10, <2>2, <3>1, <3>3 DEF FleetCreates, AccountsTypeOK
  <2>3. QED
    BY <1>10, <2>1, <2>2 DEF FleetCreates
<1>11. ASSUME NEW c \in Calls,
              \/ Added(c) \/ AddRefused(c) \/ AddUnanswered(c)
       PROVE  AccountsTypeOK'
  <2>1. CASE Added(c)
    BY <1>1, <1>4, <2>1 DEF Added, AccountsTypeOK
  <2>2. CASE AddRefused(c)
    BY <1>1, <1>4, <1>6, <1>7, <2>2
       DEF AddRefused, Compensate, AccountsTypeOK
  <2>3. CASE AddUnanswered(c)
    BY <1>1, <1>4, <1>6, <1>7, <2>3 DEF AddUnanswered, AccountsTypeOK
  <2>4. QED
    BY <1>11, <2>1, <2>2, <2>3
<1>12. ASSUME NEW c \in Calls,
              \/ FleetDeactivates(c) \/ DeactivateRefused(c) \/ Disable(c)
              \/ DeactivateUnanswered(c)
       PROVE  AccountsTypeOK'
  <2>1. CASE FleetDeactivates(c)
    BY <1>1, <2>1 DEF FleetDeactivates, AccountsTypeOK
  <2>2. CASE DeactivateRefused(c)
    BY <1>1, <1>4, <2>2 DEF DeactivateRefused, AccountsTypeOK
  <2>3. CASE Disable(c)
    <3>1. Disabled(c) \in
            [Calls -> {"none", "bare", "enabled", "disabled"}]
      BY <1>1 DEF Disabled
    <3>2. /\ account' \in [Calls -> {"none", "bare", "enabled", "disabled"}]
          /\ faults' \in 0 .. MaxFaults
          /\ answer' \in [Calls -> {0, 200, 400, 404, 500, 503}]
          /\ pc' \in [Calls -> {"new", "waiting", "ended"}]
      BY <1>1, <1>4, <1>6, <2>3, <3>1 DEF Disable
    <3>3. QED
      BY <1>1, <2>3, <3>2 DEF Disable, AccountsTypeOK
  <2>4. CASE DeactivateUnanswered(c)
    BY <1>1, <1>4, <1>6, <2>4 DEF DeactivateUnanswered, AccountsTypeOK
  <2>5. QED
    BY <1>12, <2>1, <2>2, <2>3, <2>4
<1>13. CASE GatewayCrash
  <2>1. /\ pc' \in [Calls -> {"new", "waiting", "ended"}]
        /\ unsettled' \subseteq Calls
    BY <1>1, <1>13 DEF GatewayCrash
  <2>2. QED
    BY <1>1, <1>6, <1>13, <2>1 DEF GatewayCrash
<1>14. ASSUME NEW d \in Calls, NEW l \in Licenses, EditLicense(d, l)
       PROVE  AccountsTypeOK'
  <2>1. /\ ~LicenseTaken(l, d) /\ license' = [license EXCEPT ![d] = l]
    BY <1>14 DEF EditLicense
  <2>2. \A c \in Calls \ {d} : license[c] # "none" => license[c] # l
    BY <2>1, AccountFacts DEF LicenseTaken
  <2>3. \A b, c \in Calls :
           (license'[b] = license'[c] /\ license'[b] # "none") => b = c
    BY <1>1, <2>1, <2>2
  <2>4. QED
    BY <1>1, <1>14, <2>1, <2>3 DEF EditLicense, AccountsTypeOK
<1>15. CASE UNCHANGED accountsVars
  BY <1>1, <1>15 DEF accountsVars
<1>16. QED
  BY <1>8, <1>9, <1>10, <1>11, <1>12, <1>13, <1>14, <1>15
     DEF AccountsNext, AccountsTypeOK

-----------------------------------------------------------------------------
(* The accounts, call by call.                                              *)

(* What the invariant says of call c.                                       *)
Sound(c) ==
    /\ Stage(c)
    /\ (profile[c] # "none" /\ account[auth[c]] = "none") => c \in unheard
    /\ (account[c] # "none" /\ pc[c] = "ended" /\ profile[c] = "none")
          => c \in unsettled
    /\ account[c] = "disabled" => profile[c] = "inactive"
    /\ (call[c].kind = "deactivate" /\ answer[c] = 200)
          => account[auth[call[c].driver]] \in {"disabled", "none"}

LEMMA SoundAre ==
    (/\ CallsInStages /\ ProfileHasAccount /\ NoStrayAccount
     /\ DisabledIsInactive) <=> \A c \in Calls : Sound(c)
BY DEF CallsInStages, ProfileHasAccount, NoStrayAccount, DisabledIsInactive,
       Sound, Stage

(* A step that is none of call d's.                                         *)
Untouched(d) ==
    /\ call'[d] = call[d] /\ pc'[d] = pc[d] /\ errand'[d] = errand[d]
    /\ answer'[d] = answer[d] /\ auth'[d] = auth[d]
    /\ account'[d] = account[d] /\ profile'[d] = profile[d]
    /\ license'[d] = license[d]
    /\ d > calls' <=> d > calls

(* What no step takes back.                                                 *)
Forward ==
    /\ \A e \in Calls :
          profile[e] = "inactive" =>
             /\ profile'[e] = "inactive" /\ auth'[e] = auth[e]
             /\ account[e] \in {"disabled", "none"} =>
                   account'[e] \in {"disabled", "none"}
    /\ unheard \subseteq unheard' /\ unsettled \subseteq unsettled'

LEMMA UntouchedSound ==
    ASSUME AccountsTypeOK, \A c \in Calls : Sound(c),
           NEW d \in Calls, Untouched(d), Forward
    PROVE  Sound(d)'
<1>1. CallsInStages /\ Sound(d)
  BY SoundAre
<1>2. /\ call[d].kind = "none" => NotYet(d)
      /\ profile[d] # "none" => auth[d] = d
      /\ (call[d].kind = "deactivate" /\ errand[d] = "done") =>
            /\ profile[call[d].driver] = "inactive"
            /\ call[d].driver \in Calls
            /\ auth[call[d].driver] = call[d].driver
  BY <1>1, AccountFacts
<1>3. Stage(d)
  BY <1>1 DEF Sound
<1>4. (call[d].kind = "deactivate" /\ errand[d] = "done") =>
         /\ profile'[call[d].driver] = "inactive"
         /\ auth'[call[d].driver] = call[d].driver
         /\ account[call[d].driver] \in {"disabled", "none"} =>
               account'[call[d].driver] \in {"disabled", "none"}
  BY <1>2 DEF Forward
<1>5. NotYet(d) => NotYet(d)'
  BY DEF NotYet, Untouched
<1>6. AddsItsOwn(d) => AddsItsOwn(d)'
  BY DEF AddsItsOwn, Untouched, Forward
<1>7. (call[d].kind = "deactivate" /\ TakesFromInactive(d)) =>
         TakesFromInactive(d)'
  BY <1>4 DEF TakesFromInactive, Untouched
<1>8. Stage(d)'
  BY <1>3, <1>5, <1>6, <1>7 DEF Stage, Untouched
<1>9. /\ (profile'[d] # "none" /\ account'[auth'[d]] = "none")
            => d \in unheard'
      /\ (account'[d] # "none" /\ pc'[d] = "ended" /\ profile'[d] = "none")
            => d \in unsettled'
      /\ account'[d] = "disabled" => profile'[d] = "inactive"
  BY <1>1, <1>2 DEF Sound, Untouched, Forward
<1>10. (call'[d].kind = "deactivate" /\ answer'[d] = 200)
          => account'[auth'[call'[d].driver]] \in {"disabled", "none"}
  <2> SUFFICES ASSUME call[d].kind = "deactivate", answer[d] = 200
               PROVE  account'[auth'[call[d].driver]] \in {"disabled", "none"}
    BY DEF Untouched
  <2>1. errand[d] = "done"
    BY <1>3 DEF Stage, TakesFromInactive
  <2>2. account[call[d].driver] \in {"disabled", "none"}
    BY <1>1, <1>2, <2>1 DEF Sound
  <2>3. QED
    BY <1>4, <2>1, <2>2
<1>11. QED
  BY <1>8, <1>9, <1>10 DEF Sound

(* Hence a step of call c keeps the invariant if it keeps it at c.          *)
LEMMA OneCall ==
    ASSUME AccountsTypeOK, \A d \in Calls : Sound(d), Forward,
           NEW c \in Calls, Sound(c)', \A d \in Calls \ {c} : Untouched(d)
    PROVE  \A d \in Calls : Sound(d)'
BY UntouchedSound

(* What is left to show of an addition.                                     *)
LEMMA AdditionSound ==
    ASSUME NEW c \in Calls, call'[c].kind = "add", call'[c] # NoCall,
           ~(c > calls'), AddsItsOwn(c)',
           license'[c] # "none" => profile'[c] # "none",
           (profile'[c] # "none" /\ account'[auth'[c]] = "none")
              => c \in unheard',
           (account'[c] # "none" /\ pc'[c] = "ended" /\ profile'[c] = "none")
              => c \in unsettled',
           account'[c] = "disabled" => profile'[c] = "inactive"
    PROVE  Sound(c)'
<1>1. call'[c].kind # "deactivate"
  OBVIOUS
<1>2. Stage(c)'
  BY <1>1 DEF Stage
<1>3. QED
  BY <1>1, <1>2 DEF Sound

(* A call that has just come.                                               *)
LEMMA Arrival ==
    ASSUME AccountsTypeOK, \A d \in Calls : Sound(d),
           NEW c \in Calls, NEW what \in AddCall \union EndCall,
           Arrives(c, what)
    PROVE  /\ NotYet(c) /\ call'[c] = what /\ what # NoCall /\ ~(c > calls')
           /\ license[c] = "none"
           /\ \A d \in Calls \ {c} : /\ call'[d] = call[d]
                                     /\ d > calls' <=> d > calls
<1>1. calls \in Nat /\ c = calls + 1 /\ calls' = c
      /\ call' = [call EXCEPT ![c] = what] /\ \A d \in Calls : d \in Nat
      /\ call \in [Calls -> AddCall \union EndCall \union {NoCall}]
  BY CallNumbers DEF Arrives, AccountsTypeOK
<1>2. call[c] = NoCall
  BY <1>1 DEF Sound, Stage
<1>3. NotYet(c) /\ (license[c] # "none" => profile[c] # "none")
  BY <1>2 DEF Sound, Stage
<1>4. what # NoCall
  BY CallKinds
<1>5. \A d \in Calls \ {c} : /\ call'[d] = call[d]
                             /\ d > calls' <=> d > calls
  BY <1>1
<1>6. call'[c] = what /\ ~(c > calls')
  BY <1>1
<1>7. QED
  BY <1>3, <1>4, <1>5, <1>6 DEF NotYet

LEMMA AddersSound ==
    ASSUME AccountsTypeOK, \A d \in Calls : Sound(d),
           NEW c \in Calls, NEW what \in AddCall,
           \/ CreateUser(c, what) \/ RefuseUser(c, what)
           \/ CreateUserFails(c, what) \/ AssignRoleFails(c, what)
    PROVE  \A d \in Calls : Sound(d)'
<1>1. Arrives(c, what)
  BY DEF CreateUser, RefuseUser, CreateUserFails, AssignRoleFails
<1>2. /\ NotYet(c) /\ call'[c] = what /\ what # NoCall /\ ~(c > calls')
      /\ license[c] = "none" /\ what.kind = "add"
      /\ \A d \in Calls \ {c} : /\ call'[d] = call[d]
                                /\ d > calls' <=> d > calls
  BY <1>1, Arrival, CallKinds
<1>3. /\ pc \in [Calls -> {"new", "waiting", "ended"}]
      /\ errand \in [Calls -> {"none", "pending", "done", "refused"}]
      /\ answer \in [Calls -> {0, 200, 400, 404, 500, 503}]
      /\ auth \in [Calls -> 0 .. MaxCalls]
      /\ account \in [Calls -> {"none", "bare", "enabled", "disabled"}]
      /\ \A d \in Calls : d # 0
  BY CallNumbers DEF AccountsTypeOK
<1>4. CASE CreateUser(c, what)
  <2>1. /\ pc'[c] = "waiting" /\ errand'[c] = "pending" /\ auth'[c] = c
        /\ account'[c] = "enabled"
        /\ UNCHANGED <<answer, profile, license, unheard, unsettled>>
        /\ \A d \in Calls \ {c} :
              /\ pc'[d] = pc[d] /\ errand'[d] = errand[d]
              /\ auth'[d] = auth[d] /\ account'[d] = account[d]
    BY <1>3, <1>4 DEF CreateUser, Asks
  <2>2. Forward
    BY <1>2, <2>1 DEF Forward, NotYet
  <2>3. Sound(c)'
    <3>1. AddsItsOwn(c)' /\ profile'[c] = "none" /\ license'[c] = "none"
      BY <1>2, <2>1 DEF AddsItsOwn, NotYet
    <3>2. QED
      BY <1>2, <2>1, <3>1, AdditionSound
  <2>4. \A d \in Calls \ {c} : Untouched(d)
    BY <1>2, <2>1 DEF Untouched
  <2>5. QED
    BY <2>2, <2>3, <2>4, OneCall
<1>5. CASE \/ RefuseUser(c, what) \/ CreateUserFails(c, what)
           \/ AssignRoleFails(c, what)
  <2>1. PICK s \in {503, 400, 500} : AnswersCall(c, s)
    BY <1>5 DEF RefuseUser, CreateUserFails, AssignRoleFails
  <2>2. /\ pc'[c] = "ended" /\ answer'[c] = s
        /\ \A d \in Calls \ {c} : pc'[d] = pc[d] /\ answer'[d] = answer[d]
    BY <1>3, <2>1 DEF AnswersCall
  <2>3. UNCHANGED <<errand, auth, profile, license, unheard>>
    BY <1>5 DEF RefuseUser, CreateUserFails, AssignRoleFails
  <2>4. \/ UNCHANGED <<account, unsettled>>
        \/ /\ account' = [account EXCEPT ![c] = "bare"]
           /\ unsettled' = unsettled \union {c}
    BY <1>5 DEF RefuseUser, CreateUserFails, AssignRoleFails, Unsettled
  <2>5. /\ \A d \in Calls \ {c} : account'[d] = account[d]
        /\ \/ account'[c] = account[c]
           \/ /\ account'[c] = "bare"
              /\ c \in unsettled'
        /\ unsettled \subseteq unsettled'
    <3>1. CASE UNCHANGED <<account, unsettled>>
      BY <3>1
    <3>2. CASE /\ account' = [account EXCEPT ![c] = "bare"]
               /\ unsettled' = unsettled \union {c}
      BY <1>3, <3>2
    <3>3. QED
      BY <2>4, <3>1, <3>2
  <2>6. Forward
    BY <1>2, <2>3, <2>5 DEF Forward, NotYet
  <2>7. Sound(c)'
    <3>1. AddsItsOwn(c)'
      BY <1>2, <2>2, <2>3 DEF AddsItsOwn, NotYet
    <3>2. /\ account'[c] # "none" => c \in unsettled'
          /\ account'[c] # "disabled" /\ profile'[c] = "none"
          /\ license'[c] = "none"
      BY <1>2, <2>3, <2>5 DEF NotYet
    <3>3. QED
      BY <1>2, <3>1, <3>2, AdditionSound
  <2>8. \A d \in Calls \ {c} : Untouched(d)
    BY <1>2, <2>2, <2>3, <2>5 DEF Untouched
  <2>9. QED
    BY <2>6, <2>7, <2>8, OneCall
<1>6. QED
  BY <1>4, <1>5

LEMMA FleetSound ==
    ASSUME AccountsTypeOK, \A d \in Calls : Sound(d), NEW c \in Calls,
           \/ FleetCreates(c) \/ Added(c) \/ AddRefused(c)
           \/ AddUnanswered(c)
    PROVE  \A d \in Calls : Sound(d)'
<1>1. /\ pc \in [Calls -> {"new", "waiting", "ended"}]
      /\ errand \in [Calls -> {"none", "pending", "done", "refused"}]
      /\ answer \in [Calls -> {0, 200, 400, 404, 500, 503}]
      /\ account \in [Calls -> {"none", "bare", "enabled", "disabled"}]
      /\ profile \in [Calls -> {"none", "active", "inactive"}]
      /\ license \in [Calls -> Licenses \union {"none"}]
  BY DEF AccountsTypeOK
<1>2. /\ Sound(c) /\ AddsItsOwn(c) /\ call[c].kind = "add" /\ Stage(c)
      /\ call[c] # NoCall /\ ~(c > calls)
  <2>1. call[c].kind = "add"
    BY DEF FleetCreates, Added, AddRefused, AddUnanswered
  <2>2. call[c] # NoCall
    BY <2>1, CallKinds
  <2>3. QED
    BY <2>1, <2>2 DEF Sound, Stage
<1>3. CASE FleetCreates(c)
  <2>1. /\ errand[c] = "pending"
        /\ UNCHANGED <<calls, call, pc, answer, auth, account, unheard,
                       unsettled>>
    BY <1>3 DEF FleetCreates
  <2>2. profile[c] = "none" /\ auth[c] = c
    BY <1>1, <1>2, <2>1 DEF AddsItsOwn
  <2>3. \/ /\ errand' = [errand EXCEPT ![c] = "refused"]
           /\ UNCHANGED <<profile, license>>
        \/ /\ errand' = [errand EXCEPT ![c] = "done"]
           /\ profile' = [profile EXCEPT ![c] = "active"]
           /\ license' = [license EXCEPT ![c] = call[c].license]
    BY <1>3 DEF FleetCreates
  <2>4. \A d \in Calls \ {c} : Untouched(d)
    BY <1>1, <2>1, <2>3 DEF Untouched
  <2>5. Forward
    BY <1>1, <2>1, <2>2, <2>3 DEF Forward
  <2>6. Sound(c)'
    <3>1. CASE /\ errand' = [errand EXCEPT ![c] = "refused"]
               /\ UNCHANGED <<profile, license>>
      <4>1. errand'[c] = "refused"
        BY <1>1, <3>1
      <4>2. AddsItsOwn(c)'
        BY <1>2, <2>1, <2>2, <3>1, <4>1 DEF AddsItsOwn
      <4>3. /\ license[c] # "none" => profile[c] # "none"
            /\ (account[c] # "none" /\ pc[c] = "ended"
                                    /\ profile[c] = "none")
                  => c \in unsettled
            /\ account[c] = "disabled" => profile[c] = "inactive"
        BY <1>2 DEF Sound, Stage
      <4>4. QED
        BY <1>2, <2>1, <2>2, <3>1, <4>2, <4>3, AdditionSound
    <3>2. CASE /\ errand' = [errand EXCEPT ![c] = "done"]
               /\ profile' = [profile EXCEPT ![c] = "active"]
               /\ license' = [license EXCEPT ![c] = call[c].license]
      <4>1. errand'[c] = "done" /\ profile'[c] = "active"
        BY <1>1, <3>2
      <4>2. account[c] = "none" => c \in unheard
        BY <1>2, <2>1 DEF AddsItsOwn
      <4>3. account[c] # "disabled"
        BY <1>2, <2>2 DEF Sound
      <4>4. AddsItsOwn(c)'
        BY <1>2, <2>1, <2>2, <4>1, <4>2 DEF AddsItsOwn
      <4>5. QED
        BY <1>2, <2>1, <2>2, <4>1, <4>2, <4>3, <4>4, AdditionSound
    <3>3. QED
      BY <2>3, <3>1, <3>2
  <2>7. QED
    BY <2>4, <2>5, <2>6, OneCall
<1>4. CASE Added(c) \/ AddRefused(c) \/ AddUnanswered(c)
  <2>1. PICK s \in {200, 500} : AnswersCall(c, s)
    BY <1>4 DEF Added, AddRefused, AddUnanswered
  <2>2. /\ pc'[c] = "ended" /\ answer'[c] = s
        /\ \A d \in Calls \ {c} : pc'[d] = pc[d] /\ answer'[d] = answer[d]
    BY <1>1, <2>1 DEF AnswersCall
  <2>3. /\ UNCHANGED <<calls, call, errand, auth, profile, license>>
        /\ pc[c] = "waiting"
    BY <1>4 DEF Added, AddRefused, AddUnanswered
  <2>4. auth[c] = c /\ errand[c] # "none"
    BY <1>2, <2>3 DEF AddsItsOwn
  <2>5. /\ \/ /\ account' = account /\ unsettled' = unsettled
              /\ errand[c] = "done"
           \/ account' = account /\ unsettled' = unsettled \union {c}
           \/ /\ account' = [account EXCEPT ![c] = "none"]
              /\ unsettled' = unsettled
              /\ errand[c] = "refused" \/ c \in unheard'
        /\ unheard \subseteq unheard'
    <3>1. CASE Added(c)
      BY <3>1 DEF Added
    <3>2. CASE AddRefused(c)
      BY <2>4, <3>2 DEF AddRefused, Compensate, Unsettled
    <3>3. CASE AddUnanswered(c)
      BY <2>4, <3>3 DEF AddUnanswered, Unsettled
    <3>4. QED
      BY <1>4, <3>1, <3>2, <3>3
  <2>6. /\ \A d \in Calls \ {c} : account'[d] = account[d]
        /\ unsettled \subseteq unsettled'
    BY <1>1, <2>5
  <2>7. \A d \in Calls \ {c} : Untouched(d)
    BY <2>2, <2>3, <2>6 DEF Untouched
  <2>8. account'[c] = account[c] \/ account'[c] = "none"
    BY <1>1, <2>5
  <2>9. Forward
    BY <2>3, <2>5, <2>6, <2>8 DEF Forward
  <2>10. Sound(c)'
    <3>1. AddsItsOwn(c)'
      <4>1. account'[c] = "none" => errand[c] = "refused" \/ c \in unheard'
        BY <1>1, <1>2, <2>4, <2>5 DEF AddsItsOwn
      <4>2. QED
        BY <1>2, <2>2, <2>3, <2>4, <4>1 DEF AddsItsOwn
    <3>2. (profile[c] # "none" /\ account'[c] = "none") => c \in unheard'
      BY <1>2, <2>3, <3>1 DEF AddsItsOwn
    <3>3. (account'[c] # "none" /\ profile[c] = "none") => c \in unsettled'
      BY <1>1, <1>2, <2>5 DEF AddsItsOwn
    <3>4. account'[c] = "disabled" => profile[c] = "inactive"
      BY <1>2, <2>8 DEF Sound
    <3>5. license[c] # "none" => profile[c] # "none"
      BY <1>2 DEF Stage
    <3>6. QED
      BY <1>2, <2>3, <2>4, <3>1, <3>2, <3>3, <3>4, <3>5, AdditionSound
  <2>11. QED
    BY <2>7, <2>9, <2>10, OneCall
<1>5. QED
  BY <1>3, <1>4

(* What is left to show of a deactivation.                                  *)
LEMMA DeactivationSound ==
    ASSUME NEW c \in Calls, call'[c].kind = "deactivate", call'[c] # NoCall,
           ~(c > calls'), TakesFromInactive(c)', license'[c] = "none",
           answer'[c] = 200 =>
              account'[auth'[call'[c].driver]] \in {"disabled", "none"}
    PROVE  Sound(c)'
<1>1. call'[c].kind # "add"
  OBVIOUS
<1>2. Stage(c)'
  BY <1>1 DEF Stage
<1>3. account'[c] = "none" /\ profile'[c] = "none"
  BY DEF TakesFromInactive
<1>4. QED
  BY <1>2, <1>3 DEF Sound

(* A deactivation under way, and the driver it takes off the roster.        *)
LEMMA Deactivation ==
    ASSUME AccountsTypeOK, \A d \in Calls : Sound(d), NEW c \in Calls,
           call[c].kind = "deactivate"
    PROVE  /\ Sound(c) /\ TakesFromInactive(c) /\ call[c] # NoCall
           /\ ~(c > calls) /\ license[c] = "none"
           /\ call[c].driver \in Calls
           /\ \A d \in Calls : profile[d] # "none" =>
                 /\ d # c /\ AddsItsOwn(d) /\ call[d].kind = "add"
                 /\ auth[d] = d /\ Sound(d)
                 /\ call[d] # NoCall /\ ~(d > calls)
<1>1. CallsInStages /\ call[c] # NoCall /\ call[c].driver \in Calls
  BY SoundAre, CallKinds
<1>2. Sound(c) /\ TakesFromInactive(c) /\ ~(c > calls) /\ license[c] = "none"
  BY <1>1 DEF Sound, Stage, TakesFromInactive
<1>3. ASSUME NEW d \in Calls, profile[d] # "none"
      PROVE  /\ d # c /\ AddsItsOwn(d) /\ call[d].kind = "add"
             /\ auth[d] = d /\ Sound(d)
             /\ call[d] # NoCall /\ ~(d > calls)
  <2>1. call[d].kind = "add" /\ auth[d] = d /\ Sound(d)
    BY <1>1, <1>3, AccountFacts
  <2>2. call[d] # NoCall
    BY <2>1, CallKinds
  <2>3. QED
    BY <2>1, <2>2 DEF Sound, Stage
<1>4. QED
  BY <1>1, <1>2, <1>3

LEMMA AskSound ==
    ASSUME AccountsTypeOK, \A d \in Calls : Sound(d),
           NEW c \in Calls, NEW e \in Calls, AskDeactivate(c, e)
    PROVE  \A d \in Calls : Sound(d)'
<1>1. PICK what \in EndCall : what = [kind |-> "deactivate", driver |-> e]
  BY DEF EndCall
<1>2. Arrives(c, what)
  BY <1>1 DEF AskDeactivate
<1>3. /\ NotYet(c) /\ call'[c] = what /\ what # NoCall /\ ~(c > calls')
      /\ license[c] = "none" /\ what.kind = "deactivate"
      /\ \A d \in Calls \ {c} : /\ call'[d] = call[d]
                                /\ d > calls' <=> d > calls
  BY <1>2, Arrival, CallKinds
<1>4. /\ pc \in [Calls -> {"new", "waiting", "ended"}]
      /\ errand \in [Calls -> {"none", "pending", "done", "refused"}]
  BY DEF AccountsTypeOK
<1>5. /\ errand'[c] = "pending"
      /\ UNCHANGED <<answer, auth, account, profile, license, unheard,
                     unsettled>>
      /\ \A d \in Calls \ {c} : pc'[d] = pc[d] /\ errand'[d] = errand[d]
  BY <1>4 DEF AskDeactivate, Asks
<1>6. Forward
  BY <1>5 DEF Forward
<1>7. TakesFromInactive(c)' /\ license'[c] = "none" /\ answer'[c] # 200
  BY <1>3, <1>5 DEF TakesFromInactive, NotYet
<1>8. Sound(c)'
  BY <1>3, <1>7, DeactivationSound
<1>9. \A d \in Calls \ {c} : Untouched(d)
  BY <1>3, <1>5 DEF Untouched
<1>10. QED
  BY <1>6, <1>8, <1>9, OneCall

LEMMA RosterSound ==
    ASSUME AccountsTypeOK, \A d \in Calls : Sound(d), NEW c \in Calls,
           FleetDeactivates(c)
    PROVE  \A d \in Calls : Sound(d)'
<1>1. /\ errand \in [Calls -> {"none", "pending", "done", "refused"}]
      /\ profile \in [Calls -> {"none", "active", "inactive"}]
  BY DEF AccountsTypeOK
<1>2. /\ call[c].kind = "deactivate" /\ errand[c] = "pending"
      /\ UNCHANGED <<calls, call, pc, answer, auth, account, license,
                     unheard, unsettled>>
  BY DEF FleetDeactivates
<1>3. PICK e \in Calls : e = call[c].driver
  BY <1>2, Deactivation
<1>4. /\ TakesFromInactive(c) /\ call[c] # NoCall
      /\ ~(c > calls) /\ license[c] = "none" /\ answer[c] # 200
  BY <1>2, Deactivation DEF TakesFromInactive
<1>5. CASE /\ errand' = [errand EXCEPT ![c] = "refused"]
           /\ profile' = profile
  <2>1. /\ errand'[c] = "refused"
        /\ \A d \in Calls \ {c} : Untouched(d)
    BY <1>1, <1>2, <1>5 DEF Untouched
  <2>2. Forward
    BY <1>2, <1>5 DEF Forward
  <2>3. TakesFromInactive(c)'
    BY <1>2, <1>4, <1>5, <2>1 DEF TakesFromInactive
  <2>4. Sound(c)'
    BY <1>2, <1>4, <2>3, DeactivationSound
  <2>5. QED
    BY <2>1, <2>2, <2>4, OneCall
<1>6. CASE /\ profile[e] # "none"
           /\ errand' = [errand EXCEPT ![c] = "done"]
           /\ profile' = [profile EXCEPT ![e] = "inactive"]
  <2>1. /\ e # c /\ AddsItsOwn(e) /\ call[e].kind = "add"
        /\ auth[e] = e /\ Sound(e) /\ call[e] # NoCall /\ ~(e > calls)
    BY <1>2, <1>6, Deactivation
  <2>2. /\ errand'[c] = "done" /\ errand'[e] = errand[e]
        /\ profile'[e] = "inactive" /\ profile'[c] = profile[c]
        /\ \A d \in Calls \ {c, e} : Untouched(d)
    BY <1>1, <1>2, <1>6, <2>1 DEF Untouched
  <2>3. Forward
    BY <1>1, <1>2, <1>6 DEF Forward
  <2>4. TakesFromInactive(c)'
    BY <1>2, <1>3, <1>4, <2>2 DEF TakesFromInactive
  <2>5. Sound(c)'
    BY <1>2, <1>4, <2>4, DeactivationSound
  <2>6. AddsItsOwn(e)'
    BY <1>2, <1>6, <2>1, <2>2 DEF AddsItsOwn
  <2>7. account[e] = "none" => e \in unheard
    BY <1>6, <2>1 DEF Sound
  <2>8. Sound(e)'
    BY <1>2, <2>1, <2>2, <2>6, <2>7, AdditionSound
  <2>9. QED
    BY <2>2, <2>3, <2>5, <2>8, UntouchedSound
<1>7. QED
  BY <1>3, <1>5, <1>6 DEF FleetDeactivates

LEMMA DisableSound ==
    ASSUME AccountsTypeOK, \A d \in Calls : Sound(d), NEW c \in Calls,
           \/ DeactivateRefused(c) \/ Disable(c) \/ DeactivateUnanswered(c)
    PROVE  \A d \in Calls : Sound(d)'
<1>1. /\ pc \in [Calls -> {"new", "waiting", "ended"}]
      /\ answer \in [Calls -> {0, 200, 400, 404, 500, 503}]
      /\ account \in [Calls -> {"none", "bare", "enabled", "disabled"}]
  BY DEF AccountsTypeOK
<1>2. /\ call[c].kind = "deactivate"
      /\ UNCHANGED <<calls, call, errand, auth, profile, license,
                     unheard, unsettled>>
  BY DEF DeactivateRefused, Disable, DeactivateUnanswered
<1>3. /\ TakesFromInactive(c) /\ call[c] # NoCall
      /\ ~(c > calls) /\ license[c] = "none"
  BY <1>2, Deactivation
<1>4. CASE \/ /\ account' = account
              /\ \E s \in {400, 404, 500, 503} : AnswersCall(c, s)
  <2>1. PICK s \in {400, 404, 500, 503} : AnswersCall(c, s)
    BY <1>4
  <2>2. answer'[c] = s /\ \A d \in Calls \ {c} : Untouched(d)
    BY <1>1, <1>2, <1>4, <2>1 DEF AnswersCall, Untouched
  <2>3. Forward
    BY <1>2, <1>4 DEF Forward
  <2>4. TakesFromInactive(c)'
    BY <1>2, <1>3, <1>4, <2>2 DEF TakesFromInactive
  <2>5. Sound(c)'
    BY <1>2, <1>3, <2>2, <2>4, DeactivationSound
  <2>6. QED
    BY <2>2, <2>3, <2>5, OneCall
<1>5. CASE /\ errand[c] = "done" /\ account[auth[call[c].driver]] # "none"
           /\ account' = Disabled(c)
           /\ \E s \in {200, 400} : AnswersCall(c, s)
  <2>1. PICK e \in Calls : e = call[c].driver
    BY <1>2, Deactivation
  <2>2. profile[e] = "inactive"
    BY <1>3, <1>5, <2>1 DEF TakesFromInactive
  <2>3. /\ e # c /\ AddsItsOwn(e) /\ call[e].kind = "add"
        /\ auth[e] = e /\ Sound(e) /\ call[e] # NoCall /\ ~(e > calls)
    BY <1>2, <2>2, Deactivation
  <2>4. account' = [account EXCEPT ![e] = "disabled"]
    BY <1>5, <2>1, <2>3 DEF Disabled
  <2>5. PICK s \in {200, 400} : AnswersCall(c, s)
    BY <1>5
  <2>6. /\ answer'[c] = s /\ account'[e] = "disabled"
        /\ account'[c] = account[c]
        /\ pc'[e] = pc[e]
        /\ \A d \in Calls \ {c, e} : Untouched(d)
    BY <1>1, <1>2, <2>3, <2>4, <2>5 DEF AnswersCall, Untouched
  <2>7. Forward
    BY <1>1, <1>2, <2>4 DEF Forward
  <2>8. TakesFromInactive(c)'
    BY <1>2, <1>3, <1>5, <2>6 DEF TakesFromInactive
  <2>9. account'[auth'[call'[c].driver]] = "disabled"
    BY <1>2, <2>1, <2>3, <2>6
  <2>10. Sound(c)'
    BY <1>2, <1>3, <2>8, <2>9, DeactivationSound
  <2>11. AddsItsOwn(e)'
    BY <1>2, <2>3, <2>6 DEF AddsItsOwn
  <2>12. Sound(e)'
    BY <1>2, <2>2, <2>3, <2>6, <2>11, AdditionSound
  <2>13. QED
    BY <2>6, <2>7, <2>10, <2>12, UntouchedSound
<1>6. CASE DeactivateRefused(c) \/ DeactivateUnanswered(c)
  BY <1>4, <1>6 DEF DeactivateRefused, DeactivateUnanswered
<1>7. CASE Disable(c)
  BY <1>4, <1>5, <1>7 DEF Disable
<1>8. QED
  BY <1>6, <1>7

LEMMA CrashSound ==
    ASSUME AccountsTypeOK, \A d \in Calls : Sound(d), GatewayCrash
    PROVE  \A d \in Calls : Sound(d)'
<1> SUFFICES ASSUME NEW d \in Calls
             PROVE  Sound(d)'
  OBVIOUS
<1>1. /\ UNCHANGED <<calls, call, errand, answer, auth, account, profile,
                     license, unheard>>
      /\ unsettled \subseteq unsettled'
      /\ \/ pc'[d] = pc[d]
         \/ /\ pc[d] = "waiting" /\ pc'[d] = "ended"
            /\ d \in unsettled'
  BY DEF GatewayCrash
<1>2. Sound(d) /\ Stage(d)
  BY DEF Sound
<1>3. NotYet(d) => NotYet(d)'
  BY <1>1 DEF NotYet
<1>4. AddsItsOwn(d) => AddsItsOwn(d)'
  BY <1>1 DEF AddsItsOwn
<1>5. TakesFromInactive(d) => TakesFromInactive(d)'
  BY <1>1 DEF TakesFromInactive
<1>6. Stage(d)'
  BY <1>1, <1>2, <1>3, <1>4, <1>5 DEF Stage
<1>7. (account[d] # "none" /\ pc'[d] = "ended" /\ profile[d] = "none")
         => d \in unsettled'
  BY <1>1, <1>2 DEF Sound
<1>8. /\ (profile[d] # "none" /\ account[auth[d]] = "none") => d \in unheard
      /\ account[d] = "disabled" => profile[d] = "inactive"
      /\ (call[d].kind = "deactivate" /\ answer[d] = 200)
            => account[auth[call[d].driver]] \in {"disabled", "none"}
  BY <1>2 DEF Sound
<1>9. QED
  BY <1>1, <1>6, <1>7, <1>8 DEF Sound

LEMMA EditSound ==
    ASSUME AccountsTypeOK, \A d \in Calls : Sound(d),
           NEW d \in Calls, NEW l \in Licenses, EditLicense(d, l)
    PROVE  \A c \in Calls : Sound(c)'
<1>1. /\ profile[d] # "none"
      /\ license' = [license EXCEPT ![d] = l]
      /\ UNCHANGED <<calls, call, pc, errand, answer, auth, account,
                     profile, unheard, unsettled>>
  BY DEF EditLicense
<1>2. /\ CallsInStages /\ Sound(d) /\ Stage(d)
      /\ license \in [Calls -> Licenses \union {"none"}]
  BY SoundAre DEF Sound, AccountsTypeOK
<1>3. call[d].kind = "add" /\ call[d] # NoCall
  BY <1>1, <1>2, AccountFacts, CallKinds
<1>4. AddsItsOwn(d) /\ ~(d > calls)
  BY <1>2, <1>3 DEF Stage
<1>5. AddsItsOwn(d)'
  BY <1>1, <1>4 DEF AddsItsOwn
<1>6. /\ account[auth[d]] = "none" => d \in unheard
      /\ account[d] = "disabled" => profile[d] = "inactive"
  BY <1>1, <1>2 DEF Sound
<1>7. Sound(d)'
  BY <1>1, <1>3, <1>4, <1>5, <1>6, AdditionSound
<1>8. Forward /\ \A c \in Calls \ {d} : Untouched(c)
  BY <1>1, <1>2 DEF Forward, Untouched
<1>9. QED
  BY <1>7, <1>8, OneCall

LEMMA AccountsUnchanged ==
    ASSUME \A d \in Calls : Sound(d), UNCHANGED accountsVars
    PROVE  \A d \in Calls : Sound(d)'
<1> SUFFICES ASSUME NEW d \in Calls
             PROVE  Sound(d)'
  OBVIOUS
<1>1. Sound(d)
  OBVIOUS
<1>2. QED
  BY <1>1 DEF accountsVars, Sound, Stage, NotYet, AddsItsOwn,
              TakesFromInactive

(* Accounts in Keycloak and profiles in the fleet service belong together   *)
(* where neither failed behind the other's back (add_driver with its        *)
(* rollback, deactivate_driver_account): for every number of calls.         *)
THEOREM AccountsCorrect == AccountsSpec => []AccountsInv
<1>1. AccountsInit => AccountsInv
  <2> SUFFICES ASSUME AccountsInit
               PROVE  AccountsInv
    OBVIOUS
  <2>1. /\ MaxCalls \in Nat /\ MaxFaults \in Nat
        /\ \A c \in Calls : c \in Nat /\ c > 0
    BY AccountsAssumption DEF Calls
  <2>2. AccountsTypeOK
    BY <2>1 DEF AccountsInit, AccountsTypeOK
  <2>3. ASSUME NEW c \in Calls
        PROVE  Sound(c)
    <3>1. /\ call[c] = NoCall /\ c > calls /\ NotYet(c)
          /\ license[c] = "none"
      BY <2>1 DEF AccountsInit, NotYet
    <3>2. call[c].kind = "none"
      BY <3>1 DEF NoCall
    <3>3. QED
      BY <3>1, <3>2 DEF Sound, Stage, NotYet
  <2>4. QED
    BY <2>2, <2>3, SoundAre DEF AccountsInv
<1>2. AccountsInv /\ [AccountsNext]_accountsVars => AccountsInv'
  <2> SUFFICES ASSUME AccountsInv, [AccountsNext]_accountsVars
               PROVE  AccountsInv'
    OBVIOUS
  <2>1. AccountsTypeOK /\ CallsInStages /\ \A c \in Calls : Sound(c)
    BY SoundAre DEF AccountsInv
  <2>2. AccountsTypeOK'
    BY <2>1, AccountTypesKept
  <2>3. \A c \in Calls : Sound(c)'
    <3>1. CASE UNCHANGED accountsVars
      BY <2>1, <3>1, AccountsUnchanged
    <3>2. ASSUME NEW c \in Calls, NEW what \in AddCall,
                 \/ CreateUser(c, what) \/ RefuseUser(c, what)
                 \/ CreateUserFails(c, what) \/ AssignRoleFails(c, what)
          PROVE  \A d \in Calls : Sound(d)'
      BY <2>1, <3>2, AddersSound
    <3>3. ASSUME NEW c \in Calls, NEW e \in Calls, AskDeactivate(c, e)
          PROVE  \A d \in Calls : Sound(d)'
      BY <2>1, <3>3, AskSound
    <3>4. ASSUME NEW c \in Calls,
                 \/ FleetCreates(c) \/ Added(c) \/ AddRefused(c)
                 \/ AddUnanswered(c)
          PROVE  \A d \in Calls : Sound(d)'
      BY <2>1, <3>4, FleetSound
    <3>5. ASSUME NEW c \in Calls, FleetDeactivates(c)
          PROVE  \A d \in Calls : Sound(d)'
      BY <2>1, <3>5, RosterSound
    <3>6. ASSUME NEW c \in Calls,
                 \/ DeactivateRefused(c) \/ Disable(c)
                 \/ DeactivateUnanswered(c)
          PROVE  \A d \in Calls : Sound(d)'
      BY <2>1, <3>6, DisableSound
    <3>7. CASE GatewayCrash
      BY <2>1, <3>7, CrashSound
    <3>8. ASSUME NEW d \in Calls, NEW l \in Licenses, EditLicense(d, l)
          PROVE  \A c \in Calls : Sound(c)'
      BY <2>1, <3>8, EditSound
    <3>9. QED
      BY <3>1, <3>2, <3>3, <3>4, <3>5, <3>6, <3>7, <3>8 DEF AccountsNext
  <2>5. (CallsInStages /\ ProfileHasAccount /\ NoStrayAccount
         /\ DisabledIsInactive)'
    BY <2>3 DEF CallsInStages, ProfileHasAccount, NoStrayAccount,
                DisabledIsInactive, Sound, Stage
  <2>6. QED
    BY <2>2, <2>5 DEF AccountsInv
<1>3. QED
  BY <1>1, <1>2, PTL DEF AccountsSpec

-----------------------------------------------------------------------------
(* The catalog: rows, handlers and links.                                   *)

LEMMA RowFacts ==
    ASSUME CatalogTypeOK
    PROVE  /\ NoRoute \notin Row /\ NoRoute.name = "none"
           /\ NoRoute.file = <<>>
           /\ \A w \in Row : /\ w.name \in Names /\ w.name # "none"
                             /\ w.file \in Files
           /\ \A r \in Ids : /\ Exists(r) <=> route[r] \in Row
                             /\ route[r].name \in Names => Exists(r)
           /\ \A n \in Names : \A f \in Files : \A u \in Uploads :
                 [name |-> n, file |-> f, upload |-> u] \in Row
<1>1. NoRoute.name = "none" /\ NoRoute.file = <<>>
  BY DEF NoRoute
<1>2. \A w \in Row : /\ w.name \in Names /\ w.name # "none"
                     /\ w.file \in Files
  BY CatalogAssumption DEF Row
<1>3. NoRoute \notin Row
  BY <1>1, <1>2
<1>4. \A r \in Ids : route[r] \in Row \union {NoRoute}
  BY DEF CatalogTypeOK
<1>5. \A r \in Ids : /\ Exists(r) <=> route[r] \in Row
                     /\ route[r].name \in Names => Exists(r)
  BY <1>1, <1>3, <1>4, CatalogAssumption DEF Exists
<1>6. \A n \in Names : \A f \in Files : \A u \in Uploads :
         [name |-> n, file |-> f, upload |-> u] \in Row
  BY DEF Row
<1>7. QED
  BY <1>1, <1>2, <1>3, <1>5, <1>6

LEMMA HandlerFacts ==
    ASSUME CatalogTypeOK, NEW u \in Uploads
    PROVE  /\ upload[u].pc = "idle" <=> upload[u] = Idle
           /\ upload[u].pc \in {"idle", "delete", "insert", "put"}
           /\ upload[u] # Idle =>
                 upload[u].name \in Names /\ upload[u].file \in Files
           /\ upload[u].pc = "delete" => upload[u].found \subseteq Ids
           /\ upload[u].pc \in {"insert", "put"} =>
                 upload[u].missing \subseteq StopNames
           /\ upload[u].pc = "put" =>
                 upload[u].id \in Ids /\ upload[u].seen \subseteq Link
<1>1. Idle.pc = "idle"
  BY DEF Idle
<1>2. CASE upload[u] = Idle
  BY <1>1, <1>2
<1>3. CASE upload[u] \in
             [pc : {"delete"}, name : Names, file : Files, found : SUBSET Ids]
  BY <1>1, <1>3
<1>4. CASE upload[u] \in [pc : {"insert"}, name : Names, file : Files,
                          missing : SUBSET StopNames]
  BY <1>1, <1>4
<1>5. CASE upload[u] \in [pc : {"put"}, id : Ids, name : Names, file : Files,
                          seen : SUBSET Link, missing : SUBSET StopNames]
  BY <1>1, <1>5
<1>6. upload[u] \in {Idle} \union Handler
  BY DEF CatalogTypeOK
<1>7. QED
  BY <1>2, <1>3, <1>4, <1>5, <1>6 DEF Handler

LEMMA CatalogNumbers ==
    ASSUME CatalogTypeOK
    PROVE  /\ MaxRoutes \in Nat /\ MaxUploads \in Nat /\ MaxDbErrors \in Nat
           /\ nextRoute \in Nat /\ uploads \in Nat
           /\ Ids \subseteq Nat /\ Uploads \subseteq Nat
           /\ nextRoute \in Ids => nextRoute + 1 \in 1 .. MaxRoutes + 1
           /\ DbError => dbErrors' \in 0 .. MaxDbErrors
BY CatalogAssumption DEF CatalogTypeOK, Ids, Uploads, DbError

LEMMA LinkFacts ==
    /\ \A l \in Link : l.route \in Ids /\ l.stop \in StopNames
    /\ \A u \in Uploads : \A r \in Ids : \A f \in Files :
          /\ NewLinks(u, r, f) \subseteq Link
          /\ \A l \in NewLinks(u, r, f) :
                l.route = r /\ l.stop \in {f[i] : i \in DOMAIN f}
          /\ {<<l.order, l.stop>> : l \in NewLinks(u, r, f)}
                = {<<i, f[i]>> : i \in DOMAIN f}
    /\ \A f \in Files : {f[i] : i \in DOMAIN f} \subseteq StopNames
<1>1. \A f \in Files : {f[i] : i \in DOMAIN f} \subseteq StopNames
  BY DEF StopNames
<1>2. \A l \in Link : l.route \in Ids /\ l.stop \in StopNames
  BY DEF Link
<1>3. ASSUME NEW u \in Uploads, NEW r \in Ids, NEW f \in Files
      PROVE  /\ NewLinks(u, r, f) \subseteq Link
             /\ \A l \in NewLinks(u, r, f) :
                   l.route = r /\ l.stop \in {f[i] : i \in DOMAIN f}
             /\ {<<l.order, l.stop>> : l \in NewLinks(u, r, f)}
                   = {<<i, f[i]>> : i \in DOMAIN f}
  <2>1. Len(f) \in Nat /\ DOMAIN f = 1 .. Len(f)
    BY CatalogAssumption
  <2>2. \A i \in DOMAIN f : i \in Nat /\ f[i] \in StopNames
    BY <1>1, <2>1
  <2>3. NewLinks(u, r, f) \subseteq Link
    BY <2>2 DEF NewLinks, Link
  <2>4. \A l \in NewLinks(u, r, f) :
           l.route = r /\ l.stop \in {f[i] : i \in DOMAIN f}
    BY DEF NewLinks
  <2>5. ASSUME NEW i \in DOMAIN f
        PROVE  \E l \in NewLinks(u, r, f) : l.order = i /\ l.stop = f[i]
    <3>1. [route |-> r, order |-> i, stop |-> f[i], upload |-> u]
             \in NewLinks(u, r, f)
      BY DEF NewLinks
    <3>2. QED
      BY <3>1
  <2>6. \A l \in NewLinks(u, r, f) :
           \E i \in DOMAIN f : l.order = i /\ l.stop = f[i]
    BY DEF NewLinks
  <2>7. QED
    BY <2>3, <2>4, <2>5, <2>6
<1>4. QED
  BY <1>1, <1>2, <1>3

(* What is known of the handler of an upload, and of a route, whatever they *)
(* are.                                                                     *)
HandlerOK(u) ==
    /\ u > uploads => upload[u] = Idle
    /\ upload[u].pc = "put" =>
          /\ upload[u].id < nextRoute
          /\ \A l \in upload[u].seen : l.route = upload[u].id
          /\ (Exists(upload[u].id) /\ upload[u].id \notin overlapped) =>
                upload[u].seen = LinksOf(upload[u].id)
    /\ upload[u].pc \in {"insert", "put"} =>
          {upload[u].file[i] : i \in DOMAIN upload[u].file}
             \subseteq stops \union upload[u].missing

RouteOK(r) ==
    Exists(r) =>
        /\ r < nextRoute
        /\ r \notin overlapped =>
              StopsOf(r) = {<<i, route[r].file[i]>> :
                              i \in DOMAIN route[r].file}

NameOK(n) == Named(n) # {} \/ \E u \in Uploads : /\ upload[u].pc = "insert"
                                                 /\ upload[u].name = n

CatalogCore ==
    /\ CatalogTypeOK
    /\ \A u \in Uploads : HandlerOK(u)
    /\ \A r \in Ids : RouteOK(r)
    /\ \A n \in kept : NameOK(n)

LEMMA CoreIs ==
    CatalogCore <=> /\ CatalogTypeOK /\ GivenInOrder /\ KnowsItsStops
                    /\ SeenIsCurrent /\ StopsOfItsFile /\ UploadedStays
BY DEF CatalogCore, HandlerOK, RouteOK, NameOK, GivenInOrder, KnowsItsStops,
       SeenIsCurrent, StopsOfItsFile, UploadedStays, StopsIn

(* A route with the stops of its file is found just where it runs.          *)
LEMMA FoundFromStops ==
    ASSUME CatalogCore
    PROVE  FoundWhereItRuns
<1> SUFFICES ASSUME NEW r \in Ids \ overlapped,
                    NEW s \in StopNames, NEW e \in StopNames
             PROVE  LET f == route[r].file IN
                    /\ r \in Search({s}, {e})
                          <=> \E i, j \in DOMAIN f :
                                 i < j /\ f[i] = s /\ f[j] = e
                    /\ r \in Search({s}, {e}) =>
                          r \in RoutesOf(s) \intersect RoutesOf(e)
  BY DEF FoundWhereItRuns
<1> DEFINE f == route[r].file
<1>1. r \in Search({s}, {e}) =>
         r \in RoutesOf(s) \intersect RoutesOf(e)
  BY DEF Search, RoutesOf
<1>2. CatalogTypeOK /\ RouteOK(r)
  BY DEF CatalogCore
<1>3. CASE ~Exists(r)
  <2>1. LinksOf(r) = {}
    BY <1>2, <1>3 DEF CatalogTypeOK, LinksOf
  <2>2. DOMAIN f = {}
    BY <1>3 DEF Exists, NoRoute
  <2>3. r \notin Search({s}, {e})
    BY <2>1 DEF Search
  <2>4. ~ \E i, j \in DOMAIN f : i < j /\ f[i] = s /\ f[j] = e
    BY <2>2
  <2>5. QED
    BY <1>1, <2>3, <2>4
<1>4. CASE Exists(r)
  <2>1. {<<l.order, l.stop>> : l \in LinksOf(r)}
           = {<<i, f[i]>> : i \in DOMAIN f}
    BY <1>2, <1>4 DEF RouteOK, StopsOf
  <2>2. ASSUME NEW l \in LinksOf(r)
        PROVE  l.order \in DOMAIN f /\ f[l.order] = l.stop
    <3>1. <<l.order, l.stop>> \in {<<i, f[i]>> : i \in DOMAIN f}
      BY <2>1
    <3>2. PICK i \in DOMAIN f : <<l.order, l.stop>> = <<i, f[i]>>
      BY <3>1
    <3>3. QED
      BY <3>2
  <2>3. ASSUME NEW i \in DOMAIN f
        PROVE  \E l \in LinksOf(r) : l.order = i /\ l.stop = f[i]
    <3>1. <<i, f[i]>> \in {<<l.order, l.stop>> : l \in LinksOf(r)}
      BY <2>1
    <3>2. PICK l \in LinksOf(r) : <<i, f[i]>> = <<l.order, l.stop>>
      BY <3>1
    <3>3. QED
      BY <3>2
  <2>4. r \in Search({s}, {e}) <=>
           \E a, b \in LinksOf(r) :
              a.stop = s /\ b.stop = e /\ a.order < b.order
    BY DEF Search
  <2>5. ASSUME NEW a \in LinksOf(r), NEW b \in LinksOf(r),
               a.stop = s, b.stop = e, a.order < b.order
        PROVE  \E i, j \in DOMAIN f : i < j /\ f[i] = s /\ f[j] = e
    BY <2>2, <2>5
  <2>6. ASSUME NEW i \in DOMAIN f, NEW j \in DOMAIN f,
               i < j, f[i] = s, f[j] = e
        PROVE  \E a, b \in LinksOf(r) :
                  a.stop = s /\ b.stop = e /\ a.order < b.order
    <3>1. PICK a \in LinksOf(r) : a.order = i /\ a.stop = f[i]
      BY <2>3
    <3>2. PICK b \in LinksOf(r) : b.order = j /\ b.stop = f[j]
      BY <2>3
    <3>3. QED
      BY <2>6, <3>1, <3>2
  <2>7. QED
    BY <1>1, <2>4, <2>5, <2>6
<1>5. QED
  BY <1>3, <1>4

-----------------------------------------------------------------------------
(* What a step leaves as it is.                                             *)

(* What no step takes back.                                                 *)
Onward ==
    /\ nextRoute \in Nat /\ nextRoute' \in Nat /\ nextRoute <= nextRoute'
    /\ uploads \in Nat /\ uploads' \in Nat /\ uploads <= uploads'
    /\ stops \subseteq stops' /\ overlapped \subseteq overlapped'

(* The handler of upload u need not know of what the step does to route r.  *)
Quiet(u, r) ==
    (/\ upload[u].pc = "put" /\ upload[u].id = r
     /\ route'[r] # NoRoute /\ r \notin overlapped')
        => /\ route[r] # NoRoute
           /\ {l \in links' : l.route = r} = {l \in links : l.route = r}

LEMMA HandlerKept ==
    ASSUME CatalogTypeOK, Onward, NEW u \in Uploads, HandlerOK(u),
           upload'[u] = upload[u], \A r \in Ids : Quiet(u, r)
    PROVE  HandlerOK(u)'
<1>1. u \in Nat
  BY CatalogNumbers
<1>2. u > uploads' => upload'[u] = Idle
  BY <1>1 DEF HandlerOK, Onward
<1>3. upload[u].pc \in {"insert", "put"} =>
         {upload[u].file[i] : i \in DOMAIN upload[u].file}
            \subseteq stops' \union upload[u].missing
  BY DEF HandlerOK, Onward
<1>4. ASSUME upload[u].pc = "put"
      PROVE  /\ upload[u].id < nextRoute'
             /\ \A l \in upload[u].seen : l.route = upload[u].id
             /\ (route'[upload[u].id] # NoRoute
                 /\ upload[u].id \notin overlapped') =>
                   upload[u].seen = {l \in links' : l.route = upload[u].id}
  <2>1. PICK r \in Ids : r = upload[u].id
    BY <1>4, HandlerFacts
  <2>2. /\ r < nextRoute /\ \A l \in upload[u].seen : l.route = r
        /\ (route[r] # NoRoute /\ r \notin overlapped) =>
              upload[u].seen = {l \in links : l.route = r}
    BY <1>4, <2>1 DEF HandlerOK, Exists, LinksOf
  <2>3. r < nextRoute'
    BY <2>2, CatalogNumbers DEF Onward
  <2>4. (route'[r] # NoRoute /\ r \notin overlapped') =>
           upload[u].seen = {l \in links' : l.route = r}
    BY <1>4, <2>1, <2>2 DEF Quiet, Onward
  <2>5. QED
    BY <2>1, <2>2, <2>3, <2>4
<1>5. QED
  BY <1>2, <1>3, <1>4 DEF HandlerOK, Exists, LinksOf

LEMMA RouteKept ==
    ASSUME CatalogTypeOK, Onward, NEW r \in Ids, RouteOK(r),
           \/ route'[r] = NoRoute
           \/ /\ route'[r] = route[r]
              /\ {l \in links' : l.route = r} = {l \in links : l.route = r}
    PROVE  RouteOK(r)'
<1>1. CASE route'[r] = NoRoute
  BY <1>1 DEF RouteOK, Exists
<1>2. CASE /\ route'[r] = route[r]
           /\ {l \in links' : l.route = r} = {l \in links : l.route = r}
  <2>1. StopsOf(r)' = StopsOf(r)
    BY <1>2 DEF StopsOf, LinksOf
  <2>2. r < nextRoute => r < nextRoute'
    BY CatalogNumbers DEF Onward
  <2>3. QED
    BY <1>2, <2>1, <2>2 DEF RouteOK, Exists, Onward
<1>3. QED
  BY <1>1, <1>2

(* A route that has just been given the stops of a file.                    *)
LEMMA RouteGiven ==
    ASSUME NEW r \in Ids, NEW f \in Files, NEW u \in Uploads,
           route'[r].file = f, r < nextRoute',
           r \notin overlapped' =>
              {l \in links' : l.route = r} = NewLinks(u, r, f)
    PROVE  RouteOK(r)'
<1>1. r \notin overlapped' => StopsOf(r)' = {<<i, f[i]>> : i \in DOMAIN f}
  BY LinkFacts DEF StopsOf, LinksOf
<1>2. QED
  BY <1>1 DEF RouteOK

-----------------------------------------------------------------------------
(* The catalog, step by step.                                               *)

(* An upload that begins.                                                   *)
LEMMA BeginsCore ==
    ASSUME CatalogCore, NEW u \in Uploads, NEW h \in {Idle} \union Handler,
           Begins(u, h), h.pc # "insert",
           UNCHANGED <<route, nextRoute, links, stops, dbErrors, overlapped,
                       kept>>,
           h.pc = "put" =>
              /\ Exists(h.id) /\ h.id \in Ids /\ h.seen = LinksOf(h.id)
              /\ h.missing = Missing(h.file)
    PROVE  CatalogCore'
<1>1. CatalogTypeOK
  BY DEF CatalogCore
<1>2. /\ u = uploads + 1 /\ uploads' = u /\ uploads < MaxUploads
      /\ upload' = [upload EXCEPT ![u] = h]
      /\ u \in Nat /\ uploads \in Nat /\ MaxUploads \in Nat
      /\ nextRoute \in Nat
      /\ upload \in [Uploads -> {Idle} \union Handler]
  BY <1>1, CatalogNumbers DEF Begins, CatalogTypeOK
<1>3. upload[u] = Idle
  BY <1>2 DEF CatalogCore, HandlerOK
<1>4. CatalogTypeOK'
  BY <1>1, <1>2 DEF CatalogTypeOK, Exists
<1>5. Onward
  BY <1>2 DEF Onward
<1>6. upload'[u] = h /\ \A v \in Uploads \ {u} : upload'[v] = upload[v]
  BY <1>2
<1>7. HandlerOK(u)'
  <2>1. ~(u > uploads')
    BY <1>2
  <2>2. h.pc = "put" => /\ h.id < nextRoute
                        /\ \A l \in h.seen : l.route = h.id
                        /\ h.seen = LinksOf(h.id)
    BY DEF CatalogCore, RouteOK, LinksOf
  <2>3. h.pc = "put" => {h.file[i] : i \in DOMAIN h.file}
                           \subseteq stops \union h.missing
    BY DEF Missing
  <2>4. LinksOf(h.id)' = LinksOf(h.id')
    BY DEF LinksOf
  <2>5. h.pc = "put" =>
           /\ upload'[u].id < nextRoute'
           /\ \A l \in upload'[u].seen : l.route = upload'[u].id
           /\ upload'[u].seen = {l \in links' : l.route = upload'[u].id}
    BY <1>6, <2>2 DEF LinksOf
  <2>6. QED
    BY <1>6, <2>1, <2>3, <2>5 DEF HandlerOK, LinksOf
<1>8. ASSUME NEW v \in Uploads \ {u}
      PROVE  HandlerOK(v)'
  <2>1. \A r \in Ids : Quiet(v, r)
    BY DEF Quiet
  <2>2. QED
    BY <1>1, <1>5, <1>6, <2>1, HandlerKept DEF CatalogCore
<1>9. ASSUME NEW r \in Ids
      PROVE  RouteOK(r)'
  BY <1>1, <1>5, RouteKept DEF CatalogCore
<1>10. Idle.pc # "insert"
  BY DEF Idle
<1>11. ASSUME NEW n \in kept'
       PROVE  NameOK(n)'
  <2>1. NameOK(n)
    BY DEF CatalogCore
  <2>2. QED
    BY <1>3, <1>6, <1>10, <2>1 DEF NameOK, Named
<1>12. QED
  BY <1>4, <1>7, <1>8, <1>9, <1>11 DEF CatalogCore

LEMMA ReadersCore ==
    ASSUME CatalogCore, NEW u \in Uploads, NEW n \in Names,
           \/ BadFile(u, n)
           \/ \E f \in Files : \/ ImportReads(u, n, f)
                               \/ \E r \in Ids : PutReads(u, r, n, f)
    PROVE  CatalogCore'
<1>1. CatalogTypeOK
  BY DEF CatalogCore
<1>2. CASE BadFile(u, n)
  <2>1. Idle.pc = "idle"
    BY DEF Idle
  <2>2. QED
    BY <1>2, <2>1, BeginsCore DEF BadFile
<1>3. ASSUME NEW f \in Files, ImportReads(u, n, f)
      PROVE  CatalogCore'
  <2> DEFINE h == [pc |-> "delete", name |-> n, file |-> f,
                   found |-> Named(n)]
  <2>1. h \in Handler
    BY DEF Handler, Named
  <2>2. h.pc = "delete"
    OBVIOUS
  <2>3. Begins(u, h) /\ UNCHANGED <<route, nextRoute, links, stops, dbErrors,
                                    overlapped, kept>>
    BY <1>3 DEF ImportReads
  <2> HIDE DEF h
  <2>4. QED
    BY <2>1, <2>2, <2>3, BeginsCore
<1>4. ASSUME NEW f \in Files, NEW r \in Ids, PutReads(u, r, n, f)
      PROVE  CatalogCore'
  <2> DEFINE h == [pc |-> "put", id |-> r, name |-> n, file |-> f,
                   seen |-> LinksOf(r), missing |-> Missing(f)]
  <2>1. LinksOf(r) \subseteq Link /\ Missing(f) \subseteq StopNames
    BY <1>1, LinkFacts DEF CatalogTypeOK, LinksOf, Missing
  <2>2. h \in Handler
    BY <2>1 DEF Handler
  <2>3. /\ h.pc = "put" /\ h.id = r /\ h.seen = LinksOf(r)
        /\ h.missing = Missing(f) /\ h.file = f
    OBVIOUS
  <2>4. /\ Begins(u, h) /\ Exists(r)
        /\ UNCHANGED <<route, nextRoute, links, stops, dbErrors,
                       overlapped, kept>>
    BY <1>4 DEF PutReads
  <2> HIDE DEF h
  <2>5. QED
    BY <2>2, <2>3, <2>4, BeginsCore
<1>5. QED
  BY <1>2, <1>3, <1>4

(* An upload that ends, without anything written.                           *)
LEMMA EndsCore ==
    ASSUME CatalogCore, NEW u \in Uploads, Ends(u), upload[u] # Idle,
           UNCHANGED <<route, nextRoute, links, stops, uploads, overlapped>>,
           dbErrors' \in 0 .. MaxDbErrors, kept' \subseteq kept,
           upload[u].pc = "insert" =>
              (upload[u].name \in kept' => Named(upload[u].name) # {})
    PROVE  CatalogCore'
<1>1. CatalogTypeOK
  BY DEF CatalogCore
<1>2. /\ upload' = [upload EXCEPT ![u] = Idle]
      /\ upload \in [Uploads -> {Idle} \union Handler]
  BY <1>1 DEF Ends, CatalogTypeOK
<1>3. upload'[u] = Idle /\ \A v \in Uploads \ {u} : upload'[v] = upload[v]
  BY <1>2
<1>4. CatalogTypeOK'
  BY <1>1, <1>2 DEF CatalogTypeOK, Exists
<1>5. Onward
  BY <1>1, CatalogNumbers DEF Onward
<1>6. HandlerOK(u)'
  BY <1>3 DEF HandlerOK, Idle
<1>7. ASSUME NEW v \in Uploads \ {u}
      PROVE  HandlerOK(v)'
  <2>1. \A r \in Ids : Quiet(v, r)
    BY DEF Quiet
  <2>2. QED
    BY <1>1, <1>3, <1>5, <2>1, HandlerKept DEF CatalogCore
<1>8. ASSUME NEW r \in Ids
      PROVE  RouteOK(r)'
  BY <1>1, <1>5, RouteKept DEF CatalogCore
<1>9. ASSUME NEW n \in kept'
      PROVE  NameOK(n)'
  <2>1. NameOK(n)
    BY DEF CatalogCore
  <2>2. QED
    BY <1>3, <2>1 DEF NameOK, Named
<1>10. QED
  BY <1>4, <1>6, <1>7, <1>8, <1>9 DEF CatalogCore

LEMMA FailuresCore ==
    ASSUME CatalogCore, NEW u \in Uploads, ImportFails(u) \/ PutFails(u)
    PROVE  CatalogCore'
<1>1. CatalogTypeOK /\ Idle.pc = "idle" /\ dbErrors \in 0 .. MaxDbErrors
  BY DEF CatalogCore, CatalogTypeOK, Idle
<1>2. CASE ImportFails(u)
  <2>1. /\ dbErrors' \in 0 .. MaxDbErrors /\ upload[u] # Idle
        /\ upload[u].pc = "insert"
    BY <1>1, <1>2, CatalogNumbers DEF ImportFails
  <2>2. /\ kept' \subseteq kept
        /\ upload[u].name \in kept' => Named(upload[u].name) # {}
    BY <1>2 DEF ImportFails
  <2>3. QED
    BY <1>2, <2>1, <2>2, EndsCore DEF ImportFails
<1>3. CASE PutFails(u)
  <2>1. /\ dbErrors' \in 0 .. MaxDbErrors /\ upload[u] # Idle
        /\ upload[u].pc # "insert"
    BY <1>1, <1>3, CatalogNumbers DEF PutFails
  <2>2. QED
    BY <1>3, <2>1, EndsCore DEF PutFails
<1>4. QED
  BY <1>2, <1>3

LEMMA DeletesCore ==
    ASSUME CatalogCore, NEW u \in Uploads, ImportDeletes(u)
    PROVE  CatalogCore'
<1>1. CatalogTypeOK /\ Idle.pc = "idle"
  BY DEF CatalogCore, Idle
<1>2. PICK found, n, f :
         found = upload[u].found /\ n = upload[u].name /\ f = upload[u].file
  OBVIOUS
<1>3. /\ upload[u].pc = "delete" /\ found \subseteq Ids
      /\ n \in Names /\ f \in Files
  BY <1>1, <1>2, HandlerFacts DEF ImportDeletes
<1> DEFINE h == [pc |-> "insert", name |-> n, file |-> f,
                 missing |-> Missing(f)]
<1>4. /\ route' = [r \in Ids |-> IF r \in found THEN NoRoute ELSE route[r]]
      /\ links' = {l \in links : l.route \notin found}
      /\ kept' = kept \ ({route[r].name : r \in found} \ {n})
      /\ upload' = [upload EXCEPT ![u] = h]
      /\ UNCHANGED <<nextRoute, stops, uploads, dbErrors, overlapped>>
  BY <1>2 DEF ImportDeletes
<1>5. /\ h \in Handler /\ h.pc = "insert" /\ h.name = n /\ h.file = f
      /\ h.missing = Missing(f)
  BY <1>3, LinkFacts DEF Handler, Missing
<1> HIDE DEF h
<1>6. /\ upload \in [Uploads -> {Idle} \union Handler]
      /\ route \in [Ids -> Row \union {NoRoute}]
      /\ links \subseteq Link /\ kept \subseteq Names
      /\ \A l \in links : Exists(l.route) /\ l.stop \in stops
  BY <1>1 DEF CatalogTypeOK
<1>7. upload'[u] = h /\ \A v \in Uploads \ {u} : upload'[v] = upload[v]
  BY <1>4, <1>6
<1>8. CatalogTypeOK'
  <2>1. /\ upload' \in [Uploads -> {Idle} \union Handler]
        /\ route' \in [Ids -> Row \union {NoRoute}]
        /\ links' \subseteq Link /\ kept' \subseteq Names
    BY <1>4, <1>5, <1>6
  <2>2. \A l \in links' : route'[l.route] # NoRoute /\ l.stop \in stops'
    BY <1>4, <1>6, LinkFacts DEF Exists
  <2>3. QED
    BY <1>1, <1>4, <2>1, <2>2 DEF CatalogTypeOK, Exists
<1>9. Onward
  BY <1>1, <1>4, CatalogNumbers DEF Onward
<1>10. \A r \in Ids :
          IF r \in found
          THEN route'[r] = NoRoute
          ELSE /\ route'[r] = route[r]
               /\ {l \in links' : l.route = r} = {l \in links : l.route = r}
  BY <1>4
<1>11. HandlerOK(u)'
  <2>1. ~(u > uploads)
    BY <1>1, <1>3 DEF CatalogCore, HandlerOK
  <2>2. {h.file[i] : i \in DOMAIN h.file} \subseteq stops \union h.missing
    BY <1>5 DEF Missing
  <2>3. QED
    BY <1>4, <1>5, <1>7, <2>1, <2>2 DEF HandlerOK
<1>12. ASSUME NEW v \in Uploads \ {u}
       PROVE  HandlerOK(v)'
  <2>1. \A r \in Ids : Quiet(v, r)
    BY <1>10 DEF Quiet
  <2>2. QED
    BY <1>1, <1>7, <1>9, <2>1, HandlerKept DEF CatalogCore
<1>13. ASSUME NEW r \in Ids
       PROVE  RouteOK(r)'
  BY <1>1, <1>9, <1>10, RouteKept DEF CatalogCore
<1>14. ASSUME NEW m \in kept'
       PROVE  NameOK(m)'
  <2>1. NameOK(m)
    BY <1>4 DEF CatalogCore
  <2>2. CASE m = n
    BY <1>5, <1>7, <2>2 DEF NameOK
  <2>3. CASE m # n /\ Named(m) # {}
    <3>1. PICK r \in Ids : route[r].name = m
      BY <2>3 DEF Named
    <3>2. r \notin found
      BY <1>4, <2>3, <3>1
    <3>3. QED
      BY <1>10, <3>1, <3>2 DEF NameOK, Named
  <2>4. ASSUME NEW v \in Uploads, upload[v].pc = "insert",
               upload[v].name = m
        PROVE  NameOK(m)'
    BY <1>3, <1>7, <2>4 DEF NameOK
  <2>5. QED
    BY <2>1, <2>2, <2>3, <2>4 DEF NameOK
<1>15. QED
  BY <1>8, <1>11, <1>12, <1>13, <1>14 DEF CatalogCore

LEMMA InsertsCore ==
    ASSUME CatalogCore, NEW u \in Uploads, ImportInserts(u)
    PROVE  CatalogCore'
<1>1. CatalogTypeOK /\ Idle.pc = "idle"
  BY DEF CatalogCore, Idle
<1>2. PICK n, f, missing, q :
         /\ n = upload[u].name /\ f = upload[u].file
         /\ missing = upload[u].missing /\ q = nextRoute
  OBVIOUS
<1>3. /\ upload[u].pc = "insert" /\ n \in Names /\ f \in Files
      /\ missing \subseteq StopNames /\ q \in Ids
  BY <1>1, <1>2, HandlerFacts DEF ImportInserts
<1> DEFINE w == [name |-> n, file |-> f, upload |-> u]
<1>4. /\ route' = [route EXCEPT ![q] = w]
      /\ nextRoute' = q + 1
      /\ links' = links \union NewLinks(u, q, f)
      /\ stops' = stops \union missing
      /\ kept' = kept \union {n}
      /\ upload' = [upload EXCEPT ![u] = Idle]
      /\ UNCHANGED <<uploads, dbErrors, overlapped>>
  BY <1>2 DEF ImportInserts, Ends
<1>5. w \in Row /\ w.name = n /\ w.file = f /\ w # NoRoute
  BY <1>1, <1>3, RowFacts
<1> HIDE DEF w
<1>6. /\ upload \in [Uploads -> {Idle} \union Handler]
      /\ route \in [Ids -> Row \union {NoRoute}]
      /\ links \subseteq Link /\ kept \subseteq Names
      /\ stops \subseteq StopNames
      /\ \A l \in links : Exists(l.route) /\ l.stop \in stops
  BY <1>1 DEF CatalogTypeOK
<1>7. upload'[u] = Idle /\ \A v \in Uploads \ {u} : upload'[v] = upload[v]
  BY <1>4, <1>6
<1>8. {f[i] : i \in DOMAIN f} \subseteq stops'
  BY <1>2, <1>3, <1>4 DEF CatalogCore, HandlerOK
<1>9. /\ NewLinks(u, q, f) \subseteq Link
      /\ \A l \in NewLinks(u, q, f) : l.route = q /\ l.stop \in stops'
  BY <1>3, <1>8, LinkFacts
<1>10. /\ q \in Nat /\ q + 1 \in 1 .. MaxRoutes + 1 /\ Ids \subseteq Nat
  BY <1>1, <1>2, <1>3, CatalogNumbers
<1>11. CatalogTypeOK'
  <2>1. /\ upload' \in [Uploads -> {Idle} \union Handler]
        /\ route' \in [Ids -> Row \union {NoRoute}]
        /\ links' \subseteq Link /\ kept' \subseteq Names
        /\ stops' \subseteq StopNames
    BY <1>3, <1>4, <1>5, <1>6, <1>9
  <2>2. \A l \in links' : route'[l.route] # NoRoute /\ l.stop \in stops'
    BY <1>3, <1>4, <1>5, <1>6, <1>9, LinkFacts DEF Exists
  <2>3. QED
    BY <1>1, <1>4, <1>10, <2>1, <2>2 DEF CatalogTypeOK, Exists
<1>12. Onward
  BY <1>1, <1>2, <1>4, <1>10, CatalogNumbers DEF Onward
<1>13. route[q] = NoRoute
  BY <1>1, <1>2, <1>3, <1>10 DEF CatalogCore, RouteOK, Exists
<1>14. {l \in links' : l.route = q} = NewLinks(u, q, f)
  <2>1. \A l \in links : l.route # q
    BY <1>6, <1>13 DEF Exists
  <2>2. QED
    BY <1>4, <1>9, <2>1
<1>15. \A r \in Ids \ {q} :
          /\ route'[r] = route[r]
          /\ {l \in links' : l.route = r} = {l \in links : l.route = r}
  BY <1>4, <1>6, <1>9
<1>16. HandlerOK(u)'
  BY <1>1, <1>7 DEF HandlerOK
<1>17. ASSUME NEW v \in Uploads \ {u}
       PROVE  HandlerOK(v)'
  <2>1. upload[v].pc = "put" => upload[v].id # q
    BY <1>1, <1>2, <1>10 DEF CatalogCore, HandlerOK
  <2>2. \A r \in Ids : Quiet(v, r)
    BY <1>15, <2>1 DEF Quiet
  <2>3. QED
    BY <1>1, <1>7, <1>12, <2>2, HandlerKept DEF CatalogCore
<1>18. ASSUME NEW r \in Ids
       PROVE  RouteOK(r)'
  <2>1. CASE r = q
    <3>1. route'[q].file = f /\ q < nextRoute'
      BY <1>3, <1>4, <1>5, <1>6, <1>10
    <3>2. QED
      BY <1>3, <1>14, <2>1, <3>1, RouteGiven
  <2>2. CASE r # q
    BY <1>1, <1>12, <1>15, <2>2, RouteKept DEF CatalogCore
  <2>3. QED
    BY <2>1, <2>2
<1>19. ASSUME NEW m \in kept'
       PROVE  NameOK(m)'
  <2>1. CASE m = n
    <3>1. route'[q].name = m
      BY <1>3, <1>4, <1>5, <1>6, <2>1
    <3>2. QED
      BY <1>3, <3>1 DEF NameOK, Named
  <2>2. CASE m # n
    <3>1. NameOK(m) /\ m \in Names
      BY <1>4, <1>6, <2>2 DEF CatalogCore
    <3>2. ASSUME NEW r \in Ids, route[r].name = m
          PROVE  NameOK(m)'
      <4>1. r # q
        BY <1>1, <1>13, <3>1, <3>2, RowFacts DEF Exists
      <4>2. QED
        BY <1>15, <3>2, <4>1 DEF NameOK, Named
    <3>3. ASSUME NEW v \in Uploads, upload[v].pc = "insert",
                 upload[v].name = m
          PROVE  NameOK(m)'
      BY <1>2, <1>7, <2>2, <3>3 DEF NameOK
    <3>4. QED
      BY <3>1, <3>2, <3>3 DEF NameOK, Named
  <2>3. QED
    BY <2>1, <2>2
<1>20. QED
  BY <1>11, <1>16, <1>17, <1>18, <1>19 DEF CatalogCore

LEMMA WritesCore ==
    ASSUME CatalogCore, NEW u \in Uploads, PutWrites(u)
    PROVE  CatalogCore'
<1>1. CatalogTypeOK /\ Idle.pc = "idle"
  BY DEF CatalogCore, Idle
<1>2. PICK n, f, missing, seen, q :
         /\ n = upload[u].name /\ f = upload[u].file
         /\ missing = upload[u].missing /\ seen = upload[u].seen
         /\ q = upload[u].id
  OBVIOUS
<1>3. /\ upload[u].pc = "put" /\ n \in Names /\ f \in Files
      /\ missing \subseteq StopNames /\ q \in Ids
  BY <1>1, <1>2, HandlerFacts DEF PutWrites
<1> DEFINE w == [name |-> n, file |-> f, upload |-> u]
<1>4. /\ Exists(q) /\ Named(n) \subseteq {q}
      /\ route' = [route EXCEPT ![q] = w]
      /\ links' = (links \ seen) \union NewLinks(u, q, f)
      /\ overlapped' = IF Others(u, q) = {} THEN overlapped
                                            ELSE overlapped \union {q}
      /\ kept' = (kept \ {route[q].name}) \union {n}
      /\ stops' = stops \union missing
      /\ upload' = [upload EXCEPT ![u] = Idle]
      /\ UNCHANGED <<nextRoute, uploads, dbErrors>>
  BY <1>2 DEF PutWrites, Ends
<1>5. w \in Row /\ w.name = n /\ w.file = f /\ w # NoRoute
  BY <1>1, <1>3, RowFacts
<1> HIDE DEF w
<1>6. /\ upload \in [Uploads -> {Idle} \union Handler]
      /\ route \in [Ids -> Row \union {NoRoute}]
      /\ links \subseteq Link /\ kept \subseteq Names
      /\ stops \subseteq StopNames /\ overlapped \subseteq Ids
      /\ \A l \in links : Exists(l.route) /\ l.stop \in stops
  BY <1>1 DEF CatalogTypeOK
<1>7. upload'[u] = Idle /\ \A v \in Uploads \ {u} : upload'[v] = upload[v]
  BY <1>4, <1>6
<1>8. {f[i] : i \in DOMAIN f} \subseteq stops'
  BY <1>2, <1>3, <1>4 DEF CatalogCore, HandlerOK
<1>9. /\ NewLinks(u, q, f) \subseteq Link
      /\ \A l \in NewLinks(u, q, f) : l.route = q /\ l.stop \in stops'
  BY <1>3, <1>8, LinkFacts
<1>10. /\ \A l \in seen : l.route = q
       /\ q \notin overlapped => seen = {l \in links : l.route = q}
       /\ q < nextRoute
  BY <1>2, <1>3, <1>4 DEF CatalogCore, HandlerOK, LinksOf
<1>11. CatalogTypeOK'
  <2>1. /\ upload' \in [Uploads -> {Idle} \union Handler]
        /\ route' \in [Ids -> Row \union {NoRoute}]
        /\ links' \subseteq Link /\ kept' \subseteq Names
        /\ stops' \subseteq StopNames /\ overlapped' \subseteq Ids
    BY <1>3, <1>4, <1>5, <1>6, <1>9
  <2>2. \A l \in links' : route'[l.route] # NoRoute /\ l.stop \in stops'
    BY <1>3, <1>4, <1>5, <1>6, <1>9, LinkFacts DEF Exists
  <2>3. QED
    BY <1>1, <1>4, <2>1, <2>2 DEF CatalogTypeOK, Exists
<1>12. overlapped \subseteq overlapped'
  BY <1>4
<1>13. Onward
  BY <1>1, <1>4, <1>12, CatalogNumbers DEF Onward
<1>14. q \notin overlapped' =>
          {l \in links' : l.route = q} = NewLinks(u, q, f)
  BY <1>4, <1>9, <1>10, <1>12
<1>15. \A r \in Ids \ {q} :
          /\ route'[r] = route[r]
          /\ {l \in links' : l.route = r} = {l \in links : l.route = r}
  BY <1>4, <1>6, <1>9, <1>10
<1>16. HandlerOK(u)'
  BY <1>1, <1>7 DEF HandlerOK
<1>17. ASSUME NEW v \in Uploads \ {u}
       PROVE  HandlerOK(v)'
  <2>1. (upload[v].pc = "put" /\ upload[v].id = q) => q \in overlapped'
    <3>1. (upload[v].pc = "put" /\ upload[v].id = q) => v \in Others(u, q)
      BY DEF Others
    <3>2. QED
      BY <1>4, <3>1
  <2>2. \A r \in Ids : Quiet(v, r)
    BY <1>15, <2>1 DEF Quiet
  <2>3. QED
    BY <1>1, <1>7, <1>13, <2>2, HandlerKept DEF CatalogCore
<1>18. route'[q].file = f /\ route'[q].name = n
  BY <1>3, <1>4, <1>5, <1>6
<1>19. ASSUME NEW r \in Ids
       PROVE  RouteOK(r)'
  <2>1. CASE r = q
    <3>1. q < nextRoute'
      BY <1>4, <1>10
    <3>2. QED
      BY <1>3, <1>14, <1>18, <2>1, <3>1, RouteGiven
  <2>2. CASE r # q
    BY <1>1, <1>13, <1>15, <2>2, RouteKept DEF CatalogCore
  <2>3. QED
    BY <2>1, <2>2
<1>20. ASSUME NEW m \in kept'
       PROVE  NameOK(m)'
  <2>1. CASE m = n
    BY <1>3, <1>18, <2>1 DEF NameOK, Named
  <2>2. CASE m # n
    <3>1. NameOK(m) /\ m # route[q].name
      BY <1>4, <2>2 DEF CatalogCore
    <3>2. ASSUME NEW r \in Ids, route[r].name = m
          PROVE  NameOK(m)'
      BY <1>15, <3>1, <3>2 DEF NameOK, Named
    <3>3. ASSUME NEW v \in Uploads, upload[v].pc = "insert",
                 upload[v].name = m
          PROVE  NameOK(m)'
      BY <1>3, <1>7, <3>3 DEF NameOK
    <3>4. QED
      BY <3>1, <3>2, <3>3 DEF NameOK, Named
  <2>3. QED
    BY <2>1, <2>2
<1>21. QED
  BY <1>11, <1>16, <1>17, <1>19, <1>20 DEF CatalogCore

LEMMA RemovalCore ==
    ASSUME CatalogCore, NEW q \in Ids, DeleteRoute(q)
    PROVE  CatalogCore'
<1>1. CatalogTypeOK
  BY DEF CatalogCore
<1>2. /\ Exists(q)
      /\ route' = [route EXCEPT ![q] = NoRoute]
      /\ links' = links \ LinksOf(q)
      /\ kept' = kept \ {route[q].name}
      /\ UNCHANGED <<nextRoute, stops, uploads, upload, dbErrors, overlapped>>
  BY DEF DeleteRoute
<1>3. /\ route \in [Ids -> Row \union {NoRoute}]
      /\ links \subseteq Link /\ kept \subseteq Names
      /\ \A l \in links : Exists(l.route) /\ l.stop \in stops
  BY <1>1 DEF CatalogTypeOK
<1>4. /\ route'[q] = NoRoute
      /\ \A l \in links' : l \in links /\ l.route # q
      /\ \A r \in Ids \ {q} :
            /\ route'[r] = route[r]
            /\ {l \in links' : l.route = r} = {l \in links : l.route = r}
  BY <1>2, <1>3 DEF LinksOf
<1>5. CatalogTypeOK'
  <2>1. /\ route' \in [Ids -> Row \union {NoRoute}]
        /\ links' \subseteq Link /\ kept' \subseteq Names
    BY <1>2, <1>3
  <2>2. \A l \in links' : route'[l.route] # NoRoute /\ l.stop \in stops'
    BY <1>2, <1>3, <1>4, LinkFacts DEF Exists
  <2>3. QED
    BY <1>1, <1>2, <2>1, <2>2 DEF CatalogTypeOK, Exists
<1>6. Onward
  BY <1>1, <1>2, CatalogNumbers DEF Onward
<1>7. ASSUME NEW v \in Uploads
      PROVE  HandlerOK(v)'
  <2>1. \A r \in Ids : Quiet(v, r)
    BY <1>4 DEF Quiet
  <2>2. QED
    BY <1>1, <1>2, <1>6, <2>1, HandlerKept DEF CatalogCore
<1>8. ASSUME NEW r \in Ids
      PROVE  RouteOK(r)'
  BY <1>1, <1>4, <1>6, RouteKept DEF CatalogCore
<1>9. ASSUME NEW m \in kept'
      PROVE  NameOK(m)'
  <2>1. NameOK(m) /\ m # route[q].name
    BY <1>2 DEF CatalogCore
  <2>2. ASSUME NEW r \in Ids, route[r].name = m
        PROVE  NameOK(m)'
    BY <1>4, <2>1, <2>2 DEF NameOK, Named
  <2>3. ASSUME NEW v \in Uploads, upload[v].pc = "insert",
               upload[v].name = m
        PROVE  NameOK(m)'
    BY <1>2, <2>3 DEF NameOK
  <2>4. QED
    BY <2>1, <2>2, <2>3 DEF NameOK, Named
<1>10. QED
  BY <1>5, <1>7, <1>8, <1>9 DEF CatalogCore

LEMMA CatalogStarts == CatalogInit => CatalogCore
<1> SUFFICES ASSUME CatalogInit
             PROVE  CatalogCore
  OBVIOUS
<1>1. CatalogTypeOK
  BY CatalogAssumption DEF CatalogInit, CatalogTypeOK, Exists
<1>2. \A u \in Uploads : HandlerOK(u)
  BY DEF CatalogInit, HandlerOK, Idle
<1>3. \A r \in Ids : RouteOK(r)
  BY DEF CatalogInit, RouteOK, Exists
<1>4. \A n \in kept : NameOK(n)
  BY DEF CatalogInit
<1>5. QED
  BY <1>1, <1>2, <1>3, <1>4 DEF CatalogCore

LEMMA CatalogKept ==
    ASSUME CatalogCore, [CatalogNext]_catalogVars
    PROVE  CatalogCore'
<1>1. CASE UNCHANGED <<route, nextRoute, links, stops, uploads, upload,
                       dbErrors, overlapped, kept>>
  BY <1>1 DEF CatalogCore, CatalogTypeOK, HandlerOK, RouteOK, NameOK, Exists,
              Named, LinksOf, StopsOf
<1>2. ASSUME NEW u \in Uploads, NEW n \in Names,
             \/ BadFile(u, n)
             \/ \E f \in Files : \/ ImportReads(u, n, f)
                                 \/ \E r \in Ids : PutReads(u, r, n, f)
      PROVE  CatalogCore'
  BY <1>2, ReadersCore
<1>3. ASSUME NEW u \in Uploads,
             \/ ImportDeletes(u) \/ ImportInserts(u)
             \/ ImportFails(u) \/ PutWrites(u) \/ PutFails(u)
      PROVE  CatalogCore'
  BY <1>3, DeletesCore, InsertsCore, FailuresCore, WritesCore
<1>4. ASSUME NEW r \in Ids, DeleteRoute(r)
      PROVE  CatalogCore'
  BY <1>4, RemovalCore
<1>5. CASE (\E r \in Ids : CopyLine(r)) \/ CopyStops \/ UNCHANGED catalogVars
  BY <1>1, <1>5 DEF CopyLine, CopyStops, catalogVars
<1>6. QED
  BY <1>2, <1>3, <1>4, <1>5 DEF CatalogNext

-----------------------------------------------------------------------------
(* The copy of a route that the stream job makes.                           *)

CopyOK == CopyFollows /\ CopyIsOfOneFile

LEMMA CopyTypes ==
    ASSUME copy \in {NoCopy} \union Copied
    PROVE  /\ NoCopy.at = "none"
           /\ copy.at \in {"none", "line", "both"}
           /\ copy.at # "none" => /\ copy \in Copied
                                  /\ copy.route \in Ids /\ copy.line \in Files
                                  /\ copy.replaced \in BOOLEAN
           /\ copy.at = "line" =>
                 /\ [copy EXCEPT !.replaced = TRUE] \in Copied
                 /\ [copy EXCEPT !.replaced = TRUE].at = "line"
                 /\ [copy EXCEPT !.replaced = TRUE].route = copy.route
                 /\ [copy EXCEPT !.replaced = TRUE].replaced
<1>1. NoCopy.at = "none"
  BY DEF NoCopy
<1>2. CASE copy = NoCopy
  BY <1>1, <1>2
<1>3. CASE copy \in [at : {"line"}, route : Ids, line : Files,
                     replaced : BOOLEAN]
  BY <1>1, <1>3 DEF Copied
<1>4. CASE copy \in [at : {"both"}, route : Ids, line : Files,
                     replaced : BOOLEAN, stops : SUBSET (Nat \X StopNames)]
  BY <1>1, <1>4 DEF Copied
<1>5. QED
  BY <1>2, <1>3, <1>4 DEF Copied

(* A step of others: the row that was copied is as it was, or gone, or it   *)
(* is noted that it was replaced.                                           *)
LEMMA CopyBesides ==
    ASSUME CatalogCore, CopyOK, overlapped \subseteq overlapped',
           nextRoute' \in Nat, nextRoute <= nextRoute',
           \/ /\ copy' = copy
              /\ copy.at = "line" =>
                    route'[copy.route] \in {route[copy.route], NoRoute}
           \/ /\ copy.at = "line"
              /\ copy' = [copy EXCEPT !.replaced = TRUE]
    PROVE  CopyOK'
<1>1. /\ CatalogTypeOK /\ copy \in {NoCopy} \union Copied
      /\ nextRoute \in Nat /\ Ids \subseteq Nat
  BY CatalogNumbers DEF CatalogCore, CopyOK, CopyFollows
<1>2. CASE copy.at # "line"
  <2>1. copy' = copy
    BY <1>2
  <2>2. QED
    BY <1>1, <1>2, <2>1 DEF CopyOK, CopyFollows, CopyIsOfOneFile
<1>3. CASE /\ copy.at = "line" /\ copy' = copy
           /\ route'[copy.route] \in {route[copy.route], NoRoute}
  <2>1. copy.route \in Ids /\ copy.route < nextRoute'
    BY <1>1, <1>3, CopyTypes DEF CopyOK, CopyFollows
  <2>2. (route'[copy.route] # NoRoute /\ ~copy.replaced) =>
           route'[copy.route].file = copy.line
    BY <1>3 DEF CopyOK, CopyFollows, Exists
  <2>3. QED
    BY <1>1, <1>3, <2>1, <2>2 DEF CopyOK, CopyFollows, CopyIsOfOneFile, Exists
<1>4. CASE copy.at = "line" /\ copy' = [copy EXCEPT !.replaced = TRUE]
  <2>1. copy.route \in Ids /\ copy.route < nextRoute'
    BY <1>1, <1>4, CopyTypes DEF CopyOK, CopyFollows
  <2>2. /\ copy' \in Copied /\ copy'.at = "line" /\ copy'.route = copy.route
        /\ copy'.replaced
    BY <1>1, <1>4, CopyTypes
  <2>3. QED
    BY <2>1, <2>2 DEF CopyOK, CopyFollows, CopyIsOfOneFile
<1>5. QED
  BY <1>2, <1>3, <1>4

(* What the second request is answered.                                     *)
LEMMA CopyStopsKept ==
    ASSUME CatalogCore, CopyOK, CopyStops
    PROVE  CopyOK'
<1>1. /\ CatalogTypeOK /\ copy \in Copied /\ copy.route \in Ids
      /\ copy.line \in Files /\ copy.replaced \in BOOLEAN
      /\ copy.at = "line" /\ UNCHANGED <<route, links, overlapped, nextRoute>>
  BY CopyTypes DEF CatalogCore, CopyOK, CopyFollows, CopyStops
<1>2. PICK q, line, replaced :
         q = copy.route /\ line = copy.line /\ replaced = copy.replaced
  OBVIOUS
<1>3. PICK given \in {StopsOf(q), {}} :
         copy' = [at |-> "both", route |-> q, line |-> line,
                  replaced |-> replaced, stops |-> given]
  BY <1>2 DEF CopyStops
<1>4. StopsOf(q) \in SUBSET (Nat \X StopNames)
  BY <1>1 DEF StopsOf, LinksOf, CatalogTypeOK, Link
<1>5. /\ copy' \in Copied /\ copy'.at = "both" /\ copy'.route = q
      /\ copy'.line = line /\ copy'.replaced = replaced
      /\ copy'.stops = given
  BY <1>1, <1>2, <1>3, <1>4 DEF Copied
<1>6. ASSUME q \notin overlapped, Exists(q)
      PROVE  /\ StopsOf(q) = StopsIn(route[q].file) /\ route[q].file \in Files
             /\ ~replaced => route[q].file = line
  <2>1. RouteOK(q)
    BY <1>1, <1>2 DEF CatalogCore
  <2>2. ~replaced => route[q].file = line
    BY <1>1, <1>2, <1>6 DEF CopyOK, CopyFollows
  <2>3. route[q].file \in Files
    BY <1>1, <1>2, <1>6, RowFacts
  <2>4. QED
    BY <1>6, <2>1, <2>2, <2>3 DEF RouteOK, StopsIn
<1>7. ~Exists(q) => StopsOf(q) = {}
  BY <1>1 DEF CatalogTypeOK, StopsOf, LinksOf
<1>8. CopyIsOfOneFile'
  <2> SUFFICES ASSUME q \notin overlapped
               PROVE  \/ given \in {{}, StopsIn(line)}
                      \/ replaced /\ \E f \in Files : given = StopsIn(f)
    BY <1>1, <1>5 DEF CopyIsOfOneFile, StopsIn
  <2>1. CASE given = {}
    BY <2>1
  <2>2. CASE given = StopsOf(q) /\ Exists(q)
    BY <1>1, <1>2, <1>6, <2>2
  <2>3. QED
    BY <1>3, <1>7, <2>1, <2>2
<1>9. QED
  BY <1>5, <1>8 DEF CopyOK, CopyFollows

LEMMA CopyKept ==
    ASSUME CatalogCore, CopyOK, [CatalogNext]_catalogVars
    PROVE  CopyOK'
<1>1. /\ CatalogTypeOK /\ copy \in {NoCopy} \union Copied
      /\ nextRoute \in Nat /\ Ids \subseteq Nat
      /\ route \in [Ids -> Row \union {NoRoute}]
  BY CatalogNumbers DEF CatalogCore, CopyOK, CopyFollows, CatalogTypeOK
<1>2. copy.at = "line" => copy.route \in Ids /\ copy.route < nextRoute
  BY <1>1, CopyTypes DEF CopyOK, CopyFollows
<1>3. CASE UNCHANGED <<route, nextRoute, overlapped, copy>>
  BY <1>1, <1>3, CopyBesides
<1>4. ASSUME NEW u \in Uploads, ImportDeletes(u)
      PROVE  CopyOK'
  <2>1. /\ route' = [r \in Ids |-> IF r \in upload[u].found THEN NoRoute
                                                          ELSE route[r]]
        /\ UNCHANGED <<nextRoute, overlapped, copy>>
    BY <1>4 DEF ImportDeletes
  <2>2. QED
    BY <1>1, <1>2, <2>1, CopyBesides
<1>5. ASSUME NEW u \in Uploads, ImportInserts(u)
      PROVE  CopyOK'
  <2>1. PICK w : route' = [route EXCEPT ![nextRoute] = w]
    BY <1>5 DEF ImportInserts
  <2>2. nextRoute' = nextRoute + 1 /\ UNCHANGED <<overlapped, copy>>
    BY <1>5 DEF ImportInserts
  <2>3. copy.at = "line" => route'[copy.route] = route[copy.route]
    BY <1>1, <1>2, <2>1
  <2>4. QED
    BY <1>1, <2>2, <2>3, CopyBesides
<1>6. ASSUME NEW u \in Uploads, PutWrites(u)
      PROVE  CopyOK'
  <2>1. PICK q, w : /\ q = upload[u].id
                    /\ route' = [route EXCEPT ![q] = w]
    BY <1>6 DEF PutWrites
  <2>2. /\ copy' = IF Copying(q) THEN [copy EXCEPT !.replaced = TRUE] ELSE copy
        /\ nextRoute' = nextRoute /\ overlapped \subseteq overlapped'
    BY <1>6, <2>1 DEF PutWrites
  <2>3. CASE Copying(q)
    BY <1>1, <2>2, <2>3, CopyBesides DEF Copying
  <2>4. CASE ~Copying(q)
    <3>1. copy.at = "line" => route'[copy.route] = route[copy.route]
      BY <1>1, <1>2, <2>1, <2>4 DEF Copying
    <3>2. QED
      BY <1>1, <2>2, <2>4, <3>1, CopyBesides
  <2>5. QED
    BY <2>3, <2>4
<1>7. ASSUME NEW q \in Ids, DeleteRoute(q)
      PROVE  CopyOK'
  <2>1. /\ route' = [route EXCEPT ![q] = NoRoute]
        /\ UNCHANGED <<nextRoute, overlapped, copy>>
    BY <1>7 DEF DeleteRoute
  <2>2. copy.at = "line" =>
           route'[copy.route] \in {route[copy.route], NoRoute}
    BY <1>1, <1>2, <2>1
  <2>3. QED
    BY <1>1, <2>1, <2>2, CopyBesides
<1>8. ASSUME NEW q \in Ids, CopyLine(q)
      PROVE  CopyOK'
  <2>1. PICK f : f = route[q].file
    OBVIOUS
  <2>2. /\ copy' = [at |-> "line", route |-> q, line |-> f,
                    replaced |-> FALSE]
        /\ Exists(q) /\ UNCHANGED <<route, nextRoute>>
    BY <1>8, <2>1 DEF CopyLine
  <2>3. f \in Files /\ q < nextRoute
    BY <1>1, <2>1, <2>2, RowFacts DEF CatalogCore, RouteOK
  <2>4. /\ copy' \in Copied /\ copy'.at = "line" /\ copy'.route = q
        /\ copy'.line = f
    BY <2>2, <2>3 DEF Copied
  <2>5. QED
    BY <2>1, <2>2, <2>3, <2>4 DEF CopyOK, CopyFollows, CopyIsOfOneFile
<1>9. ASSUME NEW u \in Uploads, NEW n \in Names,
             \/ BadFile(u, n)
             \/ \E f \in Files : \/ ImportReads(u, n, f)
                                 \/ \E r \in Ids : PutReads(u, r, n, f)
      PROVE  CopyOK'
  BY <1>3, <1>9 DEF BadFile, ImportReads, PutReads
<1>10. ASSUME NEW u \in Uploads, ImportFails(u) \/ PutFails(u)
       PROVE  CopyOK'
  BY <1>3, <1>10 DEF ImportFails, PutFails
<1>11. CASE UNCHANGED catalogVars
  BY <1>3, <1>11 DEF catalogVars
<1>12. QED
  BY <1>4, <1>5, <1>6, <1>7, <1>8, <1>9, <1>10, <1>11, CopyStopsKept
     DEF CatalogNext

LEMMA CopyStarts == CatalogInit => CopyOK
BY DEF CatalogInit, CopyOK, CopyFollows, CopyIsOfOneFile, NoCopy

LEMMA CoreSuffices == CatalogCore /\ CopyOK => CatalogInv
BY CoreIs, FoundFromStops DEF CatalogInv, CopyOK

(* Routes stay whole, with the stops of one file, under their names, found  *)
(* where they run (import_kml_file, the PUT and DELETE handlers and the     *)
(* searches of the route service), for any number of uploads that overlap;  *)
(* and what the stream job copied of one is its line with the stops of the  *)
(* same file, or none, unless it was replaced between the two requests.     *)
THEOREM CatalogCorrect == CatalogSpec => []CatalogInv
<1>1. /\ CatalogCore /\ CopyOK /\ [CatalogNext]_catalogVars
         => (CatalogCore /\ CopyOK)'
  BY CatalogKept, CopyKept
<1>2. QED
  BY <1>1, CatalogStarts, CopyStarts, CoreSuffices, PTL DEF CatalogSpec

-----------------------------------------------------------------------------
(* The fleet: requests, and how they go on.                                 *)

FleetCore ==
    /\ FleetTypeOK /\ AskedInOrder /\ AskedAgainAfterError
    /\ EachWasAskedFor /\ TwiceAfterError /\ PlannedOnce /\ OnARouteThatWas

LEMMA RequestFacts ==
    ASSUME FleetTypeOK
    PROVE  /\ NoRequest.ask.op = "none" /\ NoRequest.at = "none"
           /\ \A o \in Operation :
                 /\ o.op \in {"assign", "unassign", "schedule", "generate"}
                 /\ o.op = "assign" => o.bus \in Fleet /\ o.route \in Ids
                 /\ o.op = "unassign" => o.bus \in Fleet
                 /\ o.op = "schedule" => o.route \in Ids /\ o.day \in Days
                 /\ o.op = "generate" => o.date \in Dates
           /\ \A i \in Requests :
                 /\ request[i] # NoRequest => /\ request[i].ask \in Operation
                                              /\ request[i].at \in Stages
                                              /\ request[i] \in Asked
                 /\ request[i].at \in Stages => request[i] # NoRequest
                 /\ request[i].ask.op # "none" => request[i] # NoRequest
<1>1. NoRequest.ask.op = "none" /\ NoRequest.at = "none"
  BY DEF NoRequest
<1>2. \A o \in Operation :
         /\ o.op \in {"assign", "unassign", "schedule", "generate"}
         /\ o.op = "assign" => o.bus \in Fleet /\ o.route \in Ids
         /\ o.op = "unassign" => o.bus \in Fleet
         /\ o.op = "schedule" => o.route \in Ids /\ o.day \in Days
         /\ o.op = "generate" => o.date \in Dates
  BY DEF Operation
<1>3. \A i \in Requests :
         request[i] \in {NoRequest} \union Asked
  BY DEF FleetTypeOK
<1>4. "none" \notin Stages
  BY DEF Stages
<1>5. \A i \in Requests :
         /\ request[i] # NoRequest => /\ request[i].ask \in Operation
                                      /\ request[i].at \in Stages
                                      /\ request[i] \in Asked
         /\ request[i].at \in Stages => request[i] # NoRequest
         /\ request[i].ask.op # "none" => request[i] # NoRequest
  BY <1>1, <1>3, <1>4 DEF Asked
<1>6. QED
  BY <1>1, <1>2, <1>5

(* What no step takes back of the requests.                                 *)
Moves ==
    \A j \in Requests : request[j] # NoRequest =>
        /\ request'[j] # NoRequest /\ request'[j].ask = request[j].ask
        /\ request[j].at = "done" => request'[j].at = "done"
        /\ told[j] = "error" => told'[j] = "error"

LEMMA SchedulesKept ==
    ASSUME FleetCore, Moves, schedules' = schedules
    PROVE  EachWasAskedFor' /\ TwiceAfterError'
<1>1. FleetTypeOK /\ EachWasAskedFor /\ TwiceAfterError
  BY DEF FleetCore
<1>2. ASSUME NEW i \in Requests, At(i, "schedule", "done")
      PROVE  /\ At(i, "schedule", "done")' /\ request'[i].ask = request[i].ask
             /\ told[i] = "error" => told'[i] = "error"
  <2>1. request[i] # NoRequest
    BY <1>1, <1>2, RequestFacts DEF At
  <2>2. QED
    BY <1>2, <2>1 DEF At, Moves
<1>3. EachWasAskedFor'
  <2> SUFFICES ASSUME NEW s \in DOMAIN schedules
               PROVE  \E i \in Requests : /\ At(i, "schedule", "done")'
                                          /\ SlotOf(request'[i].ask)
                                                = schedules[s]
    BY DEF EachWasAskedFor, SlotOf
  <2>1. PICK i \in Requests : At(i, "schedule", "done")
                              /\ SlotOf(request[i].ask) = schedules[s]
    BY <1>1 DEF EachWasAskedFor
  <2>2. QED
    BY <1>2, <2>1
<1>4. TwiceAfterError'
  <2> SUFFICES ASSUME NEW s \in DOMAIN schedules, NEW z \in DOMAIN schedules,
                      s # z, schedules[s] = schedules[z]
               PROVE  \E i \in Requests : /\ At(i, "schedule", "done")'
                                          /\ told'[i] = "error"
                                          /\ SlotOf(request'[i].ask)
                                                = schedules[s]
    BY DEF TwiceAfterError, SlotOf
  <2>1. PICK i \in Requests : /\ At(i, "schedule", "done")
                              /\ told[i] = "error"
                              /\ SlotOf(request[i].ask) = schedules[s]
    BY <1>1 DEF TwiceAfterError
  <2>2. QED
    BY <1>2, <2>1
<1>5. QED
  BY <1>3, <1>4

(* A request goes on by a stage, and may be answered.                       *)
LEMMA GoesOn ==
    ASSUME FleetCore, NEW i \in Requests, NEW q \in Asked,
           request[i].at \in {"sent", "read", "valid"},
           q.ask = request[i].ask,
           request' = [request EXCEPT ![i] = q],
           \/ told' = told
           \/ /\ told[i] = "waiting"
              /\ \E s \in {"accepted", "error"} :
                    told' = [told EXCEPT ![i] = s],
           UNCHANGED <<requests, nextRoute>>,
           q.at = "valid" => /\ request[i].ask.op \in {"assign", "schedule"}
                             /\ request[i].ask.route < nextRoute
    PROVE  /\ request' \in [Requests -> {NoRequest} \union Asked]
           /\ told' \in [Requests -> {"none", "waiting", "accepted", "error"}]
           /\ AskedInOrder' /\ AskedAgainAfterError' /\ Moves
           /\ request'[i].ask = request[i].ask /\ request'[i].at = q.at
<1>1. /\ FleetTypeOK /\ AskedInOrder /\ AskedAgainAfterError
      /\ request \in [Requests -> {NoRequest} \union Asked]
      /\ told \in [Requests -> {"none", "waiting", "accepted", "error"}]
  BY DEF FleetCore, FleetTypeOK
<1>2. request[i] # NoRequest
  BY <1>1, RequestFacts DEF Stages
<1>3. request'[i] = q /\ \A j \in Requests \ {i} : request'[j] = request[j]
  BY <1>1
<1>4. q # NoRequest
  BY RequestFacts, <1>1 DEF Asked, Stages
<1>5. request' \in [Requests -> {NoRequest} \union Asked]
  BY <1>1
<1>6. /\ told' \in [Requests -> {"none", "waiting", "accepted", "error"}]
      /\ \A j \in Requests : /\ told[j] = "error" => told'[j] = "error"
                             /\ told'[j] = "none" <=> told[j] = "none"
  BY <1>1
<1>7. AskedInOrder'
  BY <1>1, <1>2, <1>3, <1>4, <1>6 DEF AskedInOrder
<1>8. \A j \in Requests : request'[j].ask = request[j].ask
  BY <1>3
<1>9. AskedAgainAfterError'
  BY <1>1, <1>6, <1>8 DEF AskedAgainAfterError, SlotOf
<1>10. Moves
  BY <1>2, <1>3, <1>4, <1>6, <1>8 DEF Moves
<1>11. QED
  BY <1>3, <1>5, <1>6, <1>7, <1>9, <1>10

LEMMA Responded ==
    ASSUME FleetCore, NEW i \in Requests, NEW stage \in Stages,
           request[i].at \in {"sent", "read", "valid"},
           request' = [request EXCEPT ![i].at = stage],
           \/ told' = told
           \/ /\ told[i] = "waiting"
              /\ \E s \in {"accepted", "error"} :
                    told' = [told EXCEPT ![i] = s],
           UNCHANGED <<requests, nextRoute>>,
           stage = "valid" => /\ request[i].ask.op \in {"assign", "schedule"}
                              /\ request[i].ask.route < nextRoute
    PROVE  /\ request' \in [Requests -> {NoRequest} \union Asked]
           /\ told' \in [Requests -> {"none", "waiting", "accepted", "error"}]
           /\ AskedInOrder' /\ AskedAgainAfterError' /\ Moves
           /\ request'[i].ask = request[i].ask /\ request'[i].at = stage
<1>1. request[i] \in Asked
  BY RequestFacts DEF FleetCore, Stages
<1>2. PICK q : q = [request[i] EXCEPT !.at = stage]
  OBVIOUS
<1>3. q \in Asked /\ q.ask = request[i].ask /\ q.at = stage
  BY <1>1, <1>2 DEF Asked
<1>4. request' = [request EXCEPT ![i] = q]
  BY <1>2
<1>5. QED
  BY <1>3, <1>4, GoesOn

LEMMA AnsweredIs ==
    ASSUME NEW i \in Requests, NEW stage, NEW s \in {"accepted", "error"},
           Answers(i, stage, s)
    PROVE  /\ request' = [request EXCEPT ![i].at = stage]
           /\ \/ told' = told
              \/ /\ told[i] = "waiting"
                 /\ \E a \in {"accepted", "error"} :
                       told' = [told EXCEPT ![i] = a]
BY DEF Answers

-----------------------------------------------------------------------------
(* The fleet, step by step, while the catalog stays.                        *)

LEMMA AskFleet ==
    ASSUME FleetCore, UNCHANGED catalogVars, NEW o \in Operation, Ask(o)
    PROVE  FleetCore'
<1>1. /\ FleetTypeOK /\ AskedInOrder /\ AskedAgainAfterError
      /\ PlannedOnce /\ OnARouteThatWas
      /\ request \in [Requests -> {NoRequest} \union Asked]
      /\ told \in [Requests -> {"none", "waiting", "accepted", "error"}]
      /\ requests \in 0 .. MaxRequests /\ MaxRequests \in Nat
  BY FleetAssumption DEF FleetCore, FleetTypeOK
<1>2. PICK n : n = requests + 1
  OBVIOUS
<1>3. PICK q : q = [ask |-> o, at |-> "sent", read |-> 0]
  OBVIOUS
<1>4. /\ n \in Requests /\ requests' = n
      /\ request' = [request EXCEPT ![n] = q]
      /\ told' = [told EXCEPT ![n] = "waiting"]
      /\ UNCHANGED <<busRoute, schedules, trips, unanswered, nextRoute>>
  BY <1>1, <1>2, <1>3 DEF Ask, Requests, catalogVars
<1>5. /\ q \in Asked /\ q.ask = o /\ q.at = "sent"
      /\ q # NoRequest
  BY <1>1, <1>3, RequestFacts DEF Stages, Asked
<1>6. /\ request'[n] = q /\ told'[n] = "waiting"
      /\ \A j \in Requests \ {n} :
            request'[j] = request[j] /\ told'[j] = told[j]
  BY <1>1, <1>4
<1>7. request[n] = NoRequest /\ \A j \in Requests : j > n => j > requests
  BY <1>1, <1>2, <1>4 DEF AskedInOrder, Requests
<1>8. FleetTypeOK'
  BY <1>1, <1>2, <1>4, <1>5 DEF FleetTypeOK, Requests
<1>9. AskedInOrder'
  <2>1. \A j \in Requests : j > n <=> (j > requests /\ j # n)
    BY <1>1, <1>2 DEF Requests
  <2>2. ~(n > n) /\ n \in Nat
    BY <1>1, <1>2
  <2>3. QED
    BY <1>1, <1>4, <1>5, <1>6, <2>1, <2>2 DEF AskedInOrder
<1>10. AskedAgainAfterError'
  <2> SUFFICES ASSUME NEW i \in Requests, NEW j \in Requests, i < j,
                      request'[i].ask.op = "schedule",
                      request'[j].ask.op = "schedule",
                      SlotOf(request'[i].ask) = SlotOf(request'[j].ask)
               PROVE  told'[i] = "error"
    BY DEF AskedAgainAfterError, SlotOf
  <2>1. CASE j = n
    <3>1. i # n /\ request'[i] = request[i] /\ told'[i] = told[i]
      BY <1>6, <2>1 DEF Requests
    <3>2. told[i] \notin {"waiting", "accepted"}
      BY <1>5, <1>6, <2>1, <3>1 DEF Ask
    <3>3. request[i] # NoRequest
      BY <1>1, <3>1, RequestFacts
    <3>4. told[i] # "none"
      BY <1>1, <3>3 DEF AskedInOrder
    <3>5. QED
      BY <1>1, <3>1, <3>2, <3>4
  <2>2. CASE i = n
    <3>1. j # n /\ request[j] = NoRequest
      BY <1>1, <1>7, <2>2 DEF AskedInOrder, Requests
    <3>2. QED
      BY <1>1, <1>6, <3>1, RequestFacts
  <2>3. CASE i # n /\ j # n
    BY <1>1, <1>6, <2>3 DEF AskedAgainAfterError
  <2>4. QED
    BY <2>1, <2>2, <2>3
<1>11. Moves
  BY <1>6, <1>7 DEF Moves
<1>12. EachWasAskedFor' /\ TwiceAfterError'
  BY <1>4, <1>11, SchedulesKept
<1>13. PlannedOnce' /\ OnARouteThatWas'
  BY <1>1, <1>4 DEF PlannedOnce, OnARouteThatWas, BusesOn
<1>14. QED
  BY <1>8, <1>9, <1>10, <1>12, <1>13 DEF FleetCore

LEMMA GiveUpFleet ==
    ASSUME FleetCore, UNCHANGED catalogVars, NEW i \in Requests, GiveUp(i)
    PROVE  FleetCore'
<1>1. /\ FleetTypeOK /\ AskedInOrder /\ AskedAgainAfterError
      /\ PlannedOnce /\ OnARouteThatWas
      /\ told \in [Requests -> {"none", "waiting", "accepted", "error"}]
      /\ unanswered \in 0 .. MaxUnanswered /\ MaxUnanswered \in Nat
  BY FleetAssumption DEF FleetCore, FleetTypeOK
<1>2. /\ told[i] = "waiting" /\ told' = [told EXCEPT ![i] = "error"]
      /\ unanswered < MaxUnanswered /\ unanswered' = unanswered + 1
      /\ UNCHANGED <<busRoute, schedules, trips, requests, request,
                     nextRoute>>
  BY DEF GiveUp, catalogVars
<1>3. /\ told' \in [Requests -> {"none", "waiting", "accepted", "error"}]
      /\ \A j \in Requests : /\ told[j] = "error" => told'[j] = "error"
                             /\ told'[j] = "none" <=> told[j] = "none"
  BY <1>1, <1>2
<1>4. unanswered' \in 0 .. MaxUnanswered
  BY <1>1, <1>2
<1>5. FleetTypeOK'
  BY <1>1, <1>2, <1>3, <1>4 DEF FleetTypeOK
<1>6. AskedInOrder' /\ AskedAgainAfterError'
  BY <1>1, <1>2, <1>3 DEF AskedInOrder, AskedAgainAfterError, SlotOf
<1>7. Moves
  BY <1>2, <1>3 DEF Moves
<1>8. EachWasAskedFor' /\ TwiceAfterError'
  BY <1>2, <1>7, SchedulesKept
<1>9. PlannedOnce' /\ OnARouteThatWas'
  BY <1>1, <1>2 DEF PlannedOnce, OnARouteThatWas, BusesOn
<1>10. QED
  BY <1>5, <1>6, <1>8, <1>9 DEF FleetCore

LEMMA ReadFleet ==
    ASSUME FleetCore, UNCHANGED catalogVars, NEW i \in Requests, ReadBus(i)
    PROVE  FleetCore'
<1>1. /\ FleetTypeOK /\ PlannedOnce /\ OnARouteThatWas
      /\ busRoute \in [Fleet -> Ids \union {0}] /\ "read" \in Stages
  BY DEF FleetCore, FleetTypeOK, Stages
<1>2. /\ request[i].at = "sent"
      /\ request[i].ask.op \in {"assign", "unassign"}
      /\ UNCHANGED <<busRoute, schedules, trips, requests, told, unanswered,
                     nextRoute>>
  BY DEF ReadBus, At, catalogVars
<1>3. request[i] \in Asked /\ request[i].ask.bus \in Fleet
  BY <1>1, <1>2, RequestFacts DEF Stages
<1>4. PICK q : q = [request[i] EXCEPT !.at = "read",
                                      !.read = busRoute[request[i].ask.bus]]
  OBVIOUS
<1>5. q \in Asked /\ q.ask = request[i].ask /\ q.at = "read"
  BY <1>1, <1>3, <1>4 DEF Asked
<1>6. request' = [request EXCEPT ![i] = q]
  BY <1>4 DEF ReadBus
<1>7. /\ request' \in [Requests -> {NoRequest} \union Asked]
      /\ AskedInOrder' /\ AskedAgainAfterError' /\ Moves
  BY <1>2, <1>5, <1>6, GoesOn
<1>8. FleetTypeOK'
  BY <1>1, <1>2, <1>7 DEF FleetTypeOK
<1>9. EachWasAskedFor' /\ TwiceAfterError'
  BY <1>2, <1>7, SchedulesKept
<1>10. PlannedOnce' /\ OnARouteThatWas'
  BY <1>1, <1>2 DEF PlannedOnce, OnARouteThatWas, BusesOn
<1>11. QED
  BY <1>7, <1>8, <1>9, <1>10 DEF FleetCore

LEMMA ValidateFleet ==
    ASSUME FleetCore, CatalogCore, UNCHANGED catalogVars,
           NEW i \in Requests, Validate(i)
    PROVE  FleetCore'
<1>1. /\ FleetTypeOK /\ PlannedOnce /\ OnARouteThatWas
      /\ unanswered \in 0 .. MaxUnanswered /\ MaxUnanswered \in Nat
      /\ "valid" \in Stages /\ "refused" \in Stages
  BY FleetAssumption DEF FleetCore, FleetTypeOK, Stages
<1>2. /\ At(i, "assign", "read") \/ At(i, "schedule", "sent")
      /\ UNCHANGED <<busRoute, schedules, trips, requests, nextRoute>>
  BY DEF Validate, catalogVars
<1>3. /\ request[i].at \in {"sent", "read"} /\ request[i] # NoRequest
      /\ request[i].ask.route \in Ids
  BY <1>1, <1>2, RequestFacts DEF At, Stages
<1>4. PICK stage \in Stages :
         /\ request' = [request EXCEPT ![i].at = stage]
         /\ stage = "valid" => Exists(request[i].ask.route)
         /\ \/ told' = told
            \/ /\ told[i] = "waiting"
               /\ \E s \in {"accepted", "error"} :
                     told' = [told EXCEPT ![i] = s]
  <2>1. CASE /\ Exists(request[i].ask.route)
             /\ request' = [request EXCEPT ![i].at = "valid"]
             /\ UNCHANGED <<told, unanswered>>
    BY <1>1, <2>1
  <2>2. CASE Answers(i, "refused", "error")
    BY <1>1, <2>2, AnsweredIs
  <2>3. QED
    BY <2>1, <2>2 DEF Validate
<1>5. /\ stage = "valid" => request[i].ask.route < nextRoute
      /\ request[i].ask.op \in {"assign", "schedule"}
  BY <1>2, <1>3, <1>4 DEF CatalogCore, RouteOK, At
<1>6. /\ request' \in [Requests -> {NoRequest} \union Asked]
      /\ told' \in [Requests -> {"none", "waiting", "accepted", "error"}]
      /\ AskedInOrder' /\ AskedAgainAfterError' /\ Moves
  BY <1>2, <1>3, <1>4, <1>5, Responded
<1>7. unanswered' \in 0 .. MaxUnanswered
  BY <1>1 DEF Validate
<1>8. FleetTypeOK'
  BY <1>1, <1>2, <1>6, <1>7 DEF FleetTypeOK
<1>9. EachWasAskedFor' /\ TwiceAfterError'
  BY <1>2, <1>6, SchedulesKept
<1>10. PlannedOnce' /\ OnARouteThatWas'
  BY <1>1, <1>2 DEF PlannedOnce, OnARouteThatWas, BusesOn
<1>11. QED
  BY <1>6, <1>8, <1>9, <1>10 DEF FleetCore

LEMMA AssignFleet ==
    ASSUME FleetCore, UNCHANGED catalogVars,
           NEW i \in Requests, AssignRoute(i) \/ UnassignRoute(i)
    PROVE  FleetCore'
<1>1. /\ FleetTypeOK /\ AskedInOrder /\ PlannedOnce /\ OnARouteThatWas
      /\ "done" \in Stages
      /\ busRoute \in [Fleet -> Ids \union {0}]
  BY DEF FleetCore, FleetTypeOK, Stages
<1>2. /\ \/ At(i, "assign", "valid")
         \/ At(i, "unassign", "read")
      /\ Answers(i, "done", "accepted")
      /\ UNCHANGED <<schedules, trips, requests, unanswered, nextRoute>>
  BY DEF AssignRoute, UnassignRoute, catalogVars
<1>3. /\ request[i].at \in {"read", "valid"}
      /\ request[i] # NoRequest /\ request[i].ask \in Operation
  BY <1>1, <1>2, RequestFacts DEF At, Stages
<1>4. PICK b \in Fleet, r \in Ids \union {0} :
         /\ \/ busRoute' = busRoute
            \/ busRoute' = [busRoute EXCEPT ![b] = r]
         /\ r # 0 => r < nextRoute
  <2>1. CASE AssignRoute(i)
    <3>1. /\ request[i].ask.bus \in Fleet /\ request[i].ask.route \in Ids
          /\ request[i].ask.route < nextRoute
      BY <1>1, <1>3, <2>1, RequestFacts DEF AssignRoute, At, AskedInOrder
    <3>2. QED
      BY <2>1, <3>1 DEF AssignRoute, Sets
  <2>2. CASE UnassignRoute(i)
    <3>1. request[i].ask.bus \in Fleet
      BY <1>1, <1>3, <2>2, RequestFacts DEF UnassignRoute, At
    <3>2. QED
      BY <2>2, <3>1 DEF UnassignRoute, Sets
  <2>3. QED
    BY <2>1, <2>2
<1>5. /\ request' \in [Requests -> {NoRequest} \union Asked]
      /\ told' \in [Requests -> {"none", "waiting", "accepted", "error"}]
      /\ AskedInOrder' /\ AskedAgainAfterError' /\ Moves
  BY <1>1, <1>2, <1>3, Responded, AnsweredIs
<1>6. busRoute' \in [Fleet -> Ids \union {0}]
  BY <1>1, <1>4
<1>7. FleetTypeOK'
  BY <1>1, <1>2, <1>5, <1>6 DEF FleetTypeOK
<1>8. EachWasAskedFor' /\ TwiceAfterError'
  BY <1>2, <1>5, SchedulesKept
<1>9. \A c \in Fleet : busRoute[c] \in Ids => busRoute[c] < nextRoute
  BY <1>1 DEF OnARouteThatWas, BusesOn
<1>10. 0 \notin Ids
  BY DEF Ids
<1>11. \A c \in Fleet : busRoute'[c] \in Ids => busRoute'[c] < nextRoute'
  BY <1>1, <1>2, <1>4, <1>9, <1>10
<1>12. OnARouteThatWas'
  BY <1>1, <1>2, <1>11 DEF OnARouteThatWas, BusesOn
<1>13. PlannedOnce'
  BY <1>1, <1>2 DEF PlannedOnce
<1>14. QED
  BY <1>5, <1>7, <1>8, <1>12, <1>13 DEF FleetCore

LEMMA ScheduleFleet ==
    ASSUME FleetCore, UNCHANGED catalogVars,
           NEW i \in Requests, CreateSchedule(i)
    PROVE  FleetCore'
<1>1. /\ FleetTypeOK /\ AskedInOrder /\ AskedAgainAfterError
      /\ EachWasAskedFor /\ TwiceAfterError
      /\ PlannedOnce /\ OnARouteThatWas /\ "done" \in Stages
      /\ schedules \in Seq(Ids \X Days)
      /\ trips \subseteq [schedule : DOMAIN schedules, date : Dates,
                          by : Requests]
  BY DEF FleetCore, FleetTypeOK, Stages
<1>2. PICK slot : slot = SlotOf(request[i].ask)
  OBVIOUS
<1>3. /\ At(i, "schedule", "valid") /\ schedules' = Append(schedules, slot)
      /\ Answers(i, "done", "accepted")
      /\ UNCHANGED <<busRoute, trips, requests, unanswered, nextRoute>>
  BY <1>2 DEF CreateSchedule, catalogVars
<1>4. /\ request[i].at = "valid" /\ request[i].ask.op = "schedule"
      /\ request[i] # NoRequest /\ request[i].ask \in Operation
  BY <1>1, <1>3, RequestFacts DEF At, Stages
<1>5. slot \in Ids \X Days /\ slot[1] < nextRoute
  BY <1>1, <1>2, <1>4, RequestFacts DEF SlotOf, AskedInOrder
<1>6. /\ request' \in [Requests -> {NoRequest} \union Asked]
      /\ told' \in [Requests -> {"none", "waiting", "accepted", "error"}]
      /\ AskedInOrder' /\ AskedAgainAfterError' /\ Moves
      /\ request'[i].ask = request[i].ask /\ request'[i].at = "done"
  BY <1>1, <1>3, <1>4, Responded, AnsweredIs
<1>7. PICK n : n = Len(schedules) + 1
  OBVIOUS
<1>8. /\ schedules' \in Seq(Ids \X Days)
      /\ DOMAIN schedules' = DOMAIN schedules \union {n}
      /\ n \notin DOMAIN schedules
      /\ schedules'[n] = slot
      /\ \A s \in DOMAIN schedules : schedules'[s] = schedules[s]
  BY <1>1, <1>3, <1>5, <1>7
<1>9. trips' \subseteq [schedule : DOMAIN schedules', date : Dates,
                        by : Requests]
  <2>1. [schedule : DOMAIN schedules, date : Dates, by : Requests]
          \subseteq [schedule : DOMAIN schedules', date : Dates,
                     by : Requests]
    BY <1>8
  <2>2. QED
    BY <1>1, <1>3, <2>1
<1>10. FleetTypeOK'
  BY <1>1, <1>3, <1>6, <1>8, <1>9 DEF FleetTypeOK
<1>11. ASSUME NEW j \in Requests, At(j, "schedule", "done")
       PROVE  /\ At(j, "schedule", "done")'
              /\ request'[j].ask = request[j].ask /\ j # i
              /\ told[j] = "error" => told'[j] = "error"
  <2>1. request[j] # NoRequest /\ j # i
    BY <1>1, <1>4, <1>11, RequestFacts DEF At
  <2>2. QED
    BY <1>6, <1>11, <2>1 DEF At, Moves
<1>12. At(i, "schedule", "done")' /\ SlotOf(request'[i].ask) = slot
  BY <1>2, <1>4, <1>6 DEF At, SlotOf
<1>13. EachWasAskedFor'
  <2> SUFFICES ASSUME NEW s \in DOMAIN schedules'
               PROVE  \E j \in Requests : /\ At(j, "schedule", "done")'
                                          /\ SlotOf(request'[j].ask)
                                                = schedules'[s]
    BY DEF EachWasAskedFor, SlotOf
  <2>1. CASE s = n
    BY <1>8, <1>12, <2>1
  <2>2. CASE s \in DOMAIN schedules
    <3>1. PICK j \in Requests : At(j, "schedule", "done")
                                /\ SlotOf(request[j].ask) = schedules[s]
      BY <1>1, <2>2 DEF EachWasAskedFor
    <3>2. QED
      BY <1>8, <1>11, <2>2, <3>1
  <2>3. QED
    BY <1>8, <2>1, <2>2
<1>14. ASSUME NEW s \in DOMAIN schedules, schedules[s] = slot
       PROVE  \E j \in Requests : /\ At(j, "schedule", "done")'
                                  /\ told'[j] = "error"
                                  /\ SlotOf(request'[j].ask) = slot
  <2>1. PICK j \in Requests : At(j, "schedule", "done")
                              /\ SlotOf(request[j].ask) = slot
    BY <1>1, <1>14 DEF EachWasAskedFor
  <2>2. j # i /\ request[j].ask.op = "schedule" /\ request[i] # NoRequest
    BY <1>4, <1>11, <2>1 DEF At
  <2>3. j < i \/ i < j
    BY <2>2 DEF Requests
  <2>4. CASE j < i
    <3>1. told[j] = "error"
      BY <1>1, <1>2, <1>4, <2>1, <2>2, <2>4 DEF AskedAgainAfterError
    <3>2. QED
      BY <1>11, <2>1, <3>1
  <2>5. CASE i < j
    <3>1. told[i] = "error"
      BY <1>1, <1>2, <1>4, <2>1, <2>2, <2>5 DEF AskedAgainAfterError
    <3>2. told'[i] = "error"
      BY <1>4, <1>6, <3>1 DEF Moves
    <3>3. QED
      BY <1>12, <3>2
  <2>6. QED
    BY <2>3, <2>4, <2>5
<1>15. TwiceAfterError'
  <2> SUFFICES ASSUME NEW s \in DOMAIN schedules', NEW z \in DOMAIN schedules',
                      s # z, schedules'[s] = schedules'[z]
               PROVE  \E j \in Requests : /\ At(j, "schedule", "done")'
                                          /\ told'[j] = "error"
                                          /\ SlotOf(request'[j].ask)
                                                = schedules'[s]
    BY DEF TwiceAfterError, SlotOf
  <2>1. CASE s = n
    <3>1. z \in DOMAIN schedules /\ schedules[z] = slot
      BY <1>8, <2>1
    <3>2. QED
      BY <1>8, <1>14, <2>1, <3>1
  <2>2. CASE z = n
    <3>1. /\ s \in DOMAIN schedules /\ schedules[s] = slot
          /\ schedules'[s] = slot
      BY <1>8, <2>2
    <3>2. QED
      BY <1>14, <3>1
  <2>3. CASE s \in DOMAIN schedules /\ z \in DOMAIN schedules
    <3>1. PICK j \in Requests : /\ At(j, "schedule", "done")
                                /\ told[j] = "error"
                                /\ SlotOf(request[j].ask) = schedules[s]
      BY <1>1, <1>8, <2>3 DEF TwiceAfterError
    <3>2. QED
      BY <1>8, <1>11, <2>3, <3>1
  <2>4. QED
    BY <1>8, <2>1, <2>2, <2>3
<1>16. PlannedOnce'
  BY <1>1, <1>3 DEF PlannedOnce
<1>17. OnARouteThatWas'
  BY <1>1, <1>3, <1>5, <1>8 DEF OnARouteThatWas, BusesOn
<1>18. QED
  BY <1>6, <1>10, <1>13, <1>15, <1>16, <1>17 DEF FleetCore

LEMMA GenerateFleet ==
    ASSUME FleetCore, UNCHANGED catalogVars, NEW i \in Requests, Generate(i)
    PROVE  FleetCore'
<1>1. /\ FleetTypeOK /\ PlannedOnce /\ OnARouteThatWas /\ "done" \in Stages
      /\ trips \subseteq [schedule : DOMAIN schedules, date : Dates,
                          by : Requests]
  BY DEF FleetCore, FleetTypeOK, Stages
<1>2. PICK date : date = request[i].ask.date
  OBVIOUS
<1>3. PICK new : new = {s \in DOMAIN schedules :
                           schedules[s][2] = DayOf(date)} \ Planned(date)
  OBVIOUS
<1>4. /\ At(i, "generate", "sent") /\ Answers(i, "done", "accepted")
      /\ trips' = trips \union
            {[schedule |-> s, date |-> date, by |-> i] : s \in new}
      /\ UNCHANGED <<busRoute, schedules, requests, unanswered, nextRoute>>
  BY <1>2, <1>3 DEF Generate, catalogVars
<1>5. request[i].at = "sent" /\ date \in Dates
  BY <1>1, <1>2, <1>4, RequestFacts DEF At, Stages
<1>6. /\ request' \in [Requests -> {NoRequest} \union Asked]
      /\ told' \in [Requests -> {"none", "waiting", "accepted", "error"}]
      /\ AskedInOrder' /\ AskedAgainAfterError' /\ Moves
  BY <1>1, <1>4, <1>5, Responded, AnsweredIs
<1>7. FleetTypeOK'
  <2>1. {[schedule |-> s, date |-> date, by |-> i] : s \in new}
          \subseteq [schedule : DOMAIN schedules, date : Dates, by : Requests]
    BY <1>3, <1>5
  <2>2. trips' \subseteq [schedule : DOMAIN schedules', date : Dates,
                          by : Requests]
    BY <1>1, <1>4, <2>1
  <2>3. QED
    BY <1>1, <1>4, <1>6, <2>2 DEF FleetTypeOK
<1>8. EachWasAskedFor' /\ TwiceAfterError'
  BY <1>4, <1>6, SchedulesKept
<1>9. PlannedOnce'
  <2> SUFFICES ASSUME NEW t \in trips', NEW u \in trips',
                      t.schedule = u.schedule, t.date = u.date
               PROVE  t = u
    BY DEF PlannedOnce
  <2>1. ASSUME NEW v \in trips
        PROVE  v.date = date => v.schedule \notin new
    BY <1>3 DEF Planned
  <2>2. ASSUME NEW v \in {[schedule |-> s, date |-> date, by |-> i] :
                             s \in new}
        PROVE  /\ v.date = date /\ v.schedule \in new
               /\ v = [schedule |-> v.schedule, date |-> date, by |-> i]
    OBVIOUS
  <2>3. CASE t \in trips /\ u \in trips
    BY <1>1, <2>3 DEF PlannedOnce
  <2>4. CASE t \notin trips /\ u \notin trips
    BY <1>4, <2>2, <2>4
  <2>5. CASE t \in trips /\ u \notin trips
    BY <1>4, <2>1, <2>2, <2>5
  <2>6. CASE t \notin trips /\ u \in trips
    BY <1>4, <2>1, <2>2, <2>6
  <2>7. QED
    BY <2>3, <2>4, <2>5, <2>6
<1>10. OnARouteThatWas'
  BY <1>1, <1>4 DEF OnARouteThatWas, BusesOn
<1>11. QED
  BY <1>6, <1>7, <1>8, <1>9, <1>10 DEF FleetCore

(* While the catalog moves, ids are only given out.                         *)
LEMMA CatalogFleet ==
    ASSUME FleetCore, CatalogCore, CatalogNext, UNCHANGED fleetVars
    PROVE  FleetCore'
<1>1. /\ FleetTypeOK /\ AskedInOrder /\ AskedAgainAfterError
      /\ PlannedOnce /\ OnARouteThatWas
  BY DEF FleetCore
<1>2. UNCHANGED <<busRoute, schedules, trips, requests, request, told,
                  unanswered>>
  BY DEF fleetVars
<1>3. nextRoute \in Nat /\ (nextRoute' = nextRoute
                            \/ nextRoute' = nextRoute + 1)
  BY CatalogNumbers
     DEF CatalogCore, CatalogNext, BadFile, ImportReads, PutReads,
         ImportDeletes, ImportInserts, ImportFails, PutWrites, PutFails,
         DeleteRoute, CopyLine, CopyStops
<1>4. FleetTypeOK'
  BY <1>1, <1>2 DEF FleetTypeOK
<1>5. AskedInOrder'
  <2>1. \A i \in Requests : request[i].at = "valid" =>
           /\ request[i].ask.route \in Ids
           /\ request[i].ask.route < nextRoute
    BY <1>1, RequestFacts DEF AskedInOrder, Stages
  <2>2. \A r \in Ids : r < nextRoute => r < nextRoute'
    BY <1>3 DEF Ids
  <2>3. QED
    BY <1>1, <1>2, <2>1, <2>2 DEF AskedInOrder
<1>6. AskedAgainAfterError' /\ PlannedOnce'
  BY <1>1, <1>2 DEF AskedAgainAfterError, PlannedOnce, SlotOf
<1>7. Moves
  BY <1>2 DEF Moves
<1>8. EachWasAskedFor' /\ TwiceAfterError'
  BY <1>2, <1>7, SchedulesKept
<1>9. OnARouteThatWas'
  <2>1. \A r \in Ids : r < nextRoute => r < nextRoute'
    BY <1>3 DEF Ids
  <2>2. \A s \in DOMAIN schedules : schedules[s][1] \in Ids
    BY <1>1 DEF FleetTypeOK
  <2>3. QED
    BY <1>1, <1>2, <2>1, <2>2 DEF OnARouteThatWas, BusesOn
<1>10. QED
  BY <1>4, <1>5, <1>6, <1>8, <1>9 DEF FleetCore

LEMMA FleetStarts ==
    ASSUME CatalogInit, FleetInit
    PROVE  FleetCore
<1>1. /\ schedules = <<>> /\ DOMAIN schedules = {}
      /\ schedules \in Seq(Ids \X Days)
  BY DEF FleetInit
<1>2. NoRequest.ask.op = "none" /\ NoRequest.at = "none"
  BY DEF NoRequest
<1>3. \A i \in Requests : /\ i \in Nat /\ i > 0
                          /\ request[i] = NoRequest /\ told[i] = "none"
  BY FleetAssumption DEF FleetInit, Requests
<1>4. FleetTypeOK
  BY <1>1, FleetAssumption DEF FleetInit, FleetTypeOK
<1>5. AskedInOrder /\ AskedAgainAfterError
  BY <1>2, <1>3 DEF FleetInit, AskedInOrder, AskedAgainAfterError
<1>6. EachWasAskedFor /\ TwiceAfterError /\ PlannedOnce
  BY <1>1 DEF FleetInit, EachWasAskedFor, TwiceAfterError, PlannedOnce
<1>7. OnARouteThatWas
  <2>1. 0 \notin Ids
    BY DEF Ids
  <2>2. QED
    BY <1>1, <2>1 DEF FleetInit, OnARouteThatWas, BusesOn
<1>8. QED
  BY <1>4, <1>5, <1>6, <1>7 DEF FleetCore

LEMMA FleetKept ==
    ASSUME CatalogCore, FleetCore,
           [FleetNext]_<<catalogVars, fleetVars>>
    PROVE  CatalogCore' /\ FleetCore'
<1>1. CatalogCore'
  BY CatalogKept DEF FleetNext
<1>2. CASE UNCHANGED <<catalogVars, fleetVars>>
  <2>1. UNCHANGED <<busRoute, schedules, trips, requests, request, told,
                    unanswered, nextRoute>>
    BY <1>2 DEF catalogVars, fleetVars
  <2>2. FleetTypeOK'
    BY <2>1 DEF FleetCore, FleetTypeOK
  <2>3. AskedInOrder' /\ AskedAgainAfterError'
    BY <2>1 DEF FleetCore, AskedInOrder, AskedAgainAfterError, SlotOf
  <2>4. EachWasAskedFor' /\ TwiceAfterError'
    BY <2>1, SchedulesKept DEF Moves
  <2>5. PlannedOnce' /\ OnARouteThatWas'
    BY <2>1 DEF FleetCore, PlannedOnce, OnARouteThatWas, BusesOn
  <2>6. QED
    BY <1>1, <2>2, <2>3, <2>4, <2>5 DEF FleetCore
<1>3. CASE FleetStep /\ UNCHANGED catalogVars
  <2>1. ASSUME NEW o \in Operation, Ask(o)
        PROVE  FleetCore'
    BY <1>3, <2>1, AskFleet
  <2>2. ASSUME NEW i \in Requests,
               \/ GiveUp(i) \/ ReadBus(i) \/ Validate(i)
               \/ AssignRoute(i) \/ UnassignRoute(i)
               \/ CreateSchedule(i) \/ Generate(i)
        PROVE  FleetCore'
    BY <1>3, <2>2, GiveUpFleet, ReadFleet, ValidateFleet, AssignFleet,
       ScheduleFleet, GenerateFleet
  <2>3. QED
    BY <1>1, <1>3, <2>1, <2>2 DEF FleetStep
<1>4. CASE CatalogNext /\ UNCHANGED fleetVars
  BY <1>1, <1>4, CatalogFleet
<1>5. QED
  BY <1>1, <1>2, <1>3, <1>4 DEF FleetNext

(* Two trips of a departure have two schedules.                             *)
LEMMA FleetSuffices == FleetCore => FleetInv
<1> SUFFICES ASSUME FleetCore
             PROVE  OneTripPerDeparture
  BY DEF FleetCore, FleetInv
<1> SUFFICES ASSUME NEW date \in Dates,
                    NEW t \in TripsOn(date), NEW u \in TripsOn(date), t # u,
                    schedules[t.schedule] = schedules[u.schedule]
             PROVE  \E i \in Requests :
                       /\ At(i, "schedule", "done") /\ told[i] = "error"
                       /\ SlotOf(request[i].ask) = schedules[t.schedule]
  BY DEF OneTripPerDeparture
<1>1. /\ t.schedule \in DOMAIN schedules /\ u.schedule \in DOMAIN schedules
      /\ t \in trips /\ u \in trips /\ t.date = u.date
  BY DEF FleetCore, FleetTypeOK, TripsOn
<1>2. t.schedule # u.schedule
  BY <1>1 DEF FleetCore, PlannedOnce
<1>3. QED
  BY <1>1, <1>2 DEF FleetCore, TwiceAfterError

(* Buses and schedules are on routes that were in the catalog, and a        *)
(* departure is planned once for a date (generate_daily_trips), but where   *)
(* its schedule was asked for again after the gateway gave up on it.        *)
THEOREM FleetCorrect == FleetSpec => [](CatalogInv /\ FleetInv)
<1>1. CatalogInit /\ FleetInit => CatalogCore /\ CopyOK /\ FleetCore
  BY CatalogStarts, CopyStarts, FleetStarts
<1>2. CatalogCore /\ CopyOK /\ FleetCore
         /\ [FleetNext]_<<catalogVars, fleetVars>>
         => (CatalogCore /\ CopyOK /\ FleetCore)'
  <2>1. [FleetNext]_<<catalogVars, fleetVars>> => [CatalogNext]_catalogVars
    BY DEF FleetNext
  <2>2. QED
    BY <2>1, FleetKept, CopyKept
<1>3. CatalogCore /\ CopyOK /\ FleetCore => CatalogInv /\ FleetInv
  BY CoreSuffices, FleetSuffices
<1>4. QED
  BY <1>1, <1>2, <1>3, PTL DEF FleetSpec

-----------------------------------------------------------------------------
(* Retraining: the tasks of a run, and the versions it has registered.      *)

TaskStates == {"none", "running", "retry", "success", "failed", "skipped",
               "upstream_failed"}

LEMMA UpstreamFacts ==
    /\ Upstream["check"] = {} /\ "check" \in Tasks /\ "anomaly" \in Tasks
    /\ "export" \in Tasks /\ "eta" \in Tasks
    /\ \A t \in Tasks : Upstream[t] \subseteq Tasks
    /\ \A t \in Tasks \ {"check"} : \E u \in Upstream[t] : u \in Tasks
BY DEF Tasks, Upstream

LEMMA SeqElements ==
    ASSUME NEW S, NEW s \in Seq(S)
    PROVE  /\ Len(s) \in Nat /\ DOMAIN s = 1 .. Len(s)
           /\ \A i \in DOMAIN s : s[i] \in S
OBVIOUS

LEMMA SeqGrows ==
    ASSUME NEW S, NEW T, S \subseteq T, NEW s \in Seq(S)
    PROVE  s \in Seq(T)
<1>1. /\ Len(s) \in Nat /\ s \in [1 .. Len(s) -> S]
  OBVIOUS
<1>2. s \in [1 .. Len(s) -> T]
  BY <1>1
<1>3. QED
  BY <1>1, <1>2

(* What an assignment to one task's entry does.                             *)
LEMMA EntrySet ==
    ASSUME NEW S, NEW f \in [Runs -> [Tasks -> S]], NEW r \in Runs,
           NEW t \in Tasks, NEW x \in S, NEW g, g = [f EXCEPT ![r][t] = x]
    PROVE  /\ g \in [Runs -> [Tasks -> S]]
           /\ g[r][t] = x
           /\ \A v \in Tasks \ {t} : g[r][v] = f[r][v]
           /\ \A q \in Runs \ {r} : g[q] = f[q]
<1>1. PICK row : row = [f[r] EXCEPT ![t] = x]
  OBVIOUS
<1>2. f[r] \in [Tasks -> S]
  OBVIOUS
<1>3. /\ row \in [Tasks -> S] /\ row[t] = x
      /\ \A v \in Tasks \ {t} : row[v] = f[r][v]
  BY <1>1, <1>2
<1>4. g = [f EXCEPT ![r] = row]
  BY <1>1
<1>5. /\ g \in [Runs -> [Tasks -> S]] /\ g[r] = row
      /\ \A q \in Runs \ {r} : g[q] = f[q]
  BY <1>3, <1>4
<1>6. QED
  BY <1>3, <1>5

(* What the invariant says of run r, whatever it is, and of a version.      *)
RunOK(r) ==
    /\ task[r]["check"] \in {"none", "running", "success"}
    /\ IF task[r]["check"] # "success"
       THEN \A t \in Tasks \ {"check"} : task[r][t] = "none"
       ELSE Enough(r) \/ \A t \in Tasks \ {"check"} : task[r][t] = "skipped"
    /\ \A t \in Tasks : /\ task[r][t] = "none" => tries[r][t] = 0
                        /\ task[r][t] = "retry" => tries[r][t] <= Retries
    /\ step[r] \in {"fit", "dump", "load", "register"} =>
          VersionsOf(r) < tries[r]["anomaly"]
    /\ step[r] = "register" => held[r] # Torn
    /\ VersionsOf(r) <= tries[r]["anomaly"]

VersionOK(v) ==
    task[v.run]["check"] = "success" /\ Enough(v.run) /\ v.model # Torn

RetrainingCore ==
    /\ RetrainingTypeOK
    /\ \A r \in Runs : RunOK(r)
    /\ \A v \in ToSet(versions) : VersionOK(v)
    /\ DetectorIsOfTheImage
    /\ HealthTellsTheDetector

LEMMA VersionTypes ==
    ASSUME RetrainingTypeOK
    PROVE  /\ \A v \in ToSet(versions) : v.run \in Runs
           /\ \A r \in Runs : VersionsOf(r) \in Nat
           /\ Retries \in Nat
           /\ \A r \in Runs : \A t \in Tasks : tries[r][t] \in Nat
<1>1. /\ versions \in Seq([model : Torn .. fits, run : Runs])
      /\ tries \in [Runs -> [Tasks -> 0 .. Retries + 1]] /\ Retries \in Nat
  BY RetrainingAssumption DEF RetrainingTypeOK
<1>2. Len(versions) \in Nat /\ DOMAIN versions = 1 .. Len(versions)
  BY <1>1
<1>3. \A v \in ToSet(versions) : v.run \in Runs
  <2>1. \A i \in DOMAIN versions :
           versions[i] \in [model : Torn .. fits, run : Runs]
    BY <1>1, SeqElements
  <2>2. \A i \in DOMAIN versions : versions[i].run \in Runs
    BY <2>1
  <2>3. QED
    BY <2>2 DEF ToSet
<1>4. ASSUME NEW r \in Runs
      PROVE  VersionsOf(r) \in Nat
  <2>1. IsFiniteSet(1 .. Len(versions))
    BY <1>2, FS_Interval
  <2>2. IsFiniteSet({i \in DOMAIN versions : versions[i].run = r})
    BY <1>2, <2>1, FS_Subset
  <2>3. QED
    BY <2>2, FS_CardinalityType DEF VersionsOf
<1>5. QED
  BY <1>1, <1>3, <1>4

LEMMA RetrainingSuffices == RetrainingCore => RetrainingInv
<1> SUFFICES ASSUME RetrainingCore
             PROVE  RetrainingInv
  OBVIOUS
<1>1. RetrainingTypeOK /\ DetectorIsOfTheImage /\ HealthTellsTheDetector
  BY DEF RetrainingCore
<1>2. CheckedFirst /\ TriesAreCounted /\ HeldIsWhole
  BY DEF RetrainingCore, RunOK, CheckedFirst, TriesAreCounted, HeldIsWhole
<1>3. VersionsAreChecked /\ RegisteredIsWhole /\ TrainedOnEnough
  BY DEF RetrainingCore, VersionOK, VersionsAreChecked, RegisteredIsWhole,
         TrainedOnEnough, Enough
<1>4. VersionsAreTries
  <2> SUFFICES ASSUME NEW r \in Runs
               PROVE  /\ VersionsOf(r) <= tries[r]["anomaly"]
                      /\ VersionsOf(r) <= Retries + 1
    BY DEF VersionsAreTries
  <2>1. tries[r]["anomaly"] \in 0 .. Retries + 1 /\ Retries \in Nat
    BY <1>1, UpstreamFacts, RetrainingAssumption DEF RetrainingTypeOK
  <2>2. VersionsOf(r) <= tries[r]["anomaly"] /\ VersionsOf(r) \in Nat
    BY <1>1, VersionTypes DEF RetrainingCore, RunOK
  <2>3. QED
    BY <2>1, <2>2
<1>5. QED
  BY <1>1, <1>2, <1>3, <1>4 DEF RetrainingInv

(* A run that a step does not touch.                                        *)
LEMMA RunKept ==
    ASSUME NEW q \in Runs, RunOK(q), task'[q] = task[q],
           tries'[q] = tries[q], step'[q] = step[q], held'[q] = held[q],
           saw'[q] = saw[q],
           {i \in DOMAIN versions' : versions'[i].run = q}
              = {i \in DOMAIN versions : versions[i].run = q}
    PROVE  RunOK(q)'
<1>1. VersionsOf(q)' = VersionsOf(q)
  BY DEF VersionsOf
<1>2. Enough(q)' <=> Enough(q)
  BY DEF Enough
<1>3. QED
  BY <1>1, <1>2 DEF RunOK

LEMMA VersionsKept ==
    ASSUME RetrainingTypeOK, \A v \in ToSet(versions) : VersionOK(v),
           versions' = versions,
           \A q \in Runs : task[q]["check"] = "success" =>
              task'[q]["check"] = "success" /\ saw'[q] = saw[q]
    PROVE  (\A v \in ToSet(versions) : VersionOK(v))'
<1> SUFFICES ASSUME NEW v \in ToSet(versions)
             PROVE  VersionOK(v)'
  BY DEF ToSet
<1>1. v.run \in Runs /\ VersionOK(v)
  BY VersionTypes
<1>2. PICK q \in Runs : q = v.run
  BY <1>1
<1>3. task[q]["check"] = "success" /\ Enough(q) /\ v.model # Torn
  BY <1>1, <1>2 DEF VersionOK
<1>4. task'[q]["check"] = "success" /\ Enough(q)'
  BY <1>3 DEF Enough
<1>5. QED
  BY <1>2, <1>3, <1>4 DEF VersionOK, Enough

(* A task other than the check that has come into play: the check found     *)
(* enough.                                                                  *)
LEMMA Working ==
    ASSUME RetrainingTypeOK, NEW r \in Runs, RunOK(r),
           NEW t \in Tasks \ {"check"}, task[r][t] \notin {"none", "skipped"}
    PROVE  task[r]["check"] = "success" /\ Enough(r)
BY DEF RunOK

(* What is left to show of run r when a task of it changes after the check. *)
LEMMA TaskChanged ==
    ASSUME RetrainingTypeOK, NEW r \in Runs, RunOK(r),
           NEW t \in Tasks \ {"check"},
           task[r]["check"] = "success", Enough(r),
           task'[r]["check"] = "success", saw'[r] = saw[r],
           \A u \in Tasks \ {t} : /\ task'[r][u] = task[r][u]
                                  /\ tries'[r][u] = tries[r][u],
           task'[r][t] # "none",
           task'[r][t] = "retry" => tries'[r][t] <= Retries,
           step'[r] \in {"fit", "dump", "load", "register"} =>
              VersionsOf(r)' < tries'[r]["anomaly"],
           step'[r] = "register" => held'[r] # Torn,
           VersionsOf(r)' <= tries'[r]["anomaly"]
    PROVE  RunOK(r)'
<1>1. Enough(r)'
  BY DEF Enough
<1>2. \A u \in Tasks :
         /\ task'[r][u] = "none" => tries'[r][u] = 0
         /\ task'[r][u] = "retry" => tries'[r][u] <= Retries
  BY DEF RunOK
<1>3. QED
  BY <1>1, <1>2 DEF RunOK

LEMMA FailsFacts ==
    ASSUME RetrainingTypeOK, NEW r \in Runs, NEW t \in Tasks, Fails(r, t)
    PROVE  \E x \in {"failed", "retry"} :
              /\ task' = [task EXCEPT ![r][t] = x]
              /\ x = "retry" => tries[r][t] <= Retries
<1>1. tries[r][t] \in Nat /\ Retries \in Nat
  BY VersionTypes
<1>2. PICK n : n = tries[r][t]
  OBVIOUS
<1>3. task' = [task EXCEPT ![r][t] = AfterFailure(n)]
  BY <1>2 DEF Fails
<1>4. /\ AfterFailure(n) \in {"failed", "retry"}
      /\ AfterFailure(n) = "retry" => n <= Retries
  BY <1>1, <1>2 DEF AfterFailure
<1>5. QED
  BY <1>2, <1>3, <1>4

-----------------------------------------------------------------------------
(* Retraining, step by step.                                                *)

LEMMA ServiceKept ==
    ASSUME RetrainingCore, UNCHANGED <<image, detector, probe>>
    PROVE  DetectorIsOfTheImage' /\ HealthTellsTheDetector'
BY DEF RetrainingCore, DetectorIsOfTheImage, HealthTellsTheDetector,
       LoadForest, LoadIsolationModel

LEMMA StartsCore ==
    ASSUME RetrainingCore, NEW r \in Runs, NEW t \in Tasks, Starts(r, t)
    PROVE  RetrainingCore'
<1>1. /\ RetrainingTypeOK /\ RunOK(r) /\ \A q \in Runs : RunOK(q)
      /\ \A v \in ToSet(versions) : VersionOK(v)
      /\ task \in [Runs -> [Tasks -> TaskStates]]
      /\ tries \in [Runs -> [Tasks -> 0 .. Retries + 1]]
      /\ step \in [Runs -> {"idle", "fit", "dump", "load", "register",
                            "spatial"}]
      /\ \A q \in Runs : task[q]["anomaly"] = "running" <=> step[q] # "idle"
      /\ crowded \in BOOLEAN
  BY DEF RetrainingCore, RetrainingTypeOK, TaskStates
<1>2. PICK n : n = tries[r][t] + 1
  OBVIOUS
<1>3. /\ task[r][t] \in {"none", "retry"}
      /\ \A u \in Upstream[t] : task[r][u] = "success"
      /\ task' = [task EXCEPT ![r][t] = "running"]
      /\ tries' = [tries EXCEPT ![r][t] = n]
      /\ step' = IF t = "anomaly" THEN [step EXCEPT ![r] = "fit"] ELSE step
      /\ crowded' \in BOOLEAN
      /\ UNCHANGED <<days, rows, held, disk, versions, fits, saw, image,
                     builds, detector, probe>>
  BY <1>2 DEF Starts, history, service
<1>4. tries[r][t] \in 0 .. Retries + 1 /\ Retries \in Nat
  BY <1>1, RetrainingAssumption
<1>5. n \in 0 .. Retries + 1
  BY <1>1, <1>2, <1>3, <1>4 DEF RunOK
<1>6. /\ task' \in [Runs -> [Tasks -> TaskStates]]
      /\ task'[r][t] = "running"
      /\ \A u \in Tasks \ {t} : task'[r][u] = task[r][u]
      /\ \A q \in Runs \ {r} : task'[q] = task[q]
  <2>1. "running" \in TaskStates
    BY DEF TaskStates
  <2>2. QED
    BY <1>1, <1>3, <2>1, EntrySet
<1>7. /\ tries' \in [Runs -> [Tasks -> 0 .. Retries + 1]]
      /\ tries'[r][t] = n
      /\ \A u \in Tasks \ {t} : tries'[r][u] = tries[r][u]
      /\ \A q \in Runs \ {r} : tries'[q] = tries[q]
  BY <1>1, <1>3, <1>5, EntrySet
<1>8. /\ step' \in [Runs -> {"idle", "fit", "dump", "load", "register",
                             "spatial"}]
      /\ step'[r] = IF t = "anomaly" THEN "fit" ELSE step[r]
      /\ \A q \in Runs \ {r} : step'[q] = step[q]
  BY <1>1, <1>3
<1>9. \A q \in Runs : task'[q]["anomaly"] = "running" <=> step'[q] # "idle"
  <2>1. CASE t = "anomaly"
    BY <1>1, <1>6, <1>8, <2>1
  <2>2. CASE t # "anomaly"
    <3>1. "anomaly" \in Tasks \ {t}
      BY <2>2, UpstreamFacts
    <3>2. task'[r]["anomaly"] = task[r]["anomaly"] /\ step'[r] = step[r]
      BY <1>6, <1>8, <2>2, <3>1
    <3>3. QED
      BY <1>1, <1>6, <1>8, <3>2
  <2>3. QED
    BY <2>1, <2>2
<1>10. RetrainingTypeOK'
  BY <1>1, <1>3, <1>6, <1>7, <1>8, <1>9 DEF RetrainingTypeOK, TaskStates
<1>11. /\ VersionsOf(r)' = VersionsOf(r) /\ VersionsOf(r) \in Nat
       /\ tries[r]["anomaly"] \in Nat
       /\ VersionsOf(r) <= tries[r]["anomaly"]
  BY <1>1, <1>3, VersionTypes, UpstreamFacts DEF VersionsOf, RunOK
<1>12. ASSUME t = "check"
       PROVE  /\ RunOK(r)'
              /\ \A q \in Runs : task[q]["check"] = "success" =>
                    task'[q]["check"] = "success" /\ saw'[q] = saw[q]
  <2>1. task[r]["check"] = "none"
    BY <1>1, <1>3, <1>12 DEF RunOK
  <2>2. /\ task'[r]["check"] = "running"
        /\ \A u \in Tasks \ {"check"} : task'[r][u] = "none"
        /\ \A u \in Tasks \ {"check"} : tries'[r][u] = 0
    BY <1>1, <1>6, <1>7, <1>12, <2>1 DEF RunOK
  <2>3. /\ step'[r] = step[r] /\ held'[r] = held[r]
        /\ tries'[r]["anomaly"] = tries[r]["anomaly"]
    BY <1>3, <1>7, <1>8, <1>12, UpstreamFacts
  <2>4. RunOK(r)'
    BY <1>1, <1>11, <2>2, <2>3 DEF RunOK
  <2>5. \A q \in Runs : task[q]["check"] = "success" =>
           task'[q]["check"] = "success" /\ saw'[q] = saw[q]
    BY <1>3, <1>6, <2>1
  <2>6. QED
    BY <2>4, <2>5
<1>13. ASSUME t # "check"
       PROVE  /\ RunOK(r)'
              /\ \A q \in Runs : task[q]["check"] = "success" =>
                    task'[q]["check"] = "success" /\ saw'[q] = saw[q]
  <2>1. PICK u \in Tasks : u \in Upstream[t]
    BY <1>13, UpstreamFacts
  <2>2. task[r]["check"] = "success"
    BY <1>1, <1>3, <2>1 DEF RunOK
  <2>3. Enough(r)
    BY <1>1, <1>3, <1>13, <2>2 DEF RunOK
  <2>4. task'[r]["check"] = "success"
    BY <1>6, <1>13, <2>2, UpstreamFacts
  <2>5. n > tries[r][t]
    BY <1>2, <1>4
  <2>6. /\ step'[r] \in {"fit", "dump", "load", "register"} =>
              VersionsOf(r)' < tries'[r]["anomaly"]
        /\ step'[r] = "register" => held'[r] # Torn
        /\ VersionsOf(r)' <= tries'[r]["anomaly"]
    <3>1. CASE t = "anomaly"
      BY <1>4, <1>5, <1>7, <1>8, <1>11, <2>5, <3>1
    <3>2. CASE t # "anomaly"
      <4>1. /\ tries'[r]["anomaly"] = tries[r]["anomaly"]
            /\ step'[r] = step[r] /\ held'[r] = held[r]
        BY <1>3, <1>7, <1>8, <3>2, UpstreamFacts
      <4>2. QED
        BY <1>1, <1>11, <4>1 DEF RunOK
    <3>3. QED
      BY <3>1, <3>2
  <2>7. RunOK(r)'
    BY <1>1, <1>3, <1>6, <1>7, <1>13, <2>2, <2>3, <2>4, <2>6, TaskChanged
  <2>8. \A q \in Runs : task[q]["check"] = "success" =>
           task'[q]["check"] = "success" /\ saw'[q] = saw[q]
    BY <1>3, <1>6, <2>4
  <2>9. QED
    BY <2>7, <2>8
<1>14. RunOK(r)' /\ \A q \in Runs : task[q]["check"] = "success" =>
                       task'[q]["check"] = "success" /\ saw'[q] = saw[q]
  BY <1>12, <1>13
<1>15. \A q \in Runs \ {r} : RunOK(q)'
  BY <1>1, <1>3, <1>6, <1>7, <1>8, RunKept
<1>16. (\A v \in ToSet(versions) : VersionOK(v))'
  BY <1>1, <1>3, <1>14, VersionsKept
<1>17. DetectorIsOfTheImage' /\ HealthTellsTheDetector'
  BY <1>3, ServiceKept
<1>18. QED
  BY <1>10, <1>14, <1>15, <1>16, <1>17 DEF RetrainingCore

(* A task that ends, or is passed over.                                     *)
LEMMA TaskCore ==
    ASSUME RetrainingCore, NEW r \in Runs, NEW t \in Tasks \ {"check"},
           NEW x \in {"failed", "retry", "success", "upstream_failed"},
           task[r]["check"] = "success", Enough(r),
           task' = [task EXCEPT ![r][t] = x],
           x = "retry" => tries[r][t] <= Retries,
           IF t = "anomaly" THEN step' = [step EXCEPT ![r] = "idle"]
                            ELSE step' = step,
           UNCHANGED <<history, tries, models, saw, service>>
    PROVE  RetrainingCore'
<1>1. /\ RetrainingTypeOK /\ RunOK(r) /\ \A q \in Runs : RunOK(q)
      /\ \A v \in ToSet(versions) : VersionOK(v)
      /\ task \in [Runs -> [Tasks -> TaskStates]]
      /\ step \in [Runs -> {"idle", "fit", "dump", "load", "register",
                            "spatial"}]
      /\ \A q \in Runs : task[q]["anomaly"] = "running" <=> step[q] # "idle"
  BY DEF RetrainingCore, RetrainingTypeOK, TaskStates
<1>2. UNCHANGED <<days, rows, tries, held, disk, versions, fits, crowded,
                  saw, image, builds, detector, probe>>
  BY DEF history, models, service
<1>3. /\ task' \in [Runs -> [Tasks -> TaskStates]]
      /\ task'[r][t] = x
      /\ \A u \in Tasks \ {t} : task'[r][u] = task[r][u]
      /\ \A q \in Runs \ {r} : task'[q] = task[q]
  <2>1. x \in TaskStates
    BY DEF TaskStates
  <2>2. QED
    BY <1>1, <2>1, EntrySet
<1>4. /\ step' \in [Runs -> {"idle", "fit", "dump", "load", "register",
                             "spatial"}]
      /\ step'[r] = IF t = "anomaly" THEN "idle" ELSE step[r]
      /\ \A q \in Runs \ {r} : step'[q] = step[q]
  BY <1>1
<1>5. \A q \in Runs : task'[q]["anomaly"] = "running" <=> step'[q] # "idle"
  BY <1>1, <1>3, <1>4, UpstreamFacts
<1>6. RetrainingTypeOK'
  BY <1>1, <1>2, <1>3, <1>4, <1>5 DEF RetrainingTypeOK, TaskStates
<1>7. task'[r]["check"] = "success"
  BY <1>3, UpstreamFacts
<1>8. VersionsOf(r)' = VersionsOf(r)
  BY <1>2 DEF VersionsOf
<1>9. /\ step'[r] \in {"fit", "dump", "load", "register"} =>
            VersionsOf(r)' < tries'[r]["anomaly"]
      /\ step'[r] = "register" => held'[r] # Torn
      /\ VersionsOf(r)' <= tries'[r]["anomaly"]
  BY <1>1, <1>2, <1>4, <1>8 DEF RunOK
<1>10. RunOK(r)'
  BY <1>1, <1>2, <1>3, <1>7, <1>9, TaskChanged
<1>11. \A q \in Runs \ {r} : RunOK(q)'
  BY <1>1, <1>2, <1>3, <1>4, RunKept
<1>12. \A q \in Runs : task[q]["check"] = "success" =>
          task'[q]["check"] = "success" /\ saw'[q] = saw[q]
  BY <1>2, <1>3, <1>7
<1>13. (\A v \in ToSet(versions) : VersionOK(v))'
  BY <1>1, <1>2, <1>12, VersionsKept
<1>14. DetectorIsOfTheImage' /\ HealthTellsTheDetector'
  BY <1>2, ServiceKept
<1>15. QED
  BY <1>6, <1>10, <1>11, <1>13, <1>14 DEF RetrainingCore

LEMMA FollowsCore ==
    ASSUME RetrainingCore, NEW r \in Runs, NEW t \in Tasks, Follows(r, t)
    PROVE  RetrainingCore'
<1>1. /\ RetrainingTypeOK /\ RunOK(r)
      /\ step \in [Runs -> {"idle", "fit", "dump", "load", "register",
                            "spatial"}]
      /\ task[r]["anomaly"] = "running" <=> step[r] # "idle"
  BY DEF RetrainingCore, RetrainingTypeOK
<1>2. /\ task[r][t] = "none"
      /\ task' = [task EXCEPT ![r][t] = "upstream_failed"]
      /\ step' = step
      /\ UNCHANGED <<history, tries, models, saw, service>>
  BY DEF Follows
<1>3. PICK u \in Upstream[t] : task[r][u] \in {"failed", "upstream_failed"}
  BY DEF Follows
<1>4. t \in Tasks \ {"check"} /\ u \in Tasks
  BY <1>3, UpstreamFacts
<1>5. u # "check"
  BY <1>1, <1>3 DEF RunOK
<1>6. task[r]["check"] = "success" /\ Enough(r)
  BY <1>1, <1>3, <1>4, <1>5, Working
<1>7. t = "anomaly" => step' = [step EXCEPT ![r] = "idle"]
  BY <1>1, <1>2
<1>8. QED
  BY <1>2, <1>4, <1>6, <1>7, TaskCore

LEMMA FailuresOfTasks ==
    ASSUME RetrainingCore, NEW r \in Runs,
           \/ Exports(r) \/ TrainsEta(r) \/ FindsNoRows(r) \/ Spatial(r)
    PROVE  RetrainingCore'
<1>1. /\ RetrainingTypeOK /\ RunOK(r)
      /\ task[r]["anomaly"] = "running" <=> step[r] # "idle"
  BY DEF RetrainingCore, RetrainingTypeOK
<1>2. UNCHANGED <<history, tries, models, saw, service>>
  BY DEF Exports, TrainsEta, FindsNoRows, Spatial
<1>3. PICK t \in {"export", "eta", "anomaly"} :
         /\ task[r][t] = "running"
         /\ Fails(r, t) \/ Succeeds(r, t)
         /\ IF t = "anomaly" THEN step' = [step EXCEPT ![r] = "idle"]
                             ELSE step' = step
  <2>1. CASE Exports(r)
    BY <2>1 DEF Exports
  <2>2. CASE TrainsEta(r)
    BY <2>2 DEF TrainsEta
  <2>3. CASE FindsNoRows(r) \/ Spatial(r)
    BY <1>1, <2>3 DEF FindsNoRows, Spatial
  <2>4. QED
    BY <2>1, <2>2, <2>3
<1>4. t \in Tasks \ {"check"}
  BY UpstreamFacts
<1>5. task[r]["check"] = "success" /\ Enough(r)
  BY <1>1, <1>3, <1>4, Working
<1>6. PICK x \in {"failed", "retry", "success"} :
         /\ task' = [task EXCEPT ![r][t] = x]
         /\ x = "retry" => tries[r][t] <= Retries
  <2>1. CASE Fails(r, t)
    BY <1>1, <1>4, <2>1, FailsFacts
  <2>2. CASE Succeeds(r, t)
    BY <2>2 DEF Succeeds
  <2>3. QED
    BY <1>3, <2>1, <2>2
<1>7. QED
  BY <1>2, <1>3, <1>4, <1>5, <1>6, TaskCore

LEMMA ChecksCore ==
    ASSUME RetrainingCore, NEW r \in Runs, Checks(r)
    PROVE  RetrainingCore'
<1>1. /\ RetrainingTypeOK /\ RunOK(r) /\ \A q \in Runs : RunOK(q)
      /\ \A v \in ToSet(versions) : VersionOK(v)
      /\ task \in [Runs -> [Tasks -> TaskStates]]
      /\ saw \in [Runs -> [days : 0 .. MaxHistory, rows : 0 .. MaxHistory]]
      /\ \A q \in Runs : task[q]["anomaly"] = "running" <=> step[q] # "idle"
      /\ days \in 0 .. MaxHistory /\ rows \in 0 .. MaxHistory
      /\ MaxHistory \in Nat /\ MinDays \in Nat /\ MinRows \in Nat
  BY RetrainingAssumption DEF RetrainingCore, RetrainingTypeOK, TaskStates
<1>2. PICK d \in {days, 0}, n \in {rows, 0} :
         task' = [task EXCEPT ![r] =
                     [t \in Tasks |->
                         IF t = "check" THEN "success"
                         ELSE IF d < MinDays \/ n < MinRows THEN "skipped"
                         ELSE @[t]]]
  BY DEF Checks, Counted
<1>3. /\ task[r]["check"] = "running"
      /\ saw' = [saw EXCEPT ![r] = [days |-> days, rows |-> rows]]
      /\ UNCHANGED <<days, rows, tries, step, held, disk, versions, fits,
                     crowded, image, builds, detector, probe>>
  BY DEF Checks, history, models, service
<1>4. \A t \in Tasks \ {"check"} : task[r][t] = "none" /\ tries[r][t] = 0
  BY <1>1, <1>3 DEF RunOK
<1>5. PICK row : row = [t \in Tasks |->
                          IF t = "check" THEN "success"
                          ELSE IF d < MinDays \/ n < MinRows THEN "skipped"
                          ELSE task[r][t]]
  OBVIOUS
<1>6. /\ row \in [Tasks -> TaskStates] /\ row["check"] = "success"
      /\ \A t \in Tasks \ {"check"} :
            row[t] = IF d < MinDays \/ n < MinRows THEN "skipped" ELSE "none"
  BY <1>1, <1>4, <1>5, UpstreamFacts DEF TaskStates
<1>7. task' = [task EXCEPT ![r] = row]
  BY <1>2, <1>5
<1>8. /\ task' \in [Runs -> [Tasks -> TaskStates]] /\ task'[r] = row
      /\ \A q \in Runs \ {r} : task'[q] = task[q]
  BY <1>1, <1>6, <1>7
<1>9. /\ saw' \in [Runs -> [days : 0 .. MaxHistory, rows : 0 .. MaxHistory]]
      /\ saw'[r].days = days /\ saw'[r].rows = rows
      /\ \A q \in Runs \ {r} : saw'[q] = saw[q]
  BY <1>1, <1>3
<1>10. "anomaly" \in Tasks \ {"check"} /\ step[r] = "idle"
  BY <1>1, <1>4, UpstreamFacts
<1>11. \A q \in Runs : task'[q]["anomaly"] = "running" <=> step'[q] # "idle"
  BY <1>1, <1>3, <1>6, <1>8, <1>10
<1>12. RetrainingTypeOK'
  BY <1>1, <1>3, <1>8, <1>9, <1>11 DEF RetrainingTypeOK, TaskStates
<1>13. RunOK(r)'
  <2>1. VersionsOf(r)' = VersionsOf(r)
    BY <1>3 DEF VersionsOf
  <2>2. Enough(r)' \/ \A t \in Tasks \ {"check"} : task'[r][t] = "skipped"
    BY <1>1, <1>2, <1>6, <1>8, <1>9 DEF Enough
  <2>3. \A t \in Tasks : /\ task'[r][t] = "none" => tries'[r][t] = 0
                         /\ task'[r][t] # "retry"
    BY <1>3, <1>4, <1>6, <1>8
  <2>4. task'[r]["check"] = "success"
    BY <1>6, <1>8
  <2>5. /\ step'[r] = "idle"
        /\ VersionsOf(r)' <= tries'[r]["anomaly"]
    BY <1>1, <1>3, <1>10, <2>1 DEF RunOK
  <2>6. QED
    BY <2>2, <2>3, <2>4, <2>5 DEF RunOK
<1>14. \A q \in Runs \ {r} : RunOK(q)'
  BY <1>1, <1>3, <1>8, <1>9, RunKept
<1>15. \A q \in Runs : task[q]["check"] = "success" =>
          task'[q]["check"] = "success" /\ saw'[q] = saw[q]
  BY <1>3, <1>8, <1>9
<1>16. (\A v \in ToSet(versions) : VersionOK(v))'
  BY <1>1, <1>3, <1>15, VersionsKept
<1>17. DetectorIsOfTheImage' /\ HealthTellsTheDetector'
  BY <1>3, ServiceKept
<1>18. QED
  BY <1>12, <1>13, <1>14, <1>16, <1>17 DEF RetrainingCore

(* A step of a training.                                                    *)
LEMMA TrainsCore ==
    ASSUME RetrainingCore, NEW r \in Runs,
           NEW s \in {"dump", "load", "register", "spatial"},
           step[r] # "idle", step' = [step EXCEPT ![r] = s],
           UNCHANGED <<history, task, tries, saw, crowded, service>>,
           fits' \in Nat, fits <= fits',
           disk' \in Torn .. fits', held' \in [Runs -> Torn .. fits'],
           versions' \in Seq([model : Torn .. fits', run : Runs]),
           \A q \in Runs \ {r} :
              /\ held'[q] = held[q]
              /\ {i \in DOMAIN versions' : versions'[i].run = q}
                    = {i \in DOMAIN versions : versions[i].run = q},
           s = "register" => held'[r] # Torn,
           s # "spatial" => VersionsOf(r)' < tries[r]["anomaly"],
           VersionsOf(r)' <= tries[r]["anomaly"],
           (\A v \in ToSet(versions) : VersionOK(v))'
    PROVE  RetrainingCore'
<1>1. /\ RetrainingTypeOK /\ RunOK(r) /\ \A q \in Runs : RunOK(q)
      /\ step \in [Runs -> {"idle", "fit", "dump", "load", "register",
                            "spatial"}]
      /\ \A q \in Runs : task[q]["anomaly"] = "running" <=> step[q] # "idle"
      /\ image \in Torn .. fits /\ fits \in Nat
      /\ detector \in Shipped .. fits \union {Rules}
  BY DEF RetrainingCore, RetrainingTypeOK
<1>2. UNCHANGED <<days, rows, task, tries, saw, crowded, image, builds,
                  detector, probe>>
  BY DEF history, service
<1>3. /\ step' \in [Runs -> {"idle", "fit", "dump", "load", "register",
                             "spatial"}]
      /\ step'[r] = s /\ \A q \in Runs \ {r} : step'[q] = step[q]
  BY <1>1
<1>4. image' \in Torn .. fits'
  BY <1>1, <1>2 DEF Torn
<1>5. detector' \in Shipped .. fits' \union {Rules}
  BY <1>1, <1>2 DEF Shipped
<1>6. \A q \in Runs : task'[q]["anomaly"] = "running" <=> step'[q] # "idle"
  BY <1>1, <1>2, <1>3
<1>7. RetrainingTypeOK'
  BY <1>1, <1>2, <1>3, <1>4, <1>5, <1>6 DEF RetrainingTypeOK
<1>8. RunOK(r)'
  <2>1. Enough(r)' <=> Enough(r)
    BY <1>2 DEF Enough
  <2>2. QED
    BY <1>1, <1>2, <1>3, <2>1 DEF RunOK
<1>9. \A q \in Runs \ {r} : RunOK(q)'
  BY <1>1, <1>2, <1>3, RunKept
<1>10. DetectorIsOfTheImage' /\ HealthTellsTheDetector'
  BY <1>2, ServiceKept
<1>11. QED
  BY <1>7, <1>8, <1>9, <1>10 DEF RetrainingCore

LEMMA FitsCore ==
    ASSUME RetrainingCore, NEW r \in Runs,
           Fits(r) \/ Dumped(r) \/ Loads(r)
    PROVE  RetrainingCore'
<1>1. /\ RetrainingTypeOK /\ RunOK(r) /\ fits \in Nat
      /\ \A v \in ToSet(versions) : VersionOK(v)
      /\ held \in [Runs -> Torn .. fits] /\ disk \in Torn .. fits
      /\ versions \in Seq([model : Torn .. fits, run : Runs])
  BY DEF RetrainingCore, RetrainingTypeOK
<1>2. /\ UNCHANGED <<history, task, tries, saw, crowded, service>>
      /\ versions' = versions
  BY DEF Fits, Dumped, Loads
<1>3. step[r] \in {"fit", "dump", "load"}
  BY DEF Fits, Dumped, Loads
<1>4. /\ VersionsOf(r)' = VersionsOf(r)
      /\ VersionsOf(r) < tries[r]["anomaly"]
      /\ VersionsOf(r) \in Nat /\ tries[r]["anomaly"] \in Nat
  BY <1>1, <1>2, <1>3, VersionTypes, UpstreamFacts DEF VersionsOf, RunOK
<1>5. VersionsOf(r)' < tries[r]["anomaly"]
      /\ VersionsOf(r)' <= tries[r]["anomaly"]
  BY <1>4
<1>6. (\A v \in ToSet(versions) : VersionOK(v))'
  BY <1>1, <1>2, VersionsKept
<1>7. CASE Fits(r)
  <2>1. /\ step' = [step EXCEPT ![r] = "dump"] /\ disk' = Torn
        /\ fits' = fits + 1 /\ held' = [held EXCEPT ![r] = fits + 1]
    BY <1>7 DEF Fits
  <2>2. fits' \in Nat /\ fits <= fits' /\ disk' \in Torn .. fits'
    BY <1>1, <2>1 DEF Torn
  <2>3. Torn .. fits \subseteq Torn .. fits' /\ fits + 1 \in Torn .. fits'
    BY <1>1, <2>1 DEF Torn
  <2>4. /\ held' \in [Runs -> Torn .. fits']
        /\ \A q \in Runs \ {r} : held'[q] = held[q]
    BY <1>1, <2>1, <2>3
  <2>5. [model : Torn .. fits, run : Runs]
           \subseteq [model : Torn .. fits', run : Runs]
    BY <2>3
  <2>6. versions' \in Seq([model : Torn .. fits', run : Runs])
    BY <1>1, <1>2, <2>5, SeqGrows
  <2>7. QED
    BY <1>2, <1>3, <1>5, <1>6, <2>1, <2>2, <2>4, <2>6, TrainsCore
<1>8. CASE Dumped(r)
  <2>1. /\ step' = [step EXCEPT ![r] = "load"]
        /\ disk' \in {held[r], Torn} /\ UNCHANGED <<fits, held>>
    BY <1>8 DEF Dumped
  <2>2. Torn \in Torn .. fits
    BY <1>1 DEF Torn
  <2>3. /\ disk' \in Torn .. fits' /\ held' \in [Runs -> Torn .. fits']
        /\ fits' \in Nat /\ fits <= fits'
        /\ versions' \in Seq([model : Torn .. fits', run : Runs])
    BY <1>1, <1>2, <2>1, <2>2
  <2>4. QED
    BY <1>2, <1>3, <1>5, <1>6, <2>1, <2>3, TrainsCore
<1>9. CASE Loads(r)
  <2>1. PICK s \in {"register", "spatial"} :
           /\ step' = [step EXCEPT ![r] = s]
           /\ s = "register" => disk # Torn
    BY <1>9 DEF Loads
  <2>2. held' = [held EXCEPT ![r] = disk] /\ UNCHANGED <<disk, fits>>
    BY <1>9 DEF Loads
  <2>3. /\ held' \in [Runs -> Torn .. fits] /\ held'[r] = disk
        /\ \A q \in Runs \ {r} : held'[q] = held[q]
    BY <1>1, <2>2
  <2>4. /\ disk' \in Torn .. fits' /\ held' \in [Runs -> Torn .. fits']
        /\ fits' \in Nat /\ fits <= fits'
        /\ versions' \in Seq([model : Torn .. fits', run : Runs])
    BY <1>1, <1>2, <2>2, <2>3
  <2>5. s = "register" => held'[r] # Torn
    BY <2>1, <2>3
  <2>6. QED
    BY <1>2, <1>3, <1>5, <1>6, <2>1, <2>3, <2>4, <2>5, TrainsCore
<1>10. QED
  BY <1>7, <1>8, <1>9

LEMMA RegistersCore ==
    ASSUME RetrainingCore, NEW r \in Runs, Registers(r)
    PROVE  RetrainingCore'
<1>1. /\ RetrainingTypeOK /\ RunOK(r) /\ fits \in Nat
      /\ \A v \in ToSet(versions) : VersionOK(v)
      /\ held \in [Runs -> Torn .. fits] /\ disk \in Torn .. fits
      /\ versions \in Seq([model : Torn .. fits, run : Runs])
      /\ task[r]["anomaly"] = "running" <=> step[r] # "idle"
  BY DEF RetrainingCore, RetrainingTypeOK
<1>2. /\ step[r] = "register" /\ step' = [step EXCEPT ![r] = "spatial"]
      /\ UNCHANGED <<history, task, tries, saw, crowded, service, held, disk,
                     fits>>
  BY DEF Registers
<1>3. /\ VersionsOf(r) < tries[r]["anomaly"] /\ held[r] # Torn
      /\ VersionsOf(r) \in Nat /\ tries[r]["anomaly"] \in Nat
  BY <1>1, <1>2, VersionTypes, UpstreamFacts DEF RunOK
<1>4. task[r]["check"] = "success" /\ Enough(r)
  <2>1. "anomaly" \in Tasks \ {"check"} /\ task[r]["anomaly"] = "running"
    BY <1>1, <1>2, UpstreamFacts
  <2>2. QED
    BY <1>1, <2>1, Working
<1>5. CASE UNCHANGED versions
  <2>1. (\A v \in ToSet(versions) : VersionOK(v))'
    BY <1>1, <1>2, <1>5, VersionsKept
  <2>2. VersionsOf(r)' = VersionsOf(r)
    BY <1>5 DEF VersionsOf
  <2>3. VersionsOf(r)' <= tries[r]["anomaly"]
    BY <1>3, <2>2
  <2>4. /\ disk' \in Torn .. fits' /\ held' \in [Runs -> Torn .. fits']
        /\ fits' \in Nat /\ fits <= fits'
        /\ versions' \in Seq([model : Torn .. fits', run : Runs])
    BY <1>1, <1>2, <1>5
  <2>5. \A q \in Runs \ {r} :
           /\ held'[q] = held[q]
           /\ {i \in DOMAIN versions' : versions'[i].run = q}
                 = {i \in DOMAIN versions : versions[i].run = q}
    BY <1>2, <1>5
  <2>6. QED
    BY <1>2, <2>1, <2>3, <2>4, <2>5, TrainsCore
<1>6. CASE versions' = Append(versions, [model |-> held[r], run |-> r])
  <2>1. PICK v : v = [model |-> held[r], run |-> r]
    OBVIOUS
  <2>2. PICK n : n = Len(versions) + 1
    OBVIOUS
  <2>3. v \in [model : Torn .. fits, run : Runs]
    BY <1>1, <2>1
  <2>4. /\ versions' \in Seq([model : Torn .. fits, run : Runs])
        /\ DOMAIN versions' = DOMAIN versions \union {n}
        /\ n \notin DOMAIN versions /\ versions'[n] = v
        /\ \A i \in DOMAIN versions : versions'[i] = versions[i]
        /\ DOMAIN versions = 1 .. Len(versions) /\ Len(versions) \in Nat
    BY <1>1, <1>6, <2>1, <2>2, <2>3
  <2>5. \A q \in Runs \ {r} :
           {i \in DOMAIN versions' : versions'[i].run = q}
              = {i \in DOMAIN versions : versions[i].run = q}
    BY <2>1, <2>4
  <2>6. VersionsOf(r)' = VersionsOf(r) + 1
    <3>1. PICK here : here = {i \in DOMAIN versions : versions[i].run = r}
      OBVIOUS
    <3>2. {i \in DOMAIN versions' : versions'[i].run = r}
             = here \union {n}
      BY <2>1, <2>4, <3>1
    <3>3. IsFiniteSet(1 .. Len(versions))
      <4>1. 1 \in Int /\ Len(versions) \in Int
        BY <2>4
      <4>2. QED
        BY <4>1, FS_Interval
    <3>4. IsFiniteSet(here) /\ n \notin here
      BY <2>4, <3>1, <3>3, FS_Subset
    <3>5. Cardinality(here \union {n}) = Cardinality(here) + 1
      BY <3>4, FS_AddElement
    <3>6. QED
      BY <3>1, <3>2, <3>5 DEF VersionsOf
  <2>7. VersionsOf(r)' <= tries[r]["anomaly"]
    BY <1>3, <2>6
  <2>8. (\A w \in ToSet(versions) : VersionOK(w))'
    <3>1. VersionOK(v)'
      BY <1>2, <1>3, <1>4, <2>1 DEF VersionOK, Enough
    <3>2. ASSUME NEW w \in ToSet(versions)
          PROVE  VersionOK(w)'
      BY <1>1, <1>2 DEF VersionOK, Enough
    <3>3. ToSet(versions)' = ToSet(versions) \union {v}
      BY <2>4 DEF ToSet
    <3>4. QED
      BY <3>1, <3>2, <3>3
  <2>9. /\ disk' \in Torn .. fits' /\ held' \in [Runs -> Torn .. fits']
        /\ fits' \in Nat /\ fits <= fits'
    BY <1>1, <1>2
  <2>10. versions' \in Seq([model : Torn .. fits', run : Runs])
    BY <1>2, <2>4
  <2>11. \A q \in Runs \ {r} : held'[q] = held[q]
    BY <1>2
  <2>12. QED
    BY <1>2, <2>5, <2>7, <2>8, <2>9, <2>10, <2>11, TrainsCore
<1>7. QED
  BY <1>5, <1>6 DEF Registers

(* The history grows; the service is built, starts again, or is asked.      *)
LEMMA AroundCore ==
    ASSUME RetrainingCore, Grows \/ Builds \/ Reboots \/ AsksHealth
    PROVE  RetrainingCore'
<1>1. /\ RetrainingTypeOK /\ \A q \in Runs : RunOK(q)
      /\ \A v \in ToSet(versions) : VersionOK(v)
      /\ disk \in Torn .. fits /\ image \in Torn .. fits /\ fits \in Nat
      /\ detector = LoadForest(image)
      /\ probe # Unasked => probe = detector
      /\ days \in 0 .. MaxHistory /\ rows \in 0 .. MaxHistory
      /\ builds \in 0 .. MaxBuilds
      /\ MaxHistory \in Nat /\ MaxBuilds \in Nat
  BY RetrainingAssumption
     DEF RetrainingCore, RetrainingTypeOK, DetectorIsOfTheImage,
         HealthTellsTheDetector
<1>2. UNCHANGED <<task, tries, step, held, disk, versions, fits, crowded,
                  saw>>
  BY DEF Grows, Builds, Reboots, AsksHealth, models
<1>3. \A file \in Torn .. fits :
         LoadForest(file) \in Shipped .. fits \union {Rules}
  BY <1>1 DEF LoadForest, LoadIsolationModel, Torn, Shipped, Rules
<1>4. /\ days' \in 0 .. MaxHistory /\ rows' \in 0 .. MaxHistory
      /\ builds' \in 0 .. MaxBuilds
  BY <1>1 DEF Grows, Builds, Reboots, AsksHealth, history, service
<1>5. /\ image' \in Torn .. fits /\ detector' = LoadForest(image')
      /\ probe' # Unasked => probe' = detector'
  BY <1>1 DEF Grows, Builds, Reboots, AsksHealth, service
<1>6. detector' \in Shipped .. fits \union {Rules}
  BY <1>3, <1>5
<1>7. RetrainingTypeOK'
  BY <1>1, <1>2, <1>4, <1>5, <1>6 DEF RetrainingTypeOK
<1>8. \A q \in Runs : RunOK(q)'
  BY <1>1, <1>2, RunKept
<1>9. (\A v \in ToSet(versions) : VersionOK(v))'
  BY <1>1, <1>2, VersionsKept
<1>10. DetectorIsOfTheImage' /\ HealthTellsTheDetector'
  BY <1>5 DEF DetectorIsOfTheImage, HealthTellsTheDetector, LoadForest,
              LoadIsolationModel
<1>11. QED
  BY <1>7, <1>8, <1>9, <1>10 DEF RetrainingCore

(* The registry holds what was trained after a check that found enough,     *)
(* whole, and no more than a run has tries (the DAG                         *)
(* ontime_intelligence_retrain and the training script), and the health of  *)
(* the anomaly service tells how it detects, for any runs that overlap.     *)
THEOREM RetrainingCorrect == RetrainingSpec => []RetrainingInv
<1>1. RetrainingInit => RetrainingCore
  <2> SUFFICES ASSUME RetrainingInit
               PROVE  RetrainingCore
    OBVIOUS
  <2>1. /\ MaxHistory \in Nat /\ MaxBuilds \in Nat /\ Retries \in Nat
    BY RetrainingAssumption
  <2>2. versions = <<>> /\ versions \in Seq([model : Torn .. fits, run : Runs])
    BY DEF RetrainingInit
  <2>3. 0 \in Torn .. 0 /\ Torn \in Torn .. 0 /\ Shipped \in Torn .. 0
    BY DEF Torn, Shipped
  <2>4. Shipped \in Shipped .. 0
    BY DEF Shipped
  <2>5. RetrainingTypeOK
    <3>1. /\ days \in 0 .. MaxHistory /\ rows \in 0 .. MaxHistory
          /\ fits \in Nat /\ fits = 0 /\ crowded \in BOOLEAN
          /\ builds \in 0 .. MaxBuilds
      <4>1. days = 0 /\ rows = 0 /\ fits = 0 /\ builds = 0
        BY DEF RetrainingInit
      <4>2. crowded \in BOOLEAN
        BY DEF RetrainingInit
      <4>3. QED
        BY <2>1, <4>1, <4>2
    <3>2. /\ disk \in Torn .. fits /\ image \in Torn .. fits
          /\ held \in [Runs -> Torn .. fits]
          /\ detector \in Shipped .. fits \union {Rules}
      BY <2>3, <2>4 DEF RetrainingInit
    <3>3. /\ task \in [Runs -> [Tasks -> {"none", "running", "retry",
                "success", "failed", "skipped", "upstream_failed"}]]
          /\ step \in [Runs -> {"idle", "fit", "dump", "load", "register",
                                "spatial"}]
      BY DEF RetrainingInit
    <3>4. tries \in [Runs -> [Tasks -> 0 .. Retries + 1]]
      BY <2>1 DEF RetrainingInit
    <3>5. saw \in [Runs -> [days : 0 .. MaxHistory, rows : 0 .. MaxHistory]]
      BY <2>1 DEF RetrainingInit
    <3>6. \A r \in Runs : task[r]["anomaly"] = "running" <=> step[r] # "idle"
      BY UpstreamFacts DEF RetrainingInit
    <3>7. QED
      BY <2>2, <3>1, <3>2, <3>3, <3>4, <3>5, <3>6 DEF RetrainingTypeOK
  <2>6. ASSUME NEW r \in Runs
        PROVE  RunOK(r)
    <3>1. {i \in DOMAIN versions : versions[i].run = r} = {}
      BY <2>2
    <3>2. VersionsOf(r) = 0
      BY <3>1, FS_EmptySet DEF VersionsOf
    <3>3. /\ step[r] = "idle"
          /\ \A t \in Tasks : task[r][t] = "none" /\ tries[r][t] = 0
      BY DEF RetrainingInit
    <3>4. QED
      BY <3>2, <3>3, UpstreamFacts DEF RunOK
  <2>7. \A v \in ToSet(versions) : VersionOK(v)
    BY <2>2 DEF ToSet
  <2>8. DetectorIsOfTheImage /\ HealthTellsTheDetector
    BY DEF RetrainingInit, DetectorIsOfTheImage, HealthTellsTheDetector,
           LoadForest, LoadIsolationModel, Shipped, Torn
  <2>9. QED
    BY <2>5, <2>6, <2>7, <2>8 DEF RetrainingCore
<1>2. RetrainingCore /\ [RetrainingNext]_retrainVars => RetrainingCore'
  <2> SUFFICES ASSUME RetrainingCore, [RetrainingNext]_retrainVars
               PROVE  RetrainingCore'
    OBVIOUS
  <2>1. CASE Grows \/ Builds \/ Reboots \/ AsksHealth
    BY <2>1, AroundCore
  <2>2. ASSUME NEW r \in Runs, NEW t \in Tasks, Starts(r, t) \/ Follows(r, t)
        PROVE  RetrainingCore'
    BY <2>2, StartsCore, FollowsCore
  <2>3. ASSUME NEW r \in Runs,
               \/ Checks(r) \/ Exports(r) \/ TrainsEta(r) \/ FindsNoRows(r)
               \/ Fits(r) \/ Dumped(r) \/ Loads(r) \/ Registers(r)
               \/ Spatial(r)
        PROVE  RetrainingCore'
    BY <2>3, ChecksCore, FailuresOfTasks, FitsCore, RegistersCore
  <2>4. CASE UNCHANGED retrainVars
    <3>1. UNCHANGED <<days, rows, task, tries, step, held, disk, versions,
                      fits, saw, crowded, image, builds, detector, probe>>
      BY <2>4 DEF retrainVars
    <3>2. RetrainingTypeOK'
      BY <3>1 DEF RetrainingCore, RetrainingTypeOK
    <3>3. \A q \in Runs : RunOK(q)'
      BY <3>1, RunKept DEF RetrainingCore
    <3>4. (\A v \in ToSet(versions) : VersionOK(v))'
      BY <3>1, VersionsKept DEF RetrainingCore
    <3>5. DetectorIsOfTheImage' /\ HealthTellsTheDetector'
      BY <3>1, ServiceKept
    <3>6. QED
      BY <3>2, <3>3, <3>4, <3>5 DEF RetrainingCore
  <2>5. QED
    BY <2>1, <2>2, <2>3, <2>4 DEF RetrainingNext
<1>3. QED
  BY <1>1, <1>2, RetrainingSuffices, PTL DEF RetrainingSpec
=============================================================================
