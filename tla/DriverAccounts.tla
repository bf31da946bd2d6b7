--------------------------- MODULE DriverAccounts ---------------------------
(***************************************************************************)
(* A driver is an account in Keycloak and a profile in the database of     *)
(* services/fleet-management-service.  The gateway                         *)
(* (services/api-gateway/app/routers/admin_fleet.py) writes both, one      *)
(* after the other, and undoes the first by hand when the second fails.    *)
(*                                                                         *)
(* The calls to Keycloak block the gateway's event loop: from one await to *)
(* the next a handler is one step.  A request to the fleet service is     *)
(* carried out in its own time, also after the gateway has given up on it. *)
(* Calls are numbered; an account and a profile are named by the call that *)
(* created them.  "bare" is an enabled account without the role DRIVER.    *)
(***************************************************************************)
EXTENDS Naturals

CONSTANTS
    Usernames,
    Licenses,
    MaxCalls,   \* bound: calls of the gateway
    MaxFaults   \* bound: errors of Keycloak, timeouts, crashes

ASSUME AccountsAssumption == {MaxCalls, MaxFaults} \subseteq Nat

VARIABLES
    admin,    \* was keycloak_admin created at start-up?
    calls,    \* calls so far
    call,     \* call -> what was asked
    pc,       \* call -> "new", "waiting" for the fleet service, "ended"
    errand,   \* call -> its request to the fleet service
    answer,   \* call -> the status the gateway answered, 0: none
    auth,     \* call -> the account create_user returned for it, 0: none
    account,  \* call -> the account it created
    profile,  \* call -> the driver row it created
    license,  \* call -> license_number of that row
    faults,
    unsettled, \* calls for which Keycloak did not do what it was asked to,
               \* or the gateway did not live to ask it (history)
    unheard    \* calls whose answer from the fleet service was lost (history)

accountsVars == <<admin, calls, call, pc, errand, answer, auth, account,
                  profile, license, faults, unsettled, unheard>>

-----------------------------------------------------------------------------
Calls == 1 .. MaxCalls
NoCall == [kind |-> "none"]
AddCall == [kind : {"add"}, username : Usernames, license : Licenses]
EndCall == [kind : {"deactivate"}, driver : Calls]

AccountsInit ==
    /\ admin \in BOOLEAN
    /\ calls = 0
    /\ call = [c \in Calls |-> NoCall]
    /\ pc = [c \in Calls |-> "new"]
    /\ errand = [c \in Calls |-> "none"]
    /\ answer = [c \in Calls |-> 0]
    /\ auth = [c \in Calls |-> 0]
    /\ account = [c \in Calls |-> "none"]
    /\ profile = [c \in Calls |-> "none"]
    /\ license = [c \in Calls |-> "none"]
    /\ faults = 0
    /\ unsettled = {} /\ unheard = {}

Arrives(c, what) ==
    /\ calls < MaxCalls /\ c = calls + 1
    /\ calls' = c
    /\ call' = [call EXCEPT ![c] = what]

AnswersCall(c, status) ==
    /\ answer' = [answer EXCEPT ![c] = status]
    /\ pc' = [pc EXCEPT ![c] = "ended"]

Asks(c) ==
    /\ pc' = [pc EXCEPT ![c] = "waiting"]
    /\ errand' = [errand EXCEPT ![c] = "pending"]

Fault == faults < MaxFaults /\ faults' = faults + 1
Unsettled(c) == unsettled' = unsettled \union {c}

UsernameTaken(u) ==
    \E d \in Calls : account[d] # "none" /\ call[d].username = u

LicenseTaken(l, but) == \E d \in Calls \ {but} : profile[d] # "none"
                                                 /\ license[d] = l

-----------------------------------------------------------------------------
(* add_driver.                                                              *)

\* Mutant of CreateUser: with exist_ok the account of another is returned.
CreateUser_existOk(c, what) ==
    /\ Arrives(c, what) /\ admin /\ Asks(c)
    /\ \/ /\ ~UsernameTaken(what.username)
          /\ account' = [account EXCEPT ![c] = "enabled"]
          /\ auth' = [auth EXCEPT ![c] = c]
       \/ \E d \in Calls :
             /\ account[d] # "none" /\ call[d].username = what.username
             /\ auth' = [auth EXCEPT ![c] = d]
             /\ account' = account
    /\ UNCHANGED <<admin, answer, profile, license, faults, unsettled,
                   unheard>>

\* create_user and _assign_role succeed; the fleet service is asked.
CreateUser(c, what) ==
    /\ Arrives(c, what) /\ admin /\ ~UsernameTaken(what.username) /\ Asks(c)
    /\ account' = [account EXCEPT ![c] = "enabled"]
    /\ auth' = [auth EXCEPT ![c] = c]
    /\ UNCHANGED <<admin, answer, profile, license, faults, unsettled,
                   unheard>>

RefuseUser(c, what) ==
    /\ Arrives(c, what)
    /\ \/ ~admin /\ AnswersCall(c, 503)
       \/ admin /\ UsernameTaken(what.username) /\ AnswersCall(c, 400)
    /\ UNCHANGED <<admin, errand, auth, account, profile, license, faults,
                   unsettled, unheard>>

\* create_user fails, or it was carried out and only its answer is lost.
CreateUserFails(c, what) ==
    /\ Arrives(c, what) /\ admin /\ ~UsernameTaken(what.username)
    /\ Fault /\ AnswersCall(c, 400)
    /\ \/ account' = account /\ unsettled' = unsettled
       \/ /\ account' = [account EXCEPT ![c] = "bare"]
          /\ Unsettled(c)
    /\ UNCHANGED <<admin, errand, auth, profile, license, unheard>>

\* _assign_role fails and deletes the user, if that succeeds.
AssignRoleFails(c, what) ==
    /\ Arrives(c, what) /\ admin /\ ~UsernameTaken(what.username)
    /\ Fault /\ AnswersCall(c, 500)
    /\ \/ account' = account /\ unsettled' = unsettled
       \/ /\ account' = [account EXCEPT ![c] = "bare"]
          /\ Unsettled(c)
    /\ UNCHANGED <<admin, errand, auth, profile, license, unheard>>

\* create_driver of the fleet service: the license number and the account
\* are unique among the drivers, and it does not catch the IntegrityError.
FleetCreates(c) ==
    /\ call[c].kind = "add" /\ errand[c] = "pending"
    /\ IF LicenseTaken(call[c].license, c)
          \/ \E d \in Calls : profile[d] # "none" /\ auth[d] = auth[c]
       THEN /\ errand' = [errand EXCEPT ![c] = "refused"]
            /\ UNCHANGED <<profile, license>>
       ELSE /\ errand' = [errand EXCEPT ![c] = "done"]
            /\ profile' = [profile EXCEPT ![c] = "active"]
            /\ license' = [license EXCEPT ![c] = call[c].license]
    /\ UNCHANGED <<admin, calls, call, pc, answer, auth, account, faults,
                   unsettled, unheard>>

Added(c) ==
    /\ call[c].kind = "add" /\ pc[c] = "waiting" /\ errand[c] = "done"
    /\ AnswersCall(c, 200)
    /\ UNCHANGED <<admin, calls, call, errand, auth, account, profile,
                   license, faults, unsettled, unheard>>

\* delete_user, whose own failure is passed over.
Compensate(c) ==
    \/ /\ account' = [account EXCEPT ![auth[c]] = "none"]
       /\ faults' = faults /\ unsettled' = unsettled
    \/ Fault /\ account' = account /\ Unsettled(c)

AddRefused(c) ==
    /\ call[c].kind = "add" /\ pc[c] = "waiting" /\ errand[c] = "refused"
    /\ Compensate(c)
    /\ AnswersCall(c, 500)
    /\ UNCHANGED <<admin, calls, call, errand, auth, profile, license,
                   unheard>>

\* The connection breaks, or five seconds pass; what the fleet service does,
\* or has done, stays unknown.
AddUnanswered(c) ==
    /\ call[c].kind = "add" /\ pc[c] = "waiting" /\ Fault
    /\ \/ /\ account' = [account EXCEPT ![auth[c]] = "none"]
          /\ unsettled' = unsettled
       \/ account' = account /\ Unsettled(c)
    /\ unheard' = unheard \union {c}
    /\ AnswersCall(c, 500)
    /\ UNCHANGED <<admin, calls, call, errand, auth, profile, license>>

-----------------------------------------------------------------------------
(* deactivate_driver_account, and an edit of the license number.           *)

AskDeactivate(c, d) ==
    /\ Arrives(c, [kind |-> "deactivate", driver |-> d])
    /\ Asks(c)
    /\ UNCHANGED <<admin, answer, auth, account, profile, license, faults,
                   unsettled, unheard>>

FleetDeactivates(c) ==
    /\ call[c].kind = "deactivate" /\ errand[c] = "pending"
    /\ IF profile[call[c].driver] = "none"
       THEN /\ errand' = [errand EXCEPT ![c] = "refused"]
            /\ profile' = profile
       ELSE /\ errand' = [errand EXCEPT ![c] = "done"]
            /\ profile' = [profile EXCEPT ![call[c].driver] = "inactive"]
    /\ UNCHANGED <<admin, calls, call, pc, answer, auth, account, license,
                   faults, unsettled, unheard>>

DeactivateRefused(c) ==
    /\ call[c].kind = "deactivate" /\ pc[c] = "waiting"
    /\ errand[c] = "refused"
    /\ AnswersCall(c, 404)
    /\ UNCHANGED <<admin, calls, call, errand, auth, account, profile,
                   license, faults, unsettled, unheard>>

Disabled(c) ==
    LET a == auth[call[c].driver] IN
    IF account[a] = "none" THEN account
                           ELSE [account EXCEPT ![a] = "disabled"]

\* The answer of the fleet service names the account, which is disabled.
Disable(c) ==
    /\ call[c].kind = "deactivate" /\ pc[c] = "waiting"
    /\ errand[c] = "done"
    /\ \/ ~admin /\ AnswersCall(c, 503) /\ UNCHANGED <<account, faults>>
       \/ /\ admin /\ account[auth[call[c].driver]] = "none"
          /\ AnswersCall(c, 400) /\ UNCHANGED <<account, faults>>
       \/ /\ admin /\ account[auth[call[c].driver]] # "none"
          /\ account' = Disabled(c)
          /\ \/ AnswersCall(c, 200) /\ faults' = faults
             \/ Fault /\ AnswersCall(c, 400)
       \/ admin /\ Fault /\ AnswersCall(c, 400) /\ account' = account
    /\ UNCHANGED <<admin, calls, call, errand, auth, profile, license,
                   unsettled, unheard>>

DeactivateUnanswered(c) ==
    /\ call[c].kind = "deactivate" /\ pc[c] = "waiting" /\ Fault
    /\ AnswersCall(c, 500)
    /\ UNCHANGED <<admin, calls, call, errand, auth, account, profile,
                   license, unsettled, unheard>>

\* The gateway stops; the handlers that wait are gone with it.
GatewayCrash ==
    /\ Fault
    /\ pc' = [c \in Calls |-> IF pc[c] = "waiting" THEN "ended" ELSE pc[c]]
    /\ unsettled' = unsettled \union {c \in Calls : pc[c] = "waiting"}
    /\ admin' \in BOOLEAN
    /\ UNCHANGED <<calls, call, errand, answer, auth, account, profile,
                   license, unheard>>

EditLicense(d, l) ==
    /\ profile[d] # "none" /\ ~LicenseTaken(l, d)
    /\ license' = [license EXCEPT ![d] = l]
    /\ UNCHANGED <<admin, calls, call, pc, errand, answer, auth, account,
                   profile, faults, unsettled, unheard>>

AccountsNext ==
    \/ \E c \in Calls : \E what \in AddCall :
          \/ CreateUser(c, what) \/ RefuseUser(c, what)
          \/ CreateUserFails(c, what) \/ AssignRoleFails(c, what)
    \/ \E c, d \in Calls : AskDeactivate(c, d)
    \/ \E c \in Calls :
          \/ FleetCreates(c) \/ Added(c) \/ AddRefused(c)
          \/ AddUnanswered(c)
          \/ FleetDeactivates(c) \/ DeactivateRefused(c) \/ Disable(c)
          \/ DeactivateUnanswered(c)
    \/ GatewayCrash
    \/ \E d \in Calls : \E l \in Licenses : EditLicense(d, l)

AccountsSpec == AccountsInit /\ [][AccountsNext]_accountsVars

-----------------------------------------------------------------------------
(* Properties.                                                              *)

\* Every variable keeps to its type; no two drivers share a license number.
AccountsTypeOK ==
    /\ admin \in BOOLEAN /\ calls \in 0 .. MaxCalls
    /\ call \in [Calls -> AddCall \union EndCall \union {NoCall}]
    /\ pc \in [Calls -> {"new", "waiting", "ended"}]
    /\ errand \in [Calls -> {"none", "pending", "done", "refused"}]
    /\ answer \in [Calls -> {0, 200, 400, 404, 500, 503}]
    /\ auth \in [Calls -> 0 .. MaxCalls]
    /\ account \in [Calls -> {"none", "bare", "enabled", "disabled"}]
    /\ profile \in [Calls -> {"none", "active", "inactive"}]
    /\ license \in [Calls -> Licenses \union {"none"}]
    /\ \A c, d \in Calls : (license[c] = license[d] /\ license[c] # "none")
                              => c = d
    /\ faults \in 0 .. MaxFaults
    /\ unsettled \subseteq Calls /\ unheard \subseteq Calls

\* No driver is left without the account to log in with, but where the
\* gateway gave up on a request that the fleet service carried out: no
\* rollback takes the account of a driver added before.
ProfileHasAccount ==
    \A c \in Calls : (profile[c] # "none" /\ account[auth[c]] = "none")
                        => c \in unheard

\* An addition that failed leaves no account to log in with, unless Keycloak
\* failed as well, or the gateway stopped.
NoStrayAccount ==
    \A c \in Calls : (account[c] # "none" /\ pc[c] = "ended"
                                          /\ profile[c] = "none")
                        => c \in unsettled

\* An account is taken away only from a driver who is off the roster, and a
\* deactivation that is answered with success has taken it.
DisabledIsInactive ==
    /\ \A c \in Calls : account[c] = "disabled" => profile[c] = "inactive"
    /\ \A c \in Calls :
          (call[c].kind = "deactivate" /\ answer[c] = 200)
              => account[auth[call[c].driver]] \in {"disabled", "none"}

\* Why: what a call has left behind at each of its stages.  A call that has
\* not come yet has left nothing.
NotYet(c) ==
    /\ pc[c] = "new" /\ errand[c] = "none" /\ answer[c] = 0 /\ auth[c] = 0
    /\ account[c] = "none" /\ profile[c] = "none"

\* An addition asks the fleet service once it has its own account; that is
\* there until the addition is refused, or its answer is lost.
AddsItsOwn(c) ==
    /\ IF errand[c] = "none" THEN auth[c] = 0 /\ pc[c] = "ended"
                             ELSE auth[c] = c /\ pc[c] # "new"
    /\ profile[c] # "none" <=> errand[c] = "done"
    /\ (errand[c] # "none" /\ account[c] = "none")
          => errand[c] = "refused" \/ c \in unheard

\* A deactivation has no account of its own, and takes another's only when
\* its driver is off the roster.
TakesFromInactive(c) ==
    /\ errand[c] # "none" /\ auth[c] = 0
    /\ account[c] = "none" /\ profile[c] = "none"
    /\ errand[c] = "done" => profile[call[c].driver] = "inactive"
    /\ answer[c] = 200 => errand[c] = "done"

CallsInStages ==
    \A c \in Calls :
        /\ call[c] = NoCall <=> c > calls
        /\ call[c] = NoCall => NotYet(c)
        /\ call[c].kind = "add" => AddsItsOwn(c)
        /\ call[c].kind = "deactivate" => TakesFromInactive(c)
        /\ license[c] # "none" => profile[c] # "none"

\* Accounts in Keycloak and profiles in the fleet service belong together,
\* where neither failed behind the other's back: no profile without its
\* account, no account left by an addition that failed, and none taken from an
\* active driver.
AccountsInv ==
    /\ AccountsTypeOK
    /\ CallsInStages
    /\ ProfileHasAccount
    /\ NoStrayAccount
    /\ DisabledIsInactive
=============================================================================
