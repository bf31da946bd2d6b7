------------------------------- MODULE MCAdmin -------------------------------
(***************************************************************************)
(* Small instances of what administrators do: driver accounts, the catalog *)
(* of routes, the fleet that refers to it, and the retraining of models.   *)
(* A behaviour moves one of them, chosen at the start, and leaves the      *)
(* others where they are; with the fleet, routes are only imported and     *)
(* deleted.                                                                *)
(***************************************************************************)
EXTENDS DriverAccounts, FleetAdmin, Retraining, TLC

VARIABLE part

vars == <<part, accountsVars, catalogVars, fleetVars, retrainVars>>

\* User names, licences and runs are interchangeable.
Symmetry == Permutations(Usernames) \union Permutations(Licenses)
              \union Permutations(Runs)

Twice == {<<"a", "b">>, <<"b", "x", "x">>}

InAccounts(A) == /\ part = "accounts" /\ A
                 /\ UNCHANGED <<part, catalogVars, fleetVars, retrainVars>>
InCatalog(A) == /\ part = "catalog" /\ A
                /\ UNCHANGED <<part, accountsVars, fleetVars, retrainVars>>
InFleet(A) == /\ part = "fleet" /\ A
              /\ UNCHANGED <<part, accountsVars, retrainVars>>
InRetraining(A) == /\ part = "retraining" /\ A
                   /\ UNCHANGED <<part, accountsVars, catalogVars, fleetVars>>

Init == /\ part \in {"accounts", "catalog", "fleet", "retraining"}
        /\ AccountsInit /\ CatalogInit /\ FleetInit /\ RetrainingInit

\* Bounds for the fleet: imports of one file, without an error, two beside two
\* requests or one beside three.
ImportsOnly == /\ uploads' <= 2 /\ uploads' + requests' <= 4
               /\ dbErrors' = 0 /\ copy' = copy
               /\ uploads' # uploads =>
                     upload'[uploads'] = [pc |-> "delete", name |-> "R",
                                          file |-> <<"a", "b">>,
                                          found |-> Named("R")]

\* Bounds for the retraining: train_eta_models, which shares nothing with
\* other tasks, and what follows from failures go first; images are built,
\* and the health is asked, around the first training.
Hurries(r) ==
    \/ task[r]["eta"] \in {"running", "retry"}
    \/ task[r]["eta"] = "none" /\ task[r]["export"] = "success"
    \/ \E t \in Tasks :
          /\ task[r][t] = "none"
          /\ \E u \in Upstream[t] :
                task[r][u] \in {"failed", "upstream_failed"}
InTurn ==
    /\ (\E r \in Runs : Hurries(r)) =>
          \E r \in Runs :
             \/ task'[r]["eta"] # task[r]["eta"]
             \/ \E t \in Tasks : /\ task[r][t] = "none"
                                /\ task'[r][t] = "upstream_failed"
    /\ builds' # builds \/ probe' # probe => fits <= 1

Next == \/ InAccounts(AccountsNext)
        \/ InCatalog(CatalogNext)
        \/ InFleet(FleetNext /\ ImportsOnly)
        \/ InRetraining(RetrainingNext /\ InTurn)

Spec == Init /\ [][Next]_vars
=============================================================================
