----------------------------- MODULE MCIngestion -----------------------------
(***************************************************************************)
(* A small instance of ingestion.  A behaviour, as chosen at the start,    *)
(* follows the cache alone through a longer log and two restarts, or the   *)
(* cache with the subscriber around it through one event and one restart.  *)
(***************************************************************************)
EXTENDS Ingestion

CONSTANT t1  \* a trip

VARIABLE part

mcVars == <<part, vars>>

CacheAlone == /\ part = "cache" /\ UNCHANGED <<part, subVars>> /\ Next

FewEvents == /\ Len(log') <= 1 /\ restarts' <= 1
             /\ \A i \in DOMAIN log' :
                   log'[i] = Undecodable \/ log'[i].trip = t1
Whole == part = "whole" /\ UNCHANGED part /\ IngestionNext /\ FewEvents

MCInit == part \in {"cache", "whole"} /\ IngestionInit

\* The fairness of FairSpec and of IngestionFairSpec.
Thread == ThreadStep /\ UNCHANGED <<part, subVars>>
Mqtt == part = "whole" /\ MqttStep /\ UNCHANGED part
Beat == part = "whole" /\ ReceiveHeartbeat /\ UNCHANGED part

MCSpec == /\ MCInit /\ [][CacheAlone \/ Whole]_mcVars
          /\ WF_mcVars(Thread) /\ WF_mcVars(Mqtt) /\ WF_mcVars(Beat)
=============================================================================
