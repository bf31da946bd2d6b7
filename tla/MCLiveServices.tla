--------------------------- MODULE MCLiveServices ---------------------------
(***************************************************************************)
(* Small instances of the ways messages take to and from the stream job:   *)
(* ETA, anomalies, the live feed, and the configuration of devices.  They  *)
(* share no state: a behaviour moves one of them, chosen at the start, and *)
(* leaves the others where they are.                                       *)
(***************************************************************************)
EXTENDS EtaService, AnomalyService, LiveFeed, DeviceConfig

VARIABLE part

vars == <<part, etaVars, anomalyVars, feedVars, configVars>>

InEta(A) == /\ part = "eta" /\ A
            /\ UNCHANGED <<part, anomalyVars, feedVars, configVars>>
InAnomaly(A) == /\ part = "anomaly" /\ A
                /\ UNCHANGED <<part, etaVars, feedVars, configVars>>
InFeed(A) == /\ part = "feed" /\ A
             /\ UNCHANGED <<part, etaVars, anomalyVars, configVars>>
InConfig(A) == /\ part = "config" /\ A
               /\ UNCHANGED <<part, etaVars, anomalyVars, feedVars>>

Init == /\ part \in {"eta", "anomaly", "feed", "config"}
        /\ EtaInit /\ AnomalyInit /\ FeedInit /\ ConfigInit

Next == \/ InEta(EtaNext) \/ InAnomaly(AnomalyNext)
        \/ InFeed(FeedNext) \/ InConfig(ConfigNext)

Spec == Init /\ [][Next]_vars

\* EtaFairness, AnomalyFairness, FeedFairness and ConfigFairness, each for its
\* part.
FairSpec ==
    /\ Spec
    /\ WF_vars(InEta(Join))
    /\ WF_vars(InEta(Take))
    /\ WF_vars(InEta(Store))
    /\ WF_vars(InAnomaly(CheckSilence))
    /\ \A task \in Tasks :
          WF_vars(InAnomaly(SendAlert(task) \/ SendFails(task)))
    /\ WF_vars(InFeed(Subscribe))
    /\ WF_vars(InFeed(Broadcast))
    /\ WF_vars(InConfig(SureWork))
=============================================================================
