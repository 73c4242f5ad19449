------------------------------ MODULE Monitoring -------------------------------
(***************************************************************************)
(* What watches the lanes and tells people: temperature ingestion, expiry  *)
(* alerts and rule changes in one system.  They share the slots, the       *)
(* bounds and the owner's preferences, and nothing else of what they       *)
(* store: each step of one leaves the tables of the others alone.          *)
(***************************************************************************)
EXTENDS Ingestion, CertificationAlerts, RuleBook

vars == <<sharedVars, ingestionVars, alertingVars, bookVars>>

Init == SharedInit /\ IngestionInit /\ AlertingInit /\ BookInit

Next ==
    \/ \E s \in Slots :
          \/ IngestionStep(s) /\ UNCHANGED <<alertingVars, bookVars>>
          \/ AlertingStep(s) /\ UNCHANGED <<ingestionVars, bookVars>>
          \/ BookStep(s) /\ UNCHANGED <<ingestionVars, alertingVars>>
    \/ PassDays /\ UNCHANGED <<ingestionVars, bookVars>>
    \/ UpdatePreferences /\ UNCHANGED <<ingestionVars, alertingVars, bookVars>>

Spec == Init /\ [][Next]_vars

-----------------------------------------------------------------------------
\* Every variable has its type, and a slot runs the handler it says it runs.
TypeOK ==
    /\ SharedTypeOK /\ IngestionTypeOK /\ AlertingTypeOK /\ BookTypeOK
    /\ \A s \in Slots :
          /\ ingestion[s].at # "none" <=> handling[s] = "ingest"
          /\ alerting[s].at # "none" <=> handling[s] = "alert"
          /\ book[s].at # "none" <=> handling[s] \in {"change", "reload"}

\* What is committed is announced: excursions to the lane's owner, rule changes to the
\* market's audience (notifyAboutNewExcursions, notifyRuleChange); only a request that
\* breaks between its commit and its notification, or an audience of more than one,
\* leaves somebody in the dark.
CommitsAnnounced == ExcursionsAnnounced /\ RuleChangesAnnounced

\* What is derived follows what it is derived from: after an ingestion, or a change of
\* a substance, that no other overlapped, the excursions are those of the readings
\* (replaceExcursions) and the rule set is that of the substances, recorded under its
\* version (bumpRuleVersionsForMarket).
DerivedTablesFollow == FreshIsDetected /\ InStepWithTable
===============================================================================
