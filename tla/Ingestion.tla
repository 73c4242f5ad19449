------------------------------- MODULE Ingestion -------------------------------
(***************************************************************************)
(* Temperature readings of one lane: ingestLaneReadings of                 *)
(* cold-chain.service.ts over the tables of cold-chain.pg-store.ts.  Each  *)
(* statement is a step, except the insert, the update and the select of    *)
(* replaceExcursions, which touch what only this transaction sees or what  *)
(* its locks protect.  READ COMMITTED: a DELETE takes the rows of its      *)
(* snapshot, waits for those another transaction has deleted, and never    *)
(* sees the rows that one inserts.                                         *)
(*                                                                         *)
(* The rules that turn readings into excursions are a parameter: the runs  *)
(* give it those of ColdChain, the theorems hold for any.  Readings sent   *)
(* twice are one: of two of the same instant, one lasts no time.           *)
(***************************************************************************)
EXTENDS Notifications

CONSTANTS
    Readings,      \* the readings the logger takes
    Batches,       \* what a request may send: late, early, again
    Detected(_)    \* readings -> excursions

Severities == {"MINOR", "MODERATE", "SEVERE", "CRITICAL"}
NotEnded == -1
NotBreached == -1

\* excursionKey; the type follows from the direction.
Excursion == [start : Nat, end : Nat \cup {NotEnded}, severity : Severities,
              direction : {"HIGH", "LOW"}]

CriticalStarts(found) == {e.start : e \in {x \in found : x.severity = "CRITICAL"}}

\* A list of excursions with a critical one has a first critical one: lists are finite.
ASSUME ReadingAssumption ==
    /\ Batches \subseteq SUBSET Readings
    /\ \A R \in SUBSET Readings :
          /\ Detected(R) \subseteq Excursion
          /\ LET starts == CriticalStarts(Detected(R))
             IN  starts # {} => \E x \in starts : \A y \in starts : x <= y

VARIABLES
    readings,      \* temperature_readings
    excursions,    \* excursions
    breachedAt,    \* lanes.cold_chain_sla_breached_at
    ingestion,     \* slot -> the ingestion in it
    announced,     \* excursions the owner was notified of
    unannounced,   \* ghost: excursions whose ingestion broke before its notification
    fresh          \* ghost: the table was last replaced by an ingestion none overlapped

tables == <<readings, excursions, breachedAt>>
ingestionVars == <<tables, ingestion, announced, unannounced, fresh>>

\* A row and the ingestion that inserted it, which stands for its id.
Row == [by : Nat, what : Excursion]
Whats(rows) == {row.what : row \in rows}

Work == [at : {"none", "insert", "read", "delete", "replace", "commit", "notify"},
         by : Nat, batch : SUBSET Readings, previous : SUBSET Excursion,
         found : SUBSET Excursion, doomed : SUBSET Row, news : SUBSET Excursion,
         alone : BOOLEAN]
NoWork == [at |-> "none", by |-> 0, batch |-> {}, previous |-> {}, found |-> {},
           doomed |-> {}, news |-> {}, alone |-> TRUE]

\* Between the insert of the readings and the commit.
Open(s) == ingestion[s].at \in {"read", "delete", "replace", "commit"}

-----------------------------------------------------------------------------
IngestionInit ==
    /\ readings = {} /\ excursions = {} /\ breachedAt = NotBreached
    /\ ingestion = [s \in Slots |-> NoWork]
    /\ announced = {} /\ unannounced = {} /\ fresh = FALSE

\* findLaneTemperatureContext, then listLaneExcursions.
ListExcursions(s, batch) ==
    /\ Begin(s, "ingest")
    /\ ingestion' = [ingestion EXCEPT ![s] =
           [NoWork EXCEPT !.at = "insert", !.by = started + 1, !.batch = batch,
                          !.previous = Whats(excursions)]]
    /\ UNCHANGED <<tables, announced, unannounced, fresh>>

\* createTemperatureReadings
CreateReadings(s) ==
    /\ ingestion[s].at = "insert"
    /\ readings' = readings \cup ingestion[s].batch
    /\ ingestion' = [t \in Slots |->
           IF t = s THEN [ingestion[s] EXCEPT !.at = "read", !.alone = \A u \in Slots : ~Open(u)]
           ELSE [ingestion[t] EXCEPT !.alone = @ /\ ~Open(t)]]
    /\ fresh' = FALSE
    /\ UNCHANGED <<excursions, breachedAt, announced, unannounced>> /\ Continue

\* listTemperatureReadings and detectExcursions
ListReadings(s) ==
    /\ ingestion[s].at = "read"
    /\ ingestion' = [ingestion EXCEPT ![s].at = "delete", ![s].found = Detected(readings)]
    /\ UNCHANGED <<tables, announced, unannounced, fresh>> /\ Continue

DeleteOngoing(s) ==
    /\ ingestion[s].at = "delete"
    /\ ingestion' = [ingestion EXCEPT ![s].at = "replace",
           ![s].doomed = {row \in excursions : row.what.end = NotEnded}]
    /\ UNCHANGED <<tables, announced, unannounced, fresh>> /\ Continue
\* BEGIN, and the snapshot of DELETE FROM excursions.
DeleteExcursions(s) ==
    /\ ingestion[s].at = "delete"
    /\ ingestion' = [ingestion EXCEPT ![s].at = "replace", ![s].doomed = excursions]
    /\ UNCHANGED <<tables, announced, unannounced, fresh>> /\ Continue

\* t has deleted a row s wants to delete, or updated the lane s wants to update.
Blocks(t, s) ==
    /\ t # s /\ ingestion[t].at = "commit"
    /\ \/ ingestion[t].doomed \cap ingestion[s].doomed # {}
       \/ CriticalStarts(ingestion[t].found) # {} /\ CriticalStarts(ingestion[s].found) # {}

\* New to the owner: what the select returned and the list read at first did not have.
NewsByStart(stored, previous) == {e \in stored : \A x \in previous : x.start # e.start}
News(stored, previous) == stored \ previous

\* The rows are deleted, those of the new list inserted, the lane is updated; the
\* select sees them and what others have committed.
ReplaceExcursions(s) ==
    /\ ingestion[s].at = "replace"
    /\ \A t \in Slots : ~Blocks(t, s)
    /\ LET w == ingestion[s]
           stored == w.found \cup Whats(excursions \ w.doomed)
       IN  ingestion' = [ingestion EXCEPT ![s] =
               [w EXCEPT !.at = "commit", !.doomed = @ \cap excursions,
                         !.news = News(stored, w.previous)]]
    /\ UNCHANGED <<tables, announced, unannounced, fresh>> /\ Continue

\* The CASE of the lane's update: the earliest critical start, of the new list and of
\* what the lane has.
Earliest(starts) ==
    IF starts = {} THEN NotBreached ELSE CHOOSE x \in starts : \A y \in starts : x <= y
BreachOverwritten(found) ==
    IF CriticalStarts(found) = {} THEN breachedAt ELSE Earliest(CriticalStarts(found))
Breach(found) == Earliest(CriticalStarts(found) \cup ({breachedAt} \ {NotBreached}))

\* COMMIT, and the comparison in notifyAboutNewExcursions.
CommitExcursions(s) ==
    /\ ingestion[s].at = "commit"
    /\ LET w == ingestion[s]
       IN  /\ excursions' = (excursions \ w.doomed) \cup {[by |-> w.by, what |-> e] : e \in w.found}
           /\ breachedAt' = Breach(w.found)
           /\ fresh' = w.alone
           /\ ingestion' = [ingestion EXCEPT ![s] =
                  IF w.news = {} THEN NoWork ELSE [NoWork EXCEPT !.at = "notify", !.news = w.news]]
           /\ EndOr(s, w.news # {})
    /\ UNCHANGED <<readings, announced, unannounced>>

\* notifyLaneOwnerAboutTemperatureExcursions: stored whatever the preferences are.
AnnounceExcursions(s) ==
    /\ ingestion[s].at = "notify"
    /\ announced' = announced \cup ingestion[s].news
    /\ ingestion' = [ingestion EXCEPT ![s] = NoWork]
    /\ End(s)
    /\ UNCHANGED <<tables, unannounced, fresh>>

\* Any statement may fail: the transaction is rolled back, the rest not done.
BreakIngestion(s) ==
    /\ ingestion[s].at # "none"
    /\ Break(s)
    /\ unannounced' = IF ingestion[s].at = "notify" THEN unannounced \cup ingestion[s].news
                      ELSE unannounced
    /\ ingestion' = [ingestion EXCEPT ![s] = NoWork]
    /\ UNCHANGED <<tables, announced, fresh>>

IngestionStep(s) ==
    \/ \E batch \in Batches : ListExcursions(s, batch)
    \/ CreateReadings(s) \/ ListReadings(s) \/ DeleteExcursions(s) \/ ReplaceExcursions(s)
    \/ CommitExcursions(s) \/ AnnounceExcursions(s) \/ BreakIngestion(s)

-----------------------------------------------------------------------------
IngestionTypeOK ==
    /\ readings \subseteq Readings
    /\ excursions \subseteq Row
    /\ breachedAt \in Nat \cup {NotBreached}
    /\ ingestion \in [Slots -> Work]
    /\ announced \subseteq Excursion /\ unannounced \subseteq Excursion
    /\ fresh \in BOOLEAN

\* Every stored excursion was announced, is about to be, or lost its announcement to
\* an error after the commit: a request that finds it in the list it compares with
\* may count on the one that stored it.
ExcursionsAnnounced ==
    \A row \in excursions :
        \/ row.what \in announced \cup unannounced
        \/ \E s \in Slots : ingestion[s].at = "notify" /\ row.what \in ingestion[s].news

\* An ingestion that no other overlapped between its insert and its commit leaves
\* exactly the excursions of all readings stored, whatever overlapping and broken
\* ones left before.
FreshIsDetected ==
    fresh => /\ Whats(excursions) = Detected(readings)
             /\ \A x, y \in excursions : x.what = y.what => x = y

\* The breach of the SLA is no later than any critical excursion stored, and is the
\* start of one that the readings had at some time.
BreachIsEarliest ==
    /\ \A row \in excursions : row.what.severity = "CRITICAL" =>
          breachedAt # NotBreached /\ breachedAt <= row.what.start
    /\ breachedAt # NotBreached =>
          \E R \in SUBSET readings : breachedAt \in CriticalStarts(Detected(R))
===============================================================================
