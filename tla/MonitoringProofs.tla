---------------------------- MODULE MonitoringProofs ----------------------------
(***************************************************************************)
(* Theorems about Monitoring, for every set of readings, certificates and  *)
(* substances, every detector and any number of requests and scans.  IInv  *)
(* joins the invariants of the three components with Links, which says     *)
(* whose work a slot does: it is why a step of one component never starts  *)
(* over what another one has in the slot.                                  *)
(*                                                                         *)
(* IngestionInv strengthens the properties of the ingestion by what the    *)
(* requests under way have read: the list an ingestion compares with holds *)
(* only excursions that were announced or will be, what it found comes     *)
(* from readings that are stored, and an ingestion that is still alone has *)
(* found what the table of readings holds now and doomed every row.        *)
(* AlertingInv counts the notifications of an alert by the status of its   *)
(* row: as many as claims released after one when there is no row or a     *)
(* skipped one, one more when the row is delivered or its holder has told  *)
(* the owner; and it gives every claimed row to one holder or to the       *)
(* orphans, who have none.  BookInv says what a transaction over the rules *)
(* that is still alone has read, and that what waits to be announced was   *)
(* committed.                                                              *)
(***************************************************************************)
EXTENDS Monitoring, TLAPS

-----------------------------------------------------------------------------
(* Temperature ingestion *)

\* The owner knows of e, will be told, or a request broke on the way.
Handled(e) ==
    \/ e \in announced \cup unannounced
    \/ \E s \in Slots : ingestion[s].at = "notify" /\ e \in ingestion[s].news

ListsHandled ==
    /\ \A row \in excursions : Handled(row.what)
    /\ \A s \in Slots : \A e \in ingestion[s].previous : Handled(e)
    /\ \A s \in Slots : ingestion[s].at = "commit" =>
          ingestion[s].found \subseteq ingestion[s].news \cup ingestion[s].previous

FoundInReadings ==
    \A s \in Slots : ingestion[s].at \in {"delete", "replace", "commit"} =>
        \E R \in SUBSET readings : ingestion[s].found = Detected(R)

AloneMeans ==
    \A s \in Slots : Open(s) /\ ingestion[s].alone =>
        /\ \A t \in Slots : Open(t) => t = s
        /\ ingestion[s].at \in {"delete", "replace", "commit"} =>
              ingestion[s].found = Detected(readings)
        /\ ingestion[s].at \in {"replace", "commit"} => ingestion[s].doomed = excursions

\* A slot with work of this component is not free.
IngestionLink == \A s \in Slots : ingestion[s].at # "none" => handling[s] = "ingest"

IngestionInv ==
    /\ IngestionTypeOK /\ ListsHandled /\ FoundInReadings /\ AloneMeans
    /\ BreachIsEarliest /\ FreshIsDetected

LEMMA IngestionInvInit ==
    ASSUME IngestionInit PROVE IngestionInv
BY DEF IngestionInit, IngestionInv, IngestionTypeOK, ListsHandled, FoundInReadings, AloneMeans,
       BreachIsEarliest, FreshIsDetected, NoWork, Work, Open, Row, Excursion, NotBreached

\* The other components leave these variables alone.
LEMMA IngestionInvStutter ==
    ASSUME IngestionInv, UNCHANGED ingestionVars PROVE IngestionInv'
<1> USE DEF ingestionVars, tables
<1>1. IngestionTypeOK' /\ FoundInReadings' /\ BreachIsEarliest' /\ FreshIsDetected'
  BY DEF IngestionInv, IngestionTypeOK, FoundInReadings, BreachIsEarliest, FreshIsDetected, Whats
<1>2. ListsHandled'
  BY DEF IngestionInv, ListsHandled, Handled
<1>3. AloneMeans'
  BY DEF IngestionInv, AloneMeans, Open
<1> QED
  BY <1>1, <1>2, <1>3 DEF IngestionInv

-----------------------------------------------------------------------------
(* The type invariant *)

LEMMA FoundIsTyped ==
    ASSUME NEW R \in SUBSET Readings PROVE Detected(R) \in SUBSET Excursion
BY ReadingAssumption

LEMMA BreachIsTyped ==
    ASSUME IngestionTypeOK, NEW R \in SUBSET Readings
    PROVE  /\ Breach(Detected(R)) \in Nat \cup {NotBreached}
           /\ \A x \in CriticalStarts(Detected(R)) :
                 Breach(Detected(R)) # NotBreached /\ Breach(Detected(R)) <= x
           /\ breachedAt # NotBreached =>
                 Breach(Detected(R)) # NotBreached /\ Breach(Detected(R)) <= breachedAt
           /\ Breach(Detected(R)) # NotBreached =>
                 Breach(Detected(R)) \in CriticalStarts(Detected(R)) \cup {breachedAt}
<1> DEFINE C == CriticalStarts(Detected(R))
           S == C \cup ({breachedAt} \ {NotBreached})
<1>1. C \subseteq Nat
  BY FoundIsTyped DEF CriticalStarts, Excursion
<1>2. C # {} => \E x \in C : \A y \in C : x <= y
  BY ReadingAssumption
<1>3. S \subseteq Nat
  BY <1>1 DEF IngestionTypeOK
<1> HIDE DEF C
<1>4. ASSUME S # {} PROVE \E x \in S : \A y \in S : x <= y
  <2>1. CASE C = {}
    BY <1>4, <1>3, <2>1
  <2>2. CASE C # {}
    <3>1. PICK x \in C : \A y \in C : x <= y
      BY <1>2, <2>2
    <3>2. CASE breachedAt # NotBreached /\ breachedAt < x
      BY <3>1, <3>2, <1>3
    <3>3. CASE ~(breachedAt # NotBreached /\ breachedAt < x)
      BY <3>1, <3>3, <1>3
    <3> QED
      BY <3>2, <3>3
  <2> QED
    BY <2>1, <2>2
<1>5. Breach(Detected(R)) = Earliest(S)
  BY DEF Breach, C
<1>6. S = {} => Earliest(S) = NotBreached
  BY DEF Earliest
<1> HIDE DEF S
<1>7. S # {} => Earliest(S) \in S /\ \A y \in S : Earliest(S) <= y
  BY <1>4 DEF Earliest
<1>8. NotBreached \notin Nat
  BY DEF NotBreached
<1>9. C \subseteq S /\ (breachedAt # NotBreached => breachedAt \in S) /\ S \subseteq C \cup {breachedAt}
  BY DEF S
<1>10. Breach(Detected(R)) # NotBreached <=> S # {}
  BY <1>3, <1>5, <1>6, <1>7, <1>8
<1> QED
  BY <1>3, <1>5, <1>6, <1>7, <1>9, <1>10 DEF C

\* Rebuilding the record of s with fields of the right type.
LEMMA WorkIsTyped ==
    ASSUME IngestionTypeOK, started \in Nat, NEW s \in Slots, IngestionStep(s)
    PROVE  ingestion' \in [Slots -> Work]
<1> DEFINE w == ingestion[s]
<1>1. w \in Work /\ NoWork \in Work
  BY DEF IngestionTypeOK, NoWork, Work
<1>2. readings \in SUBSET Readings /\ excursions \in SUBSET Row /\ ingestion \in [Slots -> Work]
  BY DEF IngestionTypeOK
<1>3. \A rows \in SUBSET Row : Whats(rows) \in SUBSET Excursion
  BY DEF Whats, Row
<1>4. ASSUME NEW batch \in Batches, ListExcursions(s, batch)
      PROVE  ingestion' \in [Slots -> Work]
  <2>1. [NoWork EXCEPT !.at = "insert", !.by = started + 1, !.batch = batch,
                       !.previous = Whats(excursions)] \in Work
    <3>1. started + 1 \in Nat /\ batch \in SUBSET Readings /\ Whats(excursions) \in SUBSET Excursion
      BY <1>2, <1>3, ReadingAssumption
    <3> QED
      BY <3>1, <1>1 DEF NoWork, Work
  <2> QED
    BY <2>1, <1>2, <1>4 DEF ListExcursions
<1>5. CASE CreateReadings(s)
  <2>1. \A t \in Slots : [ingestion[t] EXCEPT !.alone = @ /\ ~Open(t)] \in Work
    BY <1>2 DEF Work, Open
  <2>2. [w EXCEPT !.at = "read", !.alone = \A u \in Slots : ~Open(u)] \in Work
    BY <1>1 DEF Work, Open
  <2> QED
    BY <2>1, <2>2, <1>5 DEF CreateReadings
<1>6. CASE ListReadings(s)
  <2>1. [w EXCEPT !.at = "delete", !.found = Detected(readings)] \in Work
    BY <1>1, <1>2, FoundIsTyped DEF Work
  <2> QED
    BY <2>1, <1>2, <1>6 DEF ListReadings
<1>7. CASE DeleteExcursions(s)
  <2>1. [w EXCEPT !.at = "replace", !.doomed = excursions] \in Work
    BY <1>1, <1>2 DEF Work
  <2> QED
    BY <2>1, <1>2, <1>7 DEF DeleteExcursions
<1>8. CASE ReplaceExcursions(s)
  <2> DEFINE stored == w.found \cup Whats(excursions \ w.doomed)
  <2>1. excursions \ w.doomed \in SUBSET Row /\ w.doomed \cap excursions \in SUBSET Row
    BY <1>2
  <2>2. News(stored, w.previous) \in SUBSET Excursion
    BY <2>1, <1>1, <1>3 DEF News, Work
  <2> HIDE DEF stored
  <2>3. [w EXCEPT !.at = "commit", !.doomed = @ \cap excursions,
                  !.news = News(stored, w.previous)] \in Work
    BY <1>1, <2>1, <2>2 DEF Work
  <2> QED
    BY <2>3, <1>2, <1>8 DEF ReplaceExcursions, stored
<1>9. CASE CommitExcursions(s)
  <2>1. [NoWork EXCEPT !.at = "notify", !.news = w.news] \in Work
    BY <1>1 DEF NoWork, Work
  <2> QED
    BY <2>1, <1>1, <1>2, <1>9 DEF CommitExcursions
<1>10. CASE AnnounceExcursions(s) \/ BreakIngestion(s)
  BY <1>1, <1>2, <1>10 DEF AnnounceExcursions, BreakIngestion
<1> QED
  BY <1>4, <1>5, <1>6, <1>7, <1>8, <1>9, <1>10 DEF IngestionStep

LEMMA IngestionTyped ==
    ASSUME IngestionTypeOK, FoundInReadings, started \in Nat, NEW s \in Slots, IngestionStep(s)
    PROVE  IngestionTypeOK'
<1> DEFINE w == ingestion[s]
<1>1. ingestion' \in [Slots -> Work]
  BY WorkIsTyped
<1>2. w \in Work
  BY DEF IngestionTypeOK
<1>3. CASE CommitExcursions(s)
  <2>1. excursions' \subseteq Row
    BY <1>2, <1>3 DEF CommitExcursions, IngestionTypeOK, Work, Row
  <2>2. breachedAt' \in Nat \cup {NotBreached}
    <3>1. PICK R \in SUBSET readings : w.found = Detected(R)
      BY <1>3 DEF CommitExcursions, FoundInReadings
    <3>2. R \in SUBSET Readings
      BY DEF IngestionTypeOK
    <3> QED
      BY <3>1, <3>2, <1>3, BreachIsTyped, SMTT(30) DEF CommitExcursions
  <2>3. fresh' \in BOOLEAN
    BY <1>2, <1>3 DEF CommitExcursions, Work
  <2> QED
    BY <1>1, <1>3, <2>1, <2>2, <2>3 DEF CommitExcursions, IngestionTypeOK
<1>4. CASE CreateReadings(s)
  BY <1>1, <1>2, <1>4 DEF CreateReadings, IngestionTypeOK, Work
<1>5. CASE AnnounceExcursions(s) \/ BreakIngestion(s)
  BY <1>1, <1>2, <1>5 DEF AnnounceExcursions, BreakIngestion, IngestionTypeOK, Work, tables
<1>6. ASSUME UNCHANGED <<tables, announced, unannounced, fresh>> PROVE IngestionTypeOK'
  BY <1>1, <1>6 DEF IngestionTypeOK, tables
<1> QED
  BY <1>3, <1>4, <1>5, <1>6
  DEF IngestionStep, ListExcursions, ListReadings, DeleteExcursions, ReplaceExcursions

-----------------------------------------------------------------------------
(* Announcements *)

\* What the owner knows, or will, stays so.
LEMMA HandledStays ==
    ASSUME IngestionTypeOK, IngestionLink, NEW s \in Slots, IngestionStep(s), NEW e, Handled(e)
    PROVE  Handled(e)'
<1> DEFINE told(t) == ingestion[t].at = "notify" /\ e \in ingestion[t].news
<1>1. announced \subseteq announced' /\ unannounced \subseteq unannounced'
  BY DEF IngestionStep, ListExcursions, CreateReadings, ListReadings, DeleteExcursions,
         ReplaceExcursions, CommitExcursions, AnnounceExcursions, BreakIngestion
<1>2. CASE e \in announced \cup unannounced
  BY <1>1, <1>2 DEF Handled
<1>3. ASSUME NEW t \in Slots, told(t), ~(e \in announced' \cup unannounced') PROVE told(t)'
  <2>1. ingestion \in [Slots -> Work]
    BY DEF IngestionTypeOK
  <2>2. CASE t = s
    BY <2>1, <2>2, <1>3
    DEF IngestionLink, IngestionStep, ListExcursions, CreateReadings, ListReadings, DeleteExcursions,
        ReplaceExcursions, CommitExcursions, AnnounceExcursions, BreakIngestion, Begin
  <2>3. CASE t # s
    <3>1. CASE CreateReadings(s)
      BY <2>1, <2>3, <3>1, <1>3 DEF CreateReadings, Work
    <3>2. CASE ~CreateReadings(s)
      BY <2>1, <2>3, <3>2, <1>3
      DEF IngestionStep, ListExcursions, ListReadings, DeleteExcursions,
          ReplaceExcursions, CommitExcursions, AnnounceExcursions, BreakIngestion
    <3> QED
      BY <3>1, <3>2
  <2> QED
    BY <2>2, <2>3
<1> QED
  BY <1>2, <1>3 DEF Handled

\* A step of s leaves the work of the others, but for being alone.
LEMMA OthersKeepWork ==
    ASSUME IngestionTypeOK, NEW s \in Slots, IngestionStep(s), NEW t \in Slots, t # s
    PROVE  /\ ingestion'[t].at = ingestion[t].at
           /\ ingestion'[t].previous = ingestion[t].previous
           /\ ingestion'[t].found = ingestion[t].found
           /\ ingestion'[t].news = ingestion[t].news
           /\ ingestion'[t].doomed = ingestion[t].doomed
           /\ ingestion'[t].alone => ingestion[t].alone
           /\ ~CreateReadings(s) => ingestion'[t] = ingestion[t]
<1>1. ingestion \in [Slots -> Work]
  BY DEF IngestionTypeOK
<1>2. CASE CreateReadings(s)
  BY <1>1, <1>2 DEF CreateReadings, Work
<1>3. CASE ~CreateReadings(s)
  BY <1>1, <1>3
  DEF IngestionStep, ListExcursions, ListReadings, DeleteExcursions, ReplaceExcursions,
      CommitExcursions, AnnounceExcursions, BreakIngestion
<1> QED
  BY <1>2, <1>3

(* What each step of s leaves in its own record. *)

LEMMA AfterListExcursions ==
    ASSUME IngestionTypeOK, NEW s \in Slots, NEW batch \in Batches, ListExcursions(s, batch)
    PROVE  /\ ingestion'[s].at = "insert"
           /\ ingestion'[s].previous = Whats(excursions)
BY DEF ListExcursions, NoWork, IngestionTypeOK

LEMMA AfterCreateReadings ==
    ASSUME IngestionTypeOK, NEW s \in Slots, CreateReadings(s)
    PROVE  /\ ingestion'[s].at = "read"
           /\ ingestion'[s].previous = ingestion[s].previous
           /\ ingestion'[s].alone => \A u \in Slots : ~Open(u)
<1>1. ingestion \in [Slots -> Work]
  BY DEF IngestionTypeOK
<1>2. ingestion'[s] = [ingestion[s] EXCEPT !.at = "read", !.alone = \A u \in Slots : ~Open(u)]
  BY <1>1 DEF CreateReadings
<1> QED
  BY <1>1, <1>2 DEF Work

LEMMA AfterListReadings ==
    ASSUME IngestionTypeOK, NEW s \in Slots, ListReadings(s)
    PROVE  /\ ingestion'[s].at = "delete"
           /\ ingestion'[s].previous = ingestion[s].previous
           /\ ingestion'[s].found = Detected(readings)
           /\ ingestion'[s].alone = ingestion[s].alone
<1>1. ingestion \in [Slots -> Work]
  BY DEF IngestionTypeOK
<1>2. ingestion'[s] = [ingestion[s] EXCEPT !.at = "delete", !.found = Detected(readings)]
  BY <1>1 DEF ListReadings
<1> QED
  BY <1>1, <1>2 DEF Work

LEMMA AfterDeleteExcursions ==
    ASSUME IngestionTypeOK, NEW s \in Slots, DeleteExcursions(s)
    PROVE  /\ ingestion'[s].at = "replace"
           /\ ingestion'[s].previous = ingestion[s].previous
           /\ ingestion'[s].found = ingestion[s].found
           /\ ingestion'[s].doomed = excursions
           /\ ingestion'[s].alone = ingestion[s].alone
<1>1. ingestion \in [Slots -> Work]
  BY DEF IngestionTypeOK
<1>2. ingestion'[s] = [ingestion[s] EXCEPT !.at = "replace", !.doomed = excursions]
  BY <1>1 DEF DeleteExcursions
<1> QED
  BY <1>1, <1>2 DEF Work

LEMMA AfterReplaceExcursions ==
    ASSUME IngestionTypeOK, NEW s \in Slots, ReplaceExcursions(s)
    PROVE  /\ ingestion'[s].at = "commit"
           /\ ingestion'[s].previous = ingestion[s].previous
           /\ ingestion'[s].found = ingestion[s].found
           /\ ingestion'[s].alone = ingestion[s].alone
           /\ ingestion'[s].doomed = ingestion[s].doomed \cap excursions
           /\ ingestion[s].found \subseteq ingestion'[s].news \cup ingestion[s].previous
<1> DEFINE w == ingestion[s]
           stored == w.found \cup Whats(excursions \ w.doomed)
<1>1. ingestion \in [Slots -> Work]
  BY DEF IngestionTypeOK
<1>2. ingestion'[s] = [w EXCEPT !.at = "commit", !.doomed = @ \cap excursions,
                                !.news = News(stored, w.previous)]
  BY <1>1 DEF ReplaceExcursions
<1>3. w.found \subseteq News(stored, w.previous) \cup w.previous
  BY DEF News
<1> HIDE DEF stored
<1> QED
  BY <1>1, <1>2, <1>3 DEF Work

LEMMA AfterCommitExcursions ==
    ASSUME IngestionTypeOK, NEW s \in Slots, CommitExcursions(s)
    PROVE  /\ ingestion'[s].at \in {"none", "notify"}
           /\ ingestion'[s].previous = {}
           /\ ingestion'[s].news = ingestion[s].news
           /\ ingestion[s].news # {} => ingestion'[s].at = "notify"
BY DEF CommitExcursions, NoWork, IngestionTypeOK

LEMMA AfterTheEnd ==
    ASSUME IngestionTypeOK, NEW s \in Slots, AnnounceExcursions(s) \/ BreakIngestion(s)
    PROVE  ingestion'[s].at = "none" /\ ingestion'[s].previous = {}
BY DEF AnnounceExcursions, BreakIngestion, NoWork, IngestionTypeOK

LEMMA ListsStayHandled ==
    ASSUME IngestionTypeOK, IngestionLink, ListsHandled, NEW s \in Slots, IngestionStep(s)
    PROVE  ListsHandled'
<1> DEFINE w == ingestion[s]
<1>1. w \in Work
  BY DEF IngestionTypeOK
<1>2. \A e : Handled(e) => Handled(e)'
  BY HandledStays
<1>3. \A row \in excursions' : Handled(row.what)'
  <2>1. CASE CommitExcursions(s)
    <3>1. ASSUME NEW e \in w.found PROVE Handled(e)'
      <4>1. CASE e \in w.previous
        BY <1>2, <4>1 DEF ListsHandled
      <4>2. CASE e \notin w.previous
        <5>1. e \in w.news
          BY <2>1, <3>1, <4>2 DEF CommitExcursions, ListsHandled
        <5>2. ingestion'[s].at = "notify" /\ e \in ingestion'[s].news
          BY <5>1, <2>1, AfterCommitExcursions
        <5> QED
          BY <5>2 DEF Handled
      <4> QED
        BY <4>1, <4>2
    <3>2. ASSUME NEW row \in excursions' PROVE row \in excursions \/ row.what \in w.found
      BY <3>2, <2>1 DEF CommitExcursions
    <3> QED
      BY <3>1, <3>2, <1>2 DEF ListsHandled
  <2>2. CASE ~CommitExcursions(s)
    <3>1. excursions' = excursions
      BY <2>2 DEF IngestionStep, ListExcursions, CreateReadings, ListReadings, DeleteExcursions,
                  ReplaceExcursions, AnnounceExcursions, BreakIngestion, tables
    <3> QED
      BY <3>1, <1>2 DEF ListsHandled
  <2> QED
    BY <2>1, <2>2
<1>4. ASSUME NEW t \in Slots, NEW e \in ingestion'[t].previous PROVE Handled(e)'
  <2>1. CASE t # s
    BY <2>1, <1>2, <1>4, OthersKeepWork DEF ListsHandled
  <2>2. CASE t = s
    <3>1. e \in w.previous \/ e \in Whats(excursions)
      BY <2>2, <1>4, AfterListExcursions, AfterCreateReadings, AfterListReadings,
         AfterDeleteExcursions, AfterReplaceExcursions, AfterCommitExcursions, AfterTheEnd
      DEF IngestionStep
    <3> QED
      BY <3>1, <1>2 DEF ListsHandled, Whats
  <2> QED
    BY <2>1, <2>2
<1>5. ASSUME NEW t \in Slots, ingestion'[t].at = "commit"
      PROVE  ingestion'[t].found \subseteq ingestion'[t].news \cup ingestion'[t].previous
  <2>1. CASE t # s
    BY <2>1, <1>5, OthersKeepWork DEF ListsHandled
  <2>2. CASE t = s
    BY <2>2, <1>5, AfterListExcursions, AfterCreateReadings, AfterListReadings,
       AfterDeleteExcursions, AfterReplaceExcursions, AfterCommitExcursions, AfterTheEnd
    DEF IngestionStep
  <2> QED
    BY <2>1, <2>2
<1> QED
  BY <1>3, <1>4, <1>5 DEF ListsHandled

-----------------------------------------------------------------------------
(* What was found, the breach and the fresh table *)

LEMMA ReadingsGrow ==
    ASSUME NEW s \in Slots, IngestionStep(s)
    PROVE  readings \subseteq readings' /\ (~CreateReadings(s) => readings' = readings)
BY DEF IngestionStep, ListExcursions, CreateReadings, ListReadings, DeleteExcursions,
       ReplaceExcursions, CommitExcursions, AnnounceExcursions, BreakIngestion, tables

LEMMA FoundStaysInReadings ==
    ASSUME IngestionTypeOK, FoundInReadings, NEW s \in Slots, IngestionStep(s)
    PROVE  FoundInReadings'
<1>1. ingestion[s] \in Work
  BY DEF IngestionTypeOK
<1>2. SUBSET readings \subseteq SUBSET readings'
  BY ReadingsGrow
<1>3. ASSUME NEW t \in Slots, ingestion'[t].at \in {"delete", "replace", "commit"}
      PROVE  \E R \in SUBSET readings' : ingestion'[t].found = Detected(R)
  <2>1. CASE t # s
    BY <2>1, <1>2, <1>3, OthersKeepWork DEF FoundInReadings
  <2>2. CASE t = s
    <3>1. CASE ListReadings(s)
      BY <3>1, <2>2, <1>2, AfterListReadings
    <3>2. CASE DeleteExcursions(s) \/ ReplaceExcursions(s)
      <4>1. ingestion[s].at \in {"delete", "replace", "commit"}
        BY <3>2 DEF DeleteExcursions, ReplaceExcursions
      <4>2. PICK R \in SUBSET readings : ingestion[s].found = Detected(R)
        BY <4>1 DEF FoundInReadings
      <4>3. ingestion'[s].found = ingestion[s].found
        BY <3>2, AfterDeleteExcursions, AfterReplaceExcursions
      <4> QED
        BY <2>2, <1>2, <4>2, <4>3
    <3> QED
      BY <3>1, <3>2, <2>2, <1>3, AfterListExcursions, AfterCreateReadings,
         AfterCommitExcursions, AfterTheEnd
      DEF IngestionStep
  <2> QED
    BY <2>1, <2>2
<1> QED
  BY <1>3 DEF FoundInReadings

\* An ingestion that overlaps none stays the only open one, and what it has read and
\* doomed is what the tables hold.
LEMMA AloneStays ==
    ASSUME IngestionTypeOK, AloneMeans, NEW s \in Slots, IngestionStep(s)
    PROVE  AloneMeans'
<1> SUFFICES ASSUME NEW t \in Slots, Open(t)', ingestion'[t].alone
             PROVE  /\ \A u \in Slots : Open(u)' => u = t
                    /\ ingestion'[t].at \in {"delete", "replace", "commit"} =>
                          ingestion'[t].found = Detected(readings')
                    /\ ingestion'[t].at \in {"replace", "commit"} =>
                          ingestion'[t].doomed = excursions'
  BY DEF AloneMeans
<1>1. CASE CreateReadings(s)
  <2>1. ingestion'[s].at = "read" /\ Open(s)'
    BY <1>1, AfterCreateReadings DEF Open
  <2>2. CASE t = s
    <3>1. \A u \in Slots : ~Open(u)
      BY <1>1, <2>2, AfterCreateReadings
    <3>2. \A u \in Slots : u # s => ~Open(u)'
      BY <3>1, OthersKeepWork DEF Open
    <3> QED
      BY <2>1, <2>2, <3>2
  <2>3. CASE t # s
    <3>1. ingestion'[t] = [ingestion[t] EXCEPT !.alone = @ /\ ~Open(t)]
      BY <1>1, <2>3 DEF CreateReadings, IngestionTypeOK
    <3>2. ingestion'[t].alone => ~Open(t)
      BY <3>1 DEF IngestionTypeOK, Work
    <3>3. Open(t)
      BY <2>3, OthersKeepWork DEF Open
    <3> QED
      BY <3>2, <3>3
  <2> QED
    BY <2>2, <2>3
<1>2. CASE ~CreateReadings(s)
  <2>1. readings' = readings
    BY <1>2, ReadingsGrow
  <2>2. Open(t) /\ ingestion[t].alone
    <3>1. CASE t # s
      BY <3>1, OthersKeepWork DEF Open
    <3>2. CASE t = s
      BY <3>2, <1>2, AfterListExcursions, AfterListReadings, AfterDeleteExcursions,
         AfterReplaceExcursions, AfterCommitExcursions, AfterTheEnd
      DEF IngestionStep, Open, ListReadings, DeleteExcursions, ReplaceExcursions
    <3> QED
      BY <3>1, <3>2
  <2>3. \A u \in Slots : Open(u) => u = t
    BY <2>2 DEF AloneMeans
  <2>4. Open(s)' => Open(s)
    BY <1>2, AfterListExcursions, AfterListReadings, AfterDeleteExcursions,
       AfterReplaceExcursions, AfterCommitExcursions, AfterTheEnd
    DEF IngestionStep, Open, ListReadings, DeleteExcursions, ReplaceExcursions
  <2>5. \A u \in Slots : Open(u)' => u = t
    BY <2>3, <2>4, OthersKeepWork DEF Open
  <2>6. excursions' = excursions
    <3>1. CASE CommitExcursions(s)
      <4>1. Open(s)
        BY <3>1 DEF CommitExcursions, Open
      <4>2. t = s
        BY <4>1, <2>3
      <4> QED
        BY <4>2, <3>1, AfterCommitExcursions DEF Open
    <3>2. CASE ~CommitExcursions(s)
      BY <3>2, <1>2
      DEF IngestionStep, ListExcursions, ListReadings, DeleteExcursions, ReplaceExcursions,
          AnnounceExcursions, BreakIngestion, tables
    <3> QED
      BY <3>1, <3>2
  <2>7. CASE t # s
    BY <2>1, <2>2, <2>5, <2>6, <2>7, OthersKeepWork DEF AloneMeans
  <2>8. CASE t = s
    <3>1. CASE ListReadings(s)
      BY <2>1, <2>5, <2>8, <3>1, AfterListReadings
    <3>2. CASE DeleteExcursions(s)
      BY <2>1, <2>2, <2>5, <2>6, <2>8, <3>2, AfterDeleteExcursions
      DEF AloneMeans, DeleteExcursions
    <3>3. CASE ReplaceExcursions(s)
      <4>1. ingestion[s].found = Detected(readings) /\ ingestion[s].doomed = excursions
        BY <2>2, <2>8, <3>3 DEF AloneMeans, ReplaceExcursions
      <4>2. ingestion'[s].found = Detected(readings) /\ ingestion'[s].doomed = excursions
        BY <4>1, <3>3, AfterReplaceExcursions
      <4> QED
        BY <4>2, <2>1, <2>5, <2>6, <2>8
    <3> QED
      BY <1>2, <2>8, <3>1, <3>2, <3>3, AfterListExcursions, AfterCommitExcursions, AfterTheEnd
      DEF IngestionStep, Open
  <2> QED
    BY <2>7, <2>8
<1> QED
  BY <1>1, <1>2

\* Both halves of a commit: rows replaced, breach moved to the earliest start.
LEMMA BreachStaysEarliest ==
    ASSUME IngestionTypeOK, FoundInReadings, BreachIsEarliest, NEW s \in Slots, IngestionStep(s)
    PROVE  BreachIsEarliest'
<1>1. CASE CommitExcursions(s)
  <2> DEFINE w == ingestion[s]
  <2>1. PICK R \in SUBSET readings : w.found = Detected(R)
    BY <1>1 DEF CommitExcursions, FoundInReadings
  <2>2. R \in SUBSET Readings /\ readings' = readings
    BY <1>1 DEF CommitExcursions, IngestionTypeOK
  <2>3. breachedAt' = Breach(Detected(R))
    BY <1>1, <2>1 DEF CommitExcursions
  <2>4. ASSUME NEW row \in excursions', row.what.severity = "CRITICAL"
        PROVE  breachedAt' # NotBreached /\ breachedAt' <= row.what.start
    <3>1. CASE row \in excursions
      <4>1. breachedAt # NotBreached /\ breachedAt <= row.what.start
        BY <2>4, <3>1 DEF BreachIsEarliest
      <4>2. breachedAt' # NotBreached /\ breachedAt' <= breachedAt
        BY <4>1, <2>2, <2>3, BreachIsTyped
      <4>3. row.what.start \in Nat /\ breachedAt \in Nat /\ breachedAt' \in Nat
        <5>1. row \in Row
          BY <3>1 DEF IngestionTypeOK
        <5>2. row.what.start \in Nat
          BY <5>1 DEF Row, Excursion
        <5>3. breachedAt' \in Nat \cup {NotBreached}
          BY <2>2, <2>3, BreachIsTyped
        <5> QED
          BY <5>2, <5>3, <4>1, <4>2 DEF IngestionTypeOK
      <4> QED
        BY <4>1, <4>2, <4>3
    <3>2. CASE row \notin excursions
      <4>1. row.what \in Detected(R)
        BY <3>2, <2>1, <1>1 DEF CommitExcursions
      <4>2. row.what.start \in CriticalStarts(Detected(R))
        BY <4>1, <2>4 DEF CriticalStarts
      <4> QED
        BY <4>2, <2>2, <2>3, BreachIsTyped
    <3> QED
      BY <3>1, <3>2
  <2>5. ASSUME breachedAt' # NotBreached
        PROVE  \E Q \in SUBSET readings' : breachedAt' \in CriticalStarts(Detected(Q))
    <3>1. breachedAt' \in CriticalStarts(Detected(R)) \cup {breachedAt}
      BY <2>2, <2>3, <2>5, BreachIsTyped
    <3>2. CASE breachedAt' \in CriticalStarts(Detected(R))
      BY <3>2, <2>2
    <3>3. CASE breachedAt' = breachedAt
      BY <3>3, <2>2, <2>5 DEF BreachIsEarliest
    <3> QED
      BY <3>1, <3>2, <3>3
  <2> QED
    BY <2>4, <2>5 DEF BreachIsEarliest
<1>2. CASE ~CommitExcursions(s)
  <2>1. UNCHANGED <<excursions, breachedAt>>
    BY <1>2
    DEF IngestionStep, ListExcursions, CreateReadings, ListReadings, DeleteExcursions,
        ReplaceExcursions, AnnounceExcursions, BreakIngestion, tables
  <2>2. SUBSET readings \subseteq SUBSET readings'
    BY ReadingsGrow
  <2> QED
    BY <2>1, <2>2 DEF BreachIsEarliest
<1> QED
  BY <1>1, <1>2

LEMMA FreshStaysDetected ==
    ASSUME IngestionTypeOK, AloneMeans, FreshIsDetected, NEW s \in Slots, IngestionStep(s)
    PROVE  FreshIsDetected'
<1>1. CASE CommitExcursions(s)
  <2> DEFINE w == ingestion[s]
  <2>1. CASE ~w.alone
    BY <1>1, <2>1 DEF CommitExcursions, FreshIsDetected
  <2>2. CASE w.alone
    <3>1. w.found = Detected(readings) /\ w.doomed = excursions
      BY <1>1, <2>2 DEF CommitExcursions, AloneMeans, Open
    <3>2. excursions' = {[by |-> w.by, what |-> e] : e \in Detected(readings)}
      BY <1>1, <3>1 DEF CommitExcursions
    <3>3. Whats(excursions)' = Detected(readings)'
      <4>1. \A e : e \in Detected(readings) => [by |-> w.by, what |-> e] \in excursions'
        BY <3>2
      <4>2. \A row \in excursions' : row.what \in Detected(readings)
        BY <3>2
      <4>3. \A e : e \in Whats(excursions)' <=> \E row \in excursions' : row.what = e
        BY DEF Whats
      <4>4. \A e : [by |-> w.by, what |-> e].what = e
        OBVIOUS
      <4>5. \A e : e \in Whats(excursions)' <=> e \in Detected(readings)
        BY <4>1, <4>2, <4>3, <4>4
      <4>6. readings' = readings
        BY <1>1 DEF CommitExcursions
      <4> QED
        BY <4>5, <4>6
    <3>4. \A x, y \in excursions' : x.what = y.what => x = y
      BY <3>2
    <3> QED
      BY <3>3, <3>4 DEF FreshIsDetected, Whats
  <2> QED
    BY <2>1, <2>2
<1>2. CASE CreateReadings(s)
  BY <1>2 DEF CreateReadings, FreshIsDetected
<1>3. CASE ~CommitExcursions(s) /\ ~CreateReadings(s)
  <2>1. UNCHANGED <<excursions, readings, fresh>>
    BY <1>3
    DEF IngestionStep, ListExcursions, ListReadings, DeleteExcursions, ReplaceExcursions,
        AnnounceExcursions, BreakIngestion, tables
  <2> QED
    BY <2>1 DEF FreshIsDetected, Whats
<1> QED
  BY <1>1, <1>2, <1>3

-----------------------------------------------------------------------------
LEMMA IngestionInvStep ==
    ASSUME IngestionInv, IngestionLink, started \in Nat, NEW s \in Slots, IngestionStep(s)
    PROVE  IngestionInv'
<1>1. IngestionTypeOK'
  BY IngestionTyped DEF IngestionInv
<1>2. ListsHandled'
  BY ListsStayHandled DEF IngestionInv
<1>3. FoundInReadings' /\ AloneMeans'
  BY FoundStaysInReadings, AloneStays DEF IngestionInv
<1>4. BreachIsEarliest' /\ FreshIsDetected'
  BY BreachStaysEarliest, FreshStaysDetected DEF IngestionInv
<1> QED
  BY <1>1, <1>2, <1>3, <1>4 DEF IngestionInv

LEMMA ListsHandledAnnounced ==
    ASSUME IngestionInv PROVE ExcursionsAnnounced
BY DEF IngestionInv, ListsHandled, Handled, ExcursionsAnnounced

-----------------------------------------------------------------------------
(* Expiry alerts *)

RoundShape ==
    \A s \in Slots :
        /\ alerting[s].at \in {"none", "claim"} => alerting[s].held = {} /\ ~alerting[s].told
        /\ alerting[s].at \notin {"none", "claim"} => \E a \in Alerts : alerting[s].held = {a}
        /\ alerting[s].at = "notify" => ~alerting[s].told

HeldOnce ==
    /\ \A s \in Slots : \A a \in Alerts : Holds(s, a) =>
          /\ delivery[a] = "CLAIMED" /\ a \notin orphaned
          /\ notices[a] = released[a] + (IF alerting[s].told THEN 1 ELSE 0)
    /\ \A s, t \in Slots : \A a \in Alerts : Holds(s, a) /\ Holds(t, a) => s = t

Counted ==
    \A a \in Alerts :
        /\ delivery[a] \in {"none", "SKIPPED"} => notices[a] = released[a] /\ a \notin orphaned
        /\ delivery[a] = "DELIVERED" => notices[a] = released[a] + 1 /\ a \notin orphaned
        /\ delivery[a] = "CLAIMED" => a \in orphaned \/ \E s \in Slots : Holds(s, a)
        /\ a \in orphaned => notices[a] <= released[a] + 1

AlertingInv == AlertingTypeOK /\ RoundShape /\ HeldOnce /\ Counted

\* A slot with work of this component is not free.
AlertingLink == \A s \in Slots : alerting[s].at # "none" => handling[s] = "alert"

LEMMA AlertingInvInit ==
    ASSUME AlertingInit PROVE AlertingInv
<1> USE DEF AlertingInit, NoRound
<1>1. AlertingTypeOK
  BY DEF AlertingTypeOK, Round
<1>2. RoundShape /\ HeldOnce /\ Counted
  BY DEF RoundShape, HeldOnce, Counted, Holds
<1> QED
  BY <1>1, <1>2 DEF AlertingInv

\* The other components leave these variables alone.
LEMMA AlertingInvStutter ==
    ASSUME AlertingInv, UNCHANGED alertingVars PROVE AlertingInv'
<1> USE DEF alertingVars
<1>1. AlertingTypeOK' /\ RoundShape'
  BY DEF AlertingInv, AlertingTypeOK, RoundShape
<1>2. HeldOnce' /\ Counted'
  BY DEF AlertingInv, HeldOnce, Counted, Holds
<1> QED
  BY <1>1, <1>2 DEF AlertingInv

LEMMA AlertsCounted ==
    ASSUME AlertingInv PROVE AlertsOnce
<1> SUFFICES ASSUME NEW a \in Alerts
             PROVE  /\ notices[a] <= released[a] + 1
                    /\ delivery[a] = "CLAIMED" => a \in orphaned \/ \E s \in Slots : Holds(s, a)
                    /\ delivery[a] = "DELIVERED" => notices[a] = released[a] + 1
                    /\ \A s, t \in Slots : Holds(s, a) /\ Holds(t, a) => s = t
  BY DEF AlertsOnce
<1>1. notices[a] \in Nat /\ released[a] \in Nat
      /\ delivery[a] \in {"none", "CLAIMED", "DELIVERED", "SKIPPED"}
  BY DEF AlertingInv, AlertingTypeOK
<1>2. CASE a \in orphaned
  BY <1>2 DEF AlertingInv, Counted, HeldOnce
<1>3. CASE delivery[a] # "CLAIMED"
  BY <1>1, <1>3 DEF AlertingInv, Counted, HeldOnce
<1>4. CASE a \notin orphaned /\ delivery[a] = "CLAIMED"
  <2>1. PICK s \in Slots : Holds(s, a)
    BY <1>4 DEF AlertingInv, Counted
  <2>2. notices[a] <= released[a] + 1
    BY <1>1, <2>1 DEF AlertingInv, HeldOnce
  <2> QED
    BY <1>4, <2>1, <2>2 DEF AlertingInv, HeldOnce
<1> QED
  BY <1>2, <1>3, <1>4

-----------------------------------------------------------------------------
LEMMA CandidatesAreAlerts ==
    ASSUME NEW c \in Certs, NEW r
    PROVE  \A a \in Candidates(c, r) : a \in Alerts /\ a[1] = c
<1>1. \A left : Warning(left) \subseteq Codes
  BY DEF Warning, Codes
<1>2. \A code \in Codes : <<c, code>> \in Alerts /\ <<c, code>>[1] = c
  BY DEF Alerts
<1>3. "EXPIRED" \in Codes
  BY DEF Codes
<1>4. \A a \in {c} \X Warning(Expiry[c] - r.now) : \E code \in Codes : a = <<c, code>>
  BY <1>1
<1> QED
  BY <1>2, <1>3, <1>4 DEF Candidates

\* A round that goes on to the next artifact, or ends, holds nothing.
LEMMA AfterOnward ==
    ASSUME AlertingTypeOK, NEW s \in Slots, NEW c, Onward(s, c)
    PROVE  /\ alerting' \in [Slots -> Round]
           /\ alerting'[s].at \in {"none", "claim"}
           /\ alerting'[s].held = {} /\ ~alerting'[s].told
           /\ \A t \in Slots : t # s => alerting'[t] = alerting[t]
<1> DEFINE todo == alerting[s].todo \ {c}
           next == [alerting[s] EXCEPT !.at = "claim", !.todo = todo, !.held = {}, !.told = FALSE]
<1>1. alerting \in [Slots -> Round]
  BY DEF AlertingTypeOK
<1>2. todo \in SUBSET Certs
  BY <1>1 DEF Round
<1>3. alerting' = [alerting EXCEPT ![s] = IF todo = {} THEN NoRound ELSE next]
  BY DEF Onward
<1>4. next \in Round /\ next.at = "claim" /\ next.held = {} /\ ~next.told
  BY <1>1, <1>2 DEF Round
<1>5. NoRound \in Round /\ NoRound.at = "none" /\ NoRound.held = {} /\ ~NoRound.told
  BY DEF NoRound, Round
<1> HIDE DEF next, todo
<1> QED
  BY <1>1, <1>3, <1>4, <1>5

LEMMA RoundsTyped ==
    ASSUME AlertingTypeOK, RoundShape, NEW s \in Slots, AlertingStep(s)
    PROVE  /\ AlertingTypeOK' /\ RoundShape'
           /\ \A t \in Slots : t # s => alerting'[t] = alerting[t]
<1> DEFINE w == alerting[s]
           Fine == /\ alerting' \in [Slots -> Round]
                   /\ alerting'[s].at \in {"none", "claim"} =>
                        alerting'[s].held = {} /\ ~alerting'[s].told
                   /\ alerting'[s].at \notin {"none", "claim"} =>
                        \E a \in Alerts : alerting'[s].held = {a}
                   /\ alerting'[s].at = "notify" => ~alerting'[s].told
                   /\ \A t \in Slots : t # s => alerting'[t] = alerting[t]
<1>1. alerting \in [Slots -> Round] /\ w \in Round
  BY DEF AlertingTypeOK
<1>2. /\ day \in Nat /\ certs \in SUBSET Certs
      /\ delivery \in [Alerts -> {"none", "CLAIMED", "DELIVERED", "SKIPPED"}]
      /\ notices \in [Alerts -> Nat] /\ released \in [Alerts -> Nat] /\ orphaned \in SUBSET Alerts
  BY DEF AlertingTypeOK
<1>3. muted \in BOOLEAN => (~muted) \in BOOLEAN
  OBVIOUS
<1>4. CASE StartScan(s)
  <2>1. [NoRound EXCEPT !.at = "claim", !.now = day, !.todo = certs] \in Round
    BY <1>2 DEF NoRound, Round
  <2>2. Fine
    BY <2>1, <1>1, <1>4 DEF StartScan, NoRound
  <2> QED
    BY <2>2, <1>2, <1>4 DEF StartScan, AlertingTypeOK, RoundShape
<1>5. ASSUME NEW c \in Certs, Upload(s, c) PROVE Fine /\ AlertingTypeOK' /\ RoundShape'
  <2>1. [NoRound EXCEPT !.at = "claim", !.upload = TRUE, !.now = day, !.todo = {c}] \in Round
    BY <1>2 DEF NoRound, Round
  <2>2. Fine
    BY <2>1, <1>1, <1>5 DEF Upload, NoRound
  <2> QED
    BY <2>2, <1>2, <1>5 DEF Upload, AlertingTypeOK, RoundShape
<1>6. CASE Skip(s)
  <2>1. Fine
    BY <1>6, AfterOnward DEF Skip, Proceed
  <2> QED
    BY <2>1, <1>2, <1>6 DEF Skip, AlertingTypeOK, RoundShape
<1>7. CASE Claim(s)
  <2>1. PICK c \in w.todo : \E a \in Candidates(c, w) :
           delivery' = [delivery EXCEPT ![a] = "CLAIMED"]
           /\ alerting' = [alerting EXCEPT ![s].at = "notify", ![s].held = {a}]
    BY <1>7 DEF Claim
  <2>2. PICK a \in Candidates(c, w) :
           delivery' = [delivery EXCEPT ![a] = "CLAIMED"]
           /\ alerting' = [alerting EXCEPT ![s].at = "notify", ![s].held = {a}]
    BY <2>1
  <2>3. a \in Alerts
    BY <1>1, CandidatesAreAlerts DEF Round
  <2>4. [w EXCEPT !.at = "notify", !.held = {a}] \in Round
    BY <1>1, <2>3 DEF Round
  <2>5. ~w.told
    BY <1>7 DEF Claim, RoundShape
  <2>6. alerting'[s] = [w EXCEPT !.at = "notify", !.held = {a}]
    BY <2>2, <1>1
  <2>7. Fine
    BY <2>2, <2>3, <2>4, <2>5, <2>6, <1>1 DEF Round
  <2>8. delivery' \in [Alerts -> {"none", "CLAIMED", "DELIVERED", "SKIPPED"}]
    BY <2>2, <2>3, <1>2
  <2> QED
    BY <2>7, <2>8, <1>2, <1>7 DEF Claim, AlertingTypeOK, RoundShape
<1>8. CASE NotifyLaneOwner(s)
  <2>1. [w EXCEPT !.at = "complete", !.told = ~muted] \in Round
    BY <1>1 DEF Round
  <2>2. alerting'[s] = [w EXCEPT !.at = "complete", !.told = ~muted]
    BY <1>1, <1>8 DEF NotifyLaneOwner
  <2>3. Fine
    BY <2>1, <2>2, <1>1, <1>8 DEF NotifyLaneOwner, RoundShape, Round
  <2>4. notices' \in [Alerts -> Nat]
    BY <1>2, <1>8 DEF NotifyLaneOwner
  <2> QED
    BY <2>3, <2>4, <1>2, <1>8 DEF NotifyLaneOwner, AlertingTypeOK, RoundShape
<1>9. CASE Complete(s)
  <2>1. Fine
    BY <1>9, AfterOnward DEF Complete, Proceed
  <2>2. delivery' \in [Alerts -> {"none", "CLAIMED", "DELIVERED", "SKIPPED"}]
    BY <1>2, <1>9 DEF Complete
  <2> QED
    BY <2>1, <2>2, <1>2, <1>9 DEF Complete, AlertingTypeOK, RoundShape
<1>10. CASE FailToNotify(s)
  <2>1. alerting'[s] = [w EXCEPT !.at = "release"]
    BY <1>1, <1>10 DEF FailToNotify
  <2>2. Fine
    BY <2>1, <1>1, <1>10 DEF FailToNotify, RoundShape, Round
  <2> QED
    BY <2>2, <1>2, <1>10 DEF FailToNotify, AlertingTypeOK, RoundShape
<1>11. CASE Release(s)
  <2>1. Fine
    BY <1>11, AfterOnward DEF Release, Proceed
  <2>2. delivery' \in [Alerts -> {"none", "CLAIMED", "DELIVERED", "SKIPPED"}]
        /\ released' \in [Alerts -> Nat]
    BY <1>2, <1>11 DEF Release
  <2> QED
    BY <2>1, <2>2, <1>2, <1>11 DEF Release, AlertingTypeOK, RoundShape
<1>12. CASE FailToClaim(s)
  <2>1. Fine
    BY <1>12, AfterOnward DEF FailToClaim, GiveUp
  <2>2. \A c \in w.todo : \A a \in Candidates(c, w) : a \in Alerts
    BY <1>1, CandidatesAreAlerts DEF Round
  <2>3. delivery' \in [Alerts -> {"none", "CLAIMED", "DELIVERED", "SKIPPED"}]
        /\ orphaned' \in SUBSET Alerts
    BY <2>2, <1>2, <1>12 DEF FailToClaim
  <2> QED
    BY <2>1, <2>3, <1>2, <1>12 DEF FailToClaim, AlertingTypeOK, RoundShape
<1>13. CASE FailToRelease(s)
  <2>1. Fine
    BY <1>13, AfterOnward DEF FailToRelease, GiveUp
  <2>2. orphaned' \in SUBSET Alerts
    BY <1>1, <1>2, <1>13 DEF FailToRelease, Round
  <2> QED
    BY <2>1, <2>2, <1>2, <1>13 DEF FailToRelease, AlertingTypeOK, RoundShape
<1>14. CASE BreakAlerting(s)
  <2>1. NoRound \in Round
    BY DEF NoRound, Round
  <2>2. Fine
    BY <2>1, <1>1, <1>14 DEF BreakAlerting, NoRound
  <2>3. orphaned' \in SUBSET Alerts
    BY <1>1, <1>2, <1>14 DEF BreakAlerting, Round
  <2> QED
    BY <2>2, <2>3, <1>2, <1>14 DEF BreakAlerting, AlertingTypeOK, RoundShape
<1> QED
  BY <1>4, <1>5, <1>6, <1>7, <1>8, <1>9, <1>10, <1>11, <1>12, <1>13, <1>14 DEF AlertingStep

-----------------------------------------------------------------------------
(* Who holds a claim, and how often an alert was told *)

\* A step that neither claims, tells, completes nor releases.
LEMMA SameHeldKeeps ==
    ASSUME HeldOnce, Counted, NEW s \in Slots,
           UNCHANGED <<delivery, notices, released, orphaned>>,
           alerting'[s].held = alerting[s].held,
           alerting[s].held # {} => alerting'[s].told = alerting[s].told,
           \A t \in Slots : t # s => alerting'[t] = alerting[t]
    PROVE  HeldOnce' /\ Counted'
<1>1. \A t \in Slots : \A a \in Alerts : Holds(t, a)' <=> Holds(t, a)
  BY DEF Holds
<1>2. \A t \in Slots : \A a \in Alerts : Holds(t, a) => alerting'[t].told = alerting[t].told
  BY DEF Holds
<1>3. HeldOnce'
  BY <1>1, <1>2 DEF HeldOnce
<1>4. Counted'
  BY <1>1 DEF Counted
<1> QED
  BY <1>3, <1>4

LEMMA ClaimKeeps ==
    ASSUME AlertingTypeOK, RoundShape, HeldOnce, Counted, NEW s \in Slots, Claim(s)
    PROVE  HeldOnce' /\ Counted'
<1> DEFINE w == alerting[s]
<1>1. alerting \in [Slots -> Round] /\ delivery \in [Alerts -> {"none", "CLAIMED", "DELIVERED", "SKIPPED"}]
      /\ notices \in [Alerts -> Nat] /\ released \in [Alerts -> Nat]
  BY DEF AlertingTypeOK
<1>2. PICK c \in w.todo : \E a \in Candidates(c, w) :
         /\ delivery[a] = "none"
         /\ delivery' = [delivery EXCEPT ![a] = "CLAIMED"]
         /\ alerting' = [alerting EXCEPT ![s].at = "notify", ![s].held = {a}]
  BY DEF Claim
<1>3. PICK b \in Candidates(c, w) :
         /\ delivery[b] = "none"
         /\ delivery' = [delivery EXCEPT ![b] = "CLAIMED"]
         /\ alerting' = [alerting EXCEPT ![s].at = "notify", ![s].held = {b}]
  BY <1>2
<1>4. b \in Alerts
  BY <1>1, CandidatesAreAlerts DEF Round
<1>5. alerting'[s] = [w EXCEPT !.at = "notify", !.held = {b}]
  BY <1>1, <1>3
<1>6. alerting'[s].held = {b} /\ ~alerting'[s].told /\ w.held = {}
  BY <1>1, <1>5 DEF Round, RoundShape, Claim
<1>7. \A t \in Slots : t # s => alerting'[t] = alerting[t]
  BY <1>1, <1>3
<1>8. UNCHANGED <<notices, released, orphaned>>
  BY DEF Claim
<1>9. \A a \in Alerts : a # b => delivery'[a] = delivery[a]
  BY <1>1, <1>3
<1>10. delivery'[b] = "CLAIMED"
  BY <1>1, <1>3, <1>4
<1>11. \A t \in Slots : ~Holds(t, b)
  BY <1>3, <1>4 DEF HeldOnce
<1>12. Holds(s, b)' /\ \A a \in Alerts : a # b => ~Holds(s, a)' /\ ~Holds(s, a)
  BY <1>6 DEF Holds
<1>13. \A t \in Slots : \A a \in Alerts : t # s => (Holds(t, a)' <=> Holds(t, a))
  BY <1>7 DEF Holds
<1>14. b \notin orphaned /\ notices[b] = released[b] /\ notices[b] \in Nat
  BY <1>1, <1>3, <1>4 DEF Counted
<1>15. \A t \in Slots : \A a \in Alerts : Holds(t, a)' =>
         /\ delivery'[a] = "CLAIMED" /\ a \notin orphaned'
         /\ notices'[a] = released'[a] + (IF alerting'[t].told THEN 1 ELSE 0)
  <2> SUFFICES ASSUME NEW t \in Slots, NEW a \in Alerts, Holds(t, a)'
               PROVE  /\ delivery'[a] = "CLAIMED" /\ a \notin orphaned'
                      /\ notices'[a] = released'[a] + (IF alerting'[t].told THEN 1 ELSE 0)
    OBVIOUS
  <2>1. CASE t = s
    BY <2>1, <1>6, <1>8, <1>10, <1>12, <1>14
  <2>2. CASE t # s
    BY <2>2, <1>7, <1>8, <1>9, <1>11, <1>13 DEF HeldOnce
  <2> QED
    BY <2>1, <2>2
<1>16. \A t, u \in Slots : \A a \in Alerts : Holds(t, a)' /\ Holds(u, a)' => t = u
  BY <1>11, <1>12, <1>13 DEF HeldOnce
<1>17. HeldOnce'
  BY <1>15, <1>16 DEF HeldOnce
<1>18. Counted'
  <2> SUFFICES ASSUME NEW a \in Alerts
               PROVE  /\ delivery'[a] \in {"none", "SKIPPED"} => notices'[a] = released'[a] /\ a \notin orphaned'
                      /\ delivery'[a] = "DELIVERED" => notices'[a] = released'[a] + 1 /\ a \notin orphaned'
                      /\ delivery'[a] = "CLAIMED" => a \in orphaned' \/ \E t \in Slots : Holds(t, a)'
                      /\ a \in orphaned' => notices'[a] <= released'[a] + 1
    BY DEF Counted
  <2>1. CASE a = b
    BY <2>1, <1>8, <1>10, <1>12, <1>14
  <2>2. CASE a # b
    BY <2>2, <1>8, <1>9, <1>12, <1>13 DEF Counted
  <2> QED
    BY <2>1, <2>2
<1> QED
  BY <1>17, <1>18

LEMMA NotifyKeeps ==
    ASSUME AlertingTypeOK, RoundShape, HeldOnce, Counted, NEW s \in Slots, NotifyLaneOwner(s)
    PROVE  HeldOnce' /\ Counted'
<1> DEFINE w == alerting[s]
<1>1. alerting \in [Slots -> Round] /\ notices \in [Alerts -> Nat] /\ released \in [Alerts -> Nat]
  BY DEF AlertingTypeOK
<1>2. alerting'[s] = [w EXCEPT !.at = "complete", !.told = ~muted]
  BY <1>1 DEF NotifyLaneOwner
<1>3. alerting'[s].held = w.held /\ alerting'[s].told = ~muted /\ ~w.told
  BY <1>1, <1>2 DEF Round, RoundShape, NotifyLaneOwner
<1>4. \A t \in Slots : t # s => alerting'[t] = alerting[t]
  BY <1>1 DEF NotifyLaneOwner
<1>5. UNCHANGED <<delivery, released, orphaned>>
  BY DEF NotifyLaneOwner
<1>6. \A t \in Slots : \A a \in Alerts : Holds(t, a)' <=> Holds(t, a)
  BY <1>3, <1>4 DEF Holds
<1>7. \A a \in Alerts : notices'[a] = IF Holds(s, a) /\ ~muted THEN notices[a] + 1 ELSE notices[a]
  BY DEF NotifyLaneOwner, Holds
<1>8. \A t \in Slots : \A a \in Alerts : Holds(t, a) =>
         notices'[a] = released'[a] + (IF alerting'[t].told THEN 1 ELSE 0)
  <2> SUFFICES ASSUME NEW t \in Slots, NEW a \in Alerts, Holds(t, a)
               PROVE  notices'[a] = released'[a] + (IF alerting'[t].told THEN 1 ELSE 0)
    OBVIOUS
  <2>1. notices[a] \in Nat /\ released[a] \in Nat
    BY <1>1
  <2>2. notices[a] = released[a] + (IF alerting[t].told THEN 1 ELSE 0)
    BY DEF HeldOnce
  <2>3. CASE t = s
    <3>1. CASE muted
      BY <3>1, <2>1, <2>2, <2>3, <1>3, <1>5, <1>7
    <3>2. CASE ~muted
      <4>1. notices[a] = released[a] /\ released'[a] = released[a]
        BY <2>1, <2>2, <2>3, <1>3, <1>5
      <4>2. notices'[a] = notices[a] + 1
        BY <3>2, <2>3, <1>7
      <4>3. alerting'[t].told
        BY <3>2, <2>3, <1>3
      <4> QED
        BY <4>1, <4>2, <4>3
    <3> QED
      BY <3>1, <3>2
  <2>4. CASE t # s
    <3>1. ~Holds(s, a)
      BY <2>4 DEF HeldOnce
    <3> QED
      BY <3>1, <2>2, <2>4, <1>4, <1>5, <1>7
  <2> QED
    BY <2>3, <2>4
<1>9. HeldOnce'
  BY <1>5, <1>6, <1>8 DEF HeldOnce
<1>10. \A a \in Alerts : delivery[a] # "CLAIMED" \/ a \in orphaned => notices'[a] = notices[a]
  BY <1>7 DEF HeldOnce
<1>11. Counted'
  BY <1>5, <1>6, <1>10 DEF Counted
<1> QED
  BY <1>9, <1>11

\* Nobody but s may hold b; s holds nothing any more and leaves the row of b in order; the
\* rows of the other alerts are not touched.
LEMMA RowLeftKeeps ==
    ASSUME AlertingTypeOK, HeldOnce, Counted, NEW s \in Slots, NEW b \in Alerts,
           alerting[s].held \subseteq {b}, alerting'[s].held = {},
           \A t \in Slots : Holds(t, b) => t = s,
           \A t \in Slots : t # s => alerting'[t] = alerting[t],
           notices' = notices,
           \A a \in Alerts : a # b =>
               /\ delivery'[a] = delivery[a] /\ released'[a] = released[a]
               /\ a \in orphaned' <=> a \in orphaned,
           \/ /\ delivery'[b] \in {"none", "SKIPPED"}
              /\ notices[b] = released'[b] /\ b \notin orphaned'
           \/ /\ delivery'[b] = "DELIVERED"
              /\ notices[b] = released'[b] + 1 /\ b \notin orphaned'
           \/ /\ delivery'[b] = "CLAIMED"
              /\ notices[b] <= released'[b] + 1 /\ b \in orphaned'
    PROVE  HeldOnce' /\ Counted'
<1>1. \A a \in Alerts : a # b => ~Holds(s, a)
  BY DEF Holds
<1>2. \A a \in Alerts : ~Holds(s, a)'
  BY DEF Holds
<1>3. \A t \in Slots : \A a \in Alerts : t # s => (Holds(t, a)' <=> Holds(t, a))
  BY DEF Holds
<1>4. \A t \in Slots : ~Holds(t, b)'
  BY <1>2, <1>3
<1>5. HeldOnce'
  <2>1. ASSUME NEW t \in Slots, NEW a \in Alerts, Holds(t, a)'
        PROVE  /\ delivery'[a] = "CLAIMED" /\ a \notin orphaned'
               /\ notices'[a] = released'[a] + (IF alerting'[t].told THEN 1 ELSE 0)
    <3>1. a # b /\ t # s /\ Holds(t, a)
      BY <2>1, <1>2, <1>3, <1>4
    <3>2. alerting'[t].told = alerting[t].told
      BY <3>1
    <3>3. /\ delivery[a] = "CLAIMED" /\ a \notin orphaned
          /\ notices[a] = released[a] + (IF alerting[t].told THEN 1 ELSE 0)
      BY <3>1 DEF HeldOnce
    <3> QED
      BY <3>1, <3>2, <3>3
  <2>2. ASSUME NEW t \in Slots, NEW u \in Slots, NEW a \in Alerts, Holds(t, a)', Holds(u, a)'
        PROVE  t = u
    BY <2>2, <1>2, <1>3 DEF HeldOnce
  <2> QED
    BY <2>1, <2>2 DEF HeldOnce
<1>6. Counted'
  <2> SUFFICES ASSUME NEW a \in Alerts
               PROVE  /\ delivery'[a] \in {"none", "SKIPPED"} => notices'[a] = released'[a] /\ a \notin orphaned'
                      /\ delivery'[a] = "DELIVERED" => notices'[a] = released'[a] + 1 /\ a \notin orphaned'
                      /\ delivery'[a] = "CLAIMED" => a \in orphaned' \/ \E t \in Slots : Holds(t, a)'
                      /\ a \in orphaned' => notices'[a] <= released'[a] + 1
    BY DEF Counted
  <2>1. CASE a = b
    BY <2>1
  <2>2. CASE a # b
    <3>1. (\E t \in Slots : Holds(t, a)) => \E t \in Slots : Holds(t, a)'
      BY <2>2, <1>1, <1>3
    <3> QED
      BY <2>2, <3>1 DEF Counted
  <2> QED
    BY <2>1, <2>2
<1> QED
  BY <1>5, <1>6

\* The holder of b lets go of it.
LEMMA LetGoKeeps ==
    ASSUME AlertingTypeOK, HeldOnce, Counted, NEW s \in Slots, NEW b \in Alerts,
           alerting[s].held = {b}, alerting'[s].held = {},
           \A t \in Slots : t # s => alerting'[t] = alerting[t],
           notices' = notices,
           \A a \in Alerts : a # b =>
               /\ delivery'[a] = delivery[a] /\ released'[a] = released[a]
               /\ a \in orphaned' <=> a \in orphaned,
           \/ /\ delivery'[b] \in {"none", "SKIPPED"}
              /\ notices[b] = released'[b] /\ b \notin orphaned'
           \/ /\ delivery'[b] = "DELIVERED"
              /\ notices[b] = released'[b] + 1 /\ b \notin orphaned'
           \/ /\ delivery'[b] = "CLAIMED"
              /\ notices[b] <= released'[b] + 1 /\ b \in orphaned'
    PROVE  HeldOnce' /\ Counted'
<1>1. \A t \in Slots : Holds(t, b) => t = s
  BY DEF HeldOnce, Holds
<1> QED
  BY <1>1, RowLeftKeeps

LEMMA CompleteKeeps ==
    ASSUME AlertingTypeOK, RoundShape, HeldOnce, Counted, NEW s \in Slots, Complete(s)
    PROVE  HeldOnce' /\ Counted'
<1> DEFINE w == alerting[s]
<1>1. PICK b \in Alerts : w.held = {b}
  BY DEF Complete, RoundShape
<1>2. PICK a \in w.held : Proceed(s, a[1])
  BY DEF Complete
<1>3. alerting'[s].held = {} /\ \A t \in Slots : t # s => alerting'[t] = alerting[t]
  BY <1>2, AfterOnward DEF Proceed
<1>4. /\ \A x \in Alerts : x # b => delivery'[x] = delivery[x]
      /\ delivery'[b] = IF w.told THEN "DELIVERED" ELSE "SKIPPED"
      /\ UNCHANGED <<notices, released, orphaned>>
  BY <1>1 DEF Complete
<1>5. b \notin orphaned /\ notices[b] = released[b] + (IF w.told THEN 1 ELSE 0)
      /\ released[b] \in Nat
  BY <1>1 DEF HeldOnce, Holds, AlertingTypeOK
<1>6. \/ delivery'[b] = "SKIPPED" /\ notices[b] = released'[b] /\ b \notin orphaned'
      \/ delivery'[b] = "DELIVERED" /\ notices[b] = released'[b] + 1 /\ b \notin orphaned'
  BY <1>4, <1>5
<1> QED
  BY <1>1, <1>3, <1>4, <1>6, LetGoKeeps

LEMMA ReleaseKeeps ==
    ASSUME AlertingTypeOK, RoundShape, HeldOnce, Counted, NEW s \in Slots, Release(s)
    PROVE  HeldOnce' /\ Counted'
<1> DEFINE w == alerting[s]
<1>1. PICK b \in Alerts : w.held = {b}
  BY DEF Release, RoundShape
<1>2. PICK a \in w.held : Proceed(s, a[1])
  BY DEF Release
<1>3. alerting'[s].held = {} /\ \A t \in Slots : t # s => alerting'[t] = alerting[t]
  BY <1>2, AfterOnward DEF Proceed
<1>4. /\ \A x \in Alerts : x # b => delivery'[x] = delivery[x] /\ released'[x] = released[x]
      /\ delivery'[b] = "none"
      /\ released'[b] = IF w.told THEN released[b] + 1 ELSE released[b]
      /\ UNCHANGED <<notices, orphaned>>
  BY <1>1 DEF Release
<1>5. b \notin orphaned /\ notices[b] = released[b] + (IF w.told THEN 1 ELSE 0)
      /\ released[b] \in Nat
  BY <1>1 DEF HeldOnce, Holds, AlertingTypeOK
<1>6. delivery'[b] = "none" /\ notices[b] = released'[b] /\ b \notin orphaned'
  BY <1>4, <1>5
<1> QED
  BY <1>1, <1>3, <1>4, <1>6, LetGoKeeps

\* A claim whose holder dies, or cannot release it, is an orphan.
LEMMA OrphanKeeps ==
    ASSUME AlertingTypeOK, RoundShape, HeldOnce, Counted, NEW s \in Slots,
           BreakAlerting(s) \/ FailToRelease(s)
    PROVE  HeldOnce' /\ Counted'
<1> DEFINE w == alerting[s]
<1>1. w.held = {} \/ \E b \in Alerts : w.held = {b}
  BY DEF RoundShape
<1>2. /\ alerting'[s].held = {} /\ \A t \in Slots : t # s => alerting'[t] = alerting[t]
      /\ orphaned' = orphaned \cup w.held
      /\ UNCHANGED <<delivery, notices, released>>
  <2>1. CASE BreakAlerting(s)
    BY <2>1 DEF BreakAlerting, NoRound, AlertingTypeOK
  <2>2. CASE FailToRelease(s)
    BY <2>2, AfterOnward DEF FailToRelease, GiveUp
  <2> QED
    BY <2>1, <2>2
<1>3. CASE w.held = {}
  BY <1>2, <1>3, SameHeldKeeps
<1>4. CASE \E b \in Alerts : w.held = {b}
  <2>1. PICK b \in Alerts : w.held = {b}
    BY <1>4
  <2>2. delivery[b] = "CLAIMED" /\ notices[b] = released[b] + (IF w.told THEN 1 ELSE 0)
        /\ released[b] \in Nat
    BY <2>1 DEF HeldOnce, Holds, AlertingTypeOK
  <2>3. delivery'[b] = "CLAIMED" /\ notices[b] <= released'[b] + 1 /\ b \in orphaned'
    BY <2>1, <2>2, <1>2
  <2>4. \A a \in Alerts : a # b =>
            /\ delivery'[a] = delivery[a] /\ released'[a] = released[a]
            /\ a \in orphaned' <=> a \in orphaned
    BY <2>1, <1>2
  <2> QED
    BY <2>1, <2>3, <2>4, <1>2, LetGoKeeps
<1> QED
  BY <1>1, <1>3, <1>4

\* A claim that throws leaves no row of its own, or one without a holder.
LEMMA FailToClaimKeeps ==
    ASSUME AlertingTypeOK, RoundShape, HeldOnce, Counted, NEW s \in Slots, FailToClaim(s)
    PROVE  HeldOnce' /\ Counted'
<1> DEFINE w == alerting[s]
<1>1. alerting \in [Slots -> Round] /\ delivery \in [Alerts -> {"none", "CLAIMED", "DELIVERED", "SKIPPED"}]
      /\ released \in [Alerts -> Nat]
  BY DEF AlertingTypeOK
<1>2. w.held = {} /\ UNCHANGED <<notices, released>>
  BY DEF FailToClaim, RoundShape
<1>3. alerting'[s].held = {} /\ \A t \in Slots : t # s => alerting'[t] = alerting[t]
  BY AfterOnward DEF FailToClaim, GiveUp
<1>4. CASE UNCHANGED <<delivery, orphaned>>
  BY <1>2, <1>3, <1>4, SameHeldKeeps
<1>5. CASE \E c \in w.todo : \E a \in Candidates(c, w) :
             /\ delivery[a] = "none"
             /\ delivery' = [delivery EXCEPT ![a] = "CLAIMED"]
             /\ orphaned' = orphaned \cup {a}
  <2>1. PICK c \in w.todo : \E a \in Candidates(c, w) :
             /\ delivery[a] = "none"
             /\ delivery' = [delivery EXCEPT ![a] = "CLAIMED"]
             /\ orphaned' = orphaned \cup {a}
    BY <1>5
  <2>2. PICK b \in Candidates(c, w) :
             /\ delivery[b] = "none"
             /\ delivery' = [delivery EXCEPT ![b] = "CLAIMED"]
             /\ orphaned' = orphaned \cup {b}
    BY <2>1
  <2>3. b \in Alerts
    BY <1>1, CandidatesAreAlerts DEF Round
  <2>4. \A t \in Slots : Holds(t, b) => t = s
    BY <2>2, <2>3 DEF HeldOnce
  <2>5. delivery'[b] = "CLAIMED" /\ b \in orphaned' /\ notices[b] <= released'[b] + 1
    BY <2>2, <2>3, <1>1, <1>2 DEF Counted
  <2>6. \A a \in Alerts : a # b =>
            /\ delivery'[a] = delivery[a] /\ released'[a] = released[a]
            /\ a \in orphaned' <=> a \in orphaned
    BY <2>2, <1>1, <1>2
  <2> QED
    BY <2>3, <2>4, <2>5, <2>6, <1>2, <1>3, RowLeftKeeps
<1> QED
  BY <1>4, <1>5 DEF FailToClaim

LEMMA ClaimsStayCounted ==
    ASSUME AlertingTypeOK, RoundShape, HeldOnce, Counted, AlertingLink,
           NEW s \in Slots, AlertingStep(s)
    PROVE  HeldOnce' /\ Counted'
<1>1. AlertingTypeOK' /\ RoundShape' /\ \A t \in Slots : t # s => alerting'[t] = alerting[t]
  BY RoundsTyped
<1>2. alerting \in [Slots -> Round]
  BY DEF AlertingTypeOK
<1>3. CASE StartScan(s) \/ \E c \in Certs : Upload(s, c)
  <2>1. alerting[s].at = "none"
    BY <1>3 DEF StartScan, Upload, Begin, AlertingLink
  <2>2. alerting[s].held = {}
    BY <2>1 DEF RoundShape
  <2>3. alerting'[s].held = {} /\ UNCHANGED <<delivery, notices, released, orphaned>>
    BY <1>2, <1>3 DEF StartScan, Upload, NoRound
  <2> QED
    BY <1>1, <2>2, <2>3, SameHeldKeeps
<1>4. CASE Skip(s)
  <2>1. alerting[s].held = {}
    BY <1>4 DEF Skip, RoundShape
  <2>2. alerting'[s].held = {} /\ UNCHANGED <<delivery, notices, released, orphaned>>
    BY <1>4, AfterOnward DEF Skip, Proceed
  <2> QED
    BY <1>1, <2>1, <2>2, SameHeldKeeps
<1>5. CASE FailToNotify(s)
  <2>1. alerting'[s] = [alerting[s] EXCEPT !.at = "release"]
    BY <1>2, <1>5 DEF FailToNotify
  <2>2. alerting'[s].held = alerting[s].held /\ alerting'[s].told = alerting[s].told
    BY <2>1, <1>2 DEF Round
  <2>3. UNCHANGED <<delivery, notices, released, orphaned>>
    BY <1>5 DEF FailToNotify
  <2> QED
    BY <1>1, <2>2, <2>3, SameHeldKeeps
<1> QED
  BY <1>3, <1>4, <1>5, ClaimKeeps, NotifyKeeps, CompleteKeeps, ReleaseKeeps,
     FailToClaimKeeps, OrphanKeeps
  DEF AlertingStep

LEMMA AlertingInvStep ==
    ASSUME AlertingInv, AlertingLink, NEW s \in Slots, AlertingStep(s)
    PROVE  AlertingInv'
<1>1. AlertingTypeOK' /\ RoundShape'
  BY RoundsTyped DEF AlertingInv
<1>2. HeldOnce' /\ Counted'
  BY ClaimsStayCounted DEF AlertingInv
<1> QED
  BY <1>1, <1>2 DEF AlertingInv

\* Days pass, nothing else.
LEMMA AlertingInvPassDays ==
    ASSUME AlertingInv, PassDays PROVE AlertingInv'
<1>1. AlertingTypeOK' /\ RoundShape'
  BY CertAssumption DEF AlertingInv, PassDays, AlertingTypeOK, RoundShape
<1>2. HeldOnce' /\ Counted'
  BY DEF AlertingInv, PassDays, HeldOnce, Counted, Holds
<1> QED
  BY <1>1, <1>2 DEF AlertingInv

-----------------------------------------------------------------------------
(* Rule changes *)

OpsFit ==
    \A s \in Slots : book[s].at \in {"sync", "upsert"} => book[s].op = "reload"

AloneInBook ==
    \A s \in Slots : InTransaction(s) /\ book[s].alone =>
        /\ \A t \in Slots : InTransaction(t) => t = s
        /\ book[s].at = "bump" \/ (book[s].at = "commit" /\ book[s].op # "reload") =>
              \A n \in Names : n \notin book[s].names => book[s].rules[n] = substances[n]

ChangesHeard ==
    /\ RuleChangesAnnounced
    /\ \A s \in Slots : book[s].at = "notify" => book[s].by \in changes

BookInv == BookTypeOK /\ OpsFit /\ AloneInBook /\ ChangesHeard /\ InStepWithTable

\* A slot with work of this component is not free.
BookLink == \A s \in Slots : book[s].at # "none" => handling[s] \in {"change", "reload"}

LEMMA BookInvInit ==
    ASSUME BookInit PROVE BookInv
<1>1. NoEdit \in Edit
  BY RuleAssumption DEF NoEdit, Edit
<1>2. BookTypeOK
  <2>1. ruleSet \in Version
    BY RuleAssumption DEF BookInit, Version
  <2>2. history \subseteq Version
    BY <2>1 DEF BookInit
  <2> QED
    BY <1>1, <2>1, <2>2, RuleAssumption DEF BookInit, BookTypeOK
<1>3. OpsFit /\ AloneInBook /\ ChangesHeard /\ InStepWithTable
  BY DEF BookInit, NoEdit, OpsFit, AloneInBook, ChangesHeard, InStepWithTable, InTransaction,
         RuleChangesAnnounced
<1> QED
  BY <1>2, <1>3 DEF BookInv

\* The other components leave these variables alone.
LEMMA BookInvStutter ==
    ASSUME BookInv, UNCHANGED bookVars PROVE BookInv'
<1> USE DEF bookVars, records, BookInv
<1>1. BookTypeOK' /\ OpsFit' /\ InStepWithTable'
  BY DEF BookTypeOK, OpsFit, InStepWithTable
<1>2. AloneInBook'
  BY DEF AloneInBook, InTransaction
<1>3. ChangesHeard'
  BY DEF ChangesHeard, RuleChangesAnnounced
<1> QED
  BY <1>1, <1>2, <1>3

-----------------------------------------------------------------------------
(* What each step of s leaves in its own record. *)

LEMMA AfterStart ==
    ASSUME BookTypeOK, started \in Nat, NEW s \in Slots,
           StartReload(s) \/ \E n \in Names : StartChange(s, n)
    PROVE  /\ book' \in [Slots -> Edit]
           /\ book'[s].at \in {"write", "sync"}
           /\ book'[s].at = "sync" => book'[s].op = "reload"
           /\ \A t \in Slots : t # s => book'[t] = book[t]
<1>1. book \in [Slots -> Edit] /\ NoEdit \in Edit
  BY RuleAssumption DEF BookTypeOK, NoEdit, Edit
<1>2. CASE StartReload(s)
  <2> DEFINE e == [NoEdit EXCEPT !.at = "sync", !.op = "reload", !.by = started + 1]
  <2>1. e \in Edit /\ e.at = "sync" /\ e.op = "reload"
    <3>1. started + 1 \in Nat
      OBVIOUS
    <3>2. e.at = "sync" /\ e.op = "reload"
      BY DEF NoEdit
    <3>3. e \in Edit
      BY <3>1, RuleAssumption DEF NoEdit, Edit
    <3> QED
      BY <3>2, <3>3
  <2>2. book' = [book EXCEPT ![s] = e]
    BY <1>2 DEF StartReload
  <2> HIDE DEF e
  <2> QED
    BY <1>1, <2>1, <2>2
<1>3. ASSUME NEW n \in Names, StartChange(s, n)
      PROVE  /\ book' \in [Slots -> Edit] /\ book'[s].at = "write"
             /\ \A t \in Slots : t # s => book'[t] = book[t]
  <2> DEFINE o == IF substances[n] = Absent THEN "create" ELSE "update"
             e == [NoEdit EXCEPT !.at = "write", !.op = o, !.by = started + 1, !.names = {n}]
  <2>1. o \in {"create", "update"}
    OBVIOUS
  <2> HIDE DEF o
  <2>2. e \in Edit /\ e.at = "write"
    <3>1. started + 1 \in Nat /\ {n} \in SUBSET Names
      OBVIOUS
    <3>2. e.at = "write"
      BY DEF NoEdit
    <3>3. e \in Edit
      BY <2>1, <3>1, RuleAssumption DEF NoEdit, Edit
    <3> QED
      BY <3>2, <3>3
  <2>3. book' = [book EXCEPT ![s] = e]
    BY <1>3 DEF StartChange, o
  <2> HIDE DEF e
  <2> QED
    BY <1>1, <2>2, <2>3
<1> QED
  BY <1>2, <1>3

\* The record of s is replaced by e, the others stop being alone.
LEMMA AfterOpening ==
    ASSUME BookTypeOK, NEW s \in Slots, NEW e \in Edit, Opening(s, e)
    PROVE  /\ book' \in [Slots -> Edit]
           /\ book'[s].at = e.at /\ book'[s].op = e.op
           /\ book'[s].alone => \A t \in Slots : t # s => ~InTransaction(t)
           /\ \A t \in Slots : t # s =>
                 /\ book'[t].at = book[t].at /\ book'[t].op = book[t].op
                 /\ book'[t].by = book[t].by
                 /\ InTransaction(t) => ~book'[t].alone
<1>1. book \in [Slots -> Edit]
  BY DEF BookTypeOK
<1> DEFINE mine == [e EXCEPT !.alone = \A u \in Slots \ {s} : ~InTransaction(u)]
           other(t) == [book[t] EXCEPT !.alone = @ /\ ~InTransaction(t)]
<1>2. mine \in Edit /\ mine.at = e.at /\ mine.op = e.op
      /\ (mine.alone => \A u \in Slots : u # s => ~InTransaction(u))
  BY DEF Edit, InTransaction
<1>3. \A t \in Slots : /\ other(t) \in Edit /\ other(t).at = book[t].at /\ other(t).op = book[t].op
                       /\ other(t).by = book[t].by
                       /\ InTransaction(t) => ~other(t).alone
  BY <1>1 DEF Edit, InTransaction
<1>4. book' = [t \in Slots |-> IF t = s THEN mine ELSE other(t)]
  BY DEF Opening
<1> HIDE DEF mine, other
<1> QED
  BY <1>2, <1>3, <1>4

LEMMA AfterWriteSubstance ==
    ASSUME BookTypeOK, NEW s \in Slots, WriteSubstance(s)
    PROVE  /\ book' \in [Slots -> Edit]
           /\ book'[s].at = "version"
           /\ book'[s].alone => \A t \in Slots : t # s => ~InTransaction(t)
           /\ \A t \in Slots : t # s =>
                 /\ book'[t].at = book[t].at /\ book'[t].op = book[t].op
                 /\ book'[t].by = book[t].by
                 /\ InTransaction(t) => ~book'[t].alone
<1> DEFINE e == [book[s] EXCEPT !.at = "version"]
<1>1. e \in Edit /\ e.at = "version"
  BY DEF BookTypeOK, Edit
<1>2. Opening(s, e)
  BY DEF WriteSubstance
<1> HIDE DEF e
<1> QED
  BY <1>1, <1>2, AfterOpening

LEMMA AfterSyncRuleSet ==
    ASSUME BookTypeOK, OpsFit, NEW s \in Slots, SyncRuleSet(s)
    PROVE  /\ book' \in [Slots -> Edit]
           /\ book'[s].at = "upsert" /\ book'[s].op = "reload"
           /\ book'[s].alone => \A t \in Slots : t # s => ~InTransaction(t)
           /\ \A t \in Slots : t # s =>
                 /\ book'[t].at = book[t].at /\ book'[t].op = book[t].op
                 /\ book'[t].by = book[t].by
                 /\ InTransaction(t) => ~book'[t].alone
<1> DEFINE e == [book[s] EXCEPT !.at = "upsert", !.version = FileVersion, !.rules = FileRules]
<1>1. e \in Edit /\ e.at = "upsert" /\ e.op = book[s].op
  BY RuleAssumption DEF BookTypeOK, Edit
<1>2. Opening(s, e)
  BY DEF SyncRuleSet
<1>3. book[s].op = "reload"
  BY DEF SyncRuleSet, OpsFit
<1> HIDE DEF e
<1> QED
  BY <1>1, <1>2, <1>3, AfterOpening

\* The steps within a transaction that no longer change who else is alone.
LEMMA AfterInnerStep ==
    ASSUME BookTypeOK, NEW s \in Slots,
           ReadRuleSet(s) \/ ReadSubstances(s) \/ BumpRuleSet(s) \/ UpsertSubstances(s)
    PROVE  /\ book' \in [Slots -> Edit]
           /\ book'[s].at \in {"rules", "bump", "commit"}
           /\ book'[s].op = book[s].op /\ book'[s].alone = book[s].alone
           /\ \A t \in Slots : t # s => book'[t] = book[t]
           /\ InTransaction(s)
<1>1. book \in [Slots -> Edit]
  BY DEF BookTypeOK
<1>2. CASE ReadRuleSet(s)
  <2>1. book' = [book EXCEPT ![s] = [book[s] EXCEPT !.at = "rules", !.version = ruleSet.version + 1]]
    BY <1>2 DEF ReadRuleSet
  <2>2. ruleSet.version + 1 \in Nat
    BY DEF BookTypeOK, Version
  <2> QED
    BY <1>1, <1>2, <2>1, <2>2 DEF Edit, ReadRuleSet, InTransaction
<1>3. CASE ReadSubstances(s)
  <2> DEFINE r == [n \in Names |-> IF n \in book[s].names THEN book[s].by ELSE substances[n]]
  <2>1. r \in Rules
    BY <1>1 DEF BookTypeOK, Edit, Rules
  <2> HIDE DEF r
  <2>2. book' = [book EXCEPT ![s] = [book[s] EXCEPT !.at = "bump", !.rules = r]]
    BY <1>3 DEF ReadSubstances, r
  <2> DEFINE e == [book[s] EXCEPT !.at = "bump", !.rules = r]
  <2>3. e \in Edit /\ e.at = "bump" /\ e.op = book[s].op /\ e.alone = book[s].alone
    BY <1>1, <2>1 DEF Edit
  <2> HIDE DEF e
  <2>4. book' = [book EXCEPT ![s] = e]
    BY <2>2 DEF e
  <2> QED
    BY <1>1, <1>3, <2>3, <2>4 DEF ReadSubstances, InTransaction
<1>4. CASE BumpRuleSet(s)
  <2>1. book' = [book EXCEPT ![s] = [book[s] EXCEPT !.at = "commit"]]
    BY <1>4 DEF BumpRuleSet, Goto
  <2> QED
    BY <1>1, <1>4, <2>1 DEF Edit, BumpRuleSet, InTransaction
<1>5. CASE UpsertSubstances(s)
  <2>1. book' = [book EXCEPT ![s] = [book[s] EXCEPT !.at = "commit", !.names = InFile]]
    BY <1>5 DEF UpsertSubstances
  <2>2. InFile \in SUBSET Names
    BY DEF InFile
  <2> QED
    BY <1>1, <1>5, <2>1, <2>2 DEF Edit, UpsertSubstances, InTransaction
<1> QED
  BY <1>2, <1>3, <1>4, <1>5

LEMMA AfterLeaving ==
    ASSUME BookTypeOK, NEW s \in Slots, Quit(s)
    PROVE  /\ book' \in [Slots -> Edit]
           /\ book'[s].at = "none"
           /\ \A t \in Slots : t # s => book'[t] = book[t]
<1>1. book \in [Slots -> Edit] /\ NoEdit \in Edit /\ NoEdit.at = "none"
  BY RuleAssumption DEF BookTypeOK, NoEdit, Edit
<1> QED
  BY <1>1 DEF Quit

LEMMA AfterCommitRules ==
    ASSUME BookTypeOK, NEW s \in Slots, CommitRules(s)
    PROVE  /\ book' \in [Slots -> Edit]
           /\ book'[s].at = IF book[s].op # "reload" THEN "notify" ELSE "none"
           /\ book[s].op # "reload" => book'[s].by = book[s].by
           /\ \A t \in Slots : t # s => book'[t] = book[t]
<1>1. book \in [Slots -> Edit]
  BY DEF BookTypeOK
<1>2. CASE book[s].op # "reload"
  <2>1. book' = [book EXCEPT ![s] = [book[s] EXCEPT !.at = "notify"]]
    BY <1>2 DEF CommitRules, Goto
  <2> QED
    BY <1>1, <1>2, <2>1 DEF Edit
<1>3. CASE book[s].op = "reload"
  BY <1>1, <1>3, AfterLeaving DEF CommitRules
<1> QED
  BY <1>2, <1>3

LEMMA AfterReadSubstances ==
    ASSUME BookTypeOK, NEW s \in Slots, ReadSubstances(s)
    PROVE  \A n \in Names : n \notin book'[s].names => book'[s].rules[n] = substances[n]
<1> DEFINE r == [n \in Names |-> IF n \in book[s].names THEN book[s].by ELSE substances[n]]
           e == [book[s] EXCEPT !.at = "bump", !.rules = r]
<1>1. book \in [Slots -> Edit]
  BY DEF BookTypeOK
<1>2. book' = [book EXCEPT ![s] = e]
  BY DEF ReadSubstances
<1>3. \A n \in Names : n \notin book[s].names => r[n] = substances[n]
  OBVIOUS
<1> HIDE DEF r
<1>4. e.names = book[s].names /\ e.rules = r
  BY <1>1 DEF Edit
<1> HIDE DEF e
<1> QED
  BY <1>1, <1>2, <1>3, <1>4

LEMMA AfterBumpRuleSet ==
    ASSUME BookTypeOK, NEW s \in Slots, BumpRuleSet(s)
    PROVE  book'[s].names = book[s].names /\ book'[s].rules = book[s].rules
<1>1. book' = [book EXCEPT ![s] = [book[s] EXCEPT !.at = "commit"]]
  BY DEF BumpRuleSet, Goto
<1> QED
  BY <1>1 DEF BookTypeOK, Edit

LEMMA AfterUpsertSubstances ==
    ASSUME BookTypeOK, OpsFit, NEW s \in Slots, UpsertSubstances(s)
    PROVE  book'[s].op = "reload"
BY AfterInnerStep DEF OpsFit, UpsertSubstances

\* The steps by group: those that are no commit leave the tables alone.
LEMMA TablesMoveAtCommits ==
    ASSUME NEW s \in Slots, BookStep(s), ~CommitRules(s)
    PROVE  UNCHANGED <<records, changes, inStep>>
BY DEF BookStep, StartChange, WriteSubstance, RefuseDuplicate, ReadRuleSet, ReadSubstances,
       BumpRuleSet, StartReload, SyncRuleSet, UpsertSubstances, AbortDeadlocked,
       AnnounceChange, BreakBook, records

Starting(s) == StartReload(s) \/ \E n \in Names : StartChange(s, n)
Inner(s) == ReadRuleSet(s) \/ ReadSubstances(s) \/ BumpRuleSet(s) \/ UpsertSubstances(s)
Leaving(s) == RefuseDuplicate(s) \/ AbortDeadlocked(s) \/ AnnounceChange(s) \/ BreakBook(s)

LEMMA BookSteps ==
    ASSUME NEW s \in Slots, BookStep(s)
    PROVE  \/ Starting(s) \/ WriteSubstance(s) \/ SyncRuleSet(s) \/ Inner(s)
           \/ CommitRules(s) \/ Leaving(s)
BY DEF BookStep, Starting, Inner, Leaving

LEMMA LeavingQuits ==
    ASSUME NEW s \in Slots, Leaving(s) PROVE Quit(s)
BY DEF Leaving, RefuseDuplicate, AbortDeadlocked, AnnounceChange, BreakBook

\* A step of s leaves the work of the others, but for being alone.
LEMMA OthersKeepEdits ==
    ASSUME BookTypeOK, OpsFit, started \in Nat, NEW s \in Slots, BookStep(s)
    PROVE  /\ book' \in [Slots -> Edit]
           /\ \A t \in Slots : t # s =>
                 /\ book'[t].at = book[t].at /\ book'[t].op = book[t].op
                 /\ book'[t].by = book[t].by
                 /\ book'[t] = book[t] \/ (InTransaction(t) => ~book'[t].alone)
           /\ ~WriteSubstance(s) /\ ~SyncRuleSet(s) =>
                 \A t \in Slots : t # s => book'[t] = book[t]
<1>1. CASE Starting(s)
  BY <1>1, AfterStart DEF Starting
<1>2. CASE WriteSubstance(s)
  BY <1>2, AfterWriteSubstance
<1>3. CASE SyncRuleSet(s)
  BY <1>3, AfterSyncRuleSet
<1>4. CASE Inner(s)
  BY <1>4, AfterInnerStep DEF Inner
<1>5. CASE CommitRules(s)
  BY <1>5, AfterCommitRules
<1>6. CASE Leaving(s)
  BY <1>6, AfterLeaving, LeavingQuits
<1> QED
  BY <1>1, <1>2, <1>3, <1>4, <1>5, <1>6, BookSteps

-----------------------------------------------------------------------------
(* BookInv *)

LEMMA BookTyped ==
    ASSUME BookTypeOK, OpsFit, started \in Nat, NEW s \in Slots, BookStep(s)
    PROVE  BookTypeOK'
<1> DEFINE e == book[s]
<1>1. book' \in [Slots -> Edit]
  BY OthersKeepEdits
<1>2. e \in Edit
  BY DEF BookTypeOK
<1>3. e.by \in Nat /\ e.names \subseteq Names /\ e.version \in Nat /\ e.rules \in Rules
      /\ e.alone \in BOOLEAN
  BY <1>2 DEF Edit
<1>4. CASE CommitRules(s)
  <2>1. substances' \in Rules
    BY <1>3, <1>4 DEF CommitRules, BookTypeOK, Rules
  <2>2. [version |-> e.version, rules |-> e.rules] \in Version
    BY <1>3 DEF Version
  <2>3. ruleSet' \in Version /\ history' \subseteq Version
    BY <2>2, <1>4 DEF CommitRules, BookTypeOK
  <2>4. changes' \subseteq Nat /\ inStep' \in BOOLEAN
    BY <1>3, <1>4 DEF CommitRules, BookTypeOK
  <2>5. UNCHANGED <<ruleNotices, unheard>>
    BY <1>4 DEF CommitRules
  <2> QED
    BY <1>1, <2>1, <2>3, <2>4, <2>5 DEF BookTypeOK
<1>5. CASE ~CommitRules(s)
  <2>1. UNCHANGED <<records, changes, inStep>>
    BY <1>5, TablesMoveAtCommits
  <2>2. ruleNotices' \subseteq Nat /\ unheard' \subseteq Nat
    BY <1>3, <1>5
    DEF BookStep, StartChange, WriteSubstance, RefuseDuplicate, ReadRuleSet, ReadSubstances,
        BumpRuleSet, StartReload, SyncRuleSet, UpsertSubstances, AbortDeadlocked,
        AnnounceChange, BreakBook, BookTypeOK
  <2> QED
    BY <1>1, <2>1, <2>2 DEF BookTypeOK, records
<1> QED
  BY <1>4, <1>5

LEMMA OpsStayFit ==
    ASSUME BookTypeOK, OpsFit, started \in Nat, NEW s \in Slots, BookStep(s)
    PROVE  OpsFit'
<1> SUFFICES ASSUME NEW t \in Slots, book'[t].at \in {"sync", "upsert"}
             PROVE  book'[t].op = "reload"
  BY DEF OpsFit
<1>1. CASE t # s
  BY <1>1, OthersKeepEdits DEF OpsFit
<1>2. CASE t = s
  BY <1>2, BookSteps, AfterStart, AfterWriteSubstance, AfterSyncRuleSet, AfterInnerStep,
     AfterCommitRules, AfterLeaving, LeavingQuits
  DEF Starting, Inner
<1> QED
  BY <1>1, <1>2

\* A transaction that overlaps none stays the only one, and what it read of the
\* substances it does not write is what the table holds.
LEMMA AloneStaysInBook ==
    ASSUME BookTypeOK, OpsFit, AloneInBook, started \in Nat, NEW s \in Slots, BookStep(s)
    PROVE  AloneInBook'
<1> SUFFICES ASSUME NEW t \in Slots, InTransaction(t)', book'[t].alone
             PROVE  /\ \A u \in Slots : InTransaction(u)' => u = t
                    /\ book'[t].at = "bump" \/ (book'[t].at = "commit" /\ book'[t].op # "reload") =>
                          \A n \in Names :
                             n \notin book'[t].names => book'[t].rules[n] = substances'[n]
  BY DEF AloneInBook
<1>1. CASE WriteSubstance(s) \/ SyncRuleSet(s)
  <2>1. CASE t # s
    <3>1. InTransaction(t)
      BY <2>1, OthersKeepEdits DEF InTransaction
    <3> QED
      BY <3>1, <2>1, <1>1, AfterWriteSubstance, AfterSyncRuleSet
  <2>2. CASE t = s
    <3>1. \A u \in Slots : u # s => ~InTransaction(u)
      BY <1>1, <2>2, AfterWriteSubstance, AfterSyncRuleSet
    <3>2. \A u \in Slots : u # s => ~InTransaction(u)'
      BY <3>1, OthersKeepEdits DEF InTransaction
    <3>3. book'[s].at \in {"version", "upsert"}
      BY <1>1, AfterWriteSubstance, AfterSyncRuleSet
    <3> QED
      BY <2>2, <3>2, <3>3
  <2> QED
    BY <2>1, <2>2
<1>2. CASE ~WriteSubstance(s) /\ ~SyncRuleSet(s)
  <2>1. \A u \in Slots : u # s => book'[u] = book[u] /\ (InTransaction(u)' <=> InTransaction(u))
    BY <1>2, OthersKeepEdits DEF InTransaction
  <2>2. CASE Inner(s)
    <3>1. InTransaction(s) /\ book'[s].alone = book[s].alone
      BY <2>2, AfterInnerStep DEF Inner
    <3>2. InTransaction(t) /\ book[t].alone
      BY <2>1, <3>1
    <3>3. t = s /\ \A u \in Slots : InTransaction(u)' => u = t
      BY <2>1, <3>1, <3>2 DEF AloneInBook
    <3>4. substances' = substances
      BY <2>2 DEF Inner, ReadRuleSet, ReadSubstances, BumpRuleSet, UpsertSubstances, records
    <3>5. CASE ReadRuleSet(s)
      <4>1. book'[s].at = "rules"
        BY <3>5 DEF ReadRuleSet, BookTypeOK, Edit
      <4> QED
        BY <4>1, <3>3
    <3>6. CASE ReadSubstances(s)
      BY <3>3, <3>4, <3>6, AfterReadSubstances
    <3>7. CASE BumpRuleSet(s)
      <4>1. book[s].at = "bump"
        BY <3>7 DEF BumpRuleSet
      <4>2. InTransaction(s) /\ book[s].alone
        BY <3>1, <3>2, <3>3
      <4>3. \A n \in Names : n \notin book[s].names => book[s].rules[n] = substances[n]
        BY <4>1, <4>2 DEF AloneInBook
      <4> QED
        BY <4>3, <3>3, <3>4, <3>7, AfterBumpRuleSet
    <3>8. CASE UpsertSubstances(s)
      <4>1. book'[s].at = "commit" /\ book'[s].op = "reload"
        <5>1. book' = [book EXCEPT ![s] = [book[s] EXCEPT !.at = "commit", !.names = InFile]]
          BY <3>8 DEF UpsertSubstances
        <5> QED
          BY <5>1, <3>8, AfterUpsertSubstances DEF BookTypeOK, Edit
      <4> QED
        BY <4>1, <3>3
    <3> QED
      BY <2>2, <3>5, <3>6, <3>7, <3>8 DEF Inner
  <2>3. CASE CommitRules(s)
    <3>1. InTransaction(s)
      BY <2>3 DEF CommitRules, InTransaction
    <3>2. t # s
      BY <2>3, AfterCommitRules DEF InTransaction
    <3> QED
      BY <2>1, <3>1, <3>2 DEF AloneInBook
  <2>4. CASE Starting(s) \/ Leaving(s)
    <3>1. ~InTransaction(s)'
      BY <2>4, AfterStart, AfterLeaving, LeavingQuits DEF InTransaction, Starting
    <3>2. InTransaction(t) /\ book[t].alone /\ t # s /\ book'[t] = book[t]
      BY <2>1, <3>1
    <3>3. \A u \in Slots : InTransaction(u)' => u = t
      BY <2>1, <3>1, <3>2 DEF AloneInBook
    <3>4. substances' = substances
      BY <2>4 DEF Starting, Leaving, StartReload, StartChange, RefuseDuplicate, AbortDeadlocked,
                  AnnounceChange, BreakBook, records
    <3> QED
      BY <3>2, <3>3, <3>4 DEF AloneInBook
  <2> QED
    BY <1>2, <2>2, <2>3, <2>4, BookSteps
<1> QED
  BY <1>1, <1>2

LEMMA ChangesStayHeard ==
    ASSUME BookTypeOK, OpsFit, ChangesHeard, BookLink, started \in Nat,
           NEW s \in Slots, BookStep(s)
    PROVE  ChangesHeard'
<1> DEFINE e == book[s]
           told(t, c) == book[t].at = "notify" /\ book[t].by = c
<1>1. \A t \in Slots : t # s => book'[t].at = book[t].at /\ book'[t].by = book[t].by
  BY OthersKeepEdits
<1>2. \A t \in Slots : book[t].at = "notify" => book[t].by \in changes
  BY DEF ChangesHeard
<1>3. /\ ruleNotices \subseteq changes
      /\ \A c \in changes : c \in ruleNotices \cup unheard \/ \E t \in Slots : told(t, c)
  BY DEF ChangesHeard, RuleChangesAnnounced
<1>4. CASE CommitRules(s)
  <2>1. e.at = "commit"
    BY <1>4 DEF CommitRules
  <2>2. changes \subseteq changes' /\ UNCHANGED <<ruleNotices, unheard>>
        /\ changes' = IF e.op # "reload" THEN changes \cup {e.by} ELSE changes
    BY <1>4 DEF CommitRules
  <2>3. \A t \in Slots : book'[t].at = "notify" => book'[t].by \in changes'
    BY <1>1, <1>2, <1>4, <2>2, AfterCommitRules
  <2>4. \A c \in changes : \A t \in Slots : told(t, c) => told(t, c)'
    BY <1>1, <2>1
  <2>5. \A c \in changes' : c \in ruleNotices' \cup unheard' \/ \E t \in Slots : told(t, c)'
    <3>1. ASSUME NEW c \in changes', c \notin changes PROVE told(s, c)'
      BY <3>1, <2>2, <1>4, AfterCommitRules
    <3> QED
      BY <3>1, <1>3, <2>2, <2>4
  <2> QED
    BY <1>3, <2>2, <2>3, <2>5 DEF ChangesHeard, RuleChangesAnnounced
<1>5. CASE e.at = "notify" /\ ~CommitRules(s)
  <2>1. AnnounceChange(s) \/ BreakBook(s) \/ AbortDeadlocked(s)
    BY <1>5 DEF BookStep, StartChange, WriteSubstance, RefuseDuplicate, ReadRuleSet, ReadSubstances,
                BumpRuleSet, StartReload, SyncRuleSet, UpsertSubstances, Begin, BookLink
  <2>2. book'[s].at = "none" /\ changes' = changes
    BY <2>1, AfterLeaving DEF AnnounceChange, BreakBook, AbortDeadlocked
  <2>3. ~AbortDeadlocked(s)
    BY <1>5 DEF AbortDeadlocked
  <2>4. /\ e.by \in ruleNotices' \cup unheard'
        /\ ruleNotices \subseteq ruleNotices' /\ unheard \subseteq unheard'
        /\ ruleNotices' \subseteq ruleNotices \cup {e.by}
    BY <1>5, <2>1, <2>3 DEF AnnounceChange, BreakBook
  <2>5. \A c \in changes : \A t \in Slots : told(t, c) => told(t, c)' \/ c \in ruleNotices' \cup unheard'
    BY <1>1, <2>4
  <2>6. \A c \in changes' : c \in ruleNotices' \cup unheard' \/ \E t \in Slots : told(t, c)'
    BY <1>3, <2>2, <2>4, <2>5
  <2>7. \A t \in Slots : book'[t].at = "notify" => book'[t].by \in changes'
    BY <1>1, <1>2, <2>2
  <2>8. ruleNotices' \subseteq changes'
    BY <1>2, <1>3, <1>5, <2>2, <2>4
  <2> QED
    BY <2>6, <2>7, <2>8 DEF ChangesHeard, RuleChangesAnnounced
<1>6. CASE e.at # "notify" /\ ~CommitRules(s)
  <2>1. UNCHANGED <<changes, ruleNotices, unheard>>
    BY <1>6 DEF BookStep, StartChange, WriteSubstance, RefuseDuplicate, ReadRuleSet, ReadSubstances,
                BumpRuleSet, StartReload, SyncRuleSet, UpsertSubstances, AbortDeadlocked,
                AnnounceChange, BreakBook
  <2>2. book'[s].at # "notify"
    BY <1>6, BookSteps, AfterStart, AfterWriteSubstance, AfterSyncRuleSet, AfterInnerStep,
       AfterLeaving, LeavingQuits
    DEF Starting, Inner
  <2>3. \A c \in changes : \A t \in Slots : told(t, c) => told(t, c)'
    BY <1>1, <1>6
  <2>4. \A t \in Slots : book'[t].at = "notify" => book'[t].by \in changes'
    BY <1>1, <1>2, <2>1, <2>2
  <2> QED
    BY <1>3, <2>1, <2>3, <2>4 DEF ChangesHeard, RuleChangesAnnounced
<1> QED
  BY <1>4, <1>5, <1>6

LEMMA RulesStayInStep ==
    ASSUME BookTypeOK, AloneInBook, InStepWithTable, NEW s \in Slots, BookStep(s)
    PROVE  InStepWithTable'
<1> DEFINE e == book[s]
           next == [version |-> e.version, rules |-> e.rules]
<1>1. CASE CommitRules(s)
  <2>1. e \in Edit /\ e.rules \in Rules
    BY DEF BookTypeOK, Edit
  <2>2. ruleSet' = next /\ history' = {h \in history : h.version # e.version} \cup {next}
    BY <1>1 DEF CommitRules
  <2>3. \A h \in history' : h.version = ruleSet'.version => h = ruleSet'
    BY <2>2
  <2>4. inStep' => ruleSet'.rules = substances'
    <3>1. SUFFICES ASSUME inStep' PROVE e.rules = substances'
      BY <2>2
    <3>2. e.op # "reload" /\ e.alone /\ e.at = "commit"
      BY <1>1, <3>1 DEF CommitRules
    <3>3. InTransaction(s)
      BY <3>2 DEF InTransaction
    <3>4. \A n \in Names : n \notin e.names => e.rules[n] = substances[n]
      BY <3>2, <3>3 DEF AloneInBook
    <3>5. substances' = [n \in Names |-> IF n \in e.names THEN e.rules[n] ELSE substances[n]]
      BY <1>1 DEF CommitRules
    <3>6. \A n \in Names : substances'[n] = e.rules[n]
      BY <3>4, <3>5
    <3> QED
      BY <3>5, <3>6, <2>1 DEF Rules
  <2> QED
    BY <2>3, <2>4 DEF InStepWithTable
<1>2. CASE ~CommitRules(s)
  BY <1>2, TablesMoveAtCommits DEF InStepWithTable, records
<1> QED
  BY <1>1, <1>2

LEMMA BookInvStep ==
    ASSUME BookInv, BookLink, started \in Nat, NEW s \in Slots, BookStep(s)
    PROVE  BookInv'
<1> USE DEF BookInv
<1>1. BookTypeOK' /\ OpsFit'
  BY BookTyped, OpsStayFit
<1>2. AloneInBook' /\ ChangesHeard' /\ InStepWithTable'
  BY AloneStaysInBook, ChangesStayHeard, RulesStayInStep
<1> QED
  BY <1>1, <1>2


-----------------------------------------------------------------------------
(* Whose work a slot does *)

\* The last conjunct of TypeOK.
Links ==
    \A s \in Slots :
        /\ ingestion[s].at # "none" <=> handling[s] = "ingest"
        /\ alerting[s].at # "none" <=> handling[s] = "alert"
        /\ book[s].at # "none" <=> handling[s] \in {"change", "reload"}

LEMMA SharedParts ==
    ASSUME SharedTypeOK, NEW s \in Slots
    PROVE  /\ \A h \in Handlers :
                 Begin(s, h) => /\ SharedTypeOK' /\ handling[s] = "none"
                                /\ handling' = [handling EXCEPT ![s] = h]
           /\ Continue \/ Stumble => SharedTypeOK' /\ handling' = handling
           /\ End(s) \/ Break(s) => /\ SharedTypeOK'
                                    /\ handling' = [handling EXCEPT ![s] = "none"]
<1> USE SlotAssumption DEF SharedTypeOK, Handlers
<1>1. \A h \in Handlers : Begin(s, h) => /\ SharedTypeOK' /\ handling[s] = "none"
                                          /\ handling' = [handling EXCEPT ![s] = h]
  BY DEF Begin
<1>2. Continue \/ Stumble => SharedTypeOK' /\ handling' = handling
  BY DEF Continue, Stumble, sharedVars
<1>3. End(s) \/ Break(s) => SharedTypeOK' /\ handling' = [handling EXCEPT ![s] = "none"]
  BY DEF End, Break
<1> QED
  BY <1>1, <1>2, <1>3

\* A step of a component starts in a free slot or in one of its own, and leaves the
\* slot free or its own.
LEMMA IngestionKeepsItsSlot ==
    ASSUME SharedTypeOK, IngestionTypeOK, Links, NEW s \in Slots, IngestionStep(s)
    PROVE  /\ SharedTypeOK'
           /\ handling[s] \in {"none", "ingest"}
           /\ handling' = [handling EXCEPT ![s] = IF ingestion'[s].at # "none" THEN "ingest" ELSE "none"]
<1>1. ingestion[s].at # "none" <=> handling[s] = "ingest"
  BY DEF Links
<1>2. handling \in [Slots -> Handlers] /\ "ingest" \in Handlers
  BY DEF SharedTypeOK, Handlers
<1>3. ASSUME NEW batch \in Batches, ListExcursions(s, batch)
      PROVE  /\ SharedTypeOK' /\ handling[s] = "none" /\ ingestion'[s].at # "none"
             /\ handling' = [handling EXCEPT ![s] = "ingest"]
  BY <1>2, <1>3, SharedParts, AfterListExcursions DEF ListExcursions
<1>4. CASE CreateReadings(s) \/ ListReadings(s) \/ DeleteExcursions(s) \/ ReplaceExcursions(s)
  <2>1. SharedTypeOK' /\ handling' = handling
    BY <1>4, SharedParts DEF CreateReadings, ListReadings, DeleteExcursions, ReplaceExcursions
  <2>2. ingestion[s].at # "none"
    BY <1>4 DEF CreateReadings, ListReadings, DeleteExcursions, ReplaceExcursions
  <2>3. ingestion'[s].at # "none"
    BY <1>4, AfterCreateReadings, AfterListReadings, AfterDeleteExcursions, AfterReplaceExcursions
  <2> QED
    BY <1>1, <1>2, <2>1, <2>2, <2>3
<1>5. CASE CommitExcursions(s)
  <2>1. ingestion[s].at # "none"
    BY <1>5 DEF CommitExcursions
  <2>2. CASE ingestion[s].news = {}
    <3>1. End(s) /\ ingestion'[s].at = "none"
      BY <1>5, <2>2 DEF CommitExcursions, EndOr, IngestionTypeOK, NoWork
    <3> QED
      BY <1>1, <1>2, <2>1, <3>1, SharedParts
  <2>3. CASE ingestion[s].news # {}
    <3>1. Continue /\ ingestion'[s].at # "none"
      BY <1>5, <2>3, AfterCommitExcursions DEF CommitExcursions, EndOr
    <3> QED
      BY <1>1, <1>2, <2>1, <3>1, SharedParts
  <2> QED
    BY <2>2, <2>3
<1>6. CASE AnnounceExcursions(s) \/ BreakIngestion(s)
  <2>1. ingestion[s].at # "none" /\ (End(s) \/ Break(s))
    BY <1>6 DEF AnnounceExcursions, BreakIngestion
  <2> QED
    BY <1>1, <1>2, <1>6, <2>1, SharedParts, AfterTheEnd
<1> QED
  BY <1>2, <1>3, <1>4, <1>5, <1>6 DEF IngestionStep

LEMMA AlertingKeepsItsSlot ==
    ASSUME SharedTypeOK, AlertingTypeOK, Links, NEW s \in Slots, AlertingStep(s)
    PROVE  /\ SharedTypeOK'
           /\ handling[s] \in {"none", "alert"}
           /\ handling' = [handling EXCEPT ![s] = IF alerting'[s].at # "none" THEN "alert" ELSE "none"]
<1>1. alerting[s].at # "none" <=> handling[s] = "alert"
  BY DEF Links
<1>2. handling \in [Slots -> Handlers] /\ "alert" \in Handlers
  BY DEF SharedTypeOK, Handlers
<1>3. alerting \in [Slots -> Round] /\ NoRound.at = "none"
  BY DEF AlertingTypeOK, NoRound
<1>4. ASSUME NEW c, Proceed(s, c) \/ GiveUp(s, c), alerting[s].at # "none"
      PROVE  /\ SharedTypeOK'
             /\ handling' = [handling EXCEPT ![s] = IF alerting'[s].at # "none" THEN "alert" ELSE "none"]
  <2> DEFINE todo == alerting[s].todo \ {c}
  <2>1. Onward(s, c) /\ (EndOr(s, todo # {}) \/ StumbleOr(s, todo # {}))
    BY <1>4 DEF Proceed, GiveUp
  <2>2. CASE todo = {}
    <3>1. (End(s) \/ Break(s)) /\ alerting'[s].at = "none"
      BY <1>3, <2>1, <2>2 DEF Onward, EndOr, StumbleOr
    <3> QED
      BY <3>1, SharedParts
  <2>3. CASE todo # {}
    <3>1. Continue \/ Stumble
      BY <2>1, <2>3 DEF EndOr, StumbleOr
    <3>2. alerting'[s] = [alerting[s] EXCEPT !.at = "claim", !.todo = todo, !.held = {}, !.told = FALSE]
      BY <1>3, <2>1, <2>3 DEF Onward
    <3>3. alerting'[s].at = "claim"
      BY <3>2, <1>3 DEF Round
    <3> QED
      BY <1>1, <1>2, <1>4, <3>1, <3>3, SharedParts
  <2> QED
    BY <2>2, <2>3
<1>5. CASE StartScan(s) \/ \E c \in Certs : Upload(s, c)
  <2>1. Begin(s, "alert") /\ alerting'[s].at = "claim"
    BY <1>3, <1>5 DEF StartScan, Upload, NoRound
  <2> QED
    BY <1>2, <2>1, SharedParts
<1>6. CASE Claim(s) \/ NotifyLaneOwner(s) \/ FailToNotify(s)
  <2>1. alerting[s].at # "none" /\ (Continue \/ Stumble)
    BY <1>6 DEF Claim, NotifyLaneOwner, FailToNotify
  <2>2. alerting'[s].at \in {"notify", "complete", "release"}
    BY <1>3, <1>6 DEF Claim, NotifyLaneOwner, FailToNotify, Round
  <2> QED
    BY <1>1, <1>2, <2>1, <2>2, SharedParts
<1>7. CASE Skip(s) \/ Complete(s) \/ Release(s) \/ FailToClaim(s) \/ FailToRelease(s)
  <2>1. alerting[s].at # "none" /\ \E c : Proceed(s, c) \/ GiveUp(s, c)
    BY <1>7 DEF Skip, Complete, Release, FailToClaim, FailToRelease
  <2> QED
    BY <1>1, <1>4, <2>1
<1>8. CASE BreakAlerting(s)
  <2>1. alerting[s].at # "none" /\ Break(s) /\ alerting'[s].at = "none"
    BY <1>3, <1>8 DEF BreakAlerting
  <2> QED
    BY <1>1, <2>1, SharedParts
<1> QED
  BY <1>5, <1>6, <1>7, <1>8 DEF AlertingStep

LEMMA BookKeepsItsSlot ==
    ASSUME SharedTypeOK, BookTypeOK, Links, NEW s \in Slots, BookStep(s)
    PROVE  /\ SharedTypeOK'
           /\ handling[s] \in {"none", "change", "reload"}
           /\ \E h \in Handlers : handling' = [handling EXCEPT ![s] = h]
           /\ book'[s].at # "none" <=> handling'[s] \in {"change", "reload"}
           /\ handling'[s] \in {"none", "change", "reload"}
<1>1. book[s].at # "none" <=> handling[s] \in {"change", "reload"}
  BY DEF Links
<1>2. handling \in [Slots -> Handlers] /\ {"none", "change", "reload"} \subseteq Handlers
      /\ started \in Nat
  BY SlotAssumption DEF SharedTypeOK, Handlers
<1>3. ASSUME SharedTypeOK', handling' = handling, book[s].at # "none", book'[s].at # "none"
      PROVE  /\ \E h \in Handlers : handling' = [handling EXCEPT ![s] = h]
             /\ handling'[s] \in {"change", "reload"}
  <2>1. handling' = [handling EXCEPT ![s] = handling[s]] /\ handling[s] \in Handlers
    BY <1>2, <1>3
  <2> QED
    BY <1>1, <1>3, <2>1
<1>4. CASE Starting(s)
  <2>1. Begin(s, "change") \/ Begin(s, "reload")
    BY <1>4 DEF Starting, StartChange, StartReload
  <2>2. book'[s].at # "none"
    BY <1>2, <1>4, AfterStart DEF Starting
  <2> QED
    BY <1>2, <2>1, <2>2, SharedParts
<1>5. CASE WriteSubstance(s)
  <2>1. Continue /\ book[s].at # "none"
    BY <1>5 DEF WriteSubstance
  <2>2. book'[s].at # "none"
    BY <1>5, AfterWriteSubstance
  <2> QED
    BY <1>1, <1>3, <2>1, <2>2, SharedParts
<1>6. CASE SyncRuleSet(s)
  <2>1. Continue /\ book[s].at # "none"
    BY <1>6 DEF SyncRuleSet
  <2>2. book'[s].at # "none"
    <3>1. book'[s] = [[book[s] EXCEPT !.at = "upsert", !.version = FileVersion, !.rules = FileRules]
                         EXCEPT !.alone = \A u \in Slots \ {s} : ~InTransaction(u)]
      BY <1>6 DEF SyncRuleSet, Opening
    <3> QED
      BY <3>1 DEF BookTypeOK, Edit
  <2> QED
    BY <1>1, <1>3, <2>1, <2>2, SharedParts
<1>7. CASE Inner(s)
  <2>1. Continue /\ book[s].at # "none"
    BY <1>7 DEF Inner, ReadRuleSet, ReadSubstances, BumpRuleSet, UpsertSubstances
  <2>2. book'[s].at # "none"
    BY <1>7, AfterInnerStep DEF Inner
  <2> QED
    BY <1>1, <1>3, <2>1, <2>2, SharedParts
<1>8. CASE CommitRules(s)
  <2>1. book[s].at # "none"
    BY <1>8 DEF CommitRules
  <2>2. CASE book[s].op # "reload"
    <3>1. Continue /\ book'[s].at # "none"
      BY <1>8, <2>2, AfterCommitRules DEF CommitRules, EndOr
    <3> QED
      BY <1>1, <1>3, <2>1, <3>1, SharedParts
  <2>3. CASE book[s].op = "reload"
    <3>1. End(s) /\ book'[s].at = "none"
      BY <1>8, <2>3, AfterCommitRules DEF CommitRules, EndOr
    <3> QED
      BY <1>1, <1>2, <2>1, <3>1, SharedParts
  <2> QED
    BY <2>2, <2>3
<1>9. CASE Leaving(s)
  <2>1. book'[s].at = "none"
    BY <1>9, AfterLeaving, LeavingQuits
  <2>2. book[s].at # "none" /\ (End(s) \/ Break(s))
    BY <1>9 DEF Leaving, RefuseDuplicate, AbortDeadlocked, AnnounceChange, BreakBook
  <2> QED
    BY <1>1, <1>2, <2>1, <2>2, SharedParts
<1> QED
  BY <1>4, <1>5, <1>6, <1>7, <1>8, <1>9, BookSteps

-----------------------------------------------------------------------------
(* The invariant of the whole system *)

IInv == SharedTypeOK /\ Links /\ IngestionInv /\ AlertingInv /\ BookInv

LEMMA IInvLinks ==
    ASSUME IInv PROVE IngestionLink /\ AlertingLink /\ BookLink /\ started \in Nat
BY SlotAssumption DEF IInv, Links, IngestionLink, AlertingLink, BookLink, SharedTypeOK

LEMMA InitIInv ==
    ASSUME Init PROVE IInv
<1>1. SharedTypeOK
  <2>1. handling \in [Slots -> Handlers] /\ muted \in BOOLEAN
    BY DEF Init, SharedInit, Handlers
  <2>2. started \in 0 .. MaxRequests /\ faults \in 0 .. MaxFaults
    BY SlotAssumption DEF Init, SharedInit
  <2> QED
    BY <2>1, <2>2 DEF SharedTypeOK
<1>2. Links
  BY DEF Init, SharedInit, Links, IngestionInit, AlertingInit, BookInit, NoWork, NoRound, NoEdit
<1>3. IngestionInv /\ AlertingInv /\ BookInv
  BY IngestionInvInit, AlertingInvInit, BookInvInit DEF Init
<1> QED
  BY <1>1, <1>2, <1>3 DEF IInv

LEMMA IngestionStepKeeps ==
    ASSUME IInv, NEW s \in Slots, IngestionStep(s), UNCHANGED <<alertingVars, bookVars>>
    PROVE  IInv'
<1> USE DEF IInv
<1>1. IngestionLink /\ started \in Nat
  BY IInvLinks
<1>2. IngestionInv' /\ AlertingInv' /\ BookInv'
  BY <1>1, IngestionInvStep, AlertingInvStutter, BookInvStutter
<1>3. IngestionTypeOK
  BY DEF IngestionInv
<1>4. /\ SharedTypeOK' /\ handling[s] \in {"none", "ingest"}
      /\ handling' = [handling EXCEPT ![s] = IF ingestion'[s].at # "none" THEN "ingest" ELSE "none"]
  BY <1>3, IngestionKeepsItsSlot
<1>5. \A t \in Slots : t # s => ingestion'[t].at = ingestion[t].at
  BY <1>3, OthersKeepWork
<1>6. alerting' = alerting /\ book' = book
  BY DEF alertingVars, bookVars
<1>7. Links'
  BY <1>4, <1>5, <1>6 DEF Links, SharedTypeOK
<1> QED
  BY <1>2, <1>4, <1>7

LEMMA AlertingStepKeeps ==
    ASSUME IInv, NEW s \in Slots, AlertingStep(s), UNCHANGED <<ingestionVars, bookVars>>
    PROVE  IInv'
<1> USE DEF IInv
<1>1. AlertingLink
  BY IInvLinks
<1>2. IngestionInv' /\ AlertingInv' /\ BookInv'
  BY <1>1, AlertingInvStep, IngestionInvStutter, BookInvStutter
<1>3. AlertingTypeOK /\ RoundShape
  BY DEF AlertingInv
<1>4. /\ SharedTypeOK' /\ handling[s] \in {"none", "alert"}
      /\ handling' = [handling EXCEPT ![s] = IF alerting'[s].at # "none" THEN "alert" ELSE "none"]
  BY <1>3, AlertingKeepsItsSlot
<1>5. \A t \in Slots : t # s => alerting'[t] = alerting[t]
  BY <1>3, RoundsTyped
<1>6. ingestion' = ingestion /\ book' = book
  BY DEF ingestionVars, bookVars
<1>7. Links'
  BY <1>4, <1>5, <1>6 DEF Links, SharedTypeOK
<1> QED
  BY <1>2, <1>4, <1>7

LEMMA BookStepKeeps ==
    ASSUME IInv, NEW s \in Slots, BookStep(s), UNCHANGED <<ingestionVars, alertingVars>>
    PROVE  IInv'
<1> USE DEF IInv
<1>1. BookLink /\ started \in Nat
  BY IInvLinks
<1>2. IngestionInv' /\ AlertingInv' /\ BookInv'
  BY <1>1, BookInvStep, IngestionInvStutter, AlertingInvStutter
<1>3. BookTypeOK /\ OpsFit
  BY DEF BookInv
<1>4. /\ SharedTypeOK' /\ handling[s] \in {"none", "change", "reload"}
      /\ \E h \in Handlers : handling' = [handling EXCEPT ![s] = h]
      /\ book'[s].at # "none" <=> handling'[s] \in {"change", "reload"}
      /\ handling'[s] \in {"none", "change", "reload"}
  BY <1>3, BookKeepsItsSlot
<1>5. \A t \in Slots : t # s => book'[t].at = book[t].at /\ handling'[t] = handling[t]
  BY <1>1, <1>3, <1>4, OthersKeepEdits
<1>6. ingestion' = ingestion /\ alerting' = alerting
  BY DEF ingestionVars, alertingVars
<1>7. Links'
  BY <1>4, <1>5, <1>6 DEF Links
<1> QED
  BY <1>2, <1>4, <1>7

LEMMA NextIInv ==
    ASSUME IInv, [Next]_vars PROVE IInv'
<1>1. ASSUME UNCHANGED <<ingestionVars, bookVars>>, PassDays PROVE IInv'
  <2>1. IngestionInv' /\ AlertingInv' /\ BookInv'
    BY <1>1, AlertingInvPassDays, IngestionInvStutter, BookInvStutter DEF IInv
  <2>2. SharedTypeOK' /\ Links'
    BY <1>1 DEF IInv, PassDays, Continue, sharedVars, SharedTypeOK, Links, ingestionVars, bookVars
  <2> QED
    BY <2>1, <2>2 DEF IInv
<1>2. ASSUME UNCHANGED <<ingestionVars, alertingVars, bookVars>>,
             UpdatePreferences \/ UNCHANGED sharedVars
      PROVE  IInv'
  <2>1. IngestionInv' /\ AlertingInv' /\ BookInv'
    BY <1>2, AlertingInvStutter, IngestionInvStutter, BookInvStutter DEF IInv
  <2>2. SharedTypeOK'
    <3>1. CASE UpdatePreferences
      BY <3>1, SlotAssumption DEF IInv, UpdatePreferences, SharedTypeOK
    <3>2. CASE UNCHANGED sharedVars
      BY <3>2 DEF IInv, sharedVars, SharedTypeOK
    <3> QED
      BY <1>2, <3>1, <3>2
  <2>3. Links'
    BY <1>2 DEF IInv, UpdatePreferences, sharedVars, Links, ingestionVars, alertingVars, bookVars
  <2> QED
    BY <2>1, <2>2, <2>3 DEF IInv
<1> QED
  BY <1>1, <1>2, IngestionStepKeeps, AlertingStepKeeps, BookStepKeeps DEF Next, vars

\* In every reachable state the invariants of the three components hold, and a slot
\* does the work its handler says.
THEOREM Inductive ==
    Spec => []IInv
<1>1. Init => IInv
  BY InitIInv
<1>2. IInv /\ [Next]_vars => IInv'
  BY NextIInv
<1> QED
  BY <1>1, <1>2, PTL DEF Spec

\* TypeOK: what the tables and the requests under way hold has its type, and each slot
\* runs one handler of the three services.
THEOREM MonitoringTyped ==
    Spec => []TypeOK
<1>1. IInv => TypeOK
  BY DEF IInv, TypeOK, Links, IngestionInv, AlertingInv, BookInv
<1> QED
  BY <1>1, Inductive, PTL

\* CommitsAnnounced: an excursion or a rule change that is stored was announced, will
\* be, or lost its announcement to an error after the commit (notifyAboutNewExcursions,
\* notifyRuleChange).
THEOREM CommitsReallyAnnounced ==
    Spec => []CommitsAnnounced
<1>1. IInv => CommitsAnnounced
  BY ListsHandledAnnounced DEF IInv, BookInv, ChangesHeard, CommitsAnnounced
<1> QED
  BY <1>1, Inductive, PTL

\* DerivedTablesFollow: what replaceExcursions and bumpRuleVersionsForMarket derive is
\* right again after any one of them that no other overlapped.
THEOREM DerivedTablesReallyFollow ==
    Spec => []DerivedTablesFollow
<1>1. IInv => DerivedTablesFollow
  BY DEF IInv, IngestionInv, BookInv, DerivedTablesFollow
<1> QED
  BY <1>1, Inductive, PTL

\* BreachIsEarliest: the CASE of the lane's update keeps the earliest critical start,
\* whichever of two overlapping ingestions commits last.
THEOREM BreachReallyEarliest ==
    Spec => []BreachIsEarliest
<1>1. IInv => BreachIsEarliest
  BY DEF IInv, IngestionInv
<1> QED
  BY <1>1, Inductive, PTL

\* AlertsOnce: the unique row of claimCertificationAlertDelivery gives an alert to one
\* handler, which tells the owner once.
THEOREM AlertsReallyOnce ==
    Spec => []AlertsOnce
<1>1. IInv => AlertsOnce
  BY AlertsCounted DEF IInv
<1> QED
  BY <1>1, Inductive, PTL
===============================================================================
