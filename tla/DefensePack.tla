------------------------------ MODULE DefensePack ------------------------------
(***************************************************************************)
(* What a dispute keeps and what its defense pack shows:                   *)
(* dispute.service.ts, dispute.pg-store.ts and dispute-timeline.service.ts. *)
(* The transition of the lane is LaneLifecycle's, the pack is              *)
(* ProofPackJobs', the pool is LaneCreation's.  What they return is        *)
(* checked at the end.                                                     *)
(*                                                                         *)
(* Times are numbers, Null is none.                                        *)
(***************************************************************************)
EXTENDS LaneRecords

-----------------------------------------------------------------------------
(* Disputes: [status, notes, pack, resolved] *)

Disputed == {"CLOSED", "CLAIM_DEFENSE"}
Opened == [status |-> "OPEN", notes |-> "none", pack |-> "none", resolved |-> Null]

\* createDispute: the row is rolled back with whatever fails, the lane's transition is not.
CreateDispute(lane, fails) ==
    IF lane \notin Disputed THEN [lane |-> lane, dispute |-> {}]
    ELSE [lane |-> IF fails = "insert" THEN lane ELSE "CLAIM_DEFENSE",
          dispute |-> IF fails = "none" THEN {Opened} ELSE {}]

\* updateDispute of the store: from any status to any, input is [status, notes].
UpdateDispute(row, input, now) ==
    [row EXCEPT !.status = IF input.status = {} THEN @ ELSE The(input.status),
                !.notes = IF input.notes = {} THEN @ ELSE The(input.notes),
                !.resolved = IF input.status = {"RESOLVED"} THEN now ELSE @]

\* linkDefensePack does not look at the status the dispute has by then.
LinkDefensePack(row, pack) == [row EXCEPT !.pack = pack, !.status = "DEFENSE_SUBMITTED"]

\* assertDisputeAccess
MayUpdate(role, owns) == role \in {"ADMIN", "AUDITOR"} \/ (role # "PARTNER" /\ owns)

-----------------------------------------------------------------------------
(* The timeline of a defense pack *)

\* mapLaneTimelineEvent; event: [at, kind, taken], of which a checkpoint shows the time it
\* was taken, if it has one.
Category(kind) ==
    CASE kind = "lane" -> "LANE_STATUS" [] kind = "checkpoint" -> "CHECKPOINT"
      [] kind = "artifact" -> "ARTIFACT" [] OTHER -> "AUDIT"
Mapped(event) ==
    [time |-> IF event.kind = "checkpoint" /\ event.taken # Null THEN event.taken ELSE event.at,
     category |-> Category(event.kind)]

\* reconstructTimelineFromLaneTimeline: events, readings shown and excursions, by time and
\* else in this order (sort is stable).
Timeline(events, readings, excursions) ==
    LET all == [i \in DOMAIN events |-> Mapped(events[i])]
               \o [i \in DOMAIN readings |-> [time |-> readings[i].time, category |-> "TEMPERATURE"]]
               \o [i \in DOMAIN excursions |-> [time |-> excursions[i].start, category |-> "EXCURSION"]]
        before(i, j) == all[i].time < all[j].time \/ (all[i].time = all[j].time /\ i < j)
    IN  [n \in DOMAIN all |-> all[CHOOSE j \in DOMAIN all :
            Cardinality({i \in DOMAIN all : before(i, j)}) = n - 1]]

\* sampleChartPoints: 12 of them, evenly by index; Math.round of a half goes up.
Points == 12
SampleIndices(n) ==
    IF n <= Points THEN [i \in 1 .. n |-> i]
    ELSE [i \in 1 .. Points |-> 1 + (2 * (i - 1) * (n - 1) + Points - 1) \div (2 * (Points - 1))]

\* resolveChartBounds, toHeightPercent
Bounds(low, high, values) ==
    LET floor == CHOOSE v \in values \cup {low} : \A w \in values \cup {low} : v <= w
        ceiling == CHOOSE v \in values \cup {high} : \A w \in values \cup {high} : v >= w
    IN  IF floor = ceiling THEN <<floor - 1, ceiling + 1>> ELSE <<floor, ceiling>>
Height(value, bounds) ==
    LET span == bounds[2] - bounds[1]
    IN  (200 * (value - bounds[1]) + span) \div (2 * span)

\* buildVisualEvidence: the photos among the events, verified with time and place.
VisualEvidence(events) ==
    LET photos == SelectSeq(events, LAMBDA e : e.kind = "artifact" /\ e.type = "CHECKPOINT_PHOTO")
    IN  [i \in DOMAIN photos |->
            [time |-> IF photos[i].captured = {} THEN photos[i].at ELSE The(photos[i].captured),
             exif |-> IF photos[i].captured # {} /\ photos[i].gps THEN "VERIFIED" ELSE "PARTIAL"]]

\* buildTemperatureNarrative
Narrative(readings, excursions) ==
    IF readings = << >> THEN "no telemetry" ELSE IF excursions = << >> THEN "within" ELSE "excursions"

-----------------------------------------------------------------------------
(* Checks *)

DisputeStatuses == {"OPEN", "INVESTIGATING", "DEFENSE_SUBMITTED", "RESOLVED"}
Steps == {<<"link", {}>>} \cup {<<"update", s>> : s \in {{}} \cup {{x} : x \in DisputeStatuses}}
Taken(row, step, now) ==
    IF step[1] = "link" THEN LinkDefensePack(row, "pack")
    ELSE UpdateDispute(row, [status |-> step[2], notes |-> {}], now)
Runs(n) == [1 .. n -> Steps]
Row(run) == FoldLeft(LAMBDA row, i : Taken(row, run[i], i), Opened, [i \in DOMAIN run |-> i])

\* A dispute has been resolved at the latest update that says so, and only then; it may
\* have been opened again since, by a defense pack among others.
ASSUME ResolvedWhenUpdated ==
    \A run \in Runs(3) :
        LET resolutions == {i \in 1 .. 3 : run[i] = <<"update", {"RESOLVED"}>>}
            row == Row(run)
        IN  /\ IF resolutions = {} THEN row.resolved = Null
               ELSE row.resolved \in resolutions /\ \A i \in resolutions : i <= row.resolved
            /\ row.status = "RESOLVED" => row.resolved # Null
            /\ row.pack # "none" <=> \E i \in 1 .. 3 : run[i] = <<"link", {}>>
ASSUME ReopenedByPack ==
    \E run \in Runs(2) : Row(run).status = "DEFENSE_SUBMITTED" /\ Row(run).resolved # Null

\* After a dispute that failed half way another one may be created: the lane stays or has
\* moved to CLAIM_DEFENSE, where disputes are created too.
ASSUME DisputesMayBeRepeated ==
    \A lane \in {"PACKED", "CLOSED", "CLAIM_DEFENSE", "ARCHIVED"}, fails \in {"insert", "entry"} :
        LET first == CreateDispute(lane, fails)
        IN  CreateDispute(first.lane, "none") = CreateDispute(lane, "none")

\* The readings shown begin with the first and end with the last, in order, none twice.
ASSUME SampleKeepsEnds ==
    \A n \in 1 .. 150 :
        LET shown == SampleIndices(n)
        IN  /\ shown[1] = 1 /\ shown[Len(shown)] = n
            /\ \A i \in 2 .. Len(shown) : shown[i - 1] < shown[i]

\* Whatever was measured, its bar has a height between nothing and all.
ASSUME HeightsFit ==
    \A low \in 8 .. 12, high \in 12 .. 15, values \in SUBSET (5 .. 18) :
        Cardinality(values) \in 1 .. 2 =>
            \A v \in values : Height(v, Bounds(low, high, values)) \in 0 .. 100

\* The timeline has every event once, in the order of their times; a checkpoint stands
\* where it was taken, before or after its own entry.
TimelineEvents == [at : 1 .. 3, kind : {"lane", "checkpoint"}, taken : {Null, 2}]
ASSUME TimelineIsComplete ==
    \A a, b \in TimelineEvents, reading \in 1 .. 3, start \in 1 .. 3 :
        LET line == Timeline(<<a, b>>, <<[time |-> reading]>>, <<[start |-> start]>>)
            of(category) == SelectSeq(line, LAMBDA e : e.category = category)
        IN  /\ \A i \in 2 .. 4 : line[i - 1].time <= line[i].time
            /\ ToSet(of("TEMPERATURE")) = {[time |-> reading, category |-> "TEMPERATURE"]}
            /\ ToSet(of("EXCURSION")) = {[time |-> start, category |-> "EXCURSION"]}
            /\ Len(of("CHECKPOINT")) = Cardinality({i \in 1 .. 2 : <<a, b>>[i].kind = "checkpoint"})
            /\ reading = start => IndexFirstSubSeq(of("TEMPERATURE"), line)
                                    < IndexFirstSubSeq(of("EXCURSION"), line)
===============================================================================
