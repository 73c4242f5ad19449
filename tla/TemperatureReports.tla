--------------------------- MODULE TemperatureReports ---------------------------
(***************************************************************************)
(* What is shown of a lane's temperatures: listLaneTemperatureData and     *)
(* getLaneTemperatureSlaReport of cold-chain.service.ts, over the tables   *)
(* that Ingestion fills.  What they return is checked at the end.          *)
(*                                                                         *)
(* Readings are [time, celsius, device], of which device is an option; an  *)
(* option is a set of at most one.  Means are hundredths of a degree, for  *)
(* readings above zero.                                                    *)
(***************************************************************************)
EXTENDS ColdChainChecks

\* getResolutionMinutes, in seconds
Bucket == [m5 |-> 300, m15 |-> 900, h1 |-> 3600]

\* downsampleReadings: one reading for each bucket that has one, at its beginning.  A
\* device is told only if all of the bucket that tell one tell the same.
Mean(celsius, count) == (200 * celsius + count) \div (2 * count)
Downsample(readings, size) ==
    {LET inside == {r \in readings : r.time \div size = b}
         devices == UNION {r.device : r \in inside}
     IN  [time |-> b * size,
          mean |-> Mean(MapThenSumSet(LAMBDA r : r.celsius, inside), Cardinality(inside)),
          device |-> IF Cardinality(devices) = 1 THEN devices ELSE {}] :
        b \in {r.time \div size : r \in readings}}
AtResolution(readings, resolution) ==
    IF resolution = "raw" THEN {[time |-> r.time, mean |-> 100 * r.celsius, device |-> r.device] : r \in readings}
    ELSE Downsample(readings, Bucket[resolution])

\* listTemperatureReadings, listLaneExcursions and filterCheckpointMarkers of a query
\* [from, to, resolution]: of an excursion that goes on the start stands for its end.
Within(query, t) == (\A d \in query.from : t >= d) /\ (\A d \in query.to : t <= d)
ReadingsIn(query, readings) == {r \in readings : Within(query, r.time)}
ExcursionsIn(query, rows) ==
    {e \in rows : /\ \A d \in query.from : (IF e.end = Null THEN e.start ELSE e.end) >= d
                  /\ \A d \in query.to : e.start <= d}
MarkersIn(query, checkpoints) == {c \in checkpoints : \E t \in c.time : Within(query, t)}

\* resolveSlaResolution: hours, for readings of more than a day.
Day == 86400
SlaResolution(query, readings) ==
    IF query.resolution # {} THEN CHOOSE r \in query.resolution : TRUE
    ELSE IF \E x, y \in readings : y.time - x.time > Day THEN "h1" ELSE "raw"

\* buildExcursionZones: what goes on is drawn up to the last reading shown.
Zones(query, rows, readings) ==
    LET last(e) == IF readings # {} THEN Final(readings).time
                   ELSE IF query.to # {} THEN CHOOSE d \in query.to : TRUE ELSE e.start
    IN  {[start |-> e.start, end |-> IF e.end = Null THEN last(e) ELSE e.end, severity |-> e.severity] :
            e \in rows}

\* listLaneTemperatureData (without markers and zones) and getLaneTemperatureSlaReport
\* with buildTemperatureChartData.
TemperatureData(p, query, readings, rows) ==
    LET shown == ReadingsIn(query, readings)
        resolution == IF query.resolution = {} THEN "raw" ELSE CHOOSE r \in query.resolution : TRUE
    IN  [readings |-> AtResolution(shown, resolution), total |-> Cardinality(shown),
         excursions |-> ExcursionsIn(query, rows), sla |-> Report(p, ExcursionsIn(query, rows))]
SlaReport(p, query, readings, rows, checkpoints) ==
    LET shown == ReadingsIn(query, readings)
    IN  [sla |-> Report(p, ExcursionsIn(query, rows)),
         chart |-> AtResolution(shown, SlaResolution(query, shown)),
         markers |-> MarkersIn(query, checkpoints),
         zones |-> Zones(query, ExcursionsIn(query, rows), shown)]

-----------------------------------------------------------------------------
(* Checks *)

Of(R, device) == {[time |-> r.time, celsius |-> r.celsius, device |-> device] : r \in R}
Whole == [from |-> {}, to |-> {}, resolution |-> {}]
Shown(R, query) == TemperatureData(Durian, query, Of(R, {"d1"}), Detect(Durian, 20, R))

\* A coarser picture has no more points, none outside of the temperatures it stands for and
\* none later than the readings, and its points are those of the readings' buckets.
ASSUME PicturesStayInside ==
    \A R \in Series : \A size \in Range(Bucket) :
        LET points == Downsample(Of(R, {"d1"}), size)
        IN  /\ Cardinality(points) = Cardinality({r.time \div size : r \in R})
            /\ \A x \in points :
                /\ \E r \in R : 100 * r.celsius <= x.mean
                /\ \E r \in R : 100 * r.celsius >= x.mean
                /\ \E r \in R : x.time <= r.time /\ r.time < x.time + size
                /\ x.device = {"d1"}

\* A mean may hide an excursion from the curve, but never from the report: that is made of
\* the excursions stored, at every resolution.
ASSUME ReportsIgnoreTheResolution ==
    \A R \in Series, resolution \in {"raw", "m5", "m15", "h1"} :
        Shown(R, [Whole EXCEPT !.resolution = {resolution}]).sla = Shown(R, Whole).sla
ASSUME \E R \in Series :
    /\ Detect(Durian, 20, R) # {}
    /\ \A x \in Downsample(Of(R, {}), 3600) : 1200 <= x.mean /\ x.mean <= 1500

\* An excursion that has ended is in the report of every window it overlaps.  One that goes
\* on is so only for windows that begin at its start or before: the report of a later
\* window passes the lane although its last reading is out of the band.
ASSUME OngoingExcursionsLeaveTheWindow ==
    /\ \A R \in Series, from \in Instants : \A e \in Detect(Durian, 20, R) :
        e \in Shown(R, [Whole EXCEPT !.from = {from}]).excursions
            <=> IF e.end = Null THEN e.start >= from ELSE e.end >= from
    /\ \E R \in Series, from \in Instants :
        LET data == Shown(R, [Whole EXCEPT !.from = {from}])
        IN  data.readings # {} /\ data.sla.status = "PASS" /\ Outside(Final(R))

\* Zones lie in order, start where their excursion does and never end before it, and the
\* one that goes on reaches the last reading shown.
ASSUME ZonesAreTimely ==
    \A R \in Series, to \in {{}} \cup {{t} : t \in Instants} :
        LET report == SlaReport(Durian, [Whole EXCEPT !.to = to], Of(R, {}), Detect(Durian, 20, R),
                                {[time |-> {}], [time |-> {1200}]})
        IN  /\ \A z \in report.zones : z.start <= z.end
            /\ \A z, other \in report.zones : z.start < other.start => z.end <= other.start
            /\ Cardinality(report.markers) = (IF \A d \in to : d >= 1200 THEN 1 ELSE 0)

\* Two devices in one bucket are not told apart, and a day's readings and one second more
\* are shown by the hour.
ASSUME DevicesAndDays ==
    /\ \A x \in Downsample(Of({[time |-> 0, celsius |-> 9]}, {"d1"})
                            \cup Of({[time |-> 60, celsius |-> 10]}, {"d2"}), 300) :
          x.device = {} /\ x.mean = 950
    /\ \A t \in {Day, Day + 1} :
          SlaResolution(Whole, {[time |-> 0], [time |-> t]}) = (IF t > Day THEN "h1" ELSE "raw")
=================================================================================
