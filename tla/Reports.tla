-------------------------------- MODULE Reports --------------------------------
(***************************************************************************)
(* The reports over all lanes: analytics.service.ts and                    *)
(* analytics.pg-store.ts, mrv-lite.controller.ts, mrv-lite.service.ts,     *)
(* mrv-lite.pg-store.ts and mrv-lite.constants.ts.  What they return is    *)
(* checked at the end.                                                     *)
(*                                                                         *)
(* Emission factors are whole hundredths of kg CO2e per kg, quantities     *)
(* tenths of a kg, masses of CO2e hundredths of a kg, so thousandths       *)
(* before they are rounded.  An optional value is a set of at most one.    *)
(***************************************************************************)
EXTENDS Integers, Sequences, FiniteSetsExt, SequencesExt

\* Math.round and the cast of a numeric to int, of a ratio that is not negative.
Rounded(a, b) == (2 * a + b) \div (2 * b)
Share(part, whole) == IF whole = 0 THEN 0 ELSE Rounded(100 * part, whole)
Least(m, n) == IF m <= n THEN m ELSE n
Most(m, n) == IF m >= n THEN m ELSE n
Total(f(_), rows) == MapThenSumSet(f, rows)
Completeness(l) == l.score
Average(rows) == IF rows = {} THEN 0 ELSE Rounded(Total(Completeness, rows), Cardinality(rows))

-----------------------------------------------------------------------------
(* Analytics; an actor is [id, role] *)

\* SCOPED_ROLES: a partner is asked for lanes of its own, as an exporter is.
Scope(actor, lanes) ==
    IF actor.role \in {"EXPORTER", "PARTNER"} THEN {l \in lanes : l.exporter = actor.id} ELSE lanes
ReadyToShip(lanes) == Cardinality({l \in lanes : l.status \in {"VALIDATED", "PACKED", "CLOSED"}})

\* getOverview of the lanes created in from .. to.
Overview(actor, lanes, from, to) ==
    LET shown == {l \in Scope(actor, lanes) : (\A d \in from : l.created >= d)
                                              /\ (\A d \in to : l.created <= d)}
    IN  [totalLanes |-> Cardinality(shown), avgCompleteness |-> Average(shown),
         readyToShip |-> ReadyToShip(shown),
         coldChainCount |-> Cardinality({l \in shown : l.mode # "none"}),
         marketsServed |-> Cardinality({l.market : l \in shown}),
         productsCovered |-> Cardinality({l.product : l \in shown})]

\* getRejectionTrend; period: day -> its day, week or month.  What counts as rejected is
\* the lane's status of today.
RejectionTrend(actor, lanes, product, market, period) ==
    LET shown == {l \in Scope(actor, lanes) : product \subseteq {l.product} /\ market \subseteq {l.market}}
        In(p) == {l \in shown : period[l.created] = p}
        Rejected(p) == {l \in In(p) : l.status = "INCOMPLETE"}
    IN  [p \in {period[l.created] : l \in shown} |->
            [rejections |-> Cardinality(Rejected(p)), lanes |-> Cardinality(In(p)),
             rate |-> Share(Cardinality(Rejected(p)), Cardinality(In(p)))]]

\* getCompletenessDistribution: the brackets that are not empty.
Bracket(score) == IF score < 25 THEN 0 ELSE IF score < 50 THEN 25 ELSE IF score < 75 THEN 50 ELSE 75
Distribution(actor, lanes) ==
    LET shown == Scope(actor, lanes)
        In(b) == Cardinality({l \in shown : Bracket(l.score) = b})
    IN  [b \in {Bracket(l.score) : l \in shown} |->
            [count |-> In(b), percentage |-> Share(In(b), Cardinality(shown))]]

\* getExcursionHeatmap; an excursion is [id, lane, severity].
LaneAt(lanes, x) == CHOOSE l \in lanes : l.id = x.lane
Heatmap(actor, lanes, excursions) ==
    LET shown == {x \in excursions : LaneAt(lanes, x) \in Scope(actor, lanes)}
        Cell(x) == <<LaneAt(lanes, x).product, x.severity>>
    IN  [cell \in {Cell(x) : x \in shown} |-> Cardinality({x \in shown : Cell(x) = cell})]

\* getExporterLeaderboard: every list it may answer, for the order of equals is open.  A
\* limit that is no positive number is ignored.
Entry(exporter, lanes) ==
    LET own == {l \in lanes : l.exporter = exporter}
    IN  [exporter |-> exporter, laneCount |-> Cardinality(own),
         avgCompleteness |-> Average(own), readyToShip |-> ReadyToShip(own)]
Limit(asked) == IF \E n \in asked : n > 0 THEN Least(CHOOSE n \in asked : TRUE, 100) ELSE 10
Leaderboards(actor, lanes, sort, asked) ==
    LET shown == Scope(actor, lanes)
        entries == {Entry(l.exporter, shown) : l \in shown}
        field == IF sort \in {"laneCount", "readyToShip"} THEN sort ELSE "avgCompleteness"
    IN  {SubSeq(list, 1, Least(Limit(asked), Len(list))) :
            list \in {s \in SetToSeqs(entries) :
                         \A i, j \in DOMAIN s : i < j => s[i][field] >= s[j][field]}}

-----------------------------------------------------------------------------
(* MRV-lite: rows are lanes with their batch, route, evidence and disputes. *)

DefaultFactor == 150

\* resolveEmissionFactors, findEmissionFactor: one factor in the table replaces all those
\* of the program.
Factors(stored, builtIn) == IF stored # << >> THEN stored ELSE builtIn
Transport(row) == IF row.transport = {} THEN "UNKNOWN" ELSE CHOOSE t \in row.transport : TRUE
Factor(factors, row) ==
    LET found == SelectInSeq(factors, LAMBDA f : f.product = row.product /\ f.market = row.market
                                                   /\ f.transport = Transport(row))
    IN  IF found = 0 THEN DefaultFactor ELSE factors[found].co2e

\* getLaneEsgCard (carbon) and aggregateCarbonRows
Emitted(factors, row) == Factor(factors, row) * row.quantity
Carbon(factors, rows) ==
    LET emitted == Total(LAMBDA r : Emitted(factors, r), rows)
        quantity == Total(LAMBDA r : r.quantity, rows)
    IN  [total |-> Rounded(emitted, 10), avg |-> IF quantity > 0 THEN Rounded(emitted, quantity) ELSE 0]

\* estimateWasteEvents and aggregateWasteRows; a dispute has a type and may be
\* resolved.
OfType(row, type) == Cardinality({d \in row.disputes : d.type = type})
Rejection(row) == IF row.status = "INCOMPLETE" THEN 1 ELSE 0
WasteEvents(row) ==
    Rejection(row) + Most(Cardinality({d \in row.disputes : ~d.resolved}),
                          OfType(row, "GRADE_DISPUTE") + OfType(row, "CARGO_DAMAGE"))
Waste(rows) ==
    [rejected |-> Total(Rejection, rows), disputes |-> Total(LAMBDA r : Cardinality(r.disputes), rows),
     downgrades |-> Total(LAMBDA r : OfType(r, "GRADE_DISPUTE"), rows),
     damages |-> Total(LAMBDA r : OfType(r, "CARGO_DAMAGE"), rows),
     events |-> Total(WasteEvents, rows)]

\* countDistinct leaves out the empty province of a lane without a batch.
Distinct(values) == Cardinality(values \ {""})

\* getExporterReport and getPlatformReport of the rows of a period; every artifact counts,
\* deleted or not.
EsgReport(rows, factors) ==
    [carbon |-> Carbon(factors, rows), lanes |-> Cardinality(rows),
     exporters |-> Distinct({r.exporter : r \in rows}),
     provinces |-> Distinct({r.province : r \in rows}),
     products |-> Distinct({r.product : r \in rows}), waste |-> Waste(rows),
     completeness |-> Average(rows), evidence |-> Total(LAMBDA r : r.evidence, rows)]

\* What the store reads, and the routes: an exporter may ask for itself only, everybody
\* else for any exporter.
ExporterRows(rows, exporter, quarter, year) ==
    {r \in rows : r.exporter = exporter /\ r.year = year /\ r.quarter = quarter}
PlatformRows(rows, year) == {r \in rows : r.year = year}
LaneRow(rows, id) == {r \in rows : r.id = id}
Quarter(asked) == IF \E q \in asked : q # 0 THEN Most(1, Least(4, CHOOSE q \in asked : TRUE)) ELSE 1
ExporterReport(actor, exporter, asked, year, rows, factors) ==
    IF actor.role = "EXPORTER" /\ actor.id # exporter THEN {}
    ELSE {EsgReport(ExporterRows(rows, exporter, Quarter(asked), year), factors)}
PlatformReport(actor, year, rows, factors) ==
    IF actor.role # "ADMIN" THEN {} ELSE {EsgReport(PlatformRows(rows, year), factors)}

\* getLaneEsgCard
LaneCard(rows, id, factors) ==
    {[perKg |-> Factor(factors, r), total |-> Rounded(Emitted(factors, r), 10),
      rejected |-> r.status = "INCOMPLETE", disputes |-> Cardinality(r.disputes),
      events |-> WasteEvents(r), completeness |-> r.score, evidence |-> r.evidence] :
        r \in LaneRow(rows, id)}

-----------------------------------------------------------------------------
(* Checks *)

Shown(id, exporter, product, status, score, month) ==
    [id |-> id, exporter |-> exporter, product |-> product, status |-> status, score |-> score,
     created |-> month, market |-> "JAPAN", mode |-> "none"]
Fleet == {Shown(1, "e1", "MANGO", "VALIDATED", 96, 1), Shown(2, "e1", "MANGO", "INCOMPLETE", 20, 1),
          Shown(3, "e2", "DURIAN", "CREATED", 25, 1), Shown(4, "e2", "MANGO", "PACKED", 95, 2),
          Shown(5, "e3", "DURIAN", "CLOSED", 100, 2)}
Exporters == {l.exporter : l \in Fleet}
Found == {[id |-> 1, lane |-> 1, severity |-> "MINOR"], [id |-> 2, lane |-> 4, severity |-> "MINOR"],
          [id |-> 3, lane |-> 5, severity |-> "CRITICAL"]}
Admin == [id |-> "a", role |-> "ADMIN"]
As(exporter) == [id |-> exporter, role |-> "EXPORTER"]

\* What an exporter is shown depends on its own lanes only: the administrator's report of
\* those, whatever the others ship.
ASSUME ExportersSeeTheirOwn ==
    \A lanes \in SUBSET Fleet, e \in Exporters :
        LET own == {l \in lanes : l.exporter = e}
            month == [d \in 1 .. 2 |-> d]
        IN  /\ Overview(As(e), lanes, {}, {}) = Overview(As(e), own, {}, {})
            /\ RejectionTrend(As(e), lanes, {}, {}, month) = RejectionTrend(Admin, own, {}, {}, month)
            /\ Distribution(As(e), lanes) = Distribution(Admin, own)
            /\ Leaderboards(As(e), lanes, "laneCount", {}) = {<<Entry(e, own)>> : l \in own}
                                                            \cup (IF own = {} THEN {<< >>} ELSE {})
            /\ \A kind \in {"EXPORTER", "PARTNER"} :
                   Overview([id |-> "p", role |-> kind], lanes, {}, {}).totalLanes = 0

\* The reports of the exporters add up to the one of an administrator, and the brackets
\* and periods to all lanes; the percentages need not add up to 100.
ASSUME ReportsAddUp ==
    /\ \A lanes \in SUBSET Fleet :
        LET month == [d \in 1 .. 2 |-> d]
            all == Overview(Admin, lanes, {}, {})
            each(f(_)) == Total(LAMBDA e : f(Overview(As(e), lanes, {}, {})), Exporters)
            trend == RejectionTrend(Admin, lanes, {}, {}, month)
            spread == Distribution(Admin, lanes)
        IN  /\ each(LAMBDA o : o.totalLanes) = all.totalLanes
            /\ each(LAMBDA o : o.readyToShip) = all.readyToShip
            /\ Total(LAMBDA p : trend[p].lanes, DOMAIN trend) = Cardinality(lanes)
            /\ Total(LAMBDA b : spread[b].count, DOMAIN spread) = Cardinality(lanes)
            /\ \A l \in lanes : trend[l.created].rejections <= trend[l.created].lanes
    /\ LET three == Distribution(Admin, {Shown(i, "e1", "MANGO", "CREATED", 30 * i, 1) : i \in 0 .. 2})
       IN  Total(LAMBDA b : three[b].percentage, DOMAIN three) = 99
    /\ LET cells == Heatmap(Admin, Fleet, Found)
       IN  /\ Total(LAMBDA c : cells[c], DOMAIN cells) = Cardinality(Found)
           /\ cells[<<"MANGO", "MINOR">>] = 2
           /\ Heatmap(As("e2"), Fleet, Found) = [c \in {<<"MANGO", "MINOR">>} |-> 1]

\* A lane of the boundary counts for the upper bracket; a mean is rounded half up; the
\* list of equals may come in any order and is cut at the limit, which may hide any of
\* them.
ASSUME Boundaries ==
    /\ Bracket(24) = 0 /\ Bracket(25) = 25 /\ Bracket(75) = 75
    /\ Overview(Admin, {l \in Fleet : l.id \in {1, 4}}, {}, {}).avgCompleteness = 96
    /\ Overview(Admin, {}, {}, {}).avgCompleteness = 0
    /\ Limit({}) = 10 /\ Limit({0}) = 10 /\ Limit({500}) = 100
    /\ {[i \in DOMAIN b |-> b[i].exporter] : b \in Leaderboards(Admin, Fleet, "laneCount", {2})}
         = {<<"e1", "e2">>, <<"e2", "e1">>}
    /\ {[i \in DOMAIN b |-> b[i].exporter] : b \in Leaderboards(Admin, Fleet, "unknown", {1})}
         = {<<"e3">>}
    /\ Quarter({0}) = 1 /\ Quarter({-2}) = 1 /\ Quarter({7}) = 4

BuiltIn == <<[product |-> "MANGO", market |-> "JAPAN", transport |-> "AIR", co2e |-> 230],
             [product |-> "MANGO", market |-> "JAPAN", transport |-> "SEA", co2e |-> 110]>>
Stored == <<[product |-> "DURIAN", market |-> "CHINA", transport |-> "SEA", co2e |-> 50]>>
Freight(id, exporter, transport, quantity, status, disputes) ==
    [id |-> id, exporter |-> exporter, product |-> "MANGO", market |-> "JAPAN", year |-> 2026,
     quarter |-> 1, transport |-> transport, quantity |-> quantity, status |-> status, score |-> 50,
     province |-> IF quantity = 0 THEN "" ELSE "Rayong", evidence |-> 2, disputes |-> disputes]
Settled == [type |-> "GRADE_DISPUTE", resolved |-> TRUE]
Damage == [type |-> "CARGO_DAMAGE", resolved |-> FALSE]
Rejected == [type |-> "REJECTION", resolved |-> FALSE]
Loads == {Freight(1, "e1", {"AIR"}, 1000, "CLOSED", {}), Freight(2, "e1", {"SEA"}, 25, "INCOMPLETE", {Settled}),
          Freight(3, "e2", {}, 3, "CREATED", {Damage, Rejected}), Freight(4, "e2", {"AIR"}, 0, "CREATED", {})}

\* A lane without a known route is taken to emit the default; so is every lane that the
\* table does not list, once the table lists anything.
ASSUME UnknownRoutesEmitTheDefault ==
    /\ \A r \in Loads : r.transport = {} => Factor(BuiltIn, r) = DefaultFactor
    /\ \A r \in Loads : Factor(Factors(Stored, BuiltIn), r) = DefaultFactor
    /\ \A r \in Loads : r.transport = {"AIR"} => Factor(Factors(<< >>, BuiltIn), r) = 230

\* The mean emission of a report is one of a kilogram: it lies between the factors of its
\* lanes, and lanes without a batch do not move it.
ASSUME MeansLieBetween ==
    \A rows \in SUBSET Loads :
        LET carbon == Carbon(BuiltIn, rows)
            used == {Factor(BuiltIn, r) : r \in {x \in rows : x.quantity > 0}}
        IN  /\ carbon.avg = Carbon(BuiltIn, {r \in rows : r.quantity > 0}).avg
            /\ used # {} => (\E f \in used : f <= carbon.avg) /\ (\E f \in used : f >= carbon.avg)
            /\ used = {} => carbon.avg = 0

\* Waste: a resolved dispute about the grade or damage counts all the same, another one
\* only until it is resolved, and no dispute counts twice; waste of a sum of exporters is
\* the sum of their waste.
ASSUME WasteIsCountedOnce ==
    /\ \A r \in Loads : WasteEvents(r) <= Cardinality(r.disputes) + 1
    /\ WasteEvents(Freight(9, "e", {}, 1, "CLOSED", {[Rejected EXCEPT !.resolved = TRUE]})) = 0
    /\ WasteEvents(Freight(9, "e", {}, 1, "CLOSED", {Settled})) = 1
    /\ \A e \in {"e1", "e2"}, asked \in {{}, {0}, {1}} :
        \A report \in ExporterReport(As(e), e, asked, 2026, Loads, BuiltIn) :
            /\ report.exporters = 1 /\ report.provinces = 1
            /\ report.waste.events = Total(WasteEvents, {r \in Loads : r.exporter = e})
    /\ LET one(e) == CHOOSE x \in ExporterReport(Admin, e, {1}, 2026, Loads, BuiltIn) : TRUE
       IN  \A all \in PlatformReport(Admin, 2026, Loads, BuiltIn) :
               all.waste.events = one("e1").waste.events + one("e2").waste.events
    /\ \A r \in Loads : \A card \in LaneCard(Loads, r.id, BuiltIn) :
           /\ {card.perKg} = {Factor(BuiltIn, x) : x \in LaneRow(Loads, r.id)}
           /\ card.total = Carbon(BuiltIn, {r}).total /\ card.events = Waste({r}).events
    /\ ExporterReport(As("e1"), "e2", {1}, 2026, Loads, BuiltIn) = {}
    /\ PlatformReport(As("e1"), 2026, Loads, BuiltIn) = {}
================================================================================
