------------------------------- MODULE ColdChain -------------------------------
(***************************************************************************)
(* The cold-chain rules of modules/cold-chain/cold-chain.service.ts as     *)
(* operators: how readings become excursions, how bad an excursion is,     *)
(* what is left of the shelf life, and which logger configurations a lane  *)
(* may have.  Timestamps are seconds, temperatures whole degrees.          *)
(***************************************************************************)
EXTENDS Integers, FiniteSets, SequencesExt

\* null of a timestamp, a threshold or a frequency.
Null == -1

Profiles == [
    MANGO      |-> [low |-> 10, high |-> 13, chilling |-> 10, days |-> 21],
    DURIAN     |-> [low |-> 12, high |-> 15, chilling |-> 10, days |-> 14],
    MANGOSTEEN |-> [low |-> 10, high |-> 13, chilling |-> 8, days |-> 21],
    LONGAN     |-> [low |-> 2, high |-> 5, chilling |-> Null, days |-> 30]]

Grades == <<"MINOR", "MODERATE", "SEVERE", "CRITICAL">>
Impact == [MINOR |-> 5, MODERATE |-> 12, SEVERE |-> 25, CRITICAL |-> 100]

AtLeast(m, n) == IF m >= n THEN m ELSE n
AtMost(m, n) == IF m <= n THEN m ELSE n

\* Math.round(seconds / 60), a half goes up.
Minutes(seconds) == (seconds + 30) \div 60

-----------------------------------------------------------------------------
(* Lane configuration *)

Refused == [mode |-> "REFUSED", device |-> "none", frequency |-> Null]

\* validateLaneConfiguration; a device is "none" when its id is missing or blank.
Configuration(mode, device, frequency) ==
    IF mode = "MANUAL" THEN [mode |-> "MANUAL", device |-> "none", frequency |-> Null]
    ELSE IF \/ device = "none" \/ frequency <= 0
            \/ mode = "LOGGER" /\ frequency \notin 300 .. 900
            \/ mode = "TELEMETRY" /\ frequency > 60
         THEN Refused
         ELSE [mode |-> mode, device |-> device, frequency |-> frequency]

\* resolveCadenceMinutes
Cadence(config) ==
    IF config.frequency = Null THEN Null ELSE AtLeast(1, Minutes(config.frequency))

-----------------------------------------------------------------------------
(* Excursions *)

\* classifyExcursionReading: only a reading too cold can be critical.
Direction(p, celsius) ==
    IF celsius > p.high THEN "HIGH" ELSE IF celsius < p.low THEN "LOW" ELSE "none"
Deviation(p, celsius) == IF celsius > p.high THEN celsius - p.high ELSE p.low - celsius
Critical(p, celsius) ==
    Direction(p, celsius) = "LOW" /\ p.chilling # Null /\ celsius < p.chilling

\* The readings by recorded_at; no two of a set are of one instant.
InOrder(readings) ==
    [i \in 1 .. Cardinality(readings) |->
        CHOOSE r \in readings : Cardinality({x \in readings : x.time < r.time}) = i - 1]

\* resolveSampleDurationMinutes of the i-th of the readings in order.
SampleMinutes(seq, i, cadence) ==
    IF i < Len(seq) THEN Minutes(seq[i + 1].time - seq[i].time)
    ELSE IF cadence # Null THEN cadence
    ELSE IF i > 1 THEN Minutes(seq[i].time - seq[i - 1].time)
    ELSE 0

\* resolveSeverity, CRITICAL aside
Severity(deviation, minutes) ==
    IF deviation >= 3 \/ minutes > 120 THEN "SEVERE"
    ELSE IF deviation >= 2 \/ minutes > 30 THEN "MODERATE"
    ELSE "MINOR"

\* finalizeExcursion
Finalize(run, end) ==
    [start |-> run.start, end |-> end, direction |-> run.direction, minutes |-> run.minutes,
     deviation |-> run.deviation,
     severity |-> IF run.critical THEN "CRITICAL" ELSE Severity(run.deviation, run.minutes)]

\* The loop of detectExcursionsSync.  open: the accumulator, at most one; a reading
\* in the band, or on its other side, closes it where its last sample ends.
Detect(p, cadence, readings) ==
    LET seq == InOrder(readings)
        Closed(run) == Finalize(run, run.last + 60 * run.lastMinutes)
        Sample(i) == [start |-> seq[i].time, last |-> seq[i].time,
                      direction |-> Direction(p, seq[i].celsius),
                      deviation |-> Deviation(p, seq[i].celsius),
                      critical |-> Critical(p, seq[i].celsius),
                      minutes |-> SampleMinutes(seq, i, cadence),
                      lastMinutes |-> SampleMinutes(seq, i, cadence)]
        Longer(run, x) == [x EXCEPT !.start = run.start,
                                    !.deviation = AtLeast(run.deviation, @),
                                    !.critical = run.critical \/ @,
                                    !.minutes = run.minutes + @]
        Take(state, i) ==
            LET x == Sample(i)
                same == {run \in state.open : run.direction = x.direction}
                done == state.done \cup {Closed(run) : run \in state.open \ same}
            IN  IF x.direction = "none" THEN [open |-> {}, done |-> done]
                ELSE IF same = {} THEN [open |-> {x}, done |-> done]
                ELSE [open |-> {Longer(run, x) : run \in same}, done |-> done]
        final == FoldLeftDomain(Take, [open |-> {}, done |-> {}], seq)
    IN  final.done \cup {Finalize(run, Null) : run \in final.open}

-----------------------------------------------------------------------------
(* Shelf life *)

\* calculateShelfLifeImpactSync; rows: the excursions of a lane, a row twice counts twice.
Report(p, rows) ==
    LET impact == AtMost(100, MapThenSumSet(LAMBDA r : Impact[r.severity], rows))
    IN  [status |-> IF rows = {} THEN "PASS"
                    ELSE IF \E r \in rows : r.severity \in {"SEVERE", "CRITICAL"} THEN "FAIL"
                    ELSE "CONDITIONAL",
         score |-> AtLeast(0, 100 - impact),
         impact |-> impact,
         days |-> (2 * p.days * (100 - impact) + 100) \div 200,
         minutes |-> MapThenSumSet(LAMBDA r : r.minutes, rows)]
===============================================================================
