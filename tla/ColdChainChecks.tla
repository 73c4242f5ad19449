---------------------------- MODULE ColdChainChecks ----------------------------
(***************************************************************************)
(* What the operators of ColdChain compute, against definitions that do    *)
(* not share their loop, over every small set of readings.  TLC evaluates  *)
(* the assumptions at the start of the run that extends this module.       *)
(***************************************************************************)
EXTENDS ColdChain

Durian == Profiles.DURIAN
Instants == {0, 1200, 2400, 10200}
Degrees == {9, 11, 13, 17}

\* Every series with at most one reading at an instant.
Series == {{[time |-> t, celsius |-> f[t]] : t \in DOMAIN f} :
             f \in UNION {[T -> Degrees] : T \in SUBSET Instants}}

Outside(r) == Direction(Durian, r.celsius) # "none"
Between(r, x, y) == r.time > x.time /\ r.time < y.time

\* Two readings of R belong to one excursion: they, and all readings between them,
\* are out of the band on one side.
Together(R, x, y) ==
    \A r \in R : r \in {x, y} \/ Between(r, x, y) \/ Between(r, y, x) =>
        Direction(Durian, r.celsius) = Direction(Durian, x.celsius)
RunOf(R, x) == {y \in R : Together(R, x, y)}
Runs(R) == {RunOf(R, x) : x \in {r \in R : Outside(r)}}

First(S) == CHOOSE x \in S : \A y \in S : x.time <= y.time
Final(S) == CHOOSE x \in S : \A y \in S : x.time >= y.time
After(R, x) == {r \in R : r.time > x.time}
\* How long a run lasts: to the next reading, or one cadence when there is none.
Lasts(R, S) ==
    IF After(R, Final(S)) = {} THEN (Final(S).time - First(S).time) \div 60 + 20
    ELSE (First(After(R, Final(S))).time - First(S).time) \div 60
Described(R, S) ==
    [start |-> First(S).time,
     end |-> IF After(R, Final(S)) = {} THEN Null ELSE First(After(R, Final(S))).time,
     direction |-> Direction(Durian, First(S).celsius),
     minutes |-> Lasts(R, S),
     deviation |-> CHOOSE d \in {Deviation(Durian, r.celsius) : r \in S} :
                     \A r \in S : Deviation(Durian, r.celsius) <= d,
     severity |-> IF \E r \in S : r.celsius < 10 THEN "CRITICAL"
                  ELSE Severity(LET D == {Deviation(Durian, r.celsius) : r \in S}
                                IN  CHOOSE d \in D : \A e \in D : e <= d, Lasts(R, S))]

\* The loop finds the maximal runs of readings out of the band on one side: an
\* excursion starts at its first reading, ends at the reading that follows its last
\* one, is ongoing when none follows, and its minutes are the time between.
ASSUME DetectFindsTheRuns ==
    \A R \in Series : Detect(Durian, 20, R) = {Described(R, S) : S \in Runs(R)}

\* A reading more never hides a critical one.
ASSUME CriticalStays ==
    \A R \in Series : \A r \in R :
        (\E e \in Detect(Durian, 20, R \ {r}) : e.severity = "CRITICAL")
            => \E e \in Detect(Durian, 20, R) : e.severity = "CRITICAL"

\* The report passes exactly the lanes without excursion, and one excursion more
\* never makes the status, the score or the shelf life better.
Worse == [PASS |-> 0, CONDITIONAL |-> 1, FAIL |-> 2]
ASSUME ReportOnlyWorsens ==
    \A R \in Series :
        LET rows == Detect(Durian, 20, R)
            whole == Report(Durian, rows)
        IN  /\ whole.status = "PASS" <=> rows = {}
            /\ whole.score + whole.impact = 100
            /\ \A e \in rows :
                  LET part == Report(Durian, rows \ {e})
                  IN  /\ Worse[part.status] <= Worse[whole.status]
                      /\ part.score >= whole.score /\ part.days >= whole.days

\* A configuration that was accepted is accepted again as it is (an update of a lane
\* validates the stored one), and a device that reports has a cadence of a minute or more.
ASSUME ConfigurationIsStable ==
    \A mode \in {"MANUAL", "LOGGER", "TELEMETRY"}, device \in {"none", "d1"},
       frequency \in {Null, 0, 1, 29, 30, 60, 61, 299, 300, 900, 901} :
        LET config == Configuration(mode, device, frequency)
        IN  config # Refused =>
              /\ Configuration(config.mode, config.device, config.frequency) = config
              /\ config.mode # "MANUAL" => Cadence(config) >= 1

\* Each sample is rounded to minutes before they are added up: of a device that
\* reports every 20 seconds no sample counts, and of one that reports every 30
\* seconds each counts twice.
Every(seconds, n) == {[time |-> seconds * i, celsius |-> 16] : i \in 1 .. n}
ASSUME RoundingIsPerSample ==
    \A n \in 1 .. 12 : /\ \A e \in Detect(Durian, 1, Every(20, n)) : e.minutes = 1
                       /\ \A e \in Detect(Durian, 1, Every(30, n)) : e.minutes = n
===============================================================================
