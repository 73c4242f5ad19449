----------------------------- MODULE MCMonitoring ------------------------------
(* Instances of Monitoring for TLC; the rules of ColdChain are checked first. *)
EXTENDS Monitoring, TemperatureReports, Delivery

CONSTANTS s1, s2, expiring, undated, listed, unlisted

\* A durian lane read every 20 minutes: too cold, fine, too cold, too warm.
MCReadings == {[time |-> 0, celsius |-> 9], [time |-> 1200, celsius |-> 13],
               [time |-> 2400, celsius |-> 9], [time |-> 3600, celsius |-> 16]}
At(times) == {r \in MCReadings : r.time \in times}
\* The last batch splits the excursion the first two make together, and ends it.
MCBatches == {At({0}), At({2400}), At({1200, 3600})}

DetectedIn == [R \in SUBSET MCReadings |->
    {[start |-> e.start, end |-> e.end, severity |-> e.severity, direction |-> e.direction] :
        e \in Detect(Durian, 20, R)}]
MCDetected(R) == DetectedIn[R]

MCExpiry == [c \in Certs |-> IF c = undated THEN NoExpiry ELSE 20]
MCFileRules == [n \in Names |-> IF n = listed THEN 9 ELSE Absent]

\* Slots are alike.
Symmetry == Permutations(Slots)
===============================================================================
