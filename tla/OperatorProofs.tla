----------------------------- MODULE OperatorProofs -----------------------------
(***************************************************************************)
(* Theorems about the operator modules, for all their inputs: the score of *)
(* a lane, the risk of a limit, the analysis of a file, configurations and *)
(* severity of the cold chain, the chart of a defense pack and who is      *)
(* shown what by the reports.  TLC evaluates most of them over small       *)
(* inputs where the operators are defined.  Sums, products and loops over  *)
(* data of any size are not in here: they are recursive definitions.       *)
(***************************************************************************)
EXTENDS RuleFiles, FiniteSetTheorems, TLAPS

Cold == INSTANCE ColdChain
Packs == INSTANCE DefensePack
Fleet == INSTANCE Reports

-----------------------------------------------------------------------------
(* Rounded quotients *)

\* A larger dividend has no smaller quotient; \div rounds down.
LEMMA QuotientGrows ==
    ASSUME NEW a \in Nat, NEW b \in Nat, a <= b, NEW m \in Nat \ {0}
    PROVE  a \div m <= b \div m
<1>1. a = m * (a \div m) + (a % m) /\ a % m \in 0 .. m - 1 /\ a \div m \in Nat
  OBVIOUS
<1>2. b = m * (b \div m) + (b % m) /\ b % m \in 0 .. m - 1 /\ b \div m \in Nat
  OBVIOUS
<1> DEFINE p == a \div m
           q == b \div m
<1>3. SUFFICES ASSUME p >= q + 1 PROVE FALSE
  BY <1>1, <1>2
<1>4. m * p >= m * (q + 1)
  BY <1>1, <1>2, <1>3
<1> QED
  BY <1>1, <1>2, <1>4

\* toFixed(2) of the ratio reaches a bound k where the exact ratio reaches k less a half.
LEMMA RatioReaches ==
    ASSUME NEW thai \in Nat, NEW limit \in Nat \ {0}, NEW k \in {200, 500, 1000}
    PROVE  Ratio(thai, limit) >= k <=> 200 * thai >= (2 * k - 1) * limit
<1> DEFINE a == 200 * thai + limit
           m == 2 * limit
           q == a \div m
<1>1. a = m * q + (a % m) /\ a % m \in 0 .. m - 1 /\ q \in Nat
  OBVIOUS
<1>2. q >= k => m * q >= m * k
  BY <1>1
<1>3. q < k => m * (q + 1) <= m * k
  BY <1>1
<1> QED
  BY <1>1, <1>2, <1>3 DEF Ratio

\* A stricter limit is never a lower risk, for all limits: rounding a ratio to hundredths
\* (a half goes up) moves both ratios the same way.
THEOREM StricterLimitsAreRiskier ==
    ASSUME NEW thai \in Nat, NEW limit \in Nat \ {0}, NEW stricter \in Nat \ {0}, stricter <= limit
    PROVE  Severe[Risk(Ratio(thai, limit))] <= Severe[Risk(Ratio(thai, stricter))]
<1>1. \A k \in {200, 500, 1000} : Ratio(thai, limit) >= k => Ratio(thai, stricter) >= k
  BY RatioReaches
<1> QED
  BY <1>1 DEF Risk, Severe

-----------------------------------------------------------------------------
(* The completeness score *)

\* More present documents make no share of a category smaller.
LEMMA SharesGrow ==
    ASSUME NEW documents, IsFiniteSet(documents), NEW S, NEW T, S \subseteq T, NEW c \in Categories
    PROVE  /\ Share(c, documents, T)[2] = Share(c, documents, S)[2]
           /\ Share(c, documents, S)[2] \in Nat \ {0}
           /\ Share(c, documents, S)[1] \in Nat /\ Share(c, documents, T)[1] \in Nat
           /\ Share(c, documents, S)[1] <= Share(c, documents, T)[1]
           /\ Share(c, documents, T)[1] <= Share(c, documents, T)[2]
<1> DEFINE L == {d \in documents : CategoryOf(d) = c}
<1>1. IsFiniteSet(L)
  BY FS_Subset
<1>2. CASE L = {}
  BY <1>2 DEF Share
<1>3. CASE L # {}
  <2>1. Cardinality(L) \in Nat /\ Cardinality(L) # 0
    BY <1>1, <1>3, FS_CardinalityType, FS_EmptySet
  <2>2. IsFiniteSet(L \cap T) /\ Cardinality(L \cap T) \in Nat /\ Cardinality(L \cap T) <= Cardinality(L)
    BY <1>1, FS_Subset, FS_CardinalityType
  <2>3. L \cap S \subseteq L \cap T
    OBVIOUS
  <2>4. Cardinality(L \cap S) \in Nat /\ Cardinality(L \cap S) <= Cardinality(L \cap T)
    BY <2>2, <2>3, FS_Subset, FS_CardinalityType
  <2>5. /\ Share(c, documents, S) = <<Cardinality(L \cap S), Cardinality(L)>>
        /\ Share(c, documents, T) = <<Cardinality(L \cap T), Cardinality(L)>>
    BY <1>3 DEF Share
  <2> QED
    BY <2>1, <2>2, <2>4, <2>5
<1> QED
  BY <1>2, <1>3

\* What a category counts, over a common denominator.
LEMMA PartsGrow ==
    ASSUME NEW w \in Nat, NEW m \in Nat, NEW n \in Nat, m <= n, NEW k \in Nat
    PROVE  w * m * k \in Nat /\ w * n * k \in Nat /\ w * m * k <= w * n * k
<1>1. w * m \in Nat /\ w * n \in Nat /\ w * m <= w * n
  OBVIOUS
<1> QED
  BY <1>1

\* Over the common denominator of both scores each category counts at least as much.
LEMMA ScoresGrow ==
    ASSUME NEW weights \in [Categories -> Nat], NEW documents, IsFiniteSet(documents),
           NEW S, NEW T, S \subseteq T
    PROVE  /\ Score(weights, documents, S).rounded \in Nat
           /\ Score(weights, documents, T).rounded \in Nat
           /\ Score(weights, documents, S).rounded <= Score(weights, documents, T).rounded
<1> DEFINE of(c) == Share(c, documents, S)[2]
           m(c) == Share(c, documents, S)[1]
           n(c) == Share(c, documents, T)[1]
           all == of("REGULATORY") * of("QUALITY") * of("COLD_CHAIN") * of("CHAIN_OF_CUSTODY")
           less(c) == weights[c] * m(c) * (all \div of(c))
           more(c) == weights[c] * n(c) * (all \div of(c))
           low == less("REGULATORY") + less("QUALITY") + less("COLD_CHAIN") + less("CHAIN_OF_CUSTODY")
           high == more("REGULATORY") + more("QUALITY") + more("COLD_CHAIN") + more("CHAIN_OF_CUSTODY")
<1>1. \A c \in Categories : /\ of(c) \in Nat \ {0} /\ m(c) \in Nat /\ n(c) \in Nat /\ m(c) <= n(c)
                            /\ Share(c, documents, T)[2] = of(c)
  BY SharesGrow
<1>2. {"REGULATORY", "QUALITY", "COLD_CHAIN", "CHAIN_OF_CUSTODY"} = Categories
  BY DEF Categories
<1>3. all \in Nat \ {0}
  <2> HIDE DEF of
  <2>1. \A a, b \in Nat \ {0} : a * b \in Nat \ {0}
    OBVIOUS
  <2>2. /\ of("REGULATORY") \in Nat \ {0} /\ of("QUALITY") \in Nat \ {0}
        /\ of("COLD_CHAIN") \in Nat \ {0} /\ of("CHAIN_OF_CUSTODY") \in Nat \ {0}
    BY <1>1, <1>2
  <2> QED
    BY <2>1, <2>2
<1>4. \A c \in Categories : less(c) \in Nat /\ more(c) \in Nat /\ less(c) <= more(c)
  <2> SUFFICES ASSUME NEW c \in Categories
               PROVE  less(c) \in Nat /\ more(c) \in Nat /\ less(c) <= more(c)
    OBVIOUS
  <2> HIDE DEF of, m, n, all
  <2>1. all \div of(c) \in Nat
    BY <1>1, <1>3
  <2>2. weights[c] \in Nat
    OBVIOUS
  <2> QED
    BY <1>1, <2>1, <2>2, PartsGrow
<1>5. 2 * low + all \in Nat /\ 2 * high + all \in Nat /\ 2 * low + all <= 2 * high + all /\ 2 * all \in Nat \ {0}
  <2> HIDE DEF less, more, all
  <2> QED
    BY <1>2, <1>3, <1>4
<1>6. /\ (2 * low + all) \div (2 * all) <= (2 * high + all) \div (2 * all)
      /\ (2 * low + all) \div (2 * all) \in Nat /\ (2 * high + all) \div (2 * all) \in Nat
  <2> HIDE DEF low, high, all
  <2> QED
    BY <1>5, QuotientGrows
<1>7. Score(weights, documents, S).rounded = (2 * low + all) \div (2 * all)
  BY DEF Score
<1>8. Score(weights, documents, T).rounded = (2 * high + all) \div (2 * all)
  <2>1. \A c \in Categories : Share(c, documents, T)[2] = of(c)
    BY <1>1
  <2> QED
    BY <1>2, <2>1 DEF Score
<1> QED
  BY <1>6, <1>7, <1>8

\* A document more never costs a point, whatever the weights and the documents required,
\* when halves go up as Math.round has it.
THEOREM DocumentsNeverCost ==
    ASSUME NEW weights \in [Categories -> Nat], NEW documents, IsFiniteSet(documents),
           NEW S, NEW T, S \subseteq T
    PROVE  Score(weights, documents, S).rounded <= Score(weights, documents, T).rounded
BY ScoresGrow

LEMMA ExactQuotient ==
    ASSUME NEW a \in Nat \ {0}, NEW b \in Nat PROVE (a * b) \div a = b
<1> DEFINE q == (a * b) \div a
<1>1. a * b \in Nat
  OBVIOUS
<1>2. a * b = a * q + ((a * b) % a) /\ (a * b) % a \in 0 .. a - 1 /\ q \in Nat
  BY <1>1
<1> HIDE DEF q
<1>3. ~(q >= b + 1)
  <2>1. q >= b + 1 => a * q >= a * b + a
    BY <1>2
  <2> QED
    BY <1>1, <1>2, <2>1
<1>4. ~(q + 1 <= b)
  <2>1. q + 1 <= b => a * q + a <= a * b
    BY <1>2
  <2> QED
    BY <1>1, <1>2, <2>1
<1>5. q = b
  BY <1>2, <1>3, <1>4
<1> QED
  BY <1>5 DEF q

\* With every document present the score is the sum of the weights, 100 for the weights
\* of every rule file, and it is never more.
THEOREM CompleteLanesScoreFully ==
    ASSUME NEW weights \in [Categories -> Nat], NEW documents, IsFiniteSet(documents), NEW present
    PROVE  LET whole == weights["REGULATORY"] + weights["QUALITY"] + weights["COLD_CHAIN"]
                        + weights["CHAIN_OF_CUSTODY"]
           IN  /\ documents \subseteq present => Score(weights, documents, present).rounded = whole
               /\ Score(weights, documents, present).rounded <= whole
<1> DEFINE whole == weights["REGULATORY"] + weights["QUALITY"] + weights["COLD_CHAIN"]
                    + weights["CHAIN_OF_CUSTODY"]
<1>1. ASSUME NEW T, documents \subseteq T PROVE Score(weights, documents, T).rounded = whole
  <2> DEFINE of(c) == Share(c, documents, T)[2]
             n(c) == Share(c, documents, T)[1]
             all == of("REGULATORY") * of("QUALITY") * of("COLD_CHAIN") * of("CHAIN_OF_CUSTODY")
             part(c) == weights[c] * n(c) * (all \div of(c))
             sum == part("REGULATORY") + part("QUALITY") + part("COLD_CHAIN") + part("CHAIN_OF_CUSTODY")
  <2>1. ASSUME NEW c \in Categories PROVE n(c) = of(c) /\ of(c) \in Nat \ {0} /\ weights[c] \in Nat
    <3> DEFINE L == {d \in documents : CategoryOf(d) = c}
    <3>1. L \cap T = L
      BY <1>1
    <3>2. n(c) = of(c)
      <4>1. CASE L = {}
        BY <4>1 DEF Share
      <4>2. CASE L # {}
        BY <3>1, <4>2 DEF Share
      <4> QED
        BY <4>1, <4>2
    <3>3. of(c) \in Nat \ {0}
      BY <2>1, SharesGrow
    <3> QED
      BY <2>1, <3>2, <3>3
  <2>2. {"REGULATORY", "QUALITY", "COLD_CHAIN", "CHAIN_OF_CUSTODY"} = Categories
    BY DEF Categories
  <2>3. all \in Nat \ {0} /\ \A c \in Categories : of(c) * (all \div of(c)) = all
    <3> DEFINE a == of("REGULATORY")
               b == of("QUALITY")
               c == of("COLD_CHAIN")
               d == of("CHAIN_OF_CUSTODY")
    <3>1. a \in Nat \ {0} /\ b \in Nat \ {0} /\ c \in Nat \ {0} /\ d \in Nat \ {0}
      BY <2>1, <2>2
    <3>2. all = a * b * c * d
      OBVIOUS
    <3>3. /\ all \in Nat \ {0}
          /\ a * (all \div a) = all /\ b * (all \div b) = all
          /\ c * (all \div c) = all /\ d * (all \div d) = all
      <4> HIDE DEF a, b, c, d, all
      <4>1. \A x, y \in Nat \ {0} : x * y \in Nat \ {0} /\ x * y = y * x
        OBVIOUS
      <4>2. /\ all = a * (b * c * d) /\ all = b * (a * c * d)
            /\ all = c * (a * b * d) /\ all = d * (a * b * c)
        BY <3>1, <3>2
      <4>3. /\ b * c * d \in Nat \ {0} /\ a * c * d \in Nat \ {0}
            /\ a * b * d \in Nat \ {0} /\ a * b * c \in Nat \ {0}
        BY <3>1, <4>1
      <4> QED
        BY <3>1, <4>1, <4>2, <4>3, ExactQuotient
    <3> HIDE DEF all
    <3> QED
      BY <2>2, <3>3
  <2>4. \A c \in Categories : part(c) = weights[c] * all
    <3> SUFFICES ASSUME NEW c \in Categories PROVE part(c) = weights[c] * all
      OBVIOUS
    <3>1. n(c) = of(c) /\ of(c) \in Nat /\ weights[c] \in Nat /\ of(c) * (all \div of(c)) = all
      BY <2>1, <2>3
    <3>2. all \div of(c) \in Nat
      BY <2>1, <2>3
    <3> HIDE DEF of, n, all
    <3> QED
      BY <3>1, <3>2
  <2>5. sum = whole * all /\ whole \in Nat
    <3> HIDE DEF part, all
    <3> QED
      BY <2>1, <2>2, <2>3, <2>4
  <2>6. (2 * sum + all) \div (2 * all) = whole
    <3> HIDE DEF sum, whole, all
    <3> DEFINE q == (2 * sum + all) \div (2 * all)
               rest == (2 * sum + all) % (2 * all)
    <3>1. 2 * sum = (2 * all) * whole /\ 2 * sum \in Nat /\ 2 * all \in Nat \ {0}
      BY <2>3, <2>5
    <3>2. 2 * sum + all = (2 * all) * q + rest /\ rest \in 0 .. 2 * all - 1 /\ q \in Nat
      BY <2>3, <3>1
    <3> HIDE DEF q, rest
    <3>3. q >= whole + 1 => (2 * all) * q >= (2 * all) * whole + 2 * all
      BY <2>5, <3>1, <3>2
    <3>4. q + 1 <= whole => (2 * all) * q + 2 * all <= (2 * all) * whole
      BY <2>5, <3>1, <3>2
    <3>5. q = whole
      BY <2>3, <2>5, <3>1, <3>2, <3>3, <3>4
    <3> QED
      BY <3>5 DEF q
  <2>7. Score(weights, documents, T).rounded = (2 * sum + all) \div (2 * all)
    BY DEF Score
  <2> QED
    BY <2>6, <2>7
<1>2. Score(weights, documents, present).rounded <= Score(weights, documents, present \cup documents).rounded
  BY DocumentsNeverCost
<1> QED
  BY <1>1, <1>2

\* The sets of present documents that reach a threshold are closed upwards: what
\* LaneLifecycle assumes of Sufficient holds of every rule file.
THEOREM SufficientSetsAreClosedUpwards ==
    ASSUME NEW weights \in [Categories -> Nat], NEW documents, IsFiniteSet(documents),
           NEW threshold \in Nat
    PROVE  LET enough == {S \in SUBSET documents : Score(weights, documents, S).rounded >= threshold}
           IN  \A S \in enough : \A T \in SUBSET documents : S \subseteq T => T \in enough
<1> SUFFICES ASSUME NEW S \in SUBSET documents, Score(weights, documents, S).rounded >= threshold,
                    NEW T \in SUBSET documents, S \subseteq T
             PROVE  Score(weights, documents, T).rounded >= threshold
  OBVIOUS
<1>1. Score(weights, documents, S).rounded <= Score(weights, documents, T).rounded
  BY DocumentsNeverCost
<1>2. Score(weights, documents, S).rounded \in Nat /\ Score(weights, documents, T).rounded \in Nat
  BY ScoresGrow
<1> QED
  BY <1>1, <1>2

-----------------------------------------------------------------------------
(* Rules, analyses and configurations *)

\* Whatever substance a rule file is accepted with, only a numeric limit above nothing is
\* rated, and every one is that has a Thai limit to compare with: no ratio divides by zero.
THEOREM BuiltSubstancesAreRated ==
    ASSUME NEW substance, substance.limit \in Int, ~Refuses(substance)
    PROVE  /\ Built(substance).risk # None
                <=> substance.thai # {} /\ Built(substance).kind = "NUMERIC"
           /\ Built(substance).risk # None => substance.limit > 0
BY DEF Refuses, Built, Rated, Risk, None

\* A directory stays behind only where ocrmypdf ran on a PDF and failed, and such an
\* analysis is an error.
THEOREM LeaksComeFromErrors ==
    ASSUME NEW tools, NEW broken, NEW hasRules \in BOOLEAN, NEW hasObject \in BOOLEAN, NEW pdf \in BOOLEAN,
           Outcome(tools, broken, hasRules, hasObject, pdf).leaked
    PROVE  /\ Outcome(tools, broken, hasRules, hasObject, pdf).result = "ERROR"
           /\ pdf /\ "ocrmypdf" \in tools \cap broken
BY DEF Outcome

\* A configuration that was accepted is accepted again as it is, whatever its frequency,
\* and a device that reports has a cadence of a minute or more.
THEOREM AcceptedConfigurationsStay ==
    ASSUME NEW mode \in {"MANUAL", "LOGGER", "TELEMETRY"}, NEW device, NEW frequency \in Int,
           Cold!Configuration(mode, device, frequency) # Cold!Refused
    PROVE  LET config == Cold!Configuration(mode, device, frequency)
           IN  /\ Cold!Configuration(config.mode, config.device, config.frequency) = config
               /\ config.mode # "MANUAL" => config.device # "none" /\ Cold!Cadence(config) >= 1
<1>1. CASE mode = "MANUAL"
  BY <1>1 DEF Cold!Configuration
<1>2. CASE mode # "MANUAL"
  <2>1. /\ Cold!Configuration(mode, device, frequency)
             = [mode |-> mode, device |-> device, frequency |-> frequency]
        /\ device # "none" /\ frequency > 0
    BY <1>2 DEF Cold!Configuration
  <2>2. (frequency + 30) \div 60 \in Int
    OBVIOUS
  <2> QED
    BY <1>2, <2>1, <2>2 DEF Cold!Cadence, Cold!AtLeast, Cold!Minutes, Cold!Null
<1> QED
  BY <1>1, <1>2

\* A longer excursion, or one further out of the band, is never less severe.
THEOREM WorseExcursionsAreNotMilder ==
    ASSUME NEW d \in Int, NEW e \in Int, d <= e, NEW m \in Int, NEW n \in Int, m <= n
    PROVE  Cold!Impact[Cold!Severity(d, m)] <= Cold!Impact[Cold!Severity(e, n)]
BY DEF Cold!Impact, Cold!Severity

-----------------------------------------------------------------------------
(* The chart of a defense pack *)

LEMMA Rounding ==
    ASSUME NEW a \in Nat, NEW k \in Nat
    PROVE  /\ (22 * k + 11) \div 22 = k
           /\ a >= 22 * k => a \div 22 >= k
           /\ (a + 22) \div 22 = a \div 22 + 1
OBVIOUS

\* Of any number of readings the chart shows the first and the last, in order and none
\* twice.
THEOREM ChartsKeepTheEnds ==
    ASSUME NEW n \in Nat \ {0}
    PROVE  LET shown == Packs!SampleIndices(n)
           IN  /\ DOMAIN shown = 1 .. Cold!AtMost(n, 12)
               /\ shown[1] = 1 /\ shown[Cold!AtMost(n, 12)] = n
               /\ \A i \in 2 .. Cold!AtMost(n, 12) : shown[i - 1] < shown[i] /\ shown[i] \in 1 .. n
<1>1. CASE n <= 12
  BY <1>1 DEF Packs!SampleIndices, Packs!Points, Cold!AtMost
<1>2. CASE n > 12
  <2> DEFINE a(i) == 2 * (i - 1) * (n - 1) + 11
  <2>1. Cold!AtMost(n, 12) = 12
    BY <1>2 DEF Cold!AtMost
  <2>2. Packs!SampleIndices(n) = [i \in 1 .. 12 |-> 1 + a(i) \div 22]
    BY <1>2 DEF Packs!SampleIndices, Packs!Points
  <2>3. a(1) \div 22 = 0 /\ a(12) \div 22 = n - 1
    <3>1. a(1) = 22 * 0 + 11 /\ a(12) = 22 * (n - 1) + 11 /\ n - 1 \in Nat
      OBVIOUS
    <3> QED
      BY <3>1, Rounding
  <2>4. ASSUME NEW i \in 2 .. 12
        PROVE  a(i - 1) \div 22 + 1 <= a(i) \div 22 /\ a(i) \div 22 \in 0 .. n - 1
    <3>1. a(i - 1) \in Nat /\ a(i) \in Nat /\ a(i) >= a(i - 1) + 22 /\ a(i) <= a(12) /\ a(12) \in Nat
      <4>1. i \in Nat /\ i - 2 \in Nat /\ i - 1 \in Nat /\ n - 1 \in Nat /\ n - 1 >= 12
        BY <1>2
      <4>2. (i - 2) * (n - 1) \in Nat /\ (i - 1) * (n - 1) = (i - 2) * (n - 1) + (n - 1)
        BY <4>1
      <4>3. (i - 1) * (n - 1) <= 11 * (n - 1)
        BY <4>1
      <4> QED
        BY <4>1, <4>2, <4>3
    <3>2. (a(i - 1) + 22) \div 22 = a(i - 1) \div 22 + 1
      BY <3>1, Rounding
    <3>3. (a(i - 1) + 22) \div 22 <= a(i) \div 22 /\ a(i) \div 22 <= a(12) \div 22
      BY <3>1, QuotientGrows
    <3>4. a(i) \div 22 \in Nat
      BY <3>1
    <3> QED
      BY <2>3, <3>2, <3>3, <3>4
  <2> QED
    BY <2>1, <2>2, <2>3, <2>4
<1> QED
  BY <1>1, <1>2

-----------------------------------------------------------------------------
(* Reports and partners *)

Own(actor, lanes) == {l \in lanes : l.exporter = actor.id}

\* What an exporter or a partner is shown depends on its own lanes only: where two fleets
\* agree on those, every report does, whatever the others ship.  Lanes have ids of their
\* own, and an excursion is one of a lane.
THEOREM ReportsDependOnOwnLanes ==
    ASSUME NEW actor, actor.role \in {"EXPORTER", "PARTNER"},
           NEW lanes, NEW others, Own(actor, lanes) = Own(actor, others),
           \A l, m \in lanes \cup others : l.id = m.id => l = m,
           NEW excursions,
           \A x \in excursions : /\ \E l \in lanes : l.id = x.lane
                                  /\ \E m \in others : m.id = x.lane
    PROVE  /\ \A from, to : Fleet!Overview(actor, lanes, from, to) = Fleet!Overview(actor, others, from, to)
           /\ \A product, market, period :
                  Fleet!RejectionTrend(actor, lanes, product, market, period)
                      = Fleet!RejectionTrend(actor, others, product, market, period)
           /\ Fleet!Distribution(actor, lanes) = Fleet!Distribution(actor, others)
           /\ Fleet!Heatmap(actor, lanes, excursions) = Fleet!Heatmap(actor, others, excursions)
           /\ \A sort, asked :
                  Fleet!Leaderboards(actor, lanes, sort, asked) = Fleet!Leaderboards(actor, others, sort, asked)
<1>1. Fleet!Scope(actor, lanes) = Fleet!Scope(actor, others)
  BY DEF Fleet!Scope, Own
<1>2. \A from, to : Fleet!Overview(actor, lanes, from, to) = Fleet!Overview(actor, others, from, to)
  BY <1>1, Zenon DEF Fleet!Overview
<1>3. \A product, market, period :
          Fleet!RejectionTrend(actor, lanes, product, market, period)
              = Fleet!RejectionTrend(actor, others, product, market, period)
  BY <1>1 DEF Fleet!RejectionTrend
<1>4. Fleet!Distribution(actor, lanes) = Fleet!Distribution(actor, others)
  BY <1>1, Zenon DEF Fleet!Distribution
<1>5. \A sort, asked :
          Fleet!Leaderboards(actor, lanes, sort, asked) = Fleet!Leaderboards(actor, others, sort, asked)
  BY <1>1, Zenon DEF Fleet!Leaderboards
<1>6. Fleet!Heatmap(actor, lanes, excursions) = Fleet!Heatmap(actor, others, excursions)
  <2>1. ASSUME NEW x \in excursions PROVE Fleet!LaneAt(lanes, x) = Fleet!LaneAt(others, x)
    <3>1. Fleet!LaneAt(lanes, x) \in lanes /\ Fleet!LaneAt(lanes, x).id = x.lane
      BY DEF Fleet!LaneAt
    <3>2. Fleet!LaneAt(others, x) \in others /\ Fleet!LaneAt(others, x).id = x.lane
      BY DEF Fleet!LaneAt
    <3> QED
      BY <3>1, <3>2
  <2> QED
    BY <1>1, <2>1 DEF Fleet!Heatmap
<1> QED
  BY <1>2, <1>3, <1>4, <1>5, <1>6

\* The same of the MRV-lite reports: those of an exporter are made of its own lanes, and
\* that of the platform is for administrators.
THEOREM EsgReportsDependOnOwnLanes ==
    ASSUME NEW actor, actor.role = "EXPORTER",
           NEW rows, NEW others, Own(actor, rows) = Own(actor, others)
    PROVE  /\ \A exporter, asked, year, factors :
                  Fleet!ExporterReport(actor, exporter, asked, year, rows, factors)
                      = Fleet!ExporterReport(actor, exporter, asked, year, others, factors)
           /\ \A year, factors : Fleet!PlatformReport(actor, year, rows, factors) = {}
<1>1. \A exporter, quarter, year : actor.id = exporter =>
          Fleet!ExporterRows(rows, exporter, quarter, year) = Fleet!ExporterRows(others, exporter, quarter, year)
  BY DEF Fleet!ExporterRows, Own
<1>2. \A exporter, asked, year, factors :
          Fleet!ExporterReport(actor, exporter, asked, year, rows, factors)
              = Fleet!ExporterReport(actor, exporter, asked, year, others, factors)
  BY <1>1 DEF Fleet!ExporterReport
<1> QED
  BY <1>2 DEF Fleet!PlatformReport
===============================================================================
