------------------------------- MODULE RuleFiles -------------------------------
(***************************************************************************)
(* From the files under rules/ to the snapshot a lane is checked by:       *)
(* rule-definition.files.ts, rules-engine.utils.ts and the cache of        *)
(* rule-loader.service.ts.  What they return is checked at the end.        *)
(*                                                                         *)
(* Limits are whole thousandths of a mg/kg, ratios hundredths.  An         *)
(* optional value is a set of at most one.                                 *)
(***************************************************************************)
EXTENDS Checklist, TLC

\* computeStringencyRatio; toFixed(2) may round an exact half either way.
Ratio(thai, limit) == (200 * thai + limit) \div (2 * limit)
HalfWay(thai, limit) == (200 * thai + limit) % (2 * limit) = 0

\* classifyRiskLevel
Risk(ratio) == IF ratio >= 1000 THEN "CRITICAL" ELSE IF ratio >= 500 THEN "HIGH"
               ELSE IF ratio >= 200 THEN "MEDIUM" ELSE "LOW"

\* buildRuleDefinition of one substance, [name, cas, aliases, thai, limit, kind] with kind
\* an option: only of a numeric limit with a Thai limit a ratio is computed, which 0 or
\* less refuses.
Kind(substance) == IF substance.kind = {} THEN "NUMERIC" ELSE CHOOSE k \in substance.kind : TRUE
Rated(substance) == substance.thai # {} /\ Kind(substance) = "NUMERIC"
Refuses(substance) == substance.name = None \/ (Rated(substance) /\ substance.limit <= 0)
Built(substance) ==
    [name |-> substance.name, cas |-> substance.cas, aliases |-> substance.aliases,
     limit |-> substance.limit, kind |-> Kind(substance),
     risk |-> IF Rated(substance)
              THEN Risk(Ratio(CHOOSE t \in substance.thai : TRUE, substance.limit)) ELSE None]

\* parseRuleSubstancesCsv; a table is [headers, rows], a row [cells, substance].
Parsed(table) ==
    IF \/ ~ {"name", "destinationMrl"} \subseteq Range(table.headers)
       \/ \E i \in DOMAIN table.rows : table.rows[i].cells # Len(table.headers)
    THEN {}
    ELSE {[i \in DOMAIN table.rows |-> table.rows[i].substance]}

\* loadRuleDefinitionFromFile, buildRuleDefinition: {} for an exception; a file is
\* [key, version, documents, weights, policy, listed, table].  A table replaces the
\* substances listed in the file itself.
Definition(file) ==
    {[key |-> file.key, version |-> file.version, documents |-> file.documents,
      weights |-> file.weights, policy |-> file.policy,
      substances |-> {Built(s) : s \in Range(given)}] :
        given \in {g \in UNION {IF file.table = {} THEN {file.listed} ELSE Parsed(t) :
                                   t \in IF file.table = {} THEN {file.listed} ELSE file.table} :
                      file.version >= 1 /\ \A i \in DOMAIN g : ~Refuses(g[i])}}

\* loadFromDisk: all files, or an exception if one is refused or two have one key.
Load(files) ==
    IF \E f \in files : Definition(f) = {} \/ \E g \in files \ {f} : g.key = f.key THEN {}
    ELSE {UNION {Definition(f) : f \in files}}

-----------------------------------------------------------------------------
(* Snapshots *)

DefaultWeights == [REGULATORY |-> 40, QUALITY |-> 25, COLD_CHAIN |-> 20, CHAIN_OF_CUSTODY |-> 15]

\* buildRuleSnapshotPayload and createLaneBundle store a definition with the lane;
\* snapshots of older versions of the program may lack every part of it.
Stored(definition) ==
    [documents |-> {definition.documents}, weights |-> {definition.weights},
     policy |-> definition.policy, substances |-> {definition.substances}]

\* adaptLaneSnapshotToRulePayload, as EvaluateLane reads it.
Adapted(stored) ==
    [documents |-> UNION stored.documents,
     weights |-> IF stored.weights = {} THEN DefaultWeights ELSE CHOOSE w \in stored.weights : TRUE,
     full |-> \E p \in stored.policy : p.mode = "FULL_PESTICIDE",
     default |-> IF stored.policy = {} THEN Null ELSE (CHOOSE p \in stored.policy : TRUE).default,
     substances |-> UNION stored.substances]

-----------------------------------------------------------------------------
(* The cache of the loader: [rules, signature] of the files as they were at an instant. *)

\* A reload reads the files, then fills the cache and signs, in three turns of the loop.
ReloadTurn(cache, loaded, turn, now) ==
    CASE turn = "load" -> cache
      [] turn = "fill" -> [cache EXCEPT !.rules = loaded]
      [] turn = "sign" -> [cache EXCEPT !.signature = now]

\* ensureFreshCache
Served(cache, now) == IF cache.signature # now THEN now ELSE cache.rules

-----------------------------------------------------------------------------
(* Checks *)

RawSubstances ==
    [name : {"x"}, cas : {None}, aliases : {<< >>}, thai : {{}, {10}, {50}, {99}},
     limit : {0, 1, 5, 10}, kind : {{}, {"NUMERIC"}, {"NON_DETECT"}, {"PHYSIOLOGICAL_LEVEL"}}]

\* A stricter limit is never a lower risk, whatever the rounding does.
Severe == [LOW |-> 0, MEDIUM |-> 1, HIGH |-> 2, CRITICAL |-> 3]
ASSUME StricterIsRiskier ==
    \A thai \in {0, 1, 9, 10, 99, 100}, limit \in 1 .. 30, stricter \in 1 .. 30 : stricter <= limit =>
        Severe[Risk(Ratio(thai, limit))] <= Severe[Risk(Ratio(thai, stricter))]

\* Nothing that was built needs a division by zero again, and only what has a numeric
\* limit is given a risk.
ASSUME BuiltIsRated ==
    \A s \in RawSubstances : ~Refuses(s) =>
        /\ Built(s).risk # None => Built(s).kind = "NUMERIC" /\ s.limit > 0
        /\ s.thai # {} /\ Built(s).kind = "NUMERIC" => Built(s).risk # None

\* One bad cell, one missing column or one key twice refuses all the files: a reload is
\* all or nothing.
Table(cells) == [headers |-> <<"name", "destinationMrl">>,
                 rows |-> <<[cells |-> cells, substance |-> [name |-> "x", cas |-> None, aliases |-> << >>,
                             thai |-> {10}, limit |-> 1, kind |-> {}]]>>]
RuleFile(key, version, table) ==
    [key |-> key, version |-> version, documents |-> Certificates, weights |-> DefaultWeights,
     policy |-> {[mode |-> "FULL_PESTICIDE", default |-> 1]}, listed |-> << >>, table |-> table]
ASSUME ReloadIsAllOrNothing ==
    \A files \in SUBSET {RuleFile(key, version, table) : key \in {"JAPAN::MANGO", "KOREA::MANGO"},
                             version \in {0, 1}, table \in {{}, {Table(2)}, {Table(3)}}} :
        Cardinality(files) <= 3 =>
            /\ Load(files) # {} <=>
                  /\ \A f \in files : f.version = 1 /\ f.table # {Table(3)}
                  /\ Cardinality({f.key : f \in files}) = Cardinality(files)
            /\ \A rules \in Load(files) : Cardinality(rules) = Cardinality(files)

\* The snapshot stored with a lane evaluates as the rules it was taken from.
EvaluatedAs(d) == [documents |-> d.documents, weights |-> d.weights,
                   full |-> \E p \in d.policy : p.mode = "FULL_PESTICIDE",
                   default |-> IF d.policy = {} THEN Null ELSE (CHOOSE p \in d.policy : TRUE).default,
                   substances |-> d.substances]
ASSUME SnapshotsKeepTheRules ==
    \A policy \in {{}} \cup {{[mode |-> m, default |-> x]} : m \in {"FULL_PESTICIDE", "DOCUMENT_ONLY"},
                                                             x \in {Null, 1}} :
        \A d \in Definition([RuleFile("JAPAN::MANGO", 1, {Table(2)}) EXCEPT !.policy = policy]) :
            EvaluateLane({Adapted(Stored(d))}, << >>, 0) = EvaluateLane({EvaluatedAs(d)}, << >>, 0)

\* Two reloads around one edit of a file: afterwards the cache is up to date, or known to
\* be stale, unless the edit fell between the reading and the signing of one of them.
Firsts == {S \in SUBSET (1 .. 6) : Cardinality(S) = 3}     \* turns of the first reload
After(first, edit) ==
    LET version(i) == IF i < edit THEN 0 ELSE 1
        own(i) == IF i \in first THEN first ELSE (1 .. 6) \ first
        turn(i) == Cardinality({j \in own(i) : j <= i})
        begin(i) == CHOOSE j \in own(i) : turn(j) = 1
        step(cache, i) == ReloadTurn(cache, version(begin(i)), <<"load", "fill", "sign">>[turn(i)],
                                     version(i))
    IN  FoldLeft(step, [rules |-> 0, signature |-> 0], [i \in 1 .. 6 |-> i])
Within(S, edit) == (\E i \in S : i < edit) /\ \E i \in S : i >= edit
ASSUME StaleOnlyByOverlap ==
    \A first \in Firsts, edit \in 1 .. 6 :
        Served(After(first, edit), 1) # 1 => Within(first, edit) \/ Within((1 .. 6) \ first, edit)
ASSUME StaleForGood ==
    \E first \in Firsts, edit \in 1 .. 6 : Served(After(first, edit), 1) = 0
===============================================================================
