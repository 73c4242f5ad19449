----------------------------- MODULE PartnerImports -----------------------------
(***************************************************************************)
(* Evidence that comes from partners: integrations.service.ts, which       *)
(* fetches it from a provider, and the partner routes of                   *)
(* evidence.controller.ts and evidence.service.ts, to which a partner      *)
(* sends it.  What they do is checked at the end.                          *)
(*                                                                         *)
(* Times are milliseconds.  An optional value is a set of at most one, and *)
(* so is the result of what may end in an exception.                       *)
(***************************************************************************)
EXTENDS Integers, Sequences, FiniteSetsExt, SequencesExt, TLC

The(option) == CHOOSE x \in option : TRUE

\* assertPartnerLaneScope; a scope is split at its colon.
MayWrite(auth, lane) ==
    /\ auth.kind = "api-key"
    /\ auth.scopes \cap {<<"*">>, <<"lane", "*">>, <<"lane", "write">>, <<"lane", lane>>} # {}

-----------------------------------------------------------------------------
(* Requests to a provider *)

\* applyRateLimit; stamps are those of one provider and process.
Minute == 60000
Admit(limit, stamps, now) ==
    LET recent == SelectSeq(stamps, LAMBDA t : t > now - Minute)
    IN  IF Len(recent) >= limit THEN [stamps |-> stamps, admitted |-> FALSE]
        ELSE [stamps |-> Append(recent, now), admitted |-> TRUE]

\* fetchProviderJson; replies: what the i-th attempt would meet.  A refusal by the
\* provider and a payload that is no object end it, everything else is tried three times.
\* The timer covers the headers only: a body that stalls ends by a limit of fetch.
RetryDelays == <<100, 200>>
Stall == 300000
Retried == {"unreachable", "timeout", "server error", "stalled", "not json"}
Fetch(replies, timeout) ==
    LET last == SelectInSeq(replies, LAMBDA r : r \notin Retried)
        calls == IF last = 0 THEN Len(RetryDelays) + 1 ELSE last
        cost(i) == CASE replies[i] = "timeout" -> timeout [] replies[i] = "stalled" -> Stall [] OTHER -> 0
        pause(i) == IF i <= Len(RetryDelays) /\ i < calls THEN RetryDelays[i] ELSE 0
    IN  [calls |-> calls, ends |-> MapThenSumSet(LAMBDA i : cost(i) + pause(i), 1 .. calls),
         outcome |-> CASE last = 0 -> "bad gateway"
                       [] last # 0 /\ replies[last] = "object" -> "payload"
                       [] OTHER -> "bad request"]

\* lookupAcfsCertificate, of the number in capitals.  A hit ends it; otherwise what the
\* provider answers is kept for an hour from before it was asked.
Hour == 3600000
Hit(cache, number, now) == {cache[n].value : n \in {x \in {number} \cap DOMAIN cache : cache[x].expires > now}}
Keep(cache, number, asked, value) == (number :> [expires |-> asked + Hour, value |-> value]) @@ cache

\* normalizeAcfsPayload and importAcfsCertificate: either sign of validity is enough, and
\* the date of expiry is copied, not compared.
Lookup(number, payload) ==
    [number |-> IF payload.number # {} THEN The(payload.number) ELSE number,
     valid |-> payload.valid = {TRUE} \/ payload.status \cap {"ACTIVE", "VALID"} # {},
     expiry |-> payload.expiry]
ImportCertificate(lookup) == IF lookup.valid THEN {lookup} ELSE {}

-----------------------------------------------------------------------------
(* Payloads.  A field with several spellings is the sequence of what stands under them,   *)
(* best first: the first that is present counts, also if it cannot be read.               *)

Unreadable == -999

Spelled(spellings) ==
    LET i == SelectInSeq(spellings, LAMBDA o : o # {}) IN IF i = 0 THEN {} ELSE spellings[i]
Number(spellings) == Spelled(spellings) \ {Unreadable}

\* normalizeCentralLabResults, normalizeSgsResults; an entry is [substance, value, unit,
\* limit], and {} stands for a list that is missing.  SGS sends pages of entries.
LabResult(entry) ==
    IF entry.substance = {} \/ Number(entry.value) = {} THEN {}
    ELSE {[substance |-> The(entry.substance), mgKg |-> The(Number(entry.value)), limit |-> Number(entry.limit)]}
AllOf(results) == IF {} \in Range(results) THEN {} ELSE {[i \in DOMAIN results |-> The(results[i])]}
LabResults(entries) == AllOf([i \in DOMAIN entries |-> LabResult(entries[i])])
CentralLab(payload) == UNION {LabResults(entries) : entries \in payload}
Sgs(payload) == UNION {UNION {LabResults(FlattenSeq(lists)) : lists \in AllOf(pages)} : pages \in payload}

\* normalizeThaiAirwaysReadings, normalizeKerryReadings, normalizeTemperaturePayload: a
\* list of readings may not be empty, one of lab results may.
Reading(entry) ==
    IF entry.timestamp = {} \/ Number(entry.celsius) = {} THEN {}
    ELSE {[timestamp |-> The(entry.timestamp), celsius |-> The(Number(entry.celsius))]}
Readings(payload) ==
    UNION {AllOf([i \in DOMAIN entries |-> Reading(entries[i])]) : entries \in payload} \ {<< >>}

\* extractPartnerTemperatureReadings: what is not a time is dropped.
Ingested(readings) == {r \in Range(readings) : r.timestamp # Unreadable}

\* createPartnerTemperatureArtifact; steps: how many of its two steps succeed.  The
\* artifact is there before its readings are, and stays when they are refused.
ImportTemperature(lane, readings, steps) ==
    [artifacts |-> lane.artifacts + (IF steps >= 1 THEN 1 ELSE 0),
     readings |-> IF steps = 2 THEN lane.readings \cup Ingested(readings) ELSE lane.readings]

\* normalizePartnerMetadata and normalizeMrlTestResults of [value, unit, limit]: only a row
\* with value and unit is given in mg/kg, and any other unit refuses the artifact; what is
\* no list is left out of it.
Accepted == {"mg/kg", "ppm"}
MrlRow(row) ==
    IF row.unit \ Accepted # {} THEN {}
    ELSE {IF row.value = {} \/ row.unit = {} THEN row
          ELSE [mgKg |-> The(row.value), limitMgKg |-> row.limit] @@ row}
MrlResults(payload) ==
    LET lists == {field \in Spelled(payload) : field.isList}
        listed == The(lists).rows
    IN  IF lists = {} THEN {{}} ELSE {{rows} : rows \in AllOf([i \in DOMAIN listed |-> MrlRow(listed[i])])}

\* buildArtifactMetadata of a checkpoint's photo: what the photo says wins over what the
\* request says, and a photo without time and place is refused.
CaptureFields == {"capturedAt", "gpsLat", "gpsLng"}
PhotoMetadata(given, extracted) == {e @@ given : e \in {x \in extracted : CaptureFields \subseteq DOMAIN (x @@ given)}}
-----------------------------------------------------------------------------
(* Checks *)

\* A key for one lane does not open another, and a session of a user opens none.
ASSUME KeysOpenTheirLanes ==
    \A scopes \in SUBSET {<<"lane", "read">>, <<"lane", "write">>, <<"lane", "*">>, <<"*">>, <<"lane", "l1">>} :
        /\ ~MayWrite([kind |-> "session", scopes |-> scopes], "l1")
        /\ MayWrite([kind |-> "api-key", scopes |-> scopes], "l2")
             <=> scopes \cap {<<"lane", "write">>, <<"lane", "*">>, <<"*">>} # {}
        /\ MayWrite([kind |-> "api-key", scopes |-> {<<"lane", "l1">>}], "l1")

\* Requests to one provider that begin at the given times, in this order, at most two a
\* minute: how many were admitted before each of them.
Times == {s \in [1 .. 5 -> {0, 20000, 59999, 60000, 80000, 120000}] : \A i \in 1 .. 4 : s[i] <= s[i + 1]}
Served(times) ==
    LET step(state, t) == LET turn == Admit(2, state.stamps, t)
                          IN  [stamps |-> turn.stamps,
                               served |-> IF turn.admitted THEN Append(state.served, t) ELSE state.served]
    IN  FoldLeft(step, [stamps |-> << >>, served |-> << >>], times).served

\* Whenever a minute begins, at most the limit is admitted in it; a request that was
\* refused does not use any of it up, so the first of a minute is always served.  It is
\* requests that are limited: a provider that fails is called three times for each.
ASSUME MinutesAreLimited ==
    \A times \in Times :
        LET served == Served(times)
        IN  /\ \A from \in Range(served) :
                   Cardinality({i \in DOMAIN served : from <= served[i] /\ served[i] < from + Minute}) <= 2
            /\ \A t \in Range(times) : \E i \in DOMAIN served : t - Minute < served[i] /\ served[i] <= t
ASSUME Fetch(<<"timeout", "server error", "unreachable">>, 5000).calls = 3

\* A request fails for good only after three failures, is never retried after an answer
\* that settles it, and ends within three timeouts and the two pauses unless a body stalls.
Replies == [1 .. 3 -> Retried \cup {"object", "other json", "client error"}]
ASSUME RequestsEnd ==
    \A replies \in Replies :
        LET f == Fetch(replies, 5000)
        IN  /\ f.outcome = "bad gateway" <=> \A i \in 1 .. 3 : replies[i] \in Retried
            /\ \A i \in 1 .. f.calls - 1 : replies[i] \in Retried
            /\ f.outcome = "payload" <=> replies[f.calls] = "object"
            /\ (\A i \in 1 .. 3 : replies[i] # "stalled") => f.ends <= 15300
ASSUME Fetch(<<"stalled", "stalled", "stalled">>, 5000).ends = 3 * Stall + 300

\* A certificate is never served more than an hour after the provider was asked for it.
\* Of two lookups that overlap, the slower stores last, so an answer of an earlier request
\* may replace that of a later one, but not for longer than its own hour.
ASSUME CertificatesAreFresh ==
    \A asked \in [1 .. 2 -> {0, 60000, Hour}], now \in {0, 60000, Hour - 1, Hour, Hour + 60000, 2 * Hour} :
        LET cache == Keep(Keep(<< >>, "A1", asked[1], 1), "A1", asked[2], 2)
        IN  /\ Hit(cache, "A1", now) = (IF now < asked[2] + Hour THEN {2} ELSE {})
            /\ Hit(cache, "B2", now) = {}

\* What the provider calls expired is not imported, but a certificate it still calls valid
\* is, whatever its date of expiry.
Answers == [number : {{}, {"A1"}}, valid : {{}, {TRUE}, {FALSE}}, status : {{}, {"ACTIVE"}, {"EXPIRED"}},
            expiry : {{}, {"yesterday"}}]
ASSUME ExpiryIsLeftToTheProvider ==
    \A a \in Answers :
        /\ ImportCertificate(Lookup("A1", a)) = {}
              <=> ImportCertificate(Lookup("A1", [a EXCEPT !.expiry = {}])) = {}
        /\ a.valid # {TRUE} /\ a.status # {"ACTIVE"} => ImportCertificate(Lookup("A1", a)) = {}

\* The two laboratories' formats carry the same results: pages do not matter, nor does the
\* spelling, and one entry that cannot be read refuses the report.  A preferred spelling
\* that is no number hides another that is.
Lead(value) == [substance |-> {"lead"}, value |-> value, limit |-> <<{}, {}>>]
Entries == {Lead(<<{5}, {}>>), Lead(<<{}, {5}>>), Lead(<<{Unreadable}, {5}>>), Lead(<<{}, {}>>)}
ASSUME FormatsAgree ==
    /\ \A a, b, d \in Entries :
        /\ CentralLab({<<a, b, d>>}) = Sgs({<<{<<a>>}, {<< >>}, {<<b, d>>}>>})
        /\ CentralLab({<<a, b, d>>}) = {} <=> \E e \in {a, b, d} : Number(e.value) = {}
    /\ CentralLab({<<Lead(<<{5}, {}>>)>>}) = CentralLab({<<Lead(<<{}, {5}>>)>>})
    /\ CentralLab({<<Lead(<<{Unreadable}, {5}>>)>>}) = {}
    /\ CentralLab({}) = {} /\ CentralLab({<< >>}) = {<< >>} /\ Sgs({<<{<< >>}, {}>>}) = {}

\* An empty list of readings is refused where an empty report is not.  An import whose
\* readings are refused leaves its artifact, so each repetition adds one; the readings are
\* added once.
Warm(t) == [timestamp |-> {t}, celsius |-> <<{13}>>]
Fresh == [artifacts |-> 0, readings |-> {}]
ASSUME RepeatedImportsRepeatArtifacts ==
    /\ Readings({<< >>}) = {}
    /\ LET readings == The(Readings({<<Warm(0), Warm(Unreadable), Warm(20)>>}))
           once == ImportTemperature(Fresh, readings, 1)
           twice == ImportTemperature(once, readings, 2)
       IN  /\ once = [artifacts |-> 1, readings |-> {}]
           /\ twice.artifacts = 2
           /\ {r.timestamp : r \in twice.readings} = {0, 20}
           /\ ImportTemperature(twice, readings, 2).readings = twice.readings

\* A residue is in mg/kg exactly if its row tells a value and a unit; a row without a unit
\* is kept as it is, a row in another unit refuses them all.
List(rows) == [isList |-> TRUE, rows |-> rows]
Row(value, unit) == [value |-> value, unit |-> unit, limit |-> {}]
ASSUME UnitsAreKnown ==
    \A u, v \in {{}, {"mg/kg"}, {"ppm"}, {"ppb"}}, value \in {{}, {7}} :
        LET results == MrlResults(<<{}, {List(<<Row(value, u), Row({7}, v)>>)}, {List(<< >>)}>>)
        IN  /\ results = {} <=> {"ppb"} \in {u, v}
            /\ \A r \in results : \A rows \in r :
                   "mgKg" \in DOMAIN rows[1] <=> value # {} /\ u # {}
ASSUME MrlResults(<<{[isList |-> FALSE]}, {List(<<Row({7}, {"ppm"})>>)}, {}>>) = {{}}

\* Time and place of a checkpoint's photo are the photo's, whatever the request claims.
ASSUME PhotosTellTheirPlace ==
    \A given \in {<< >>, [c \in CaptureFields |-> "claimed"]} :
        /\ PhotoMetadata(given, {}) = {}
        /\ \A d \in SUBSET CaptureFields :
            \A m \in PhotoMetadata(given, {[c \in d |-> "photo"]}) : \A c \in d : m[c] = "photo"
=================================================================================
