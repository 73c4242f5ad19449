------------------------------- MODULE Checklist -------------------------------
(***************************************************************************)
(* How complete the evidence of a lane is: evaluateLane of                 *)
(* rules-engine.service.ts over the artifacts of the lane in the order     *)
(* they were uploaded.                                                     *)
(*                                                                         *)
(* An artifact is [type, declared, label, named, expires, read, table,     *)
(* results, lab]: its artifact type, the document its metadata declare,    *)
(* the label its latest analysis found, the documents its file name names, *)
(* the expiry of its metadata and the one the analysis read, whether its   *)
(* metadata list lab results, the valid ones of them, and whether the      *)
(* analysis read all MRL_REQUIRED_OCR_FIELDS of a supported report.  Days  *)
(* are numbers, Null is no or no valid date.                               *)
(***************************************************************************)
EXTENDS Classifier

Null == -1

CertificateTypes == {"PHYTO_CERT", "VHT_CERT", "GAP_CERT"}

\* readExpiryDate: the metadata before what was read.
ExpiresOn(a) == IF a.expires # Null THEN a.expires ELSE a.read
Lapsed(a, now) == ExpiresOn(a) = Null \/ ExpiresOn(a) <= now

\* buildChecklist with resolveCertificationDocumentStatus: of the certificates only the
\* latest counts.
Matching(document, artifacts) == SelectSeq(artifacts, LAMBDA a : Matches(document, a))
ItemStatus(document, artifacts, now) ==
    LET found == Matching(document, artifacts)
    IN  IF found = << >> THEN "MISSING"
        ELSE IF document \in Certificates /\ Lapsed(Last(found), now) THEN "EXPIRED"
        ELSE "PRESENT"
PresentOf(documents, artifacts, now) ==
    {d \in documents : ItemStatus(d, artifacts, now) = "PRESENT"}

\* buildCategorySummary and the score of evaluateLane, in percent: each category counts
\* the share of its documents that are present, one without documents counts fully.
\* weights are percents; an exact half is marked, since floating point may round it down.
Share(category, documents, present) ==
    LET listed == {d \in documents : CategoryOf(d) = category}
    IN  IF listed = {} THEN <<1, 1>> ELSE <<Cardinality(listed \cap present), Cardinality(listed)>>
Score(weights, documents, present) ==
    LET n(c) == Share(c, documents, present)[1]
        of(c) == Share(c, documents, present)[2]
        all == of("REGULATORY") * of("QUALITY") * of("COLD_CHAIN") * of("CHAIN_OF_CUSTODY")
        part(c) == weights[c] * n(c) * (all \div of(c))
        sum == part("REGULATORY") + part("QUALITY") + part("COLD_CHAIN") + part("CHAIN_OF_CUSTODY")
    IN  [rounded |-> (2 * sum + all) \div (2 * all), tie |-> (2 * sum + all) % (2 * all) = 0]

-----------------------------------------------------------------------------
(* Lab results: [name, cas, value]; a substance is [name, cas, aliases, limit, kind]. *)

KeysOf(x) == {x.name} \cup ({x.cas} \ {None})
HasKey(results, key) == \E i \in DOMAIN results : key \in KeysOf(results[i])

\* findMeasuredResult: by name, then number, then aliases; of several results with the
\* key the map keeps the last.
Measured(results, substance) ==
    LET keys == <<substance.name, substance.cas>> \o substance.aliases
        known == SelectSeq(keys, LAMBDA k : k # None /\ HasKey(results, k))
    IN  IF known = << >> THEN {}
        ELSE {Last(SelectSeq(results, LAMBDA r : Head(known) \in KeysOf(r)))}

\* Results no substance of the rules has taken, or any of their keys.
Unmatched(results, substances) ==
    LET taken == UNION {UNION {KeysOf(r) : r \in Measured(results, s)} : s \in substances}
    IN  {results[i] : i \in {j \in DOMAIN results : KeysOf(results[j]) \cap taken = {}}}

Against(value, limit) == IF value <= limit THEN "PASS" ELSE "FAIL"
Verdicts(results, substances, default) ==
    {IF Measured(results, s) = {} \/ s.kind \in {"PHYSIOLOGICAL_LEVEL", "NO_NUMERIC_LIMIT"}
     THEN "UNKNOWN"
     ELSE Against((CHOOSE r \in Measured(results, s) : TRUE).value, s.limit) : s \in substances}
    \cup {IF default = Null THEN "UNKNOWN" ELSE Against(r.value, default) :
             r \in Unmatched(results, substances)}

Reviewed(results, substances) ==
    {s \in substances : /\ s.kind \in {"PHYSIOLOGICAL_LEVEL", "NO_NUMERIC_LIMIT"}
                        /\ Measured(results, s) # {}}

\* hasOcrBackedLabDocument
LabBacked(a) == a.table \/ (a.label = "MRL Test Results" /\ a.lab)

\* buildLabValidation; full: the lane's policy is FULL_PESTICIDE.
LabStatus(full, substances, default, artifacts) ==
    LET reports == SelectSeq(artifacts, LAMBDA a : a.type = "MRL_TEST")
        results == Last(reports).results
        verdicts == Verdicts(results, substances, default)
        blocked == (full /\ results = << >>) \/ Reviewed(results, substances) # {}
    IN  IF reports = << >> \/ ~LabBacked(Last(reports))
        THEN IF full THEN "BLOCKED" ELSE None
        ELSE IF "FAIL" \in verdicts THEN "FAIL"
        ELSE IF blocked THEN "BLOCKED"
        ELSE "PASS"

-----------------------------------------------------------------------------
\* detectCertificationAlerts
AlertStatus(type, artifacts, now) ==
    LET found == SelectSeq(artifacts, LAMBDA a : a.type = type)
    IN  IF found = << >> THEN "MISSING"
        ELSE IF Lapsed(Last(found), now) THEN "EXPIRED"
        ELSE "VALID"

\* evaluateLane; rules: at most one snapshot.  Without one nothing is required and the
\* score is 0.
EvaluateLane(rules, artifacts, now) ==
    IF rules = {} THEN [score |-> 0, missing |-> {}, lab |-> None]
    ELSE LET snapshot == CHOOSE r \in rules : TRUE
             present == PresentOf(snapshot.documents, artifacts, now)
         IN  [score |-> Score(snapshot.weights, snapshot.documents, present).rounded,
              missing |-> snapshot.documents \ present,
              lab |-> LabStatus(snapshot.full, snapshot.substances, snapshot.default, artifacts)]
===============================================================================
