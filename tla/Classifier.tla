------------------------------ MODULE Classifier -------------------------------
(***************************************************************************)
(* The analysis of an uploaded file: runArtifactAnalysis of                *)
(* evidence.service.ts with evidence.document-analysis.ts (Tesseract) and  *)
(* evidence.document-classifier.ts (the matrix of documents).              *)
(*                                                                         *)
(* A text is the set of the phrases below that it contains, in any case,   *)
(* and what patterns find in it is the set of their keys.  A file is       *)
(*   [type, declared, keys, holds, text, read, states]: its artifact type, *)
(* the metadata keys that hold a string, those that hold a list, phrases   *)
(* and keys of its text, and what its additional declarations state.       *)
(***************************************************************************)
EXTENDS DocumentCatalog, SequencesExt

\* Phrase and points (scoreDocument); the label itself counts 5 more.
Clues(document) ==
    CASE document = "Phytosanitary Certificate" ->
            {<<"Phytosanitary Certificate", 10>>, <<"botanical name", 2>>}
      [] document = "VHT Certificate" ->
            {<<"vht", 6>>, <<"vapour heat", 8>>, <<"core temperature", 3>>}
      [] document = "MRL Test Results" ->
            {<<"laboratory", 2>>, <<"report number", 3>>, <<"mg/kg", 3>>}
      [] document = "GAP Certificate" ->
            {<<"gap", 4>>, <<"certificate", 2>>, <<"good agricultural practices", 8>>}
      [] document = "Commercial Invoice" ->
            {<<"Commercial Invoice", 8>>, <<"invoice number", 3>>}
      [] document = "Packing List" -> {<<"Packing List", 8>>}
      [] document = "Transport Document" ->
            {<<"bill of lading", 8>>, <<"air waybill", 8>>, <<"Transport Document", 6>>}
      [] document = "Delivery Note" -> {<<"Delivery Note", 8>>}
      [] document = "Export License" ->
            {<<"Export License", 8>>, <<"exporter registration", 5>>,
             <<"exporter authorization", 8>>, <<"authorization record", 4>>}
      [] document = "Grading Report" ->
            {<<"Grading Report", 8>>, <<"grade class", 4>>, <<"packhouse name", 3>>,
             <<"inspection date", 3>>}

Points(document, text) ==
    (IF document \in text THEN 5 ELSE 0)
    + MapThenSumSet(LAMBDA clue : clue[2], {c \in Clues(document) : c[1] \in text})

\* selectCandidates: applicable is the set of documents the matrix lists for the lane's
\* market and product.
Candidates(type, applicable) ==
    IF type \in DOMAIN MatrixTypes
    THEN SelectSeq(MatrixTypes[type], LAMBDA d : d \in applicable)
    ELSE << >>

\* The stable sort by descending points leaves the first of the best in front.
Label(type, applicable, text) ==
    LET found == Candidates(type, applicable)
        best == {i \in DOMAIN found : \A j \in DOMAIN found :
                    Points(found[j], text) <= Points(found[i], text)}
        i == CHOOSE x \in best : \A y \in best : x <= y
    IN  IF found = << >> \/ Points(found[i], text) < 4 THEN None ELSE found[i]

-----------------------------------------------------------------------------
(* Field keys *)

\* Metadata keys a field may also be taken from.
Aliases(type, field) ==
    CASE field = "issueDate" -> {"issuedAt"}
      [] field = "issuingAuthority" -> {"issuer"}
      [] field = "laboratoryName" /\ type = "MRL_TEST" -> {"issuer"}
      [] field = "certificateHolder" -> {"holderName"}
      [] OTHER -> {}

\* Fields that only the metadata of a phytosanitary certificate give.
PhytoOnly == {"packageDescription", "placeOfOrigin", "authorizedOfficer",
              "officialSealOrSignature"}

\* extractCommonFields, for the field keys it knows: metadata before text.
FromMetadata(file, field) ==
    \/ field \in file.keys /\ (field \in PhytoOnly => file.type = "PHYTO_CERT")
    \/ Aliases(file.type, field) \cap file.keys # {}
    \/ field = "commodityScope" /\ "scope" \in file.holds
FromText(file, field) ==
    field \in file.read /\ ~(field = "certificateNumber" /\ file.type = "VHT_CERT")
Extracted(file, known) == {f \in known : FromMetadata(file, f) \/ FromText(file, f)}

\* The fruit-fly declaration, of a phytosanitary certificate whose combo asks for it:
\* stated, or doubted; a declared treatment stands for its reference.
Declaration(file, document, special, fields) ==
    IF document # "Phytosanitary Certificate" \/ "mustStateFruitFlyFree" \notin special THEN {}
    ELSE LET states == IF "additionalDeclarations" \in fields THEN file.states ELSE {}
         IN  (IF "fruit fly free" \in states THEN {"mustStateFruitFlyFree"} ELSE {})
             \cup (IF "treatment" \in states THEN {"treatmentReference"} ELSE {})

\* analyze, buildFieldCompleteness: base and special are the keys the matrix requires of
\* a document, of every combo and of the lane's.
Analysis(file, applicable, known, base, special) ==
    LET document == Label(file.type, applicable, file.text)
        common == Extracted(file, known)
        fields == (common \cup Declaration(file, document, special[document], common))
                  \ (IF document = "Grading Report" THEN {"reportNumber"} ELSE {})
        expected == base[document] \cup special[document]
    IN  IF document = None
        THEN [status |-> "FAILED", label |-> None, fields |-> {}, supported |-> FALSE,
              missing |-> {}, doubted |-> {}, unsupported |-> {}]
        ELSE [status |-> "COMPLETED", label |-> document, fields |-> fields,
              supported |-> expected # {},
              missing |-> expected \ fields,
              doubted |-> IF document = "Phytosanitary Certificate"
                          THEN (special[document] \cap {"mustStateFruitFlyFree"}) \ fields
                          ELSE {},
              unsupported |-> fields \ expected]

-----------------------------------------------------------------------------
\* runArtifactAnalysis over extractText: without Tesseract or a rule snapshot nothing is
\* stored; a missing object or a failing command is an error.  tools: the binaries on
\* the path; broken: the commands that fail.  The directory of the analysis is always
\* removed, the one of ocrmypdf only once ocrmypdf succeeded.
Outcome(tools, broken, hasRules, hasObject, pdf) ==
    LET ran == "tesseract" \in tools /\ hasRules /\ hasObject
        first == {c \in {"ocrmypdf"} \cap tools : pdf}
    IN  [result |-> IF "tesseract" \notin tools \/ ~hasRules THEN "SKIPPED"
                    ELSE IF ~hasObject \/ (first \cup {"tesseract"}) \cap broken # {} THEN "ERROR"
                    ELSE "ANALYSED",
         leaked |-> ran /\ first \cap broken # {}]
===============================================================================
