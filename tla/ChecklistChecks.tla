---------------------------- MODULE ChecklistChecks ----------------------------
(***************************************************************************)
(* What the operators of Checklist and Classifier compute, against          *)
(* definitions of their own, over small sets of artifacts.  TLC evaluates   *)
(* the assumptions at the start of the runs that extend this module.        *)
(***************************************************************************)
EXTENDS Checklist

\* requiredDocuments and completenessWeights of rules/japan/mango.yaml.
MangoDocuments == MatrixOnly \cup Supplemented
MangoWeights == [REGULATORY |-> 40, QUALITY |-> 25, COLD_CHAIN |-> 20, CHAIN_OF_CUSTODY |-> 15]
Custody == {d \in MangoDocuments : CategoryOf(d) = "CHAIN_OF_CUSTODY"}

File(type, declared, label, named, expires, read) ==
    [type |-> type, declared |-> declared, label |-> label, named |-> named,
     expires |-> expires, read |-> read, table |-> FALSE, results |-> << >>, lab |-> FALSE]
Typed(type) == File(type, None, None, {}, Null, Null)

-----------------------------------------------------------------------------
\* The 95 percent of VALIDATED ask for every document but one of the chain of custody:
\* one regulatory, quality or cold-chain document less is too little.
ASSUME ThresholdAllowsOneCustodyDocument ==
    \A present \in SUBSET MangoDocuments :
        Cardinality(MangoDocuments \ present) <= 3 =>
            (Score(MangoWeights, MangoDocuments, present).rounded >= 95
                <=> /\ MangoDocuments \ present \subseteq Custody
                    /\ Cardinality(MangoDocuments \ present) <= 1)

\* No exact half is near the threshold, whichever way floating point rounds it.
ASSUME HalvesAreFarFromTheThreshold ==
    \A missing \in SUBSET MangoDocuments :
        Cardinality(missing) <= 3 /\ Score(MangoWeights, MangoDocuments, MangoDocuments \ missing).tie
            => Score(MangoWeights, MangoDocuments, MangoDocuments \ missing).rounded \notin {95, 96}

\* A document more never costs a point, with any weights and any required documents.
ASSUME ScoreIsMonotonic ==
    \A weights \in [Categories -> {0, 15, 40}] :
        \A required \in SUBSET {"VHT Certificate", "GAP Certificate", "Product Photos", "Delivery Note"} :
            \A present \in SUBSET required : \A d \in required :
                Score(weights, required, present).rounded
                    <= Score(weights, required, present \cup {d}).rounded

-----------------------------------------------------------------------------
(* Artifacts that compete for the same documents *)

Trade == {"Commercial Invoice", "Packing List"}
Competing ==
    {File(t, d, l, n, e, r) :
        t \in {"VHT_CERT", "INVOICE"}, d \in {None, "VHT Certificate"},
        l \in {None, "Packing List"}, n \in {{}, Trade}, e \in {Null, 3, 9}, r \in {Null, 9}}
Competed == Trade \cup {"VHT Certificate"}

\* A new artifact never takes a document away, unless it is taken for a certificate
\* itself and is not valid: the checklist believes the latest.
ASSUME OnlyNewerCertificatesTakeAway ==
    \A a, b \in Competing :
        LET before == PresentOf(Competed, <<a>>, 5)
            after == PresentOf(Competed, <<a, b>>, 5)
        IN  \A d \in before \ after : d \in Certificates /\ Matches(d, b) /\ Lapsed(b, 5)

\* Where nobody declares a document to be what its type does not say, the alert of a
\* certificate and its line in the checklist tell the same.
ASSUME AlertsAgreeWithChecklist ==
    \A a, b \in {x \in Competing : x.declared = None} :
        AlertStatus("VHT_CERT", <<a, b>>, 5) = "VALID"
            <=> ItemStatus("VHT Certificate", <<a, b>>, 5) = "PRESENT"

\* One temperature file is all the cold-chain evidence a lane needs, and one trade file
\* all the documents its name lists.
ASSUME OneFileForSeveralDocuments ==
    /\ PresentOf(MangoDocuments, <<Typed("TEMP_DATA")>>, 0) = Supplement["TEMP_DATA"]
    /\ PresentOf(MangoDocuments, <<File("INVOICE", None, None, Trade, Null, Null)>>, 0) = Trade

-----------------------------------------------------------------------------
(* Lab results of two substances, by name, number and alias *)

Results == [name : {"a", "b"}, cas : {None, "n"}, value : {2, 3}]
Reports == {<< >>} \cup {<<x>> : x \in Results} \cup (Results \X Results)
Numeric == [name |-> "a", cas |-> "n", aliases |-> <<"x">>, limit |-> 2, kind |-> "NUMERIC"]
Hormone == [name |-> "b", cas |-> None, aliases |-> << >>, limit |-> 0, kind |-> "PHYSIOLOGICAL_LEVEL"]
Report(results) ==
    [Typed("MRL_TEST") EXCEPT !.table = TRUE, !.results = results]

\* Only a value over a limit fails a lane, and each does, unless another result of the
\* same key, or of the same substance, is taken instead: of duplicates one counts.
Same(r, q) ==
    \/ KeysOf(r) \cap KeysOf(q) # {}
    \/ KeysOf(r) \cap KeysOf(Numeric) # {} /\ KeysOf(q) \cap KeysOf(Numeric) # {}
ASSUME FailuresAreSeen ==
    \A results \in Reports :
        LET fails == LabStatus(TRUE, {Numeric}, 2, <<Report(results)>>) = "FAIL"
            high == {i \in DOMAIN results : results[i].value > 2}
        IN  /\ fails => high # {}
            /\ (\E i \in high : \A j \in DOMAIN results \ {i} : ~Same(results[i], results[j])) => fails
            /\ high = DOMAIN results /\ high # {} => fails

\* A substance without a numeric limit never passes by itself: a person reviews it; and
\* the default limit does not fail it.
ASSUME NonNumericIsReviewed ==
    \A results \in Reports : \A full \in BOOLEAN :
        LET status == LabStatus(full, {Hormone}, 2, <<Report(results)>>)
            hormone == {i \in DOMAIN results : results[i].name = "b"}
        IN  hormone # {} => /\ status # "PASS"
                            /\ hormone = DOMAIN results => status = "BLOCKED"

\* A lane under FULL_PESTICIDE passes only with results, and only the latest report counts; one
\* without a table or a complete reading counts for nothing.
ASSUME FullPolicyNeedsResults ==
    \A r, s \in Reports :
        /\ LabStatus(TRUE, {Numeric}, 2, <<Report(<< >>)>>) = "BLOCKED"
        /\ LabStatus(TRUE, {Numeric}, 2, <<Typed("MRL_TEST")>>) = "BLOCKED"
        /\ LabStatus(FALSE, {Numeric}, 2, <<[Report(r) EXCEPT !.table = FALSE]>>) = None
        /\ LabStatus(TRUE, {Numeric}, 2, <<Report(r), Report(s)>>)
              = LabStatus(TRUE, {Numeric}, 2, <<Report(s)>>)

-----------------------------------------------------------------------------
(* Analyses *)

Phrases == {"Commercial Invoice", "invoice number", "Packing List", "bill of lading",
            "air waybill", "Delivery Note", "Export License", "exporter authorization",
            "Grading Report", "grade class", "certificate", "gap", "vht", "laboratory"}
Texts == {{p, q, r} : p \in Phrases, q \in Phrases, r \in Phrases}
Named(document) == {c[1] : c \in Clues(document)} \cup {document}

\* An analysis only recognises documents of the artifact's own type and combo, so that
\* it adds to the checklist among the trade documents only.
ASSUME LabelsAreOfTheType ==
    \A type \in DOMAIN MatrixTypes \cup DOMAIN Supplement : \A text \in Texts :
        \A applicable \in {MatrixOnly, MatrixOnly \ {"VHT Certificate", "Delivery Note"}} :
            LET d == Label(type, applicable, text)
            IN  d = None \/ (d \in applicable /\ Catalog[d].type = type)

\* More of what tells a document never makes the analysis take the file for another one.
ASSUME CluesOnlyConfirm ==
    \A text \in Texts :
        LET d == Label("INVOICE", MatrixOnly, text)
        IN  d # None => \A p \in Named(d) : Label("INVOICE", MatrixOnly, text \cup {p}) = d

Known == {"additionalDeclarations", "treatmentReference", "authorizedOfficer", "certificateNumber"}
Scans == [type : {"PHYTO_CERT", "VHT_CERT"}, keys : SUBSET Known, holds : {{}}, read : SUBSET Known,
          text : {{"Phytosanitary Certificate"}, {"vht", "vapour heat"}, {}},
          states : SUBSET {"fruit fly free", "treatment"}]
Base == [d \in MatrixOnly |->
    IF d = "Phytosanitary Certificate"
    THEN {"certificateNumber", "additionalDeclarations", "authorizedOfficer"} ELSE {"treatmentDate"}]
Special == [d \in MatrixOnly |->
    IF d = "Phytosanitary Certificate" THEN {"mustStateFruitFlyFree", "treatmentReference"}
    ELSE {"allowedVariety"}]

\* The completeness of an analysis splits what the matrix asks for into found and
\* missing; what is in doubt is missing; a failed one asserts nothing.
ASSUME CompletenessAddsUp ==
    \A file \in Scans :
        LET a == Analysis(file, MatrixOnly, Known, Base, Special)
        IN  IF a.label = None THEN a.fields = {} /\ a.missing = {} /\ ~a.supported
            ELSE /\ a.missing \cap a.fields = {} /\ a.doubted \subseteq a.missing
                 /\ a.missing \cup (a.fields \ a.unsupported) = Base[a.label] \cup Special[a.label]

\* The directory of a preprocessing stays behind only where the analysis fails.
ASSUME LeaksAreErrors ==
    \A tools, broken \in SUBSET {"tesseract", "ocrmypdf"} : \A pdf, rules, object \in BOOLEAN :
        LET o == Outcome(tools, broken, rules, object, pdf)
        IN  o.leaked => o.result = "ERROR" /\ pdf

-----------------------------------------------------------------------------
(* The catalog *)

\* A matrix that lists every document of the checklist has a catalog with each of them
\* once; one that does not, or a manifest of another version, is refused.
ASSUME CatalogIsComplete ==
    /\ ~Drifts(Matrix, Matrix) /\ DOMAIN Catalog = MangoDocuments
    /\ Drifts(Matrix, [Matrix EXCEPT !.version = 2])
    /\ \A d \in MatrixOnly :
          LET less == [Matrix EXCEPT !.types = [x \in MatrixOnly \ {d} |-> @[x]]]
          IN  Drifts(less, less) /\ Drifts(less, Matrix) /\ ~Drifts(Matrix, less)
===============================================================================
