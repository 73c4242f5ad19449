---------------------------- MODULE DocumentCatalog ----------------------------
(***************************************************************************)
(* The documents a lane may have to show, and which uploaded files show    *)
(* them: document-catalog.ts, with the part of rules/document-matrix.yaml  *)
(* it reads.                                                               *)
(*                                                                         *)
(* Labels and keys are compared after trim and toLowerCase, here they are  *)
(* equal or not.  Of the name of a file the module knows which document    *)
(* labels its slug includes.                                               *)
(***************************************************************************)
EXTENDS Integers, FiniteSets

None == "none"

Categories == {"REGULATORY", "QUALITY", "COLD_CHAIN", "CHAIN_OF_CUSTODY"}

\* documents of rules/document-matrix.yaml, in its order per artifact type
MatrixTypes == [
    PHYTO_CERT |-> <<"Phytosanitary Certificate">>,
    VHT_CERT   |-> <<"VHT Certificate">>,
    MRL_TEST   |-> <<"MRL Test Results">>,
    GAP_CERT   |-> <<"GAP Certificate">>,
    INVOICE    |-> <<"Commercial Invoice", "Grading Report", "Packing List",
                     "Transport Document", "Delivery Note", "Export License">>]

\* CHECKLIST_SEMANTICS: the documents told apart by the names of their files, and the
\* artifact types of those the matrix does not list.
ByFileName == {"Export License", "Grading Report", "Commercial Invoice", "Packing List",
               "Transport Document", "Delivery Note"}
Supplement == [
    CHECKPOINT_PHOTO  |-> {"Product Photos"},
    TEMP_DATA         |-> {"Temperature Log", "SLA Summary", "Excursion Report"},
    HANDOFF_SIGNATURE |-> {"Handoff Signatures"}]
Supplemented == UNION {Supplement[t] : t \in DOMAIN Supplement}
Certificates == {"Phytosanitary Certificate", "VHT Certificate", "GAP Certificate"}
MatrixOnly == ByFileName \cup Certificates \cup {"MRL Test Results"}

\* What CHECKLIST_SEMANTICS does not list is regulatory.
CategoryOf(document) ==
    CASE document \in {"Grading Report", "Product Photos"} -> "QUALITY"
      [] document \in Supplement["TEMP_DATA"] -> "COLD_CHAIN"
      [] document \in {"Commercial Invoice", "Packing List", "Transport Document",
                       "Delivery Note", "Handoff Signatures"} -> "CHAIN_OF_CUSTODY"
      [] OTHER -> "REGULATORY"

-----------------------------------------------------------------------------
(* buildDocumentCatalog: a matrix and a manifest are a version and, for each document *)
(* they list, its artifact type.                                                      *)

\* The drifts it refuses with an exception.
Drifts(matrix, manifest) ==
    \/ manifest.version # matrix.version
    \/ \E d \in DOMAIN manifest.types :
          d \notin DOMAIN matrix.types \/ manifest.types[d] # matrix.types[d]
    \/ ~ MatrixOnly \subseteq DOMAIN matrix.types

CatalogOf(matrix, manifest) ==
    [d \in DOMAIN matrix.types \cup Supplemented |->
        [type |-> IF d \in DOMAIN matrix.types THEN matrix.types[d]
                  ELSE CHOOSE t \in DOMAIN Supplement : d \in Supplement[t],
         matrixBacked |-> d \in DOMAIN matrix.types,
         fixtureBacked |-> d \in DOMAIN manifest.types]]

\* The matrix of the repository.
Matrix == [version |-> 1,
           types |-> [d \in MatrixOnly |->
                        CHOOSE t \in DOMAIN MatrixTypes :
                            \E i \in DOMAIN MatrixTypes[t] : MatrixTypes[t][i] = d]]
Catalog == CatalogOf(Matrix, Matrix)

\* requiredFieldKeysForCombo: base and special are the keys of an entry and of its rules
\* for some of the market/product pairs.
FieldKeys(base, special, combo) ==
    base \cup IF combo \in DOMAIN special THEN special[combo] ELSE {}

\* fixtureBackedRequiredSlots: the documents a combo requires that have a fixture, each
\* with the fixture of the combo or else the one of the document.
RequiredSlots(required, catalog, variants) ==
    UNION {{[combo |-> c, document |-> d, own |-> c \in variants[d]] :
               d \in {x \in required[c] \cap DOMAIN catalog : catalog[x].fixtureBacked}} :
           c \in DOMAIN required}

-----------------------------------------------------------------------------
\* matchChecklistDocumentAgainstArtifact: by what the uploader declared, by what the
\* analysis read, and else by type, or by type and file name.  A document that is not
\* in the catalog has its file name only.
MatchSource(document, a) ==
    IF a.declared = document THEN "METADATA_DOCUMENT_TYPE"
    ELSE IF a.label = document THEN "OCR_DOCUMENT_LABEL"
    ELSE IF document \notin DOMAIN Catalog
         THEN IF document \in a.named THEN "FILE_NAME_FALLBACK" ELSE None
    ELSE IF a.type # Catalog[document].type THEN None
    ELSE IF document \notin ByFileName THEN "ARTIFACT_TYPE"
    ELSE IF document \in a.named THEN "FILE_NAME_FALLBACK"
    ELSE None

Matches(document, a) == MatchSource(document, a) # None
===============================================================================
