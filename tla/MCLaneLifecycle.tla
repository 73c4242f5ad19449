---------------------------- MODULE MCLaneLifecycle ----------------------------
(* Instances of LaneLifecycle for TLC; Checklist tells what files match and what a score is worth. *)
EXTENDS LaneLifecycle, ChecklistChecks, RuleFiles, TLC

CONSTANTS invoice, phyto, scan1, scan2, up1, up2, again, remove, pack1, move1, move2, dispute1

LabelOf(d) == IF d = invoice THEN "Commercial Invoice" ELSE "Phytosanitary Certificate"
Labels(S) == {LabelOf(d) : d \in S}

\* Both documents are needed.
MCSufficient == {{invoice, phyto}}

\* The name of the first file tells that it is an invoice, the type of the second that it
\* is a certificate; the analysis of the second agrees.
NamedScans == [a \in Artifacts |-> IF a = scan1 THEN {invoice} ELSE {phyto}]
MCRecognized == [a \in Artifacts |-> IF a = scan1 THEN {} ELSE {phyto}]

\* One file that is all the evidence: named after the one, declared to be the other.
WholeFile == [a \in Artifacts |-> Documents]

Scan(a) == IF a = scan1 THEN File("INVOICE", None, None, {"Commercial Invoice"}, Null, Null)
           ELSE File("PHYTO_CERT", None, None, {}, 9, Null)
Analysed(a) ==
    [Scan(a) EXCEPT !.named = {}, !.type = "OTHER",
                    !.label = Label(Scan(a).type, MatrixOnly,
                                    IF a = scan1 THEN {} ELSE {"Phytosanitary Certificate"})]
Shown(file) == {d \in Documents : ItemStatus(LabelOf(d), <<file>>, 0) = "PRESENT"}

\* The constants above are what Checklist computes.
ASSUME ConstantsAreComputed ==
    /\ MCSufficient =
         {S \in SUBSET Documents : Score(MangoWeights, Labels(Documents), Labels(S)).rounded >= 95}
    /\ NamedScans = [a \in Artifacts |-> Shown(Scan(a))]
    /\ MCRecognized = [a \in Artifacts |-> Shown(Analysed(a))]
    /\ WholeFile = [a \in Artifacts |-> Shown(
          File("INVOICE", "Phytosanitary Certificate", None, {"Commercial Invoice"}, 9, Null))]

MCKindOf == [r \in Requests |->
    CASE r \in {up1, up2} -> "upload"
      [] r = again -> "reanalyse"
      [] r = remove -> "delete"
      [] r = pack1 -> "pack"
      [] r = dispute1 -> "dispute"
      [] OTHER -> "transition"]
MCArtifactOf == [r \in Requests |-> IF r \in {up2, again} THEN scan2 ELSE scan1]

\* The two manual transitions are alike.
Symmetry == Permutations({move1, move2})
===============================================================================
