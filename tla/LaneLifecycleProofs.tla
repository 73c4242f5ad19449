-------------------------- MODULE LaneLifecycleProofs --------------------------
(***************************************************************************)
(* Theorems about LaneLifecycle, for any documents, artifacts and          *)
(* requests.  The argument: while nothing is deleted the documents the     *)
(* evidence covers only grow (EvidenceGrows), so every score and every row *)
(* a request keeps, however stale, understates them (BoundInv), and a      *)
(* status past EVIDENCE_COLLECTING, wherever it is kept, is justified by   *)
(* them (StatusInv).  READY packs only grow as well (PackInv).  A status   *)
(* is written along an edge of the graph from the row its request read     *)
(* (GraphInv), and an upload evaluates under the lock (UploadInv), so the  *)
(* score is exact until the first analysis or deletion (ScoreInv).  Last,  *)
(* a lane that could be VALIDATED has a request on its way to see it       *)
(* (PendingInv).                                                           *)
(***************************************************************************)
EXTENDS LaneLifecycle, TLAPS

\* An upload in its transaction holds the lock, and its artifact is not there
\* before it commits.
UploadInv ==
    \A r \in Requests :
        /\ phase[r] = "inserting" => Is(r, "upload") /\ lock = r
        /\ Is(r, "upload") /\ phase[r] \in {"idle", "inserting"} => evidence[ArtifactOf[r]] = "absent"

\* Scores are refreshed after an analysis only.
RefreshInv == \A r \in Requests : phase[r] \in {"evaluating", "scoring"} => analysed # {}

\* A request keeps its pack from the end of packing on.
ReadyInv == \A r \in Requests : phase[r] \in {"idle", "packing"} => packs[r] # "ready"

\* The target of a request and the status it read are an edge of the graph.
GraphInv ==
    \A r \in Requests :
        phase[r] = "writing" \/ (phase[r] = "counting" /\ Manual(r)) =>
            <<seen[r].status, target[r]>> \in AllowedTransitions

\* Before the first analysis or deletion, scores are exact.
ScoreInv ==
    NothingDeleted /\ analysed = {} =>
        /\ lane.score = Covered(Active)
        /\ \A r \in Requests :
              phase[r] = "inserting" => draft[r] = Covered(Active \cup {ArtifactOf[r]})

\* Before the first deletion, scores understate the evidence ...
BoundInv ==
    NothingDeleted =>
        /\ lane.score \subseteq Covered(Active)
        /\ \A r \in Requests :
              /\ seen[r].score \subseteq Covered(Active)
              /\ phase[r] = "scoring" => draft[r] \subseteq Covered(Active)
              /\ phase[r] = "inserting" => draft[r] \subseteq Covered(Active \cup {ArtifactOf[r]})

\* ... and every status kept past EVIDENCE_COLLECTING is justified.
Early == {"CREATED", "EVIDENCE_COLLECTING"}
StatusInv ==
    NothingDeleted =>
        /\ lane.status \notin Early => Covered(Active) \in Sufficient
        /\ \A r \in Requests :
              /\ seen[r].status \notin Early => Covered(Active) \in Sufficient
              /\ phase[r] = "writing" /\ target[r] \notin Early => Covered(Active) \in Sufficient

\* A status that only a packed lane reaches, and a dispute, come with a READY
\* pack.
Packed == {"PACKED", "CLOSED", "CLAIM_DEFENSE", "DISPUTE_RESOLVED", "ARCHIVED"}
PackInv ==
    /\ lane.status \in Packed \/ disputes # {} => ReadyPack
    /\ \A r \in Requests :
          /\ seen[r].status \in Packed => ReadyPack
          /\ phase[r] = "writing" /\ target[r] \in Packed => ReadyPack
          /\ Is(r, "dispute") /\ phase[r] \notin {"idle", "done"} => ReadyPack
          /\ phase[r] = "disputing" => Is(r, "dispute")

IInv ==
    TypeOK /\ UploadInv /\ RefreshInv /\ ReadyInv /\ GraphInv /\ ScoreInv /\ BoundInv
    /\ StatusInv /\ PackInv

-----------------------------------------------------------------------------
(* Types *)

LEMMA InitType == Init => TypeOK
BY RequestAssumption DEF Init, TypeOK, Row, NewLane, Status, Phase

LEMMA CoveredType == ASSUME NEW S PROVE Covered(S) \subseteq Documents
BY DEF Covered

\* Finish resets the locals to values of their types.
LEMMA FinishType ==
    ASSUME TypeOK, NEW r \in Requests, Finish(r)
    PROVE  /\ phase' \in [Requests -> Phase]
           /\ seen' \in [Requests -> Row]
           /\ target' \in [Requests -> Status \cup {NoTarget}]
           /\ draft' \in [Requests -> SUBSET Documents]
BY DEF TypeOK, Finish, Goto, Row, NewLane, Status, Phase

\* An edge joins two statuses.
LEMMA EdgeType ==
    ASSUME NEW from, NEW to, <<from, to>> \in AllowedTransitions
    PROVE  from \in Status /\ to \in Status
BY DEF AllowedTransitions, Status

LEMMA NextType ==
    ASSUME TypeOK, GraphInv, [Next]_vars
    PROVE  TypeOK'
<1>1. ASSUME NEW r \in Requests, EvaluateUpload(r) PROVE TypeOK'
  BY <1>1, CoveredType DEF EvaluateUpload, TypeOK, Goto, Phase, world
<1>2. ASSUME NEW r \in Requests, CommitUpload(r) PROVE TypeOK'
  BY <1>2, RequestAssumption DEF CommitUpload, TypeOK, Goto, Phase, Row
<1>3. ASSUME NEW r \in Requests, Reanalyse(r) PROVE TypeOK'
  BY <1>3 DEF Reanalyse, TypeOK, Goto, Phase, world, locals
<1>4. ASSUME NEW r \in Requests, Analyse(r) PROVE TypeOK'
  BY <1>4, RequestAssumption DEF Analyse, TypeOK, Goto, Phase, locals
<1>5. ASSUME NEW r \in Requests, SkipAnalysis(r) PROVE TypeOK'
  BY <1>5 DEF SkipAnalysis, TypeOK, Goto, Phase, world, locals
<1>6. ASSUME NEW r \in Requests, Evaluate(r) PROVE TypeOK'
  BY <1>6, CoveredType DEF Evaluate, TypeOK, Goto, Phase, world
<1>7. ASSUME NEW r \in Requests, WriteScore(r) PROVE TypeOK'
  BY <1>7 DEF WriteScore, TypeOK, Goto, Phase, Row, world
<1>8. ASSUME NEW r \in Requests, Delete(r) PROVE TypeOK'
  BY <1>8, RequestAssumption DEF Delete, TypeOK, Goto, Phase, locals
<1>9. ASSUME NEW r \in Requests, RequestPack(r) PROVE TypeOK'
  BY <1>9 DEF RequestPack, TypeOK, Goto, Phase, locals
<1>10. ASSUME NEW r \in Requests, SettlePack(r) PROVE TypeOK'
  BY <1>10 DEF SettlePack, TypeOK, Goto, Phase, locals
<1>11. ASSUME NEW r \in Requests, RequestTransition(r) PROVE TypeOK'
  BY <1>11 DEF RequestTransition, TypeOK, Goto, Phase, world
<1>12. ASSUME NEW r \in Requests, RequestDispute(r) PROVE TypeOK'
  BY <1>12 DEF RequestDispute, TypeOK, Goto, Phase, Status, world
<1>13. ASSUME NEW r \in Requests, CommitDispute(r) PROVE TypeOK'
  BY <1>13, FinishType DEF CommitDispute, TypeOK
<1>14. ASSUME NEW r \in Requests, ReadLane(r) PROVE TypeOK'
  <2>1. CASE Finish(r)
    BY <1>14, <2>1, FinishType DEF ReadLane, TypeOK, world
  <2>2. CASE ~Finish(r)
    BY <1>14, <2>2 DEF ReadLane, TypeOK, Goto, Phase, world
  <2> QED BY <2>1, <2>2
<1>15. ASSUME NEW r \in Requests, Decide(r) PROVE TypeOK'
  <2>1. CASE Finish(r)
    BY <1>15, <2>1, FinishType DEF Decide, TypeOK, world
  <2>2. CASE ~Finish(r)
    <3>1. AutomaticTarget(seen[r], ReadyPack) \in Status \cup {NoTarget}
      BY DEF AutomaticTarget, Status
    <3>2. target[r] \in Status \cup {NoTarget}
      BY DEF TypeOK
    <3> QED BY <1>15, <2>2, <3>1, <3>2 DEF Decide, TypeOK, Goto, Phase, world
  <2> QED BY <2>1, <2>2
<1>16. ASSUME NEW r \in Requests, WriteStatus(r) PROVE TypeOK'
  <2>1. target[r] \in Status
    BY <1>16, EdgeType DEF WriteStatus, At, GraphInv
  <2> QED
    BY <1>16, <2>1 DEF WriteStatus, TypeOK, Goto, Phase, Row, world, locals
<1>17. ASSUME NEW r \in Requests, Record(r) PROVE TypeOK'
  <2>1. CASE Finish(r)
    BY <1>17, <2>1, FinishType DEF Record, TypeOK, world
  <2>2. CASE ~Finish(r)
    BY <1>17, <2>2 DEF Record, TypeOK, Goto, Phase, world, locals
  <2> QED BY <2>1, <2>2
<1>18. ASSUME NEW r \in Requests, Fail(r) PROVE TypeOK'
  BY <1>18, FinishType DEF Fail, TypeOK
<1>19. CASE Age
  BY <1>19 DEF Age, TypeOK, Row, world, locals
<1>20. CASE UNCHANGED vars
  BY <1>20 DEF vars, TypeOK
<1> QED
  BY <1>1, <1>2, <1>3, <1>4, <1>5, <1>6, <1>7, <1>8, <1>9, <1>10, <1>11, <1>12, <1>13,
     <1>14, <1>15, <1>16, <1>17, <1>18, <1>19, <1>20
  DEF Next, Arrive, Continue

-----------------------------------------------------------------------------
(* The local parts: each request's phase and what it keeps *)

LEMMA NextGraph ==
    ASSUME TypeOK, GraphInv, [Next]_vars
    PROVE  GraphInv'
<1> USE DEF TypeOK, GraphInv, Manual, At, Goto
<1>1. ASSUME NEW r \in Requests, ReadLane(r) PROVE GraphInv'
  BY <1>1 DEF ReadLane, Finish
<1>2. ASSUME NEW r \in Requests, Decide(r) PROVE GraphInv'
  BY <1>2 DEF Decide, Finish
<1>3. ASSUME NEW r \in Requests, Record(r) PROVE GraphInv'
  BY <1>3 DEF Record, Finish, Is, locals
<1>4. ASSUME NEW r \in Requests, WriteStatus(r) PROVE GraphInv'
  BY <1>4 DEF WriteStatus, locals
<1>5. ASSUME NEW r \in Requests, CommitDispute(r) \/ Fail(r) PROVE GraphInv'
  BY <1>5 DEF CommitDispute, Fail, Finish
<1>6. ASSUME NEW r \in Requests, RequestTransition(r) \/ RequestDispute(r) PROVE GraphInv'
  BY <1>6 DEF RequestTransition, RequestDispute
<1>7. ASSUME NEW r \in Requests,
             \/ EvaluateUpload(r) \/ Reanalyse(r) \/ Delete(r) \/ RequestPack(r) \/ CommitUpload(r)
             \/ Analyse(r) \/ SkipAnalysis(r) \/ Evaluate(r) \/ WriteScore(r) \/ SettlePack(r)
      PROVE GraphInv'
  BY <1>7 DEF EvaluateUpload, Reanalyse, Delete, RequestPack, CommitUpload, Analyse, SkipAnalysis,
              Evaluate, WriteScore, SettlePack, locals
<1>8. CASE Age \/ UNCHANGED vars
  BY <1>8 DEF Age, vars, locals
<1> QED
  BY <1>1, <1>2, <1>3, <1>4, <1>5, <1>6, <1>7, <1>8 DEF Next, Arrive, Continue

LEMMA NextUpload ==
    ASSUME TypeOK, UploadInv, [Next]_vars
    PROVE  UploadInv'
<1> USE RequestAssumption DEF TypeOK, UploadInv, Is, At, Goto
<1>1. ASSUME NEW r \in Requests, EvaluateUpload(r) PROVE UploadInv'
  BY <1>1 DEF EvaluateUpload, world
<1>2. ASSUME NEW r \in Requests, CommitUpload(r) PROVE UploadInv'
  BY <1>2 DEF CommitUpload
<1>3. ASSUME NEW r \in Requests, Delete(r) PROVE UploadInv'
  BY <1>3 DEF Delete
<1>4. ASSUME NEW r \in Requests, Fail(r) PROVE UploadInv'
  BY <1>4 DEF Fail, Finish
<1>5. ASSUME NEW r \in Requests,
             CommitDispute(r) \/ ReadLane(r) \/ Decide(r) \/ WriteStatus(r) \/ Record(r)
      PROVE UploadInv'
  BY <1>5 DEF CommitDispute, ReadLane, Decide, WriteStatus, Record, Finish, world
<1>6. ASSUME NEW r \in Requests,
             \/ Reanalyse(r) \/ RequestPack(r) \/ RequestTransition(r) \/ RequestDispute(r)
             \/ Analyse(r) \/ SkipAnalysis(r) \/ Evaluate(r) \/ WriteScore(r) \/ SettlePack(r)
      PROVE UploadInv'
  BY <1>6 DEF Reanalyse, RequestPack, RequestTransition, RequestDispute, Analyse, SkipAnalysis,
              Evaluate, WriteScore, SettlePack, world
<1>7. CASE Age \/ UNCHANGED vars
  BY <1>7 DEF Age, vars, world
<1> QED
  BY <1>1, <1>2, <1>3, <1>4, <1>5, <1>6, <1>7 DEF Next, Arrive, Continue

LEMMA NextRefresh ==
    ASSUME TypeOK, RefreshInv, [Next]_vars
    PROVE  RefreshInv'
<1> USE DEF TypeOK, RefreshInv, At, Goto
<1>1. ASSUME NEW r \in Requests, Arrive(r) PROVE RefreshInv'
  BY <1>1 DEF Arrive, EvaluateUpload, Reanalyse, Delete, RequestPack, RequestTransition,
              RequestDispute, world
<1>2. ASSUME NEW r \in Requests, Fail(r) PROVE RefreshInv'
  BY <1>2 DEF Fail, Finish
<1>3. ASSUME NEW r \in Requests,
             CommitDispute(r) \/ ReadLane(r) \/ Decide(r) \/ WriteStatus(r) \/ Record(r)
      PROVE RefreshInv'
  BY <1>3 DEF CommitDispute, ReadLane, Decide, WriteStatus, Record, Finish, world
<1>4. ASSUME NEW r \in Requests,
             \/ CommitUpload(r) \/ Analyse(r) \/ SkipAnalysis(r) \/ Evaluate(r) \/ WriteScore(r)
             \/ SettlePack(r)
      PROVE RefreshInv'
  BY <1>4 DEF CommitUpload, Analyse, SkipAnalysis, Evaluate, WriteScore, SettlePack, world
<1>5. CASE Age \/ UNCHANGED vars
  BY <1>5 DEF Age, vars, world
<1> QED
  BY <1>1, <1>2, <1>3, <1>4, <1>5 DEF Next, Continue

LEMMA NextReady ==
    ASSUME TypeOK, ReadyInv, [Next]_vars
    PROVE  ReadyInv' /\ (ReadyPack => ReadyPack')
<1> DEFINE Goal == ReadyInv' /\ (ReadyPack => ReadyPack')
<1> USE DEF TypeOK, ReadyInv, ReadyPack, At, Goto
<1>1. ASSUME NEW r \in Requests, Arrive(r) PROVE Goal
  BY <1>1 DEF Arrive, EvaluateUpload, Reanalyse, Delete, RequestPack, RequestTransition,
              RequestDispute, world
<1>2. ASSUME NEW r \in Requests, Fail(r) PROVE Goal
  BY <1>2 DEF Fail, Finish
<1>3. ASSUME NEW r \in Requests,
             CommitDispute(r) \/ ReadLane(r) \/ Decide(r) \/ WriteStatus(r) \/ Record(r)
      PROVE Goal
  BY <1>3 DEF CommitDispute, ReadLane, Decide, WriteStatus, Record, Finish, world
<1>4. ASSUME NEW r \in Requests,
             \/ CommitUpload(r) \/ Analyse(r) \/ SkipAnalysis(r) \/ Evaluate(r) \/ WriteScore(r)
             \/ SettlePack(r)
      PROVE Goal
  BY <1>4 DEF CommitUpload, Analyse, SkipAnalysis, Evaluate, WriteScore, SettlePack, world
<1>5. CASE Age \/ UNCHANGED vars
  BY <1>5 DEF Age, vars, world
<1> QED
  BY <1>1, <1>2, <1>3, <1>4, <1>5 DEF Next, Continue

-----------------------------------------------------------------------------
(* The evidence: it grows until something is deleted *)

\* More documents suffice all the more.
LEMMA SufficientGrows ==
    ASSUME NEW S, NEW T, S \subseteq T, T \subseteq Documents, S \in Sufficient
    PROVE  T \in Sufficient
BY DocumentAssumption

\* A step that leaves nothing deleted deletes nothing, and what the evidence
\* covers, with or without an upload's own artifact, does not shrink.
LEMMA EvidenceGrows ==
    ASSUME TypeOK, UploadInv, [Next]_vars, NothingDeleted'
    PROVE  /\ NothingDeleted
           /\ analysed \subseteq analysed'
           /\ Active \subseteq Active'
           /\ Covered(Active) \subseteq Covered(Active)'
           /\ Covered(Active) \in Sufficient => Covered(Active)' \in Sufficient
           /\ \A r \in Requests :
                 Covered(Active \cup {ArtifactOf[r]}) \subseteq Covered(Active \cup {ArtifactOf[r]})'
<1> DEFINE Grows == NothingDeleted /\ analysed \subseteq analysed' /\ Active \subseteq Active'
<1>1. ASSUME NEW r \in Requests, CommitUpload(r) PROVE Grows
  <2>1. evidence[ArtifactOf[r]] = "absent"
    BY <1>1 DEF CommitUpload, UploadInv, At
  <2> QED
    BY <1>1, <2>1, RequestAssumption DEF CommitUpload, TypeOK, NothingDeleted, Active
<1>2. ASSUME NEW r \in Requests, Delete(r) PROVE Grows
  BY <1>2, RequestAssumption DEF Delete, TypeOK, NothingDeleted
<1>3. ASSUME NEW r \in Requests, Analyse(r) PROVE Grows
  BY <1>3 DEF Analyse, NothingDeleted, Active
<1>4. ASSUME NEW r \in Requests,
             \/ EvaluateUpload(r) \/ Reanalyse(r) \/ RequestPack(r) \/ RequestTransition(r)
             \/ RequestDispute(r) \/ SkipAnalysis(r) \/ Evaluate(r) \/ WriteScore(r)
             \/ SettlePack(r) \/ CommitDispute(r) \/ ReadLane(r) \/ Decide(r) \/ WriteStatus(r)
             \/ Record(r) \/ Fail(r)
      PROVE evidence' = evidence /\ analysed' = analysed
  BY <1>4 DEF EvaluateUpload, Reanalyse, RequestPack, RequestTransition, RequestDispute,
              SkipAnalysis, Evaluate, WriteScore, SettlePack, CommitDispute, ReadLane, Decide,
              WriteStatus, Record, Fail, world
<1>5. ASSUME Age \/ UNCHANGED vars PROVE Grows
  BY <1>5 DEF Age, vars, world, NothingDeleted, Active
<1>6. ASSUME evidence' = evidence, analysed' = analysed PROVE Grows
  BY <1>6 DEF NothingDeleted, Active
<1>7. Grows
  BY <1>1, <1>2, <1>3, <1>4, <1>5, <1>6 DEF Next, Arrive, Continue
<1>8. Covered(Active) \subseteq Covered(Active)'
  BY <1>7 DEF Covered
<1>9. Covered(Active)' \subseteq Documents
  BY DEF Covered
<1>10. Covered(Active) \in Sufficient => Covered(Active)' \in Sufficient
  BY <1>8, <1>9, SufficientGrows
<1>11. \A r \in Requests :
         Covered(Active \cup {ArtifactOf[r]}) \subseteq Covered(Active \cup {ArtifactOf[r]})'
  BY <1>7 DEF Covered
<1> QED
  BY <1>7, <1>8, <1>10, <1>11

-----------------------------------------------------------------------------
(* Scores *)

\* What the steps that leave scores, evidence and analyses alone have in common.
ScoreFrame ==
    /\ lane'.score = lane.score /\ evidence' = evidence /\ analysed' = analysed
    /\ \A r \in Requests : phase'[r] \in {"inserting", "scoring"} =>
          phase'[r] = phase[r] /\ draft'[r] = draft[r]

Rescores(r) ==
    EvaluateUpload(r) \/ CommitUpload(r) \/ Evaluate(r) \/ WriteScore(r) \/ Analyse(r) \/ Delete(r)

LEMMA ScoreCases ==
    ASSUME TypeOK, [Next]_vars
    PROVE  ScoreFrame \/ \E r \in Requests : Rescores(r)
<1> USE DEF TypeOK, Row, ScoreFrame, Goto, world, locals
<1>1. ASSUME NEW r \in Requests,
             \/ Reanalyse(r) \/ RequestPack(r) \/ RequestTransition(r) \/ RequestDispute(r)
             \/ SkipAnalysis(r) \/ SettlePack(r)
      PROVE ScoreFrame
  BY <1>1 DEF Reanalyse, RequestPack, RequestTransition, RequestDispute, SkipAnalysis, SettlePack
<1>2. ASSUME NEW r \in Requests,
             CommitDispute(r) \/ ReadLane(r) \/ Decide(r) \/ Record(r) \/ Fail(r)
      PROVE ScoreFrame
  BY <1>2 DEF CommitDispute, ReadLane, Decide, Record, Fail, Finish
<1>3. ASSUME NEW r \in Requests, WriteStatus(r) PROVE ScoreFrame
  BY <1>3 DEF WriteStatus
<1>4. ASSUME Age \/ UNCHANGED vars PROVE ScoreFrame
  BY <1>4 DEF Age, vars
<1> QED
  BY <1>1, <1>2, <1>3, <1>4 DEF Next, Arrive, Continue, Rescores

\* A commit adds one artifact to the evidence and its draft to the lane.
LEMMA CommitEffect ==
    ASSUME TypeOK, NEW r \in Requests, CommitUpload(r)
    PROVE  /\ Active' = Active \cup {ArtifactOf[r]}
           /\ analysed' = analysed
           /\ lane'.score = draft[r]
<1>1. ArtifactOf[r] \in Artifacts
  BY RequestAssumption
<1>2. evidence' = [evidence EXCEPT ![ArtifactOf[r]] = "active"]
  BY DEF CommitUpload
<1>3. \A a \in Artifacts : evidence'[a] = "active" <=> evidence[a] = "active" \/ a = ArtifactOf[r]
  BY <1>1, <1>2 DEF TypeOK
<1>4. Active' = Active \cup {ArtifactOf[r]}
  BY <1>1, <1>3 DEF Active
<1> QED
  BY <1>4 DEF CommitUpload, TypeOK, Row

LEMMA NextScore ==
    ASSUME TypeOK, UploadInv, RefreshInv, ScoreInv, [Next]_vars
    PROVE  ScoreInv'
<1> SUFFICES ASSUME NothingDeleted', analysed' = {}
             PROVE  /\ lane'.score = Covered(Active)'
                    /\ \A r \in Requests : phase'[r] = "inserting" =>
                          draft'[r] = Covered(Active \cup {ArtifactOf[r]})'
  BY DEF ScoreInv
<1> DEFINE Goal == /\ lane'.score = Covered(Active)'
                   /\ \A r \in Requests : phase'[r] = "inserting" =>
                          draft'[r] = Covered(Active \cup {ArtifactOf[r]})'
<1>1. NothingDeleted /\ analysed = {}
  BY EvidenceGrows
<1>2. /\ lane.score = Covered(Active)
      /\ \A r \in Requests : phase[r] = "inserting" => draft[r] = Covered(Active \cup {ArtifactOf[r]})
  BY <1>1 DEF ScoreInv
<1>3. ASSUME ScoreFrame PROVE Goal
  BY <1>2, <1>3 DEF ScoreFrame, Covered, Active
<1>4. ASSUME NEW r \in Requests, EvaluateUpload(r) PROVE Goal
  BY <1>2, <1>4 DEF EvaluateUpload, TypeOK, Goto, At, Covered, Active, world
<1>5. ASSUME NEW r \in Requests, CommitUpload(r) PROVE Goal
  <2>1. Active' = Active \cup {ArtifactOf[r]} /\ analysed' = analysed /\ lane'.score = draft[r]
    BY <1>5, CommitEffect
  <2>2. draft[r] = Covered(Active \cup {ArtifactOf[r]})
    BY <1>2, <1>5 DEF CommitUpload, At
  <2>3. \A s \in Requests : phase'[s] # "inserting"
    BY <1>5 DEF CommitUpload, TypeOK, UploadInv, Goto, At
  <2> QED
    BY <2>1, <2>2, <2>3 DEF Covered
<1>6. ASSUME NEW r \in Requests, Evaluate(r) \/ WriteScore(r) PROVE Goal
  BY <1>1, <1>6 DEF Evaluate, WriteScore, RefreshInv, At
<1>7. ASSUME NEW r \in Requests, Analyse(r) PROVE Goal
  BY <1>7 DEF Analyse
<1>8. ASSUME NEW r \in Requests, Delete(r) PROVE Goal
  BY <1>8, RequestAssumption DEF Delete, TypeOK, NothingDeleted
<1> QED
  BY <1>3, <1>4, <1>5, <1>6, <1>7, <1>8, ScoreCases DEF Rescores

\* A request keeps the row it read before, the lane's, or none.
LEMMA SeenCases ==
    ASSUME TypeOK, [Next]_vars
    PROVE  \A r \in Requests : seen'[r] \in {seen[r], lane, NewLane}
<1> USE DEF TypeOK, locals
<1>1. ASSUME NEW s \in Requests,
             CommitDispute(s) \/ ReadLane(s) \/ Decide(s) \/ WriteStatus(s) \/ Record(s) \/ Fail(s)
      PROVE \A r \in Requests : seen'[r] \in {seen[r], lane, NewLane}
  BY <1>1 DEF CommitDispute, ReadLane, Decide, WriteStatus, Record, Fail, Finish
<1>2. ASSUME NEW s \in Requests,
             \/ EvaluateUpload(s) \/ Reanalyse(s) \/ Delete(s) \/ RequestPack(s)
             \/ RequestTransition(s) \/ RequestDispute(s) \/ CommitUpload(s) \/ Analyse(s)
             \/ SkipAnalysis(s) \/ Evaluate(s) \/ WriteScore(s) \/ SettlePack(s)
      PROVE seen' = seen
  BY <1>2 DEF EvaluateUpload, Reanalyse, Delete, RequestPack, RequestTransition, RequestDispute,
              CommitUpload, Analyse, SkipAnalysis, Evaluate, WriteScore, SettlePack
<1>3. CASE Age \/ UNCHANGED vars
  BY <1>3 DEF Age, vars
<1> QED
  BY <1>1, <1>2, <1>3 DEF Next, Arrive, Continue

LEMMA NextBound ==
    ASSUME TypeOK, UploadInv, BoundInv, [Next]_vars
    PROVE  BoundInv'
<1> DEFINE Goal ==
       /\ lane'.score \subseteq Covered(Active)'
       /\ \A r \in Requests :
             /\ seen'[r].score \subseteq Covered(Active)'
             /\ phase'[r] = "scoring" => draft'[r] \subseteq Covered(Active)'
             /\ phase'[r] = "inserting" => draft'[r] \subseteq Covered(Active \cup {ArtifactOf[r]})'
<1> SUFFICES ASSUME NothingDeleted'
             PROVE  Goal
  BY DEF BoundInv
<1>1. /\ lane.score \subseteq Covered(Active)
      /\ \A r \in Requests :
            /\ seen[r].score \subseteq Covered(Active)
            /\ phase[r] = "scoring" => draft[r] \subseteq Covered(Active)
            /\ phase[r] = "inserting" => draft[r] \subseteq Covered(Active \cup {ArtifactOf[r]})
  BY EvidenceGrows DEF BoundInv
<1>2. /\ Covered(Active) \subseteq Covered(Active)'
      /\ \A r \in Requests :
            Covered(Active \cup {ArtifactOf[r]}) \subseteq Covered(Active \cup {ArtifactOf[r]})'
  BY EvidenceGrows
<1>3. \A r \in Requests : seen'[r].score \subseteq Covered(Active)'
  <2>1. NewLane.score = {}
    BY DEF NewLane
  <2>2. ASSUME NEW r \in Requests PROVE seen'[r].score \subseteq Covered(Active)'
    <3>1. seen'[r] = seen[r] \/ seen'[r] = lane \/ seen'[r] = NewLane
      BY SeenCases
    <3>2. seen[r].score \subseteq Covered(Active) /\ lane.score \subseteq Covered(Active)
      BY <1>1
    <3>3. seen'[r].score \subseteq Covered(Active)
      BY <2>1, <3>1, <3>2
    <3> QED
      BY <1>2, <3>3
  <2> QED
    BY <2>2
<1>4. ASSUME lane'.score \subseteq Covered(Active),
             NEW r \in Requests,
             \A s \in Requests \ {r} : phase'[s] \in {"inserting", "scoring"} =>
                 phase'[s] = phase[s] /\ draft'[s] = draft[s],
             /\ phase'[r] = "scoring" => draft'[r] \subseteq Covered(Active)
             /\ phase'[r] = "inserting" => draft'[r] \subseteq Covered(Active \cup {ArtifactOf[r]})
      PROVE Goal
  BY <1>1, <1>2, <1>3, <1>4
<1>5. ASSUME ScoreFrame PROVE Goal
  BY <1>1, <1>2, <1>3, <1>5 DEF ScoreFrame
<1>6. ASSUME NEW r \in Requests, EvaluateUpload(r) PROVE Goal
  BY <1>1, <1>4, <1>6 DEF EvaluateUpload, TypeOK, Goto
<1>7. ASSUME NEW r \in Requests, CommitUpload(r) PROVE Goal
  <2>1. Active' = Active \cup {ArtifactOf[r]} /\ analysed' = analysed /\ lane'.score = draft[r]
    BY <1>7, CommitEffect
  <2>2. draft[r] \subseteq Covered(Active \cup {ArtifactOf[r]})
    BY <1>1, <1>7 DEF CommitUpload, At
  <2>3. lane'.score \subseteq Covered(Active)'
    BY <2>1, <2>2 DEF Covered
  <2>4. \A s \in Requests : phase'[s] \in {"inserting", "scoring"} =>
                               phase'[s] = phase[s] /\ draft'[s] = draft[s]
    BY <1>7 DEF CommitUpload, TypeOK, Goto
  <2> QED
    BY <1>1, <1>2, <1>3, <2>3, <2>4
<1>8. ASSUME NEW r \in Requests, Evaluate(r) PROVE Goal
  BY <1>1, <1>4, <1>8 DEF Evaluate, TypeOK, Goto
<1>9. ASSUME NEW r \in Requests, WriteScore(r) PROVE Goal
  BY <1>1, <1>4, <1>9 DEF WriteScore, TypeOK, Row, Goto, At
<1>10. ASSUME NEW r \in Requests, Analyse(r) PROVE Goal
  BY <1>1, <1>4, <1>10 DEF Analyse, TypeOK, Goto, locals
<1>11. ASSUME NEW r \in Requests, Delete(r) PROVE Goal
  BY <1>11, RequestAssumption DEF Delete, TypeOK, NothingDeleted
<1> QED
  BY <1>5, <1>6, <1>7, <1>8, <1>9, <1>10, <1>11, ScoreCases DEF Rescores

-----------------------------------------------------------------------------
(* Statuses *)

\* A status is written along an edge from the row its request read.
LEMMA StatusCases ==
    ASSUME TypeOK, [Next]_vars
    PROVE  \/ lane'.status = lane.status
           \/ \E r \in Requests : phase[r] = "writing" /\ lane'.status = target[r]
<1> USE DEF TypeOK, Row, At
<1>1. ASSUME NEW r \in Requests, WriteStatus(r)
      PROVE  phase[r] = "writing" /\ lane'.status = target[r]
  BY <1>1 DEF WriteStatus
<1>2. ASSUME NEW r \in Requests, CommitUpload(r) \/ WriteScore(r)
      PROVE  lane'.status = lane.status
  BY <1>2 DEF CommitUpload, WriteScore
<1>3. ASSUME NEW r \in Requests,
             \/ EvaluateUpload(r) \/ Reanalyse(r) \/ Delete(r) \/ RequestPack(r)
             \/ RequestTransition(r) \/ RequestDispute(r) \/ Analyse(r) \/ SkipAnalysis(r)
             \/ Evaluate(r) \/ SettlePack(r) \/ CommitDispute(r) \/ ReadLane(r) \/ Decide(r)
             \/ Record(r) \/ Fail(r)
      PROVE  lane' = lane
  BY <1>3 DEF EvaluateUpload, Reanalyse, Delete, RequestPack, RequestTransition, RequestDispute,
              Analyse, SkipAnalysis, Evaluate, SettlePack, CommitDispute, ReadLane, Decide, Record,
              Fail
<1>4. CASE Age \/ UNCHANGED vars
  BY <1>4 DEF Age, vars
<1> QED
  BY <1>1, <1>2, <1>3, <1>4 DEF Next, Arrive, Continue

\* A request arrives at writing from a decision on the row it read, and keeps
\* both until it has written.
LEMMA WritingCases ==
    ASSUME TypeOK, [Next]_vars, NEW r \in Requests, phase'[r] = "writing"
    PROVE  \/ phase[r] = "writing" /\ target'[r] = target[r]
           \/ /\ phase[r] = "counting" /\ seen'[r] = seen[r]
              /\ Manual(r) => target'[r] = target[r]
              /\ Guards(seen[r], target'[r], ReadyPack)
<1> DEFINE Kept == phase[r] = "writing" /\ target'[r] = target[r]
<1> USE DEF TypeOK, Goto, At
<1>1. ASSUME NEW s \in Requests, Decide(s), s # r PROVE Kept
  BY <1>1 DEF Decide, Finish
<1>2. CASE Decide(r)
  BY <1>2 DEF Decide, Finish
<1>3. ASSUME NEW s \in Requests,
             CommitDispute(s) \/ ReadLane(s) \/ WriteStatus(s) \/ Record(s) \/ Fail(s)
      PROVE  Kept
  BY <1>3 DEF CommitDispute, ReadLane, WriteStatus, Record, Fail, Finish, locals
<1>4. ASSUME NEW s \in Requests,
             \/ EvaluateUpload(s) \/ Reanalyse(s) \/ Delete(s) \/ RequestPack(s)
             \/ RequestTransition(s) \/ RequestDispute(s)
      PROVE  Kept
  BY <1>4 DEF EvaluateUpload, Reanalyse, Delete, RequestPack, RequestTransition, RequestDispute,
              locals
<1>5. ASSUME NEW s \in Requests,
             \/ CommitUpload(s) \/ Analyse(s) \/ SkipAnalysis(s) \/ Evaluate(s) \/ WriteScore(s)
             \/ SettlePack(s)
      PROVE  Kept
  BY <1>5 DEF CommitUpload, Analyse, SkipAnalysis, Evaluate, WriteScore, SettlePack, locals
<1>6. CASE Age \/ UNCHANGED vars
  BY <1>6 DEF Age, vars, locals
<1> QED
  BY <1>1, <1>2, <1>3, <1>4, <1>5, <1>6 DEF Next, Arrive, Continue

\* In the graph only EVIDENCE_COLLECTING precedes VALIDATED, only VALIDATED
\* precedes PACKED, and an edge that ends in a packed status otherwise begins in
\* one.
LEMMA Edges ==
    ASSUME NEW from, NEW to, <<from, to>> \in AllowedTransitions
    PROVE  /\ to \notin Early => from \notin Early \/ to = "VALIDATED"
           /\ to \in Packed => from \in Packed \/ to = "PACKED"
BY DEF AllowedTransitions, Early, Packed

LEMMA NextStatus ==
    ASSUME TypeOK, UploadInv, GraphInv, GraphInv', BoundInv, StatusInv, [Next]_vars
    PROVE  StatusInv'
<1> SUFFICES ASSUME NothingDeleted', Covered(Active)' \notin Sufficient
             PROVE  /\ lane'.status \in Early
                    /\ \A r \in Requests :
                          seen'[r].status \in Early /\ (phase'[r] = "writing" => target'[r] \in Early)
  BY DEF StatusInv
<1>1. NothingDeleted /\ Covered(Active) \notin Sufficient
  BY EvidenceGrows
<1>2. /\ lane.status \in Early
      /\ \A r \in Requests : seen[r].status \in Early /\ (phase[r] = "writing" => target[r] \in Early)
  BY <1>1 DEF StatusInv
<1>3. lane'.status \in Early
  BY <1>2, StatusCases
<1>4. ASSUME NEW r \in Requests PROVE seen'[r].status \in Early
  <2>1. NewLane.status \in Early
    BY DEF NewLane, Early
  <2>2. seen'[r] = seen[r] \/ seen'[r] = lane \/ seen'[r] = NewLane
    BY SeenCases
  <2> QED
    BY <1>2, <2>1, <2>2
<1>5. ASSUME NEW r \in Requests, phase'[r] = "writing" PROVE target'[r] \in Early
  <2>1. CASE phase[r] = "writing" /\ target'[r] = target[r]
    BY <1>2, <2>1
  <2>2. CASE seen'[r] = seen[r] /\ Guards(seen[r], target'[r], ReadyPack)
    <3>1. <<seen[r].status, target'[r]>> \in AllowedTransitions
      BY <1>5, <2>2 DEF GraphInv
    <3>2. seen[r].score \subseteq Covered(Active)
      BY <1>1 DEF BoundInv
    <3>3. seen[r].score \notin Sufficient
      BY <1>1, <3>2, SufficientGrows, CoveredType
    <3>4. target'[r] # "VALIDATED"
      BY <2>2, <3>3 DEF Guards
    <3> QED
      BY <1>2, <3>1, <3>4, Edges
  <2> QED
    BY <1>5, <2>1, <2>2, WritingCases
<1> QED
  BY <1>3, <1>4, <1>5

\* Disputes begin on a lane that was closed.
LEMMA DisputeCases ==
    ASSUME TypeOK, PackInv, [Next]_vars
    PROVE  /\ disputes' # {} => ReadyPack
           /\ \A r \in Requests :
                 /\ Is(r, "dispute") /\ phase'[r] \notin {"idle", "done"} => ReadyPack
                 /\ phase'[r] = "disputing" => Is(r, "dispute")
<1> DEFINE Goal ==
       /\ disputes' # {} => ReadyPack
       /\ \A r \in Requests :
             /\ Is(r, "dispute") /\ phase'[r] \notin {"idle", "done"} => ReadyPack
             /\ phase'[r] = "disputing" => Is(r, "dispute")
<1> USE DEF TypeOK, Goto, At, Is
<1>1. /\ lane.status \in Packed \/ disputes # {} => ReadyPack
      /\ \A r \in Requests :
            /\ Is(r, "dispute") /\ phase[r] \notin {"idle", "done"} => ReadyPack
            /\ phase[r] = "disputing" => Is(r, "dispute")
  BY DEF PackInv
<1> HIDE DEF PackInv
<1>2. ASSUME NEW s \in Requests, RequestDispute(s) PROVE Goal
  BY <1>1, <1>2 DEF RequestDispute, Packed, world
<1>3. ASSUME NEW s \in Requests, CommitDispute(s) \/ Fail(s) PROVE Goal
  BY <1>1, <1>3 DEF CommitDispute, Fail, Finish
<1>4. ASSUME NEW s \in Requests, ReadLane(s) \/ Decide(s) \/ WriteStatus(s) \/ Record(s) PROVE Goal
  BY <1>1, <1>4 DEF ReadLane, Decide, WriteStatus, Record, Finish, world, locals
<1>5. ASSUME NEW s \in Requests,
             \/ EvaluateUpload(s) \/ Reanalyse(s) \/ Delete(s) \/ RequestPack(s)
             \/ RequestTransition(s)
      PROVE  Goal
  BY <1>1, <1>5 DEF EvaluateUpload, Reanalyse, Delete, RequestPack, RequestTransition, world
<1>6. ASSUME NEW s \in Requests,
             \/ CommitUpload(s) \/ Analyse(s) \/ SkipAnalysis(s) \/ Evaluate(s) \/ WriteScore(s)
             \/ SettlePack(s)
      PROVE  Goal
  BY <1>1, <1>6 DEF CommitUpload, Analyse, SkipAnalysis, Evaluate, WriteScore, SettlePack, world
<1>7. CASE Age \/ UNCHANGED vars
  BY <1>1, <1>7 DEF Age, vars, world
<1> QED
  BY <1>2, <1>3, <1>4, <1>5, <1>6, <1>7 DEF Next, Arrive, Continue

LEMMA NextPack ==
    ASSUME TypeOK, ReadyInv, GraphInv, GraphInv', PackInv, [Next]_vars
    PROVE  PackInv'
<1> SUFFICES ASSUME ~ReadyPack'
             PROVE  /\ lane'.status \notin Packed /\ disputes' = {}
                    /\ \A r \in Requests :
                          /\ seen'[r].status \notin Packed
                          /\ phase'[r] = "writing" => target'[r] \notin Packed
                          /\ ~ (Is(r, "dispute") /\ phase'[r] \notin {"idle", "done"})
                          /\ phase'[r] = "disputing" => Is(r, "dispute")
  <2>1. \A r \in Requests : phase'[r] = "disputing" => Is(r, "dispute")
    BY DisputeCases
  <2> QED
    BY <2>1 DEF PackInv, Is
<1>1. ~ReadyPack
  BY NextReady
<1>2. /\ lane.status \notin Packed
      /\ \A r \in Requests :
            seen[r].status \notin Packed /\ (phase[r] = "writing" => target[r] \notin Packed)
  BY <1>1 DEF PackInv
<1>3. lane'.status \notin Packed
  BY <1>2, StatusCases
<1>4. ASSUME NEW r \in Requests PROVE seen'[r].status \notin Packed
  <2>1. NewLane.status \notin Packed
    BY DEF NewLane, Packed
  <2>2. seen'[r] = seen[r] \/ seen'[r] = lane \/ seen'[r] = NewLane
    BY SeenCases
  <2> QED
    BY <1>2, <2>1, <2>2
<1>5. ASSUME NEW r \in Requests, phase'[r] = "writing" PROVE target'[r] \notin Packed
  <2>1. CASE phase[r] = "writing" /\ target'[r] = target[r]
    BY <1>2, <2>1
  <2>2. CASE seen'[r] = seen[r] /\ Guards(seen[r], target'[r], ReadyPack)
    <3>1. <<seen[r].status, target'[r]>> \in AllowedTransitions
      BY <1>5, <2>2 DEF GraphInv
    <3>2. target'[r] # "PACKED"
      BY <1>1, <2>2 DEF Guards
    <3> QED
      BY <1>2, <3>1, <3>2, Edges
  <2> QED
    BY <1>5, <2>1, <2>2, WritingCases
<1> QED
  BY <1>1, <1>3, <1>4, <1>5, DisputeCases

-----------------------------------------------------------------------------
(* Theorems *)

LEMMA InitIInv == Init => IInv
<1> SUFFICES ASSUME Init PROVE IInv
  OBVIOUS
<1>1. TypeOK
  BY InitType
<1>2. UploadInv /\ RefreshInv /\ ReadyInv /\ GraphInv
  BY RequestAssumption DEF Init, UploadInv, RefreshInv, ReadyInv, GraphInv
<1>3. Covered(Active) = {}
  BY DEF Init, Covered, Active
<1>4. ScoreInv /\ BoundInv
  BY <1>3 DEF Init, ScoreInv, BoundInv, NewLane
<1>5. StatusInv /\ PackInv
  BY DEF Init, StatusInv, PackInv, NewLane, Early, Packed
<1> QED
  BY <1>1, <1>2, <1>4, <1>5 DEF IInv

LEMMA NextIInv == IInv /\ [Next]_vars => IInv'
<1> SUFFICES ASSUME IInv, [Next]_vars PROVE IInv'
  OBVIOUS
<1> USE DEF IInv
<1>1. TypeOK' /\ GraphInv'
  BY NextType, NextGraph
<1>2. UploadInv' /\ RefreshInv' /\ ReadyInv'
  BY NextUpload, NextRefresh, NextReady
<1>3. ScoreInv' /\ BoundInv'
  BY NextScore, NextBound
<1>4. StatusInv' /\ PackInv'
  BY <1>1, NextStatus, NextPack
<1> QED
  BY <1>1, <1>2, <1>3, <1>4

\* The strengthened invariant holds in every reachable state.
THEOREM LaneSafety == Spec => []IInv
BY InitIInv, NextIInv, PTL DEF Spec

\* Every variable of the lane model keeps its type.
THEOREM LaneTypeCorrect == Spec => []TypeOK
<1>1. IInv => TypeOK
  BY DEF IInv
<1> QED
  BY <1>1, LaneSafety, PTL

\* persistArtifact: however many uploads overlap, the score counts every
\* committed artifact until something is analysed or deleted.
THEOREM UploadScoresAreExact == Spec => []UploadsKeepScore
<1>1. IInv => UploadsKeepScore
  BY DEF IInv, ScoreInv, UploadsKeepScore
<1> QED
  BY <1>1, LaneSafety, PTL

\* transition and reconcileAutomaticTransitions: until something is deleted, no
\* interleaving moves a lane past EVIDENCE_COLLECTING without its evidence.
THEOREM ValidationHasEvidence == Spec => []EvidenceBeforeValidation
<1>1. IInv => EvidenceBeforeValidation
  BY DEF IInv, StatusInv, EvidenceBeforeValidation, Early
<1> QED
  BY <1>1, LaneSafety, PTL

\* validateTransitionGuards and createDispute: no interleaving leaves a packed,
\* closed, disputed or archived lane, or a dispute, without a READY proof pack.
THEOREM PackedLanesHavePacks == Spec => []PackBeforePacked
<1>1. IInv => PackBeforePacked
  BY DEF IInv, PackInv, PackBeforePacked, Packed
<1> QED
  BY <1>1, LaneSafety, PTL

\* transitionLaneStatus: the status leaves its graph only when the writer's row
\* has been replaced since it was read.
THEOREM GraphIsLeftByRacesOnly == Spec => OnlyRacesLeaveTheGraph
<1> DEFINE Raced == \E r \in Requests : At(r, "writing") /\ seen[r].status # lane.status
<1>1. IInv /\ [Next]_vars => [FollowsGraph \/ Raced]_vars
  <2> SUFFICES ASSUME IInv, [Next]_vars, ~Raced PROVE FollowsGraph
    OBVIOUS
  <2>1. CASE lane'.status = lane.status
    BY <2>1 DEF FollowsGraph
  <2>2. ASSUME NEW r \in Requests, phase[r] = "writing", lane'.status = target[r]
        PROVE  FollowsGraph
    BY <2>2 DEF IInv, GraphInv, At, FollowsGraph
  <2> QED
    BY <2>1, <2>2, StatusCases DEF IInv
<1> QED
  BY <1>1, LaneSafety, PTL DEF Spec, OnlyRacesLeaveTheGraph
-----------------------------------------------------------------------------
(* Reconciliation sees every change of the score *)

\* Nobody has moved the lane by hand.
Untouched == \A r \in Requests : Manual(r) => phase[r] = "idle"

\* The statuses a lane gets by itself, and those it is written to.
Calm == {"EVIDENCE_COLLECTING", "VALIDATED", "PACKED"}
UntouchedInv ==
    Untouched =>
        /\ lane.status \in Calm
        /\ \A r \in Requests : /\ seen[r].status \in Calm
                               /\ phase[r] = "writing" => target[r] \in {"VALIDATED", "PACKED"}

\* A lane that could be VALIDATED, and a request on its way to do so.
Eligible(row) == row.score \in Sufficient /\ row.status = "EVIDENCE_COLLECTING"
Pending(r) ==
    \/ phase[r] = "analysing" /\ Is(r, "upload")
    \/ phase[r] \in {"evaluating", "scoring", "reading"}
    \/ phase[r] = "counting" /\ Eligible(seen[r])
    \/ phase[r] = "writing" /\ target[r] = "VALIDATED"

PendingInv == Untouched /\ faults = 0 /\ Eligible(lane) => \E r \in Requests : Pending(r)

\* A step of a request leaves the others where they are; nobody becomes idle.
LEMMA OneRequest ==
    ASSUME TypeOK, NEW r \in Requests, Arrive(r) \/ Continue(r) \/ Fail(r)
    PROVE  /\ phase'[r] # "idle"
           /\ \A s \in Requests \ {r} :
                 phase'[s] = phase[s] /\ seen'[s] = seen[s] /\ target'[s] = target[s]
<1>1. ASSUME Finish(r) PROVE /\ phase'[r] # "idle"
                             /\ \A s \in Requests \ {r} :
                                   phase'[s] = phase[s] /\ seen'[s] = seen[s] /\ target'[s] = target[s]
  BY <1>1 DEF Finish, Goto, TypeOK
<1>2. ASSUME NEW p \in Phase \ {"idle"}, Goto(r, p)
      PROVE  phase'[r] # "idle" /\ \A s \in Requests \ {r} : phase'[s] = phase[s]
  BY <1>2 DEF Goto, TypeOK
<1>3. ASSUME Arrive(r) PROVE /\ phase'[r] # "idle"
                             /\ \A s \in Requests \ {r} :
                                   phase'[s] = phase[s] /\ seen'[s] = seen[s] /\ target'[s] = target[s]
  BY <1>2, <1>3 DEF Arrive, EvaluateUpload, Reanalyse, Delete, RequestPack, RequestTransition,
     RequestDispute, locals, Phase, TypeOK
<1>4. ASSUME ~Finish(r), ReadLane(r) \/ Decide(r) \/ Record(r)
      PROVE  /\ phase'[r] # "idle"
             /\ \A s \in Requests \ {r} :
                   phase'[s] = phase[s] /\ seen'[s] = seen[s] /\ target'[s] = target[s]
  BY <1>2, <1>4 DEF ReadLane, Decide, Record, locals, Phase, TypeOK
<1>5. ASSUME CommitUpload(r) \/ Analyse(r) \/ SkipAnalysis(r) \/ Evaluate(r) \/ WriteScore(r)
             \/ SettlePack(r) \/ WriteStatus(r)
      PROVE  /\ phase'[r] # "idle"
             /\ \A s \in Requests \ {r} :
                   phase'[s] = phase[s] /\ seen'[s] = seen[s] /\ target'[s] = target[s]
  BY <1>2, <1>5 DEF CommitUpload, Analyse, SkipAnalysis, Evaluate, WriteScore, SettlePack,
     WriteStatus, locals, Phase, TypeOK
<1> QED
  BY <1>1, <1>3, <1>4, <1>5 DEF Continue, Fail, CommitDispute

\* What the step of a request that nobody gave a target does with what it knows.
LEMMA NextUntouched ==
    ASSUME TypeOK, UntouchedInv, [Next]_vars
    PROVE  UntouchedInv' /\ (Untouched' => Untouched)
<1> SUFFICES ASSUME Untouched'
             PROVE  /\ Untouched
                    /\ lane'.status \in Calm
                    /\ \A r \in Requests : /\ seen'[r].status \in Calm
                                           /\ phase'[r] = "writing" => target'[r] \in {"VALIDATED", "PACKED"}
  BY DEF UntouchedInv
<1> USE DEF world, locals
<1>1. CASE UNCHANGED vars
  BY <1>1 DEF vars, Untouched, UntouchedInv
<1>2. CASE Age
  BY <1>2 DEF Age, Untouched, UntouchedInv, TypeOK, Row
<1>3. ASSUME NEW r \in Requests, Arrive(r) \/ Continue(r) \/ Fail(r)
      PROVE  /\ Untouched
             /\ lane'.status \in Calm
             /\ \A s \in Requests : /\ seen'[s].status \in Calm
                                    /\ phase'[s] = "writing" => target'[s] \in {"VALIDATED", "PACKED"}
  <2>1. phase'[r] # "idle" /\ \A s \in Requests \ {r} :
                 phase'[s] = phase[s] /\ seen'[s] = seen[s] /\ target'[s] = target[s]
    BY <1>3, OneRequest
  <2>2. Untouched /\ ~Manual(r)
    BY <2>1 DEF Untouched
  <2>3. /\ lane.status \in Calm
        /\ \A s \in Requests : /\ seen[s].status \in Calm
                               /\ phase[s] = "writing" => target[s] \in {"VALIDATED", "PACKED"}
    BY <2>2 DEF UntouchedInv
  <2>4. SUFFICES /\ lane'.status \in Calm /\ seen'[r].status \in Calm
                 /\ phase'[r] = "writing" => target'[r] \in {"VALIDATED", "PACKED"}
    BY <2>1, <2>2, <2>3
  <2>5. ASSUME Finish(r) PROVE seen'[r].status \in Calm /\ phase'[r] # "writing"
    BY <2>5 DEF Finish, Goto, NewLane, Calm, TypeOK
  <2>6. ASSUME NEW p \in Phase, Goto(r, p) PROVE phase'[r] = p
    BY <2>6 DEF Goto, TypeOK
  <2>7. CASE CommitUpload(r) \/ WriteScore(r)
    <3>1. lane'.status = lane.status /\ UNCHANGED seen /\ phase'[r] # "writing"
      BY <2>6, <2>7 DEF CommitUpload, WriteScore, Phase, TypeOK, Row
    <3> QED
      BY <2>3, <3>1
  <2>8. CASE WriteStatus(r)
    <3>1. lane'.status = target[r] /\ UNCHANGED seen /\ phase'[r] # "writing"
      BY <2>6, <2>8 DEF WriteStatus, Phase, TypeOK, Row
    <3> QED
      BY <2>3, <2>8, <3>1 DEF WriteStatus, At, Calm
  <2>9. CASE Decide(r)
    <3>1. UNCHANGED lane
      BY <2>9 DEF Decide
    <3>2. CASE Finish(r)
      BY <2>3, <2>5, <3>1, <3>2
    <3>3. CASE ~Finish(r)
      <4>1. /\ UNCHANGED seen
            /\ target' = [target EXCEPT ![r] = AutomaticTarget(seen[r], ReadyPack)]
            /\ AutomaticTarget(seen[r], ReadyPack) # NoTarget
        BY <2>2, <2>9, <3>3 DEF Decide
      <4>2. AutomaticTarget(seen[r], ReadyPack) \in {"VALIDATED", "PACKED"}
        BY <2>3, <4>1 DEF AutomaticTarget, Calm
      <4> QED
        BY <2>3, <3>1, <4>1, <4>2 DEF TypeOK
    <3> QED
      BY <3>2, <3>3
  <2>10. CASE ReadLane(r) \/ Record(r)
    <3>1. UNCHANGED lane
      BY <2>10 DEF ReadLane, Record
    <3>2. CASE Finish(r)
      BY <2>3, <2>5, <3>1, <3>2
    <3>3. CASE ~Finish(r)
      <4>1. seen' = [seen EXCEPT ![r] = lane] /\ Goto(r, "counting")
        BY <2>2, <2>10, <3>3 DEF ReadLane, Record, Manual, Is
      <4>2. seen'[r] = lane /\ phase'[r] = "counting"
        BY <2>6, <4>1 DEF Phase, TypeOK
      <4> QED
        BY <2>3, <3>1, <4>2
    <3> QED
      BY <3>2, <3>3
  <2>11. CASE Fail(r) \/ CommitDispute(r)
    BY <2>3, <2>5, <2>11 DEF Fail, CommitDispute
  <2>12. CASE Arrive(r) \/ Analyse(r) \/ SkipAnalysis(r) \/ Evaluate(r) \/ SettlePack(r)
    <3>1. UNCHANGED <<lane, seen>>
      BY <2>12 DEF Arrive, EvaluateUpload, Reanalyse, Delete, RequestPack, RequestTransition,
         RequestDispute, Analyse, SkipAnalysis, Evaluate, SettlePack
    <3>2. phase'[r] # "writing"
      BY <2>6, <2>12 DEF Arrive, EvaluateUpload, Reanalyse, Delete, RequestPack, RequestTransition,
         RequestDispute, Analyse, SkipAnalysis, Evaluate, SettlePack, Phase
    <3> QED
      BY <2>3, <3>1, <3>2
  <2> QED
    BY <1>3, <2>7, <2>8, <2>9, <2>10, <2>11, <2>12 DEF Continue
<1> QED
  BY <1>1, <1>2, <1>3 DEF Next

\* A pending request stays pending until it writes the status or the lane is
\* eligible no more.
LEMMA PendingStays ==
    ASSUME TypeOK, NEW r \in Requests, ~Manual(r), Pending(r), Eligible(lane), UNCHANGED lane,
           Arrive(r) \/ Continue(r)
    PROVE  Pending(r)'
<1>1. ASSUME NEW p \in Phase, Goto(r, p) PROVE phase'[r] = p
  BY <1>1 DEF Goto, TypeOK
<1>2. phase[r] \in {"analysing", "evaluating", "scoring", "reading", "counting", "writing"}
  BY DEF Pending
<1>3. CASE Analyse(r) \/ Evaluate(r)
  BY <1>1, <1>3 DEF Analyse, Evaluate, Phase, Pending
<1>4. CASE SkipAnalysis(r)
  BY <1>1, <1>4 DEF SkipAnalysis, At, Phase, Pending
<1>5. CASE WriteScore(r)
  BY <1>1, <1>5 DEF WriteScore, Phase, Pending
<1>6. CASE ReadLane(r)
  <2>1. seen' = [seen EXCEPT ![r] = lane] /\ Goto(r, "counting")
    BY <1>6 DEF ReadLane
  <2>2. seen'[r] = lane /\ phase'[r] = "counting"
    BY <1>1, <2>1 DEF Phase, TypeOK
  <2> QED
    BY <2>2 DEF Pending, Eligible
<1>7. CASE Decide(r)
  <2>1. phase[r] = "counting" /\ Eligible(seen[r])
    BY <1>7 DEF Decide, At, Pending
  <2>2. AutomaticTarget(seen[r], ReadyPack) = "VALIDATED"
    BY <2>1 DEF AutomaticTarget, Eligible
  <2>3. /\ "VALIDATED" # NoTarget
        /\ <<seen[r].status, "VALIDATED">> \in AllowedTransitions
        /\ Guards(seen[r], "VALIDATED", ReadyPack)
    BY <2>1, RequestAssumption DEF Eligible, AllowedTransitions, Guards, Status
  <2>4. target' = [target EXCEPT ![r] = "VALIDATED"] /\ Goto(r, "writing")
    BY <1>7, <2>2, <2>3 DEF Decide
  <2>5. target'[r] = "VALIDATED" /\ phase'[r] = "writing"
    BY <1>1, <2>4 DEF Phase, TypeOK
  <2> QED
    BY <2>5 DEF Pending
<1>8. CASE WriteStatus(r)
  <2>1. lane'.status = "VALIDATED"
    BY <1>8 DEF WriteStatus, At, Pending, TypeOK, Row
  <2> QED
    BY <2>1 DEF Eligible
<1>9. CASE Arrive(r) \/ CommitUpload(r) \/ SettlePack(r) \/ CommitDispute(r) \/ Record(r)
  BY <1>2, <1>9 DEF Arrive, EvaluateUpload, Reanalyse, Delete, RequestPack, RequestTransition,
     RequestDispute, CommitUpload, SettlePack, CommitDispute, Record, At
<1> QED
  BY <1>3, <1>4, <1>5, <1>6, <1>7, <1>8, <1>9 DEF Continue

LEMMA NextPending ==
    ASSUME TypeOK, UploadInv, UntouchedInv, PendingInv, [Next]_vars
    PROVE  PendingInv'
<1> SUFFICES ASSUME Untouched', faults' = 0, Eligible(lane)' PROVE \E r \in Requests : Pending(r)'
  BY DEF PendingInv
<1>0. Untouched
  BY NextUntouched
<1>1. CASE UNCHANGED vars
  BY <1>0, <1>1 DEF vars, PendingInv, Pending, Eligible
<1>2. CASE Age
  BY <1>2 DEF Age, Eligible, TypeOK, Row
<1>3. ASSUME NEW r \in Requests, Fail(r) PROVE FALSE
  BY <1>3 DEF Fail, TypeOK
<1>4. ASSUME NEW r \in Requests, Arrive(r) \/ Continue(r) PROVE \E s \in Requests : Pending(s)'
  <2>1. phase'[r] # "idle" /\ \A s \in Requests \ {r} :
                 phase'[s] = phase[s] /\ seen'[s] = seen[s] /\ target'[s] = target[s]
    BY <1>4, OneRequest
  <2>2. ~Manual(r) /\ UNCHANGED faults
    <3>1. UNCHANGED faults
      BY <1>4 DEF Arrive, Continue, EvaluateUpload, Reanalyse, Delete, RequestPack, RequestTransition,
         RequestDispute, CommitUpload, Analyse, SkipAnalysis, Evaluate, WriteScore, SettlePack,
         CommitDispute, ReadLane, Decide, WriteStatus, Record
    <3> QED
      BY <2>1, <3>1 DEF Untouched
  <2>3. CASE UNCHANGED lane
    <3>1. PICK s \in Requests : Pending(s)
      BY <1>0, <2>2, <2>3 DEF PendingInv, Eligible
    <3>2. CASE s = r
      BY <1>4, <2>2, <2>3, <3>1, <3>2, PendingStays DEF Eligible
    <3>3. CASE s # r
      BY <2>1, <3>1, <3>3 DEF Pending, Eligible
    <3> QED
      BY <3>2, <3>3
  <2>4. CASE CommitUpload(r)
    BY <2>4 DEF CommitUpload, UploadInv, At, Goto, Pending, TypeOK
  <2>5. CASE WriteScore(r)
    BY <2>5 DEF WriteScore, Goto, Pending, TypeOK
  <2>6. CASE WriteStatus(r)
    <3>1. lane'.status = target[r] /\ target[r] \in {"VALIDATED", "PACKED"}
      BY <1>0, <2>6 DEF WriteStatus, At, UntouchedInv, TypeOK, Row
    <3> QED
      BY <3>1 DEF Eligible
  <2>7. CASE ~(CommitUpload(r) \/ WriteScore(r) \/ WriteStatus(r))
    <3>1. UNCHANGED lane
      BY <1>4, <2>7 DEF Arrive, Continue, EvaluateUpload, Reanalyse, Delete, RequestPack,
         RequestTransition, RequestDispute, Analyse, SkipAnalysis, Evaluate, SettlePack,
         CommitDispute, ReadLane, Decide, Record
    <3> QED
      BY <2>3, <3>1
  <2> QED
    BY <2>4, <2>5, <2>6, <2>7
<1> QED
  BY <1>1, <1>2, <1>3, <1>4 DEF Next

\* When the requests are over, none failed and nobody moved the lane by hand, a
\* sufficient score has been seen by a reconciliation.  A lane is created with a score
\* of 0, so the rules must ask for a document.
THEOREM QuietLanesAreValidated ==
    ASSUME {} \notin Sufficient
    PROVE  Spec => []QuietLaneIsValidated
<1>1. Init => UntouchedInv /\ PendingInv
  BY RequestAssumption DEF Init, UntouchedInv, Calm, PendingInv, NewLane, Eligible
<1>2. UntouchedInv /\ PendingInv /\ TypeOK => QuietLaneIsValidated
  BY DEF PendingInv, QuietLaneIsValidated, Pending, Eligible, Untouched, Is, Manual
<1>3. IInv => TypeOK /\ UploadInv
  BY DEF IInv
<1> QED
  BY <1>1, <1>2, <1>3, NextUntouched, NextPending, LaneSafety, PTL DEF Spec
==============================================================================
