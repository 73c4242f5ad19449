-------------------------- MODULE EvidenceStoreProofs --------------------------
(***************************************************************************)
(* Theorems about EvidenceStore, for any artifacts, keys and requests.     *)
(* The argument: an artifact's row is absent until its upload commits      *)
(* (EarlyInv), and whatever a request found in the tables stays there      *)
(* (FoundInv), so a commit links a source that no link can target to       *)
(* artifacts committed before it (LinkInv), which keeps the graph free of  *)
(* cycles.  Objects are put before the transaction begins (StoredInv).  An *)
(* upload leaves its own verification with a status, or without a row that *)
(* counts (SubjectInv, VerifiedInv).                                       *)
(***************************************************************************)
EXTENDS EvidenceStore, TLAPS

Early == {"idle", "begin", "lane", "checkpoint", "check"}

\* Before the commit there is no row.
EarlyInv == \A a \in Artifacts : phase[a] \in Early => status[a] = "absent"

\* What a request looked up, reports on or is about to delete has a row; so does
\* what is deleted.
FoundInv ==
    /\ \A a \in Artifacts : \A t \in picked[a] : t \in unchecked[a] \/ status[t] # "absent"
    /\ \A v \in Verifiers, a \in Artifacts : report[v][a] # "out" => status[a] # "absent"
    /\ \A d \in Deletions : phase[d] = "deleting" => status[DeletionOf[d]] # "absent"
    /\ \A a \in deleted : status[a] # "absent"

\* Links join artifacts with a row.
LinkInv == \A a, b \in Artifacts :
    <<a, b>> \in links => status[a] # "absent" /\ status[b] # "absent"

\* From its first step to its end an upload has, or had, its object stored, and
\* so has every artifact.
Kept(a) ==
    \/ KeyOf[a] \in objects
    \/ \E b \in Artifacts : KeyOf[b] = KeyOf[a] /\ phase[b] = "removed"
StoredInv == \A a \in Artifacts :
    phase[a] \in {"begin", "lane", "checkpoint", "check"} \/ status[a] # "absent" => Kept(a)

\* The first verification of an upload is about its own artifact.
SubjectInv == \A a, b \in Artifacts : phase[a] = "hash" => (report[a][b] # "out" <=> b = a)

\* After it the artifact has a status, unless it was deleted or something failed.
VerifiedInv == \A a \in Active :
    phase[a] \in {"survey", "rehash", "analyse", "done"} /\ faults = 0 => status[a] # "PENDING"

IInv ==
    TypeOK /\ EarlyInv /\ FoundInv /\ LinkInv /\ NoCycles /\ StoredInv /\ SubjectInv /\ VerifiedInv

-----------------------------------------------------------------------------
(* Types *)

LEMMA ActiveType == Active \subseteq Artifacts
BY DEF Active

LEMMA InitType == Init => TypeOK
<1> SUFFICES ASSUME Init PROVE TypeOK
  OBVIOUS
<1>1. Nothing \in [Artifacts -> Findings]
  BY DEF Nothing, Findings
<1>2. phase \in [Requests -> Phase]
  BY DEF Init, Phase
<1> QED
  BY <1>1, <1>2, RequestAssumption DEF Init, TypeOK, Statuses

\* Forgetting the links leaves the types of what is remembered.
LEMMA ForgetType ==
    ASSUME TypeOK, NEW a \in Artifacts, Forget(a)
    PROVE  /\ picked' \in [Artifacts -> SUBSET Artifacts]
           /\ unchecked' \in [Artifacts -> SUBSET Artifacts]
           /\ \A b \in Artifacts : b \notin picked'[b]
BY DEF Forget, TypeOK

LEMMA GotoType ==
    ASSUME TypeOK, NEW r \in Requests, NEW p \in Phase, Goto(r, p)
    PROVE  phase' \in [Requests -> Phase]
BY DEF Goto, TypeOK

LEMMA FaultType ==
    ASSUME TypeOK, Fault
    PROVE  faults' \in 0..MaxFaults /\ faults' # 0
BY RequestAssumption DEF Fault, TypeOK

LEMMA ReportType ==
    ASSUME TypeOK, NEW v \in Verifiers, NEW f \in [Artifacts -> Findings],
           report' = [report EXCEPT ![v] = f]
    PROVE  report' \in [Verifiers -> [Artifacts -> Findings]]
BY DEF TypeOK

LEMMA FindingType ==
    ASSUME TypeOK, NEW v \in Verifiers, NEW a \in Artifacts, NEW f \in Findings,
           report' = [report EXCEPT ![v][a] = f]
    PROVE  report' \in [Verifiers -> [Artifacts -> Findings]]
BY DEF TypeOK

LEMMA NothingType == Nothing \in [Artifacts -> Findings]
BY DEF Nothing, Findings

LEMMA AfterType == \A v \in Verifiers : After(v) \in Phase
BY DEF After, Phase

LEMMA Members ==
    /\ Artifacts \subseteq Verifiers /\ Checks \subseteq Verifiers
    /\ Verifiers \subseteq Requests /\ Deletions \subseteq Requests
BY DEF Verifiers, Requests

LEMMA NextType ==
    ASSUME TypeOK, EarlyInv, [Next]_vars
    PROVE  TypeOK'
<1> USE Members DEF rows, linking
<1>1. ASSUME NEW a \in Artifacts, Put(a) \/ PutFails(a) PROVE TypeOK'
  <2>1. phase' \in [Requests -> Phase]
    BY <1>1, GotoType DEF Put, PutFails, Phase
  <2>2. faults' \in 0..MaxFaults
    BY <1>1, FaultType DEF Put, PutFails, TypeOK
  <2>3. objects' \subseteq Keys
    BY <1>1, UploadAssumption DEF Put, PutFails, TypeOK
  <2> QED BY <1>1, <2>1, <2>2, <2>3 DEF Put, PutFails, TypeOK
<1>2. ASSUME NEW a \in Artifacts, Begin(a) PROVE TypeOK'
  <2>1. phase' \in [Requests -> Phase]
    BY <1>2, GotoType DEF Begin, Phase
  <2> QED BY <1>2, <2>1 DEF Begin, TypeOK
<1>3. ASSUME NEW a \in Artifacts, FindLatest(a) PROVE TypeOK'
  <2>1. phase' \in [Requests -> Phase]
    BY <1>3, GotoType DEF FindLatest, Phase
  <2>2. PICK W \in Wanted[a] : picked' = [picked EXCEPT ![a] = W \cup LatestOf(Active)]
    BY <1>3 DEF FindLatest
  <2>3. LatestOf(Active) \subseteq Active /\ a \notin Active
    BY <1>3 DEF LatestOf, Active, EarlyInv, Early, FindLatest, At
  <2>4. W \subseteq Artifacts /\ a \notin W
    BY UploadAssumption
  <2>5. W \cup LatestOf(Active) \in SUBSET Artifacts /\ a \notin W \cup LatestOf(Active)
    BY <2>3, <2>4, ActiveType
  <2>6. unchecked' = [unchecked EXCEPT ![a] = picked'[a]]
    BY <1>3 DEF FindLatest
  <2> QED BY <1>3, <2>1, <2>2, <2>5, <2>6 DEF FindLatest, TypeOK
<1>4. ASSUME NEW a \in Artifacts, FindLatestOfCheckpoint(a) PROVE TypeOK'
  <2>1. phase' \in [Requests -> Phase]
    BY <1>4, GotoType DEF FindLatestOfCheckpoint, Phase
  <2> DEFINE before == LatestOf({b \in Active : CheckpointOf[b] = CheckpointOf[a]})
  <2>2. before \subseteq Artifacts /\ a \notin before
    BY <1>4, ActiveType DEF LatestOf, Active, EarlyInv, Early, FindLatestOfCheckpoint, At
  <2>3. /\ picked' = [picked EXCEPT ![a] = picked[a] \cup before]
        /\ unchecked' = [unchecked EXCEPT ![a] = picked'[a]]
    BY <1>4 DEF FindLatestOfCheckpoint
  <2> HIDE DEF before
  <2> QED BY <1>4, <2>1, <2>2, <2>3 DEF FindLatestOfCheckpoint, TypeOK
<1>5. ASSUME NEW a \in Artifacts, CheckLink(a) PROVE TypeOK'
  BY <1>5 DEF CheckLink, TypeOK
<1>6. ASSUME NEW a \in Artifacts, RejectLink(a) \/ TransactionFails(a) PROVE TypeOK'
  <2>1. phase' \in [Requests -> Phase]
    BY <1>6, GotoType DEF RejectLink, TransactionFails, Phase
  <2>2. faults' \in 0..MaxFaults
    BY <1>6, FaultType DEF RejectLink, TransactionFails, TypeOK
  <2> QED BY <1>6, <2>1, <2>2, ForgetType DEF RejectLink, TransactionFails, TypeOK
<1>7. ASSUME NEW a \in Artifacts, Commit(a) \/ CommitUnanswered(a) PROVE TypeOK'
  <2>1. phase' \in [Requests -> Phase]
    BY <1>7, GotoType DEF Commit, CommitUnanswered, Phase
  <2>2. faults' \in 0..MaxFaults
    BY <1>7, FaultType DEF Commit, CommitUnanswered, TypeOK
  <2>3. Insert(a)
    BY <1>7 DEF Commit, CommitUnanswered
  <2>4. status' \in [Artifacts -> Statuses \cup {"absent"}] /\ links' \subseteq Artifacts \X Artifacts
    BY <2>3 DEF Insert, TypeOK, Statuses
  <2> QED BY <2>1, <2>2, <2>3, <2>4, ForgetType DEF Insert, TypeOK
<1>8. ASSUME NEW a \in Artifacts,
             Announce(a) \/ RefreshFails(a) \/ RemoveObject(a) \/ RemoveFails(a)
      PROVE TypeOK'
  <2>1. phase' \in [Requests -> Phase]
    BY <1>8, GotoType DEF Announce, RefreshFails, RemoveObject, RemoveFails, Phase
  <2>2. faults' \in 0..MaxFaults
    BY <1>8, FaultType DEF Announce, RefreshFails, RemoveObject, RemoveFails, TypeOK
  <2> QED BY <1>8, <2>1, <2>2 DEF Announce, RefreshFails, RemoveObject, RemoveFails, TypeOK
<1>9. ASSUME NEW v \in Verifiers, RequireArtifact(v) PROVE TypeOK'
  <2>1. phase' \in [Requests -> Phase]
    BY <1>9, GotoType, AfterType DEF RequireArtifact, Phase
  <2>2. [Nothing EXCEPT ![Subject(v)] = "listed"] \in [Artifacts -> Findings]
    BY NothingType DEF Findings
  <2>3. report' \in [Verifiers -> [Artifacts -> Findings]]
    BY <1>9, <2>2, ReportType DEF RequireArtifact, TypeOK
  <2> QED BY <1>9, <2>1, <2>3 DEF RequireArtifact, TypeOK
<1>10. ASSUME NEW v \in Verifiers, Survey(v) PROVE TypeOK'
  <2>1. phase' \in [Requests -> Phase]
    BY <1>10, GotoType DEF Survey, Phase
  <2>2. [a \in Artifacts |-> IF a \notin Active THEN "out"
                             ELSE IF OnCycle(a) THEN "FAILED" ELSE "listed"]
          \in [Artifacts -> Findings]
    BY DEF Findings
  <2>3. report' \in [Verifiers -> [Artifacts -> Findings]]
    BY <1>10, <2>2, ReportType DEF Survey
  <2> QED BY <1>10, <2>1, <2>3 DEF Survey, TypeOK
<1>11. ASSUME NEW v \in Verifiers, Hash(v) \/ HashFails(v) PROVE TypeOK'
  <2>1. faults' \in 0..MaxFaults
    BY <1>11, FaultType DEF Hash, HashFails, TypeOK
  <2>2. PICK a \in Artifacts, f \in Findings : report' = [report EXCEPT ![v][a] = f]
    BY <1>11 DEF Hash, HashFails, Findings
  <2>3. report' \in [Verifiers -> [Artifacts -> Findings]]
    BY <2>2, FindingType
  <2> QED BY <1>11, <2>1, <2>3 DEF Hash, HashFails, TypeOK
<1>12. ASSUME NEW v \in Verifiers, Record(v) PROVE TypeOK'
  <2>1. phase' \in [Requests -> Phase]
    BY <1>12, GotoType, AfterType DEF Record
  <2>2. report' \in [Verifiers -> [Artifacts -> Findings]]
    BY <1>12, ReportType, NothingType DEF Record
  <2>3. status' \in [Artifacts -> Statuses \cup {"absent"}]
    BY <1>12 DEF Record, TypeOK, Hashed, Findings, Statuses
  <2> QED BY <1>12, <2>1, <2>2, <2>3 DEF Record, TypeOK
<1>13. ASSUME NEW v \in Verifiers, VerificationFails(v) PROVE TypeOK'
  <2>1. phase' \in [Requests -> Phase]
    BY <1>13, GotoType, AfterType DEF VerificationFails, Phase
  <2>2. report' \in [Verifiers -> [Artifacts -> Findings]]
    BY <1>13, ReportType, NothingType DEF VerificationFails
  <2> QED BY <1>13, <2>1, <2>2, FaultType DEF VerificationFails, TypeOK
<1>14. ASSUME NEW d \in Deletions, Delete(d) PROVE TypeOK'
  <2>1. phase' \in [Requests -> Phase]
    BY <1>14, GotoType DEF Delete, RequireForDelete, SoftDelete, DeleteFails, Phase
  <2>2. faults' \in 0..MaxFaults
    BY <1>14, FaultType DEF Delete, RequireForDelete, SoftDelete, DeleteFails, TypeOK
  <2> QED
    BY <1>14, <2>1, <2>2, RequestAssumption
    DEF Delete, RequireForDelete, SoftDelete, DeleteFails, TypeOK
<1>15. ASSUME NEW r \in Requests, Crash(r) PROVE TypeOK'
  <2>1. phase' \in [Requests -> Phase]
    BY <1>15, GotoType DEF Crash, Phase
  <2>2. report' \in [Verifiers -> [Artifacts -> Findings]]
    BY <1>15, ReportType, NothingType DEF Crash, TypeOK
  <2> QED BY <1>15, <2>1, <2>2, FaultType, ForgetType DEF Crash, TypeOK
<1>16. CASE UNCHANGED vars
  BY <1>16 DEF vars, TypeOK
<1> QED
  BY <1>1, <1>2, <1>3, <1>4, <1>5, <1>6, <1>7, <1>8, <1>9, <1>10, <1>11, <1>12, <1>13, <1>14,
     <1>15, <1>16 DEF Next, Upload, Verify

-----------------------------------------------------------------------------
(* What a step can do to rows and phases *)

\* The rows change by a commit, a report or a soft delete.
LEMMA RowCases ==
    ASSUME [Next]_vars
    PROVE  \/ \E a \in Artifacts : Insert(a) /\ At(a, "check")
              /\ (Goto(a, "verify") \/ (Goto(a, "remove") /\ Fault))
           \/ \E v \in Verifiers : Record(v)
           \/ \E d \in Deletions : SoftDelete(d)
           \/ UNCHANGED <<status, deleted, links>>
<1> USE DEF rows, linking
<1>1. ASSUME NEW a \in Artifacts, Commit(a) \/ CommitUnanswered(a)
      PROVE  Insert(a) /\ At(a, "check") /\ (Goto(a, "verify") \/ (Goto(a, "remove") /\ Fault))
  BY <1>1 DEF Commit, CommitUnanswered, Insert
<1>2. ASSUME NEW a \in Artifacts,
             \/ Put(a) \/ PutFails(a) \/ Begin(a) \/ FindLatest(a) \/ FindLatestOfCheckpoint(a)
             \/ CheckLink(a) \/ RejectLink(a) \/ TransactionFails(a)
             \/ Announce(a) \/ RefreshFails(a) \/ RemoveObject(a) \/ RemoveFails(a)
      PROVE  UNCHANGED <<status, deleted, links>>
  BY <1>2 DEF Put, PutFails, Begin, FindLatest, FindLatestOfCheckpoint, CheckLink, RejectLink,
              TransactionFails, Announce, RefreshFails, RemoveObject, RemoveFails
<1>3. ASSUME NEW v \in Verifiers,
             RequireArtifact(v) \/ Survey(v) \/ Hash(v) \/ HashFails(v) \/ VerificationFails(v)
      PROVE  UNCHANGED <<status, deleted, links>>
  BY <1>3 DEF RequireArtifact, Survey, Hash, HashFails, VerificationFails
<1>4. ASSUME NEW d \in Deletions, RequireForDelete(d) \/ DeleteFails(d)
      PROVE  UNCHANGED <<status, deleted, links>>
  BY <1>4 DEF RequireForDelete, DeleteFails
<1>5. ASSUME NEW r \in Requests, Crash(r) PROVE UNCHANGED <<status, deleted, links>>
  BY <1>5 DEF Crash
<1>6. CASE UNCHANGED vars
  BY <1>6 DEF vars
<1> QED
  BY <1>1, <1>2, <1>3, <1>4, <1>5, <1>6 DEF Next, Upload, Verify, Delete

\* Uploads only move on, and a failed one stays failed.
LEMMA PhaseSteps ==
    ASSUME TypeOK, [Next]_vars, NEW a \in Artifacts
    PROVE  /\ phase'[a] \in Early => phase[a] \in Early
           /\ phase'[a] \in Early \ {"idle", "begin"} => phase[a] \in Early \ {"idle"}
           /\ phase[a] = "removed" => phase'[a] = "removed"
<1> DEFINE Goal == /\ phase'[a] \in Early => phase[a] \in Early
                   /\ phase'[a] \in Early \ {"idle", "begin"} => phase[a] \in Early \ {"idle"}
                   /\ phase[a] = "removed" => phase'[a] = "removed"
<1> USE Members, RequestAssumption DEF TypeOK, Early, Goto, At
<1>1. ASSUME NEW b \in Artifacts,
             \/ Put(b) \/ PutFails(b) \/ Begin(b) \/ FindLatest(b) \/ FindLatestOfCheckpoint(b)
             \/ CheckLink(b) \/ RejectLink(b) \/ TransactionFails(b)
      PROVE  Goal
  BY <1>1 DEF Put, PutFails, Begin, FindLatest, FindLatestOfCheckpoint, CheckLink, RejectLink,
              TransactionFails, InTransaction
<1>2. ASSUME NEW b \in Artifacts,
             \/ Commit(b) \/ CommitUnanswered(b) \/ Announce(b) \/ RefreshFails(b)
             \/ RemoveObject(b) \/ RemoveFails(b)
      PROVE  Goal
  BY <1>2 DEF Commit, CommitUnanswered, Insert, Announce, RefreshFails, RemoveObject, RemoveFails
<1>3. ASSUME NEW v \in Verifiers, Verify(v) PROVE Goal
  BY <1>3 DEF Verify, RequireArtifact, Survey, Hash, HashFails, Record, VerificationFails, After
<1>4. ASSUME NEW d \in Deletions, Delete(d) PROVE Goal
  <2>1. a # d
    BY RequestAssumption
  <2> QED BY <1>4, <2>1 DEF Delete, RequireForDelete, SoftDelete, DeleteFails
<1>5. ASSUME NEW r \in Requests, Crash(r) PROVE Goal
  BY <1>5 DEF Crash
<1>6. CASE UNCHANGED vars
  BY <1>6 DEF vars
<1> QED
  BY <1>1, <1>2, <1>3, <1>4, <1>5, <1>6 DEF Next, Upload

\* No row goes away, and one appears only with the commit of its upload.
LEMMA StatusGrows ==
    ASSUME TypeOK, FoundInv, [Next]_vars
    PROVE  \A a \in Artifacts :
              /\ status[a] # "absent" => status'[a] # "absent"
              /\ status[a] = "absent" /\ status'[a] # "absent" =>
                    phase[a] = "check" /\ phase'[a] \notin Early
<1> DEFINE Goal == \A a \in Artifacts :
              /\ status[a] # "absent" => status'[a] # "absent"
              /\ status[a] = "absent" /\ status'[a] # "absent" =>
                    phase[a] = "check" /\ phase'[a] \notin Early
<1>1. ASSUME NEW b \in Artifacts, Insert(b), At(b, "check"),
             Goto(b, "verify") \/ (Goto(b, "remove") /\ Fault)
      PROVE  Goal
  BY <1>1, Members DEF Insert, At, Goto, TypeOK, Early
<1>2. ASSUME NEW v \in Verifiers, Record(v) PROVE Goal
  <2>1. \A a \in Artifacts : status'[a] = status[a] \/ (a \in Hashed(v) /\ status'[a] = report[v][a])
    BY <1>2 DEF Record, TypeOK
  <2>2. \A a \in Hashed(v) : status[a] # "absent" /\ report[v][a] # "absent"
    BY DEF Hashed, FoundInv, TypeOK, Findings
  <2> QED BY <2>1, <2>2
<1>3. ASSUME status' = status PROVE Goal
  BY <1>3
<1> QED
  BY <1>1, <1>2, <1>3, RowCases DEF SoftDelete

LEMMA NextEarly ==
    ASSUME TypeOK, FoundInv, EarlyInv, [Next]_vars
    PROVE  EarlyInv'
BY PhaseSteps, StatusGrows DEF EarlyInv

-----------------------------------------------------------------------------
(* What requests found *)

LEMMA NextFound ==
    ASSUME TypeOK, FoundInv, [Next]_vars
    PROVE  FoundInv'
<1>1. \A a \in Artifacts : status[a] # "absent" => status'[a] # "absent"
  BY StatusGrows
<1>2. \A a \in Active : status'[a] # "absent"
  BY <1>1 DEF Active
<1>3. ASSUME NEW a \in Artifacts, NEW t \in picked'[a]
      PROVE  t \in unchecked'[a] \/ status'[t] # "absent"
  <2> USE Members DEF rows, linking
  <2>1. ASSUME NEW b \in Artifacts, FindLatest(b) \/ FindLatestOfCheckpoint(b) PROVE t \in unchecked'[a] \/ status'[t] # "absent"
    <3>1. CASE a = b
      BY <2>1, <3>1, <1>3 DEF FindLatest, FindLatestOfCheckpoint, TypeOK
    <3>2. CASE a # b
      BY <2>1, <3>2, <1>1, <1>3 DEF FindLatest, FindLatestOfCheckpoint, TypeOK, FoundInv
    <3> QED BY <3>1, <3>2
  <2>2. ASSUME NEW b \in Artifacts, CheckLink(b) PROVE t \in unchecked'[a] \/ status'[t] # "absent"
    BY <2>2, <1>1, <1>2, <1>3 DEF CheckLink, Found, TypeOK, FoundInv
  <2>3. ASSUME NEW b \in Requests,
               \/ (b \in Artifacts /\ Forget(b))
               \/ UNCHANGED linking
        PROVE t \in unchecked'[a] \/ status'[t] # "absent"
    BY <2>3, <1>1, <1>3 DEF Forget, TypeOK, FoundInv
  <2>4. ASSUME NEW b \in Artifacts,
               RejectLink(b) \/ Commit(b) \/ CommitUnanswered(b) \/ TransactionFails(b)
        PROVE Forget(b)
    BY <2>4 DEF RejectLink, Commit, CommitUnanswered, Insert, TransactionFails
  <2>5. ASSUME NEW b \in Artifacts,
               \/ Put(b) \/ PutFails(b) \/ Begin(b) \/ Announce(b) \/ RefreshFails(b)
               \/ RemoveObject(b) \/ RemoveFails(b)
        PROVE UNCHANGED linking
    BY <2>5 DEF Put, PutFails, Begin, Announce, RefreshFails, RemoveObject, RemoveFails
  <2>6. ASSUME NEW v \in Verifiers, Verify(v) PROVE UNCHANGED linking
    BY <2>6 DEF Verify, RequireArtifact, Survey, Hash, HashFails, Record, VerificationFails
  <2>7. ASSUME NEW d \in Deletions, Delete(d) PROVE UNCHANGED linking
    BY <2>7 DEF Delete, RequireForDelete, SoftDelete, DeleteFails
  <2>8. ASSUME NEW r \in Requests, Crash(r) PROVE (r \in Artifacts /\ Forget(r)) \/ UNCHANGED linking
    BY <2>8 DEF Crash
  <2>9. ASSUME UNCHANGED vars PROVE UNCHANGED linking
    BY <2>9 DEF vars
  <2> QED
    BY <2>1, <2>2, <2>3, <2>4, <2>5, <2>6, <2>7, <2>8, <2>9 DEF Next, Upload
<1>4. ASSUME NEW v \in Verifiers, NEW a \in Artifacts, report'[v][a] # "out"
      PROVE  status'[a] # "absent"
  <2> DEFINE Goal == report[v][a] # "out" \/ a \in Active
  <2> USE DEF TypeOK, rows, linking
  <2>1. ASSUME NEW w \in Verifiers, RequireArtifact(w) PROVE Goal
    BY <2>1, <1>4, ZenonT(60) DEF RequireArtifact, Nothing
  <2>2. ASSUME NEW w \in Verifiers, Survey(w) PROVE Goal
    BY <2>2, <1>4 DEF Survey
  <2>3. ASSUME NEW w \in Verifiers, Hash(w) \/ HashFails(w) PROVE Goal
    BY <2>3, <1>4 DEF Hash, HashFails
  <2>4. ASSUME NEW w \in Verifiers, Record(w) \/ VerificationFails(w) PROVE Goal
    BY <2>4, <1>4 DEF Record, VerificationFails, Nothing
  <2>5. ASSUME NEW r \in Requests, Crash(r) PROVE Goal
    BY <2>5, <1>4 DEF Crash, Nothing
  <2>6. ASSUME NEW b \in Artifacts, Upload(b) PROVE report' = report
    BY <2>6 DEF Upload, Put, PutFails, Begin, FindLatest, FindLatestOfCheckpoint, CheckLink,
                RejectLink, TransactionFails, Commit, CommitUnanswered, Insert, Announce,
                RefreshFails, RemoveObject, RemoveFails
  <2>7. ASSUME NEW d \in Deletions, Delete(d) PROVE report' = report
    BY <2>7 DEF Delete, RequireForDelete, SoftDelete, DeleteFails
  <2>8. ASSUME UNCHANGED vars PROVE report' = report
    BY <2>8 DEF vars
  <2>9. Goal
    BY <2>1, <2>2, <2>3, <2>4, <2>5, <2>6, <2>7, <2>8, <1>4 DEF Next, Verify
  <2> QED BY <2>9, <1>1, <1>2 DEF FoundInv
<1>5. ASSUME NEW d \in Deletions, phase'[d] = "deleting"
      PROVE  status'[DeletionOf[d]] # "absent"
  <2> USE Members, RequestAssumption DEF TypeOK, Goto
  <2>1. ASSUME NEW e \in Deletions, RequireForDelete(e)
        PROVE phase[d] = "deleting" \/ DeletionOf[d] \in Active
    BY <2>1, <1>5 DEF RequireForDelete
  <2>2. ASSUME NEW e \in Deletions, SoftDelete(e) \/ DeleteFails(e) PROVE phase[d] = "deleting"
    BY <2>2, <1>5 DEF SoftDelete, DeleteFails
  <2>3. ASSUME NEW r \in Requests, Crash(r) PROVE phase[d] = "deleting"
    BY <2>3, <1>5 DEF Crash
  <2>4. ASSUME NEW a \in Artifacts, Upload(a) PROVE phase[d] = "deleting"
    <3>1. a # d
      OBVIOUS
    <3> QED
      BY <2>4, <3>1, <1>5
      DEF Upload, Put, PutFails, Begin, FindLatest, FindLatestOfCheckpoint, CheckLink, RejectLink,
          TransactionFails, Commit, CommitUnanswered, Insert, Announce, RefreshFails, RemoveObject,
          RemoveFails
  <2>5. ASSUME NEW v \in Verifiers, Verify(v) PROVE phase[d] = "deleting"
    <3>1. v # d
      BY DEF Verifiers
    <3> QED
      BY <2>5, <3>1, <1>5
      DEF Verify, RequireArtifact, Survey, Hash, HashFails, Record, VerificationFails
  <2>6. ASSUME UNCHANGED vars PROVE phase[d] = "deleting"
    BY <2>6, <1>5 DEF vars
  <2>7. phase[d] = "deleting" \/ DeletionOf[d] \in Active
    BY <2>1, <2>2, <2>3, <2>4, <2>5, <2>6 DEF Next, Delete
  <2> QED BY <2>7, <1>1, <1>2 DEF FoundInv
<1>6. ASSUME NEW a \in deleted' PROVE status'[a] # "absent"
  <2>1. ASSUME NEW d \in Deletions, SoftDelete(d) PROVE status'[a] # "absent"
    BY <2>1, <1>1, <1>6, RequestAssumption DEF SoftDelete, At, FoundInv, TypeOK
  <2>2. ASSUME deleted' = deleted PROVE status'[a] # "absent"
    BY <2>2, <1>1, <1>6 DEF FoundInv, TypeOK
  <2> QED BY <2>1, <2>2, RowCases DEF Insert, Record
<1> QED
  BY <1>3, <1>4, <1>5, <1>6 DEF FoundInv

-----------------------------------------------------------------------------
(* The evidence graph *)

\* Links change by a commit only, from a source without a row to targets with one.
LEMMA LinkCases ==
    ASSUME TypeOK, EarlyInv, FoundInv, [Next]_vars
    PROVE  \/ links' = links
           \/ \E a \in Artifacts :
                 /\ status[a] = "absent" /\ status'[a] # "absent"
                 /\ picked[a] \subseteq Artifacts
                 /\ \A t \in picked[a] : status[t] # "absent"
                 /\ links' = links \cup ({a} \X picked[a])
<1>1. ASSUME NEW a \in Artifacts, Insert(a), At(a, "check")
      PROVE  /\ status[a] = "absent" /\ status'[a] # "absent"
             /\ picked[a] \subseteq Artifacts
             /\ \A t \in picked[a] : status[t] # "absent"
             /\ links' = links \cup ({a} \X picked[a])
  BY <1>1 DEF Insert, At, EarlyInv, Early, FoundInv, TypeOK
<1> QED
  BY <1>1, RowCases DEF Record, SoftDelete

LEMMA NextLink ==
    ASSUME TypeOK, EarlyInv, FoundInv, LinkInv, [Next]_vars
    PROVE  LinkInv'
<1>1. \A a \in Artifacts : status[a] # "absent" => status'[a] # "absent"
  BY StatusGrows
<1>2. CASE links' = links
  BY <1>1, <1>2 DEF LinkInv
<1>3. ASSUME NEW a \in Artifacts, status'[a] # "absent",
             \A t \in picked[a] : status[t] # "absent",
             links' = links \cup ({a} \X picked[a])
      PROVE  LinkInv'
  BY <1>1, <1>3 DEF LinkInv
<1> QED
  BY <1>2, <1>3, LinkCases

\* A new source that no link targets closes no cycle: of any artifacts, either
\* the source is the only one, or one of the others had no link to the others,
\* and has none to the source.
LEMMA NextNoCycles ==
    ASSUME TypeOK, EarlyInv, FoundInv, LinkInv, NoCycles, [Next]_vars
    PROVE  NoCycles'
<1>1. CASE links' = links
  BY <1>1 DEF NoCycles
<1>2. ASSUME NEW s \in Artifacts, status[s] = "absent",
             \A t \in picked[s] : status[t] # "absent",
             links' = links \cup ({s} \X picked[s]),
             NEW S \in SUBSET Artifacts, S # {}
      PROVE  \E a \in S : \A b \in S : <<a, b>> \notin links'
  <2>1. \A a \in Artifacts : <<a, s>> \notin links
    BY <1>2 DEF LinkInv
  <2>2. s \notin picked[s]
    BY <1>2
  <2>3. \A a \in Artifacts : <<a, s>> \notin links'
    BY <1>2, <2>1, <2>2
  <2>4. CASE S \subseteq {s}
    BY <1>2, <2>3, <2>4
  <2>5. CASE ~(S \subseteq {s})
    <3>1. PICK a \in S \ {s} : \A b \in S \ {s} : <<a, b>> \notin links
      BY <2>5 DEF NoCycles
    <3>2. \A b \in S : <<a, b>> \notin links'
      BY <1>2, <2>3, <3>1
    <3> QED BY <3>1, <3>2
  <2> QED BY <2>4, <2>5
<1> QED
  BY <1>1, <1>2, LinkCases DEF NoCycles

\* linkCreatesCycle is false for every target that is there, whatever other
\* uploads have committed: the check of the code never rejects a link.
LEMMA CheckNeverFires ==
    ASSUME TypeOK, EarlyInv, NEW a \in Artifacts, At(a, "check"), NEW t \in picked[a]
    PROVE  ~LinkCreatesCycle(a, t)
<1>1. a \notin Active /\ t # a
  BY DEF EarlyInv, Early, Active, At, TypeOK
<1>2. ASSUME Reaches(t, a) PROVE FALSE
  <2>1. t \in Active /\ Active \in SUBSET Active
    BY <1>2 DEF Reaches
  <2>2. a \in Active
    BY <1>2, <2>1 DEF Reaches
  <2> QED BY <1>1, <2>2
<1> QED
  BY <1>1, <1>2 DEF LinkCreatesCycle

-----------------------------------------------------------------------------
(* Objects *)

LEMMA NextStored ==
    ASSUME TypeOK, EarlyInv, FoundInv, StoredInv, [Next]_vars
    PROVE  StoredInv'
<1>1. ASSUME NEW b \in Artifacts, Put(b) \/ PutFails(b)
      PROVE  /\ objects \subseteq objects'
             /\ phase'[b] = "begin" => KeyOf[b] \in objects'
             /\ \A a \in Artifacts \ {b} : phase'[a] = phase[a]
  BY <1>1, Members DEF Put, PutFails, Goto, TypeOK
<1>2. ASSUME NEW b \in Artifacts, RemoveObject(b)
      PROVE  objects' = objects \ {KeyOf[b]} /\ phase'[b] = "removed"
  BY <1>2, Members DEF RemoveObject, Goto, TypeOK
<1>3. ASSUME NEW b \in Artifacts,
             \/ Begin(b) \/ FindLatest(b) \/ FindLatestOfCheckpoint(b)
             \/ CheckLink(b) \/ RejectLink(b) \/ Commit(b) \/ CommitUnanswered(b)
             \/ TransactionFails(b) \/ Announce(b) \/ RefreshFails(b) \/ RemoveFails(b)
      PROVE  objects' = objects /\ ~(At(b, "idle") /\ phase'[b] = "begin")
  BY <1>3, Members
  DEF Begin, FindLatest, FindLatestOfCheckpoint, CheckLink, RejectLink, Commit, CommitUnanswered,
      Insert, TransactionFails, InTransaction, Announce, RefreshFails, RemoveFails, Goto, At, TypeOK
<1>4. ASSUME NEW v \in Verifiers, Verify(v) PROVE objects' = objects
  BY <1>4 DEF Verify, RequireArtifact, Survey, Hash, HashFails, Record, VerificationFails
<1>5. ASSUME NEW d \in Deletions, Delete(d) PROVE objects' = objects
  BY <1>5 DEF Delete, RequireForDelete, SoftDelete, DeleteFails
<1>6. ASSUME NEW r \in Requests, Crash(r) PROVE objects' = objects
  BY <1>6 DEF Crash
<1>7. ASSUME UNCHANGED vars PROVE objects' = objects
  BY <1>7 DEF vars
<1>8. \/ objects \subseteq objects'
      \/ \E b \in Artifacts : objects' = objects \ {KeyOf[b]} /\ phase'[b] = "removed"
  BY <1>1, <1>2, <1>3, <1>4, <1>5, <1>6, <1>7 DEF Next, Upload
<1>9. ASSUME NEW a \in Artifacts, Kept(a) PROVE Kept(a)'
  <2>1. CASE objects \subseteq objects'
    BY <1>9, <2>1, PhaseSteps DEF Kept
  <2>2. ASSUME NEW b \in Artifacts, objects' = objects \ {KeyOf[b]}, phase'[b] = "removed"
        PROVE  Kept(a)'
    BY <1>9, <2>2, PhaseSteps DEF Kept
  <2> QED BY <1>8, <2>1, <2>2
<1>10. ASSUME NEW a \in Artifacts, phase'[a] = "begin", phase[a] # "begin"
       PROVE  KeyOf[a] \in objects'
  <2> USE Members, RequestAssumption DEF Goto, TypeOK
  <2>1. ASSUME NEW b \in Artifacts, Put(b) \/ PutFails(b) PROVE KeyOf[a] \in objects'
    BY <1>1, <1>10, <2>1
  <2>2. ASSUME NEW b \in Artifacts, Upload(b), ~(Put(b) \/ PutFails(b)) PROVE FALSE
    BY <1>10, <2>2
    DEF Upload, Begin, FindLatest, FindLatestOfCheckpoint, CheckLink, RejectLink, Commit,
        CommitUnanswered, Insert, TransactionFails, Announce, RefreshFails, RemoveObject, RemoveFails
  <2>3. ASSUME NEW v \in Verifiers, Verify(v) PROVE FALSE
    BY <1>10, <2>3
    DEF Verify, RequireArtifact, Survey, Hash, HashFails, Record, VerificationFails, After
  <2>4. ASSUME NEW d \in Deletions, Delete(d) PROVE FALSE
    BY <1>10, <2>4 DEF Delete, RequireForDelete, SoftDelete, DeleteFails
  <2>5. ASSUME NEW r \in Requests, Crash(r) PROVE FALSE
    BY <1>10, <2>5 DEF Crash
  <2>6. ASSUME UNCHANGED vars PROVE FALSE
    BY <1>10, <2>6 DEF vars
  <2> QED
    BY <2>1, <2>2, <2>3, <2>4, <2>5, <2>6 DEF Next
<1>11. ASSUME NEW a \in Artifacts,
              phase'[a] \in {"begin", "lane", "checkpoint", "check"} \/ status'[a] # "absent"
       PROVE  Kept(a)'
  <2>1. CASE phase[a] \in {"begin", "lane", "checkpoint", "check"} \/ status[a] # "absent"
    BY <1>9, <2>1 DEF StoredInv
  <2>2. CASE ~(phase[a] \in {"begin", "lane", "checkpoint", "check"} \/ status[a] # "absent")
    <3>1. phase'[a] = "begin"
      BY <1>11, <2>2, PhaseSteps, StatusGrows DEF Early
    <3> QED BY <1>10, <2>2, <3>1 DEF Kept
  <2> QED BY <2>1, <2>2
<1> QED
  BY <1>11 DEF StoredInv

-----------------------------------------------------------------------------
(* Verification *)

LEMMA NextSubject ==
    ASSUME TypeOK, SubjectInv, [Next]_vars
    PROVE  SubjectInv'
<1> USE Members, RequestAssumption DEF TypeOK, SubjectInv, Goto, At
<1>1. ASSUME NEW a \in Artifacts, Upload(a) PROVE SubjectInv'
  <2>1. report' = report /\ \A b \in Artifacts : phase'[b] = "hash" => phase[b] = "hash"
    BY <1>1
    DEF Upload, Put, PutFails, Begin, FindLatest, FindLatestOfCheckpoint, CheckLink, RejectLink,
        Commit, CommitUnanswered, Insert, TransactionFails, Announce, RefreshFails, RemoveObject,
        RemoveFails
  <2> QED BY <2>1
<1>2. ASSUME NEW v \in Verifiers, RequireArtifact(v) PROVE SubjectInv'
  <2>1. ASSUME NEW b \in Artifacts, NEW c \in Artifacts, b # v, phase'[b] = "hash"
        PROVE  report'[b][c] # "out" <=> c = b
    BY <1>2, <2>1 DEF RequireArtifact
  <2>2. ASSUME v \in Artifacts, NEW c \in Artifacts, phase'[v] = "hash"
        PROVE  report'[v][c] # "out" <=> c = v
    <3>1. Subject(v) = v /\ After(v) = "survey"
      BY <1>2, <2>2 DEF Subject, After, RequireArtifact
    <3>2. report' = [report EXCEPT ![v] = [Nothing EXCEPT ![v] = "listed"]]
      BY <1>2, <2>2, <3>1 DEF RequireArtifact
    <3> QED BY <2>2, <3>2 DEF Nothing
  <2> QED BY <2>1, <2>2
<1>3. ASSUME NEW v \in Verifiers, Survey(v) PROVE SubjectInv'
  BY <1>3 DEF Survey
<1>4. ASSUME NEW v \in Verifiers, Hash(v) \/ HashFails(v) PROVE SubjectInv'
  <2>1. PICK a \in Artifacts, f \in Findings :
          report[v][a] = "listed" /\ f # "out" /\ report' = [report EXCEPT ![v][a] = f]
    BY <1>4 DEF Hash, HashFails, Findings
  <2>2. phase' = phase
    BY <1>4 DEF Hash, HashFails
  <2>3. \A w \in Verifiers, b \in Artifacts : report'[w][b] # "out" <=> report[w][b] # "out"
    BY <2>1
  <2> QED BY <2>2, <2>3
<1>5. ASSUME NEW v \in Verifiers, Record(v) \/ VerificationFails(v) PROVE SubjectInv'
  BY <1>5 DEF Record, VerificationFails, After
<1>6. ASSUME NEW d \in Deletions, Delete(d) PROVE SubjectInv'
  <2>1. report' = report /\ \A b \in Artifacts : phase'[b] = "hash" => phase[b] = "hash"
    BY <1>6 DEF Delete, RequireForDelete, SoftDelete, DeleteFails
  <2> QED BY <2>1
<1>7. ASSUME NEW r \in Requests, Crash(r) PROVE SubjectInv'
  BY <1>7 DEF Crash
<1>8. CASE UNCHANGED vars
  BY <1>8 DEF vars
<1> QED
  BY <1>1, <1>2, <1>3, <1>4, <1>5, <1>6, <1>7, <1>8 DEF Next, Verify

Past == {"survey", "rehash", "analyse", "done"}

\* An upload passes its own verification by a report, without an active row, or
\* with something failing.
LEMMA PastCases ==
    ASSUME TypeOK, [Next]_vars, NEW a \in Artifacts, phase'[a] \in Past, phase[a] \notin Past
    PROVE  \/ Record(a) /\ phase[a] = "hash"
           \/ a \notin Active'
           \/ faults' # 0
<1> DEFINE Goal == (Record(a) /\ phase[a] = "hash") \/ a \notin Active' \/ faults' # 0
<1> USE Members, RequestAssumption DEF TypeOK, Past, Goto, At
<1>1. ASSUME NEW b \in Artifacts, PutFails(b) \/ RemoveFails(b) \/ RefreshFails(b) PROVE Goal
  BY <1>1, FaultType DEF PutFails, RemoveFails, RefreshFails
<1>2. ASSUME NEW b \in Artifacts, Upload(b), ~(PutFails(b) \/ RemoveFails(b) \/ RefreshFails(b))
      PROVE  FALSE
  BY <1>2
  DEF Upload, Put, Begin, FindLatest, FindLatestOfCheckpoint, CheckLink, RejectLink,
      Commit, CommitUnanswered, Insert, TransactionFails, Announce, RemoveObject
<1>3. ASSUME NEW v \in Verifiers, RequireArtifact(v) PROVE Goal
  <2>1. v = a /\ Subject(v) \notin Active /\ v \notin Checks
    BY <1>3 DEF RequireArtifact, After
  <2>2. a \notin Active'
    BY <1>3, <2>1 DEF RequireArtifact, Subject, Active, rows
  <2> QED BY <2>2
<1>4. ASSUME NEW v \in Verifiers, Record(v) PROVE Goal
  <2>1. v = a
    BY <1>4 DEF Record
  <2> QED BY <1>4, <2>1 DEF Record
<1>5. ASSUME NEW v \in Verifiers, VerificationFails(v) PROVE Goal
  BY <1>5, FaultType DEF VerificationFails
<1>6. ASSUME NEW v \in Verifiers, Survey(v) \/ Hash(v) \/ HashFails(v) PROVE FALSE
  BY <1>6 DEF Survey, Hash, HashFails
<1>7. ASSUME NEW d \in Deletions, Delete(d) PROVE FALSE
  <2>1. a # d
    OBVIOUS
  <2> QED BY <1>7, <2>1 DEF Delete, RequireForDelete, SoftDelete, DeleteFails
<1>8. ASSUME NEW r \in Requests, Crash(r) PROVE FALSE
  BY <1>8 DEF Crash
<1>9. ASSUME UNCHANGED vars PROVE FALSE
  BY <1>9 DEF vars
<1> QED
  BY <1>1, <1>2, <1>3, <1>4, <1>5, <1>6, <1>7, <1>8, <1>9 DEF Next, Verify

\* What a verification stores is VERIFIED or FAILED.
LEMMA RecordEffect ==
    ASSUME TypeOK, NEW v \in Verifiers, Record(v), NEW a \in Artifacts
    PROVE  /\ deleted' = deleted
           /\ status'[a] = status[a] \/ status'[a] \in {"VERIFIED", "FAILED"}
           /\ Hashed(v) \cap deleted = {} /\ a \in Hashed(v) => status'[a] \in {"VERIFIED", "FAILED"}
           /\ a \in deleted => status'[a] = status[a]
<1>1. a \in Hashed(v) => report[v][a] \in {"VERIFIED", "FAILED"}
  BY DEF Hashed, Record, TypeOK, Findings
<1> QED BY <1>1 DEF Record, TypeOK

LEMMA FaultsGrow == TypeOK /\ [Next]_vars /\ faults' = 0 => faults = 0
<1> SUFFICES ASSUME TypeOK, [Next]_vars, faults' = 0 PROVE faults = 0
  OBVIOUS
<1>1. faults' = faults \/ Fault
  <2>1. ASSUME NEW a \in Artifacts, Upload(a) PROVE faults' = faults \/ Fault
    BY <2>1
    DEF Upload, Put, PutFails, Begin, FindLatest, FindLatestOfCheckpoint, CheckLink, RejectLink,
        Commit, CommitUnanswered, TransactionFails, Announce, RefreshFails, RemoveObject, RemoveFails
  <2>2. ASSUME NEW v \in Verifiers, Verify(v) PROVE faults' = faults \/ Fault
    BY <2>2 DEF Verify, RequireArtifact, Survey, Hash, HashFails, Record, VerificationFails
  <2>3. ASSUME NEW d \in Deletions, Delete(d) PROVE faults' = faults \/ Fault
    BY <2>3 DEF Delete, RequireForDelete, SoftDelete, DeleteFails
  <2>4. ASSUME NEW r \in Requests, Crash(r) PROVE faults' = faults \/ Fault
    BY <2>4 DEF Crash
  <2>5. ASSUME UNCHANGED vars PROVE faults' = faults \/ Fault
    BY <2>5 DEF vars
  <2> QED BY <2>1, <2>2, <2>3, <2>4, <2>5 DEF Next
<1> QED BY <1>1, FaultType

LEMMA NextVerified ==
    ASSUME TypeOK, EarlyInv, FoundInv, SubjectInv, VerifiedInv, [Next]_vars
    PROVE  VerifiedInv'
<1> SUFFICES ASSUME NEW a \in Active', phase'[a] \in Past, faults' = 0
             PROVE  status'[a] # "PENDING"
  BY DEF VerifiedInv, Past
<1>1. a \in Artifacts /\ status'[a] # "absent" /\ a \notin deleted'
  BY DEF Active
<1>2. faults = 0
  BY FaultsGrow
<1>3. CASE phase[a] \notin Past
  <2>1. Record(a) /\ phase[a] = "hash"
    BY <1>1, <1>3, PastCases
  <2>2. Hashed(a) = {a}
    BY <1>1, <2>1 DEF Hashed, SubjectInv
  <2>3. a \notin deleted
    BY <1>1, <2>1, Members, RecordEffect
  <2> QED
    BY <1>1, <2>1, <2>2, <2>3, RecordEffect, Members
<1>4. CASE phase[a] \in Past
  <2>1. status[a] # "absent"
    BY <1>1, <1>4, StatusGrows DEF Past
  <2>2. a \notin deleted => status[a] # "PENDING"
    BY <1>1, <1>2, <1>4, <2>1 DEF VerifiedInv, Active, Past
  <2>3. ASSUME NEW b \in Artifacts, Insert(b), At(b, "check") PROVE status'[a] # "PENDING"
    BY <1>1, <1>4, <2>2, <2>3 DEF Insert, At, TypeOK, Past
  <2>4. ASSUME NEW v \in Verifiers, Record(v) PROVE status'[a] # "PENDING"
    BY <1>1, <2>2, <2>4, RecordEffect
  <2>5. ASSUME status' = status, deleted \subseteq deleted' PROVE status'[a] # "PENDING"
    BY <1>1, <2>2, <2>5
  <2> QED
    BY <2>3, <2>4, <2>5, RowCases DEF SoftDelete
<1> QED BY <1>3, <1>4

-----------------------------------------------------------------------------
(* Theorems *)

LEMMA InitInv == Init => IInv
<1> SUFFICES ASSUME Init PROVE IInv
  OBVIOUS
<1>1. TypeOK
  BY InitType
<1>2. EarlyInv /\ LinkInv /\ NoCycles
  BY DEF Init, EarlyInv, LinkInv, NoCycles
<1>3. FoundInv
  BY Members, RequestAssumption DEF Init, FoundInv, Nothing
<1>4. \A a \in Artifacts : phase[a] = "idle" /\ status[a] = "absent"
  BY Members, RequestAssumption DEF Init
<1>5. StoredInv /\ SubjectInv /\ VerifiedInv
  BY <1>4 DEF StoredInv, SubjectInv, VerifiedInv, Active
<1> QED BY <1>1, <1>2, <1>3, <1>5 DEF IInv

\* IInv is inductive: everything the other theorems use holds in every state.
THEOREM EvidenceSafety == Spec => []IInv
<1>1. IInv /\ [Next]_vars => IInv'
  BY NextType, NextEarly, NextFound, NextLink, NextNoCycles, NextStored, NextSubject, NextVerified
  DEF IInv
<1> QED BY <1>1, InitInv, PTL DEF Spec

\* The rows, links, objects and requests keep their types.
THEOREM EvidenceTypeCorrect == Spec => []TypeOK
<1>1. IInv => TypeOK
  BY DEF IInv
<1> QED BY <1>1, EvidenceSafety, PTL

\* However many uploads overlap and link to each other, the evidence graph of the
\* code (artifact_links) has no cycle.
THEOREM EvidenceIsAcyclic == Spec => []NoCycles
<1>1. IInv => NoCycles
  BY DEF IInv
<1> QED BY <1>1, EvidenceSafety, PTL

\* An artifact misses its object only after an upload of the same key failed and
\* cleaned up: neither deletion nor a crash loses one.
THEOREM ObjectsAreKept == Spec => []LostObjectsHaveFailedUploads
<1>1. IInv => LostObjectsHaveFailedUploads
  BY DEF IInv, StoredInv, Kept, LostObjectsHaveFailedUploads
<1> QED BY <1>1, EvidenceSafety, PTL

\* Without failing statements an upload ends with its artifact verified one way or
\* the other.
THEOREM UploadsAreVerified == Spec => []UploadsEndVerified
<1>1. IInv => UploadsEndVerified
  BY DEF IInv, VerifiedInv, UploadsEndVerified
<1> QED BY <1>1, EvidenceSafety, PTL

\* No verification that overlaps a deletion changes the deleted row.
THEOREM DeletionsAreFinal == Spec => DeletedRowsAreFrozen
<1>1. ASSUME IInv, [Next]_vars
      PROVE  \A a \in deleted : a \in deleted' /\ status'[a] = status[a]
  <2> SUFFICES ASSUME NEW a \in deleted PROVE a \in deleted' /\ status'[a] = status[a]
    OBVIOUS
  <2>1. a \in Artifacts /\ status[a] # "absent"
    BY <1>1 DEF IInv, TypeOK, FoundInv
  <2>2. ASSUME NEW b \in Artifacts, Insert(b), At(b, "check")
        PROVE  a \in deleted' /\ status'[a] = status[a]
    BY <1>1, <2>1, <2>2 DEF Insert, At, IInv, EarlyInv, Early, TypeOK
  <2>3. ASSUME NEW v \in Verifiers, Record(v) PROVE a \in deleted' /\ status'[a] = status[a]
    BY <1>1, <2>1, <2>3, RecordEffect DEF IInv
  <2> QED
    BY <1>1, <2>2, <2>3, RowCases DEF SoftDelete
<1>2. IInv /\ [Next]_vars => [\A a \in deleted : a \in deleted' /\ status'[a] = status[a]]_vars
  BY <1>1
<1> QED BY <1>2, EvidenceSafety, PTL DEF Spec, DeletedRowsAreFrozen
===============================================================================
