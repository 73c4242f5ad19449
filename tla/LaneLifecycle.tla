----------------------------- MODULE LaneLifecycle -----------------------------
(***************************************************************************)
(* One export lane: its status, its cached completeness score, the         *)
(* evidence and packs they depend on, and the requests that move it.  The  *)
(* status machine is checked on a row a request read earlier; the write is *)
(* unconditional.  Uploads score the lane inside a transaction that the    *)
(* lane's audit lock serializes; the refresh after an analysis does not.   *)
(* Sources: lane/lane.{service,transition-policy,pg-store}.ts,             *)
(* evidence/evidence.{service,pg-store}.ts, dispute/dispute.service.ts.    *)
(*                                                                         *)
(* A score is modelled by the set of required documents that were PRESENT  *)
(* when it was computed.  Documents do not expire here, and an analysis of *)
(* an artifact always finds the same document label.                       *)
(***************************************************************************)
EXTENDS Naturals

CONSTANTS
    Documents,    \* ruleSnapshot.requiredDocuments
    Sufficient,   \* the sets of documents whose weighted score is at least 95
    Artifacts,    \* one per file uploaded to the lane
    Declared,     \* artifact -> documents its type, name and metadata match
    Recognized,   \* artifact -> documents it also matches once analysed
    Requests,     \* what users do to the lane, each once
    KindOf,       \* request -> the kind of request
    ArtifactOf,   \* request -> the artifact it uploads, deletes or reanalyses
    NoRequest, NoTarget,  \* null values
    MaxFaults     \* bound: requests that end in an exception

Kinds == {"upload", "reanalyse", "delete", "pack", "transition", "dispute"}

Status == {"CREATED", "EVIDENCE_COLLECTING", "VALIDATED", "PACKED", "CLOSED",
           "INCOMPLETE", "CLAIM_DEFENSE", "DISPUTE_RESOLVED", "ARCHIVED"}

ASSUME DocumentAssumption ==
    /\ Sufficient \subseteq SUBSET Documents
    /\ \A S \in Sufficient : \A T \in SUBSET Documents : S \subseteq T => T \in Sufficient
    /\ Declared \in [Artifacts -> SUBSET Documents]
    /\ Recognized \in [Artifacts -> SUBSET Documents]
ASSUME RequestAssumption ==
    /\ KindOf \in [Requests -> Kinds]
    /\ ArtifactOf \in [Requests -> Artifacts]
    /\ \A r, s \in Requests :
          KindOf[r] = "upload" /\ KindOf[s] = "upload" /\ ArtifactOf[r] = ArtifactOf[s] => r = s
    /\ NoRequest \notin Requests
    /\ NoTarget \notin Status
    /\ MaxFaults \in Nat

VARIABLES
    lane,       \* the lanes row: status, completeness_score, retention
    evidence,   \* artifact -> whether its row exists, is deleted
    analysed,   \* artifacts with a stored analysis
    packs,      \* pack request -> the state of its proof pack
    disputes,   \* dispute requests whose row is committed
    lock,       \* the upload holding the lane's audit lock
    phase,      \* request -> where it stands
    seen,       \* request -> the lanes row it read last
    target,     \* request -> the status it is about to write
    draft,      \* request -> the score it is about to write
    faults      \* requests ended by an exception

world == <<evidence, analysed, packs, disputes>>
locals == <<seen, target, draft>>
vars == <<lane, evidence, analysed, packs, disputes, lock, phase, seen, target, draft, faults>>

-----------------------------------------------------------------------------
(* Types *)

\* aged: LANE_ARCHIVE_RETENTION_YEARS have passed since status_changed_at.
Row == [status : Status, score : SUBSET Documents, aged : BOOLEAN]
NewLane == [status |-> "EVIDENCE_COLLECTING", score |-> {}, aged |-> FALSE]

Phase == {"idle", "inserting", "analysing", "evaluating", "scoring", "packing", "reading",
          "counting", "writing", "recording", "disputing", "done"}

-----------------------------------------------------------------------------
(* lane.transition-policy.ts.  The definitions that follow no line of the
   code are mutants: a variant of the definition below them with a mistake. *)

AllowedTransitions ==
    {<<"CREATED", "EVIDENCE_COLLECTING">>, <<"EVIDENCE_COLLECTING", "VALIDATED">>,
     <<"VALIDATED", "PACKED">>, <<"VALIDATED", "INCOMPLETE">>, <<"PACKED", "CLOSED">>,
     <<"CLOSED", "CLAIM_DEFENSE">>, <<"CLOSED", "ARCHIVED">>,
     <<"INCOMPLETE", "EVIDENCE_COLLECTING">>, <<"CLAIM_DEFENSE", "DISPUTE_RESOLVED">>}

\* validateTransitionGuards, for a row and a number of READY packs.
GuardsUnscored(row, to, packed) ==
    /\ to = "PACKED" => packed
    /\ to = "ARCHIVED" => row.aged
Guards(row, to, packed) ==
    /\ to = "VALIDATED" => row.score \in Sufficient
    /\ to = "PACKED" => packed
    /\ to = "ARCHIVED" => row.aged

\* getAutomaticTransitionTarget
AutomaticTarget(row, packed) ==
    CASE row.score \notin Sufficient                   -> NoTarget
      [] row.status \in {"CREATED", "INCOMPLETE"}      -> "EVIDENCE_COLLECTING"
      [] row.status = "EVIDENCE_COLLECTING"            -> "VALIDATED"
      [] row.status = "VALIDATED" /\ packed            -> "PACKED"
      [] OTHER                                         -> NoTarget

-----------------------------------------------------------------------------
(* What the evidence amounts to: evaluateLane *)

Active == {a \in Artifacts : evidence[a] = "active"}

\* The required documents some artifact of S matches, given the analyses.
Covered(S) ==
    {d \in Documents : \E a \in S : d \in Declared[a] \/ (a \in analysed /\ d \in Recognized[a])}

\* countProofPacksForLane(...) > 0
AnyPack == \E r \in Requests : packs[r] # "none"
ReadyPack == \E r \in Requests : packs[r] = "ready"

-----------------------------------------------------------------------------
(* Helpers of the actions *)

Is(r, kind) == KindOf[r] = kind
At(r, p) == phase[r] = p
Goto(r, p) == phase' = [phase EXCEPT ![r] = p]

\* transition() validates one target; everything else reconciles.
Manual(r) == KindOf[r] \in {"transition", "dispute"}

\* The request is over: its locals are gone.
Finish(r) ==
    /\ Goto(r, "done")
    /\ seen' = [seen EXCEPT ![r] = NewLane]
    /\ target' = [target EXCEPT ![r] = NoTarget]
    /\ draft' = [draft EXCEPT ![r] = {}]

-----------------------------------------------------------------------------
(* Evidence: persistArtifact, reanalyzeArtifact, deleteArtifact *)

\* The transaction inserts the artifact, takes the lane's audit lock with its
\* entry, and evaluates the artifacts committed so far and its own.
EvaluateUploadUnlocked(r) ==
    /\ Is(r, "upload") /\ At(r, "idle")
    /\ draft' = [draft EXCEPT ![r] = Covered(Active \cup {ArtifactOf[r]})]
    /\ Goto(r, "inserting")
    /\ UNCHANGED <<lane, world, lock, seen, target, faults>>
EvaluateUpload(r) ==
    /\ Is(r, "upload") /\ At(r, "idle")
    /\ lock = NoRequest
    /\ lock' = r
    /\ draft' = [draft EXCEPT ![r] = Covered(Active \cup {ArtifactOf[r]})]
    /\ Goto(r, "inserting")
    /\ UNCHANGED <<lane, world, seen, target, faults>>

\* COMMIT: artifact, entry and score become visible, the lock is free.
CommitUpload(r) ==
    /\ At(r, "inserting")
    /\ evidence' = [evidence EXCEPT ![ArtifactOf[r]] = "active"]
    /\ lane' = [lane EXCEPT !.score = draft[r]]
    /\ lock' = NoRequest
    /\ draft' = [draft EXCEPT ![r] = {}]
    /\ Goto(r, "analysing")
    /\ UNCHANGED <<analysed, packs, disputes, seen, target, faults>>

\* POST evidence/:id/reanalyze finds the artifact.
Reanalyse(r) ==
    /\ Is(r, "reanalyse") /\ At(r, "idle")
    /\ evidence[ArtifactOf[r]] = "active"
    /\ Goto(r, "analysing")
    /\ UNCHANGED <<lane, world, lock, locals, faults>>

\* createArtifactAnalysis stores what the document was recognized as ...
Analyse(r) ==
    /\ At(r, "analysing")
    /\ analysed' = analysed \cup {ArtifactOf[r]}
    /\ Goto(r, "evaluating")
    /\ UNCHANGED <<lane, evidence, packs, disputes, lock, locals, faults>>

\* ... or there is no analysis: an upload goes on to reconcile, a reanalysis
\* is over.
SkipReconciling(r) ==
    /\ At(r, "analysing")
    /\ Goto(r, "done")
    /\ UNCHANGED <<lane, world, lock, locals, faults>>
SkipAnalysis(r) ==
    /\ At(r, "analysing")
    /\ Goto(r, IF Is(r, "upload") THEN "reading" ELSE "done")
    /\ UNCHANGED <<lane, world, lock, locals, faults>>

\* refreshLaneComplianceAfterAnalysis reads and evaluates ...
Evaluate(r) ==
    /\ At(r, "evaluating")
    /\ draft' = [draft EXCEPT ![r] = Covered(Active)]
    /\ Goto(r, "scoring")
    /\ UNCHANGED <<lane, world, lock, seen, target, faults>>

\* ... and writes the score, in another statement and under no lock but the
\* row's, which an uncommitted upload does not hold yet.
WriteScore(r) ==
    /\ At(r, "scoring")
    /\ lane' = [lane EXCEPT !.score = draft[r]]
    /\ draft' = [draft EXCEPT ![r] = {}]
    /\ Goto(r, "reading")
    /\ UNCHANGED <<world, lock, seen, target, faults>>

\* The soft delete and its audit entry, behind the audit lock.  The score stays.
Delete(r) ==
    /\ Is(r, "delete") /\ At(r, "idle")
    /\ evidence[ArtifactOf[r]] = "active"
    /\ lock = NoRequest
    /\ evidence' = [evidence EXCEPT ![ArtifactOf[r]] = "deleted"]
    /\ Goto(r, "done")
    /\ UNCHANGED <<lane, analysed, packs, disputes, lock, locals, faults>>

-----------------------------------------------------------------------------
(* Packs: enqueuePackGeneration; the worker's follow-up reconciles *)

RequestPack(r) ==
    /\ Is(r, "pack") /\ At(r, "idle")
    /\ \/ /\ lane.score \in Sufficient
          /\ packs' = [packs EXCEPT ![r] = "generating"]
          /\ Goto(r, "packing")
       \/ /\ lane.score \notin Sufficient
          /\ Goto(r, "done")
          /\ UNCHANGED packs
    /\ UNCHANGED <<lane, evidence, analysed, disputes, lock, locals, faults>>

SettleMistyped(r) ==
    /\ At(r, "packing")
    /\ \/ packs' = [packs EXCEPT ![r] = "completed"] /\ Goto(r, "reading")
       \/ packs' = [packs EXCEPT ![r] = "failed"] /\ Goto(r, "done")
    /\ UNCHANGED <<lane, evidence, analysed, disputes, lock, locals, faults>>
SettlePack(r) ==
    /\ At(r, "packing")
    /\ \/ packs' = [packs EXCEPT ![r] = "ready"] /\ Goto(r, "reading")
       \/ packs' = [packs EXCEPT ![r] = "failed"] /\ Goto(r, "done")
    /\ UNCHANGED <<lane, evidence, analysed, disputes, lock, locals, faults>>

-----------------------------------------------------------------------------
(* Requests that name their target: POST lanes/:id/transition, disputes *)

RequestTransition(r) ==
    /\ Is(r, "transition") /\ At(r, "idle")
    /\ \E to \in Status : target' = [target EXCEPT ![r] = to]
    /\ Goto(r, "reading")
    /\ UNCHANGED <<lane, world, lock, seen, draft, faults>>

\* createDispute: VALID_LANE_STATUSES_FOR_DISPUTE, then a CLOSED lane is moved
\* by laneService.transition on another connection.
RequestDispute(r) ==
    /\ Is(r, "dispute") /\ At(r, "idle")
    /\ \/ /\ lane.status = "CLOSED"
          /\ target' = [target EXCEPT ![r] = "CLAIM_DEFENSE"]
          /\ Goto(r, "reading")
       \/ /\ lane.status = "CLAIM_DEFENSE"
          /\ Goto(r, "disputing")
          /\ UNCHANGED target
       \/ /\ lane.status \notin {"CLOSED", "CLAIM_DEFENSE"}
          /\ Goto(r, "done")
          /\ UNCHANGED target
    /\ UNCHANGED <<lane, world, lock, seen, draft, faults>>

\* The audit entry is written and the dispute's row commits.
CommitDispute(r) ==
    /\ At(r, "disputing")
    /\ disputes' = disputes \cup {r}
    /\ Finish(r)
    /\ UNCHANGED <<lane, evidence, analysed, packs, lock, faults>>

-----------------------------------------------------------------------------
(* transition and reconcileAutomaticTransitions *)

\* findLaneById, and for a named target validateTransitionGraph.
ReadLaneUngraphed(r) ==
    /\ At(r, "reading")
    /\ seen' = [seen EXCEPT ![r] = lane]
    /\ Goto(r, "counting")
    /\ UNCHANGED <<lane, world, lock, target, draft, faults>>
ReadLane(r) ==
    /\ At(r, "reading")
    /\ \/ /\ Manual(r) => <<lane.status, target[r]>> \in AllowedTransitions
          /\ seen' = [seen EXCEPT ![r] = lane]
          /\ Goto(r, "counting")
          /\ UNCHANGED <<target, draft>>
       \/ /\ Manual(r) /\ <<lane.status, target[r]>> \notin AllowedTransitions
          /\ Finish(r)
    /\ UNCHANGED <<lane, world, lock, faults>>

\* countProofPacksForLane, then the target, if it is still to be found, and the
\* guards, all on the row read.
DecideAnyPack(r) ==
    LET to == IF Manual(r) THEN target[r] ELSE AutomaticTarget(seen[r], AnyPack)
        ok == /\ to # NoTarget
              /\ Manual(r) \/ <<seen[r].status, to>> \in AllowedTransitions
              /\ Guards(seen[r], to, AnyPack)
    IN  /\ At(r, "counting")
        /\ \/ ok /\ target' = [target EXCEPT ![r] = to] /\ Goto(r, "writing") /\ UNCHANGED <<seen, draft>>
           \/ ~ok /\ Finish(r)
        /\ UNCHANGED <<lane, world, lock, faults>>
Decide(r) ==
    LET to == IF Manual(r) THEN target[r] ELSE AutomaticTarget(seen[r], ReadyPack)
        ok == /\ to # NoTarget
              /\ Manual(r) \/ <<seen[r].status, to>> \in AllowedTransitions
              /\ Guards(seen[r], to, ReadyPack)
    IN  /\ At(r, "counting")
        /\ \/ ok /\ target' = [target EXCEPT ![r] = to] /\ Goto(r, "writing") /\ UNCHANGED <<seen, draft>>
           \/ ~ok /\ Finish(r)
        /\ UNCHANGED <<lane, world, lock, faults>>

\* transitionLaneStatus: UPDATE lanes SET status ... WHERE id = $1.
WriteStatus(r) ==
    /\ At(r, "writing")
    /\ lane' = [lane EXCEPT !.status = target[r], !.aged = FALSE]
    /\ Goto(r, "recording")
    /\ UNCHANGED <<world, lock, locals, faults>>

\* The row is read again and the entry appended; reconciliation goes round with
\* that row, a transition is over, a dispute commits.
RecordFirstRow(r) ==
    /\ At(r, "recording")
    /\ \/ Is(r, "dispute") /\ Goto(r, "disputing") /\ UNCHANGED locals
       \/ Is(r, "transition") /\ Finish(r)
       \/ ~Manual(r) /\ Goto(r, "counting") /\ UNCHANGED locals
    /\ UNCHANGED <<lane, world, lock, faults>>
Record(r) ==
    /\ At(r, "recording")
    /\ \/ Is(r, "dispute") /\ Goto(r, "disputing") /\ UNCHANGED locals
       \/ Is(r, "transition") /\ Finish(r)
       \/ /\ ~Manual(r)
          /\ seen' = [seen EXCEPT ![r] = lane]
          /\ target' = [target EXCEPT ![r] = NoTarget]
          /\ Goto(r, "counting")
          /\ UNCHANGED draft
    /\ UNCHANGED <<lane, world, lock, faults>>

-----------------------------------------------------------------------------
\* A statement fails: the transaction is undone and the request is over.  What
\* was committed before stays.
Fail(r) ==
    /\ phase[r] \notin {"idle", "done"}
    /\ faults < MaxFaults
    /\ faults' = faults + 1
    /\ lock' = IF lock = r THEN NoRequest ELSE lock
    /\ packs' = IF packs[r] = "generating" THEN [packs EXCEPT ![r] = "failed"] ELSE packs
    /\ Finish(r)
    /\ UNCHANGED <<lane, evidence, analysed, disputes>>

\* The retention period of a closed lane ends; at other times it has no effect.
Age ==
    /\ lane.status = "CLOSED" /\ ~lane.aged
    /\ lane' = [lane EXCEPT !.aged = TRUE]
    /\ UNCHANGED <<world, lock, phase, locals, faults>>

Init ==
    /\ lane = NewLane
    /\ evidence = [a \in Artifacts |-> "absent"]
    /\ analysed = {}
    /\ packs = [r \in Requests |-> "none"]
    /\ disputes = {}
    /\ lock = NoRequest
    /\ phase = [r \in Requests |-> "idle"]
    /\ seen = [r \in Requests |-> NewLane]
    /\ target = [r \in Requests |-> NoTarget]
    /\ draft = [r \in Requests |-> {}]
    /\ faults = 0

Arrive(r) ==
    EvaluateUpload(r) \/ Reanalyse(r) \/ Delete(r) \/ RequestPack(r) \/ RequestTransition(r) \/ RequestDispute(r)

Continue(r) ==
    CommitUpload(r) \/ Analyse(r) \/ SkipAnalysis(r) \/ Evaluate(r) \/ WriteScore(r) \/ SettlePack(r)
    \/ CommitDispute(r) \/ ReadLane(r) \/ Decide(r) \/ WriteStatus(r) \/ Record(r)

Next == (\E r \in Requests : Arrive(r) \/ Continue(r) \/ Fail(r)) \/ Age

Spec == Init /\ [][Next]_vars

\* A request that arrived is served to its end.
FairSpec == Spec /\ \A r \in Requests : WF_vars(Continue(r))

-----------------------------------------------------------------------------
(* Properties *)

\* Every variable keeps its type.
TypeOK ==
    /\ lane \in Row
    /\ evidence \in [Artifacts -> {"absent", "active", "deleted"}]
    /\ analysed \subseteq Artifacts
    /\ packs \in [Requests -> {"none", "generating", "ready", "failed"}]
    /\ disputes \subseteq Requests
    /\ lock \in Requests \cup {NoRequest}
    /\ phase \in [Requests -> Phase]
    /\ seen \in [Requests -> Row]
    /\ target \in [Requests -> Status \cup {NoTarget}]
    /\ draft \in [Requests -> SUBSET Documents]
    /\ faults \in Nat

NothingDeleted == \A a \in Artifacts : evidence[a] # "deleted"

\* However uploads overlap, the score counts every committed artifact: the audit
\* lock serializes the evaluations.  It takes an analysis or a deletion to make
\* the cached score stale.
UploadsKeepScore == NothingDeleted /\ analysed = {} => lane.score = Covered(Active)

\* As long as nothing is deleted, a lane past EVIDENCE_COLLECTING has the
\* evidence, whatever stale scores and unconditional writes the requests race
\* with: a stale score only understates.
EvidenceBeforeValidation ==
    NothingDeleted /\ lane.status \notin {"CREATED", "EVIDENCE_COLLECTING"} =>
        Covered(Active) \in Sufficient

\* A lane that was ever packed, closed, disputed or archived has a READY proof
\* pack, and so does one with a dispute to defend.
PackBeforePacked ==
    \/ lane.status \in {"PACKED", "CLOSED", "CLAIM_DEFENSE", "DISPUTE_RESOLVED", "ARCHIVED"}
    \/ disputes # {}
    => ReadyPack

FollowsGraph ==
    lane'.status = lane.status \/ <<lane.status, lane'.status>> \in AllowedTransitions

\* The row only ever leaves the status graph when the writer checked a status
\* that another request has replaced since.
OnlyRacesLeaveTheGraph ==
    [][\/ FollowsGraph
       \/ \E r \in Requests : At(r, "writing") /\ seen[r].status # lane.status]_vars

\* Every change of the score is followed by a reconciliation that sees it: when
\* the requests are over, none of them failed and nobody moved the lane by hand,
\* a lane with a sufficient score is not left collecting evidence.
QuietLaneIsValidated ==
    /\ \A r \in Requests : phase[r] \in {"idle", "done"} /\ (Manual(r) => phase[r] = "idle")
    /\ faults = 0
    => lane.score \notin Sufficient \/ lane.status # "EVIDENCE_COLLECTING"

\* Reconciliation never goes round for ever, whatever others do to the row: the
\* requests that arrived end, time and again.
EveryRequestEnds == []<>(\A r \in Requests : phase[r] \in {"idle", "done"})

\* FR-M2-002d: a lane becomes VALIDATED only when its evidence suffices.
ValidatedOnlyWithEvidence ==
    [][lane'.status = "VALIDATED" /\ lane.status # "VALIDATED" => Covered(Active) \in Sufficient]_vars
===============================================================================
