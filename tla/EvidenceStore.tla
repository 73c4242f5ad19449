----------------------------- MODULE EvidenceStore -----------------------------
(***************************************************************************)
(* The evidence of one lane: artifact rows with their verification status, *)
(* the links between them, and the stored files.  A file's key is made of  *)
(* the lane, the artifact type and the content hash, so identical files    *)
(* share one object.  An upload stores the object first, then inserts the  *)
(* row and its links in a transaction, then verifies, analyses and         *)
(* announces; an exception anywhere after the first step deletes the       *)
(* object.  Verifications read objects outside the transaction that writes *)
(* their result.                                                           *)
(* Sources: evidence/evidence.{service,pg-store,storage}.ts.               *)
(*                                                                         *)
(* Every request runs by itself, in any of several API processes.  SHA-256 *)
(* is injective: an object under its key has the right content or is not   *)
(* there.  What scores and audit entries the requests write is modelled in *)
(* LaneLifecycle and AuditChain.  The lane has fewer artifacts than a page *)
(* of the listing holds (20).                                              *)
(***************************************************************************)
EXTENDS Naturals

CONSTANTS
    Artifacts,    \* one per upload request: the id its row will get
    Keys,         \* object keys
    KeyOf,        \* artifact -> the key its file is stored under
    Wanted,       \* artifact -> the sets of artifacts its request may ask to link it to
    CheckpointOf, \* artifact -> its checkpoint, or NoCheckpoint
    NoCheckpoint,
    Checks,       \* verification requests
    CheckOf,      \* check -> the artifact it verifies, or WholeLane
    WholeLane,
    Deletions,    \* delete requests
    DeletionOf,   \* deletion -> the artifact it deletes
    MaxFaults     \* bound: failing statements and crashes

ASSUME UploadAssumption ==
    /\ KeyOf \in [Artifacts -> Keys]
    /\ Wanted \in [Artifacts -> SUBSET SUBSET Artifacts]
    /\ \A a \in Artifacts : \A W \in Wanted[a] : a \notin W  \* its id is not known yet
ASSUME RequestAssumption ==
    /\ CheckOf \in [Checks -> Artifacts \cup {WholeLane}]
    /\ WholeLane \notin Artifacts
    /\ DeletionOf \in [Deletions -> Artifacts]
    /\ Artifacts \cap Checks = {} /\ Artifacts \cap Deletions = {} /\ Checks \cap Deletions = {}
    /\ MaxFaults \in Nat

VARIABLES
    status,     \* artifact -> its row's verification_status, "absent" before the commit
    deleted,    \* artifacts whose row has a deleted_at
    stamp,      \* artifact -> uploaded_at: when its transaction began
    links,      \* artifact_links: pairs of source and target
    objects,    \* keys of the stored objects
    phase,      \* request -> where it stands
    picked,     \* upload -> the targets it links its artifact to
    unchecked,  \* upload -> those it has not looked up yet
    report,     \* verifying request -> what it found of each artifact
    clock,      \* the database's clock
    faults      \* failing statements and crashes so far

rows == <<status, deleted, stamp, links>>
linking == <<picked, unchecked>>
vars == <<status, deleted, stamp, links, objects, phase, picked, unchecked, report, clock, faults>>

Verifiers == Artifacts \cup Checks
Requests == Verifiers \cup Deletions

Phase == {"idle", "begin", "lane", "checkpoint", "check", "verify", "hash", "survey", "rehash",
          "analyse", "remove", "deleting", "done", "removed", "dead"}
Statuses == {"PENDING", "VERIFIED", "FAILED"}
Findings == {"out", "listed", "VERIFIED", "FAILED"}
Nothing == [a \in Artifacts |-> "out"]

-----------------------------------------------------------------------------
(* What a statement sees of the tables.  The definitions that follow no line
   of the code are mutants: a variant of the definition below them. *)

\* Committed and not deleted.
Active == {a \in Artifacts : status[a] # "absent" /\ a \notin deleted}

\* findArtifactById by the id a request names, in the lane.
FoundUncommitted(t) == t \in {a \in Artifacts : stamp[a] > 0} \ deleted
Found(t) == t \in Active

\* ORDER BY uploaded_at DESC LIMIT 1
LatestOf(S) == {a \in S : \A b \in S : stamp[b] <= stamp[a]}

\* Some path of links between active artifacts leads from a to b.
Reaches(a, b) ==
    /\ a \in Active
    /\ \A C \in SUBSET Active :
          a \in C /\ (\A c \in C, d \in Active : <<c, d>> \in links => d \in C) => b \in C

\* findCycleNodeIds
OnCycle(a) == \E b \in Active : <<a, b>> \in links /\ Reaches(b, a)

-----------------------------------------------------------------------------
(* Helpers of the actions *)

At(r, p) == phase[r] = p
Goto(r, p) == phase' = [phase EXCEPT ![r] = p]

Fault == faults < MaxFaults /\ faults' = faults + 1

InTransaction(a) == phase[a] \in {"begin", "lane", "checkpoint", "check"}

Forget(a) ==
    /\ picked' = [picked EXCEPT ![a] = {}]
    /\ unchecked' = [unchecked EXCEPT ![a] = {}]

-----------------------------------------------------------------------------
(* persistArtifact up to the commit *)

\* putObjectFromFile; a failure here is not in the try block.
Put(a) ==
    /\ At(a, "idle")
    /\ objects' = objects \cup {KeyOf[a]}
    /\ Goto(a, "begin")
    /\ UNCHANGED <<rows, linking, report, clock, faults>>
PutFails(a) ==
    /\ At(a, "idle") /\ Fault
    /\ objects' \in {objects, objects \cup {KeyOf[a]}}
    /\ Goto(a, "done")
    /\ UNCHANGED <<rows, linking, report, clock>>

\* BEGIN fixes what NOW() is for the whole transaction.
Begin(a) ==
    /\ At(a, "begin")
    /\ clock' = clock + 1
    /\ stamp' = [stamp EXCEPT ![a] = clock + 1]
    /\ Goto(a, "lane")
    /\ UNCHANGED <<status, deleted, links, objects, linking, report, faults>>

\* findLatestArtifactForLane, then findLatestArtifactForCheckpoint: statements of
\* their own, each with its own view of what is committed.
FindLatestAfterInsert(a) ==
    /\ At(a, "lane")
    /\ \E W \in Wanted[a] : picked' = [picked EXCEPT ![a] = W \cup LatestOf(Active \cup {a})]
    /\ unchecked' = [unchecked EXCEPT ![a] = picked'[a]]
    /\ Goto(a, IF CheckpointOf[a] = NoCheckpoint THEN "check" ELSE "checkpoint")
    /\ UNCHANGED <<rows, objects, report, clock, faults>>
FindLatest(a) ==
    /\ At(a, "lane")
    /\ \E W \in Wanted[a] : picked' = [picked EXCEPT ![a] = W \cup LatestOf(Active)]
    /\ unchecked' = [unchecked EXCEPT ![a] = picked'[a]]
    /\ Goto(a, IF CheckpointOf[a] = NoCheckpoint THEN "check" ELSE "checkpoint")
    /\ UNCHANGED <<rows, objects, report, clock, faults>>
FindLatestOfCheckpoint(a) ==
    LET before == LatestOf({b \in Active : CheckpointOf[b] = CheckpointOf[a]})
    IN  /\ At(a, "checkpoint")
        /\ picked' = [picked EXCEPT ![a] = picked[a] \cup before]
        /\ unchecked' = [unchecked EXCEPT ![a] = picked'[a]]
        /\ Goto(a, "check")
        /\ UNCHANGED <<rows, objects, report, clock, faults>>

\* linkCreatesCycle(created.id, target), in a transaction that has inserted the
\* artifact but none of its links.
LinkCreatesCycle(a, t) == t = a \/ Reaches(t, a)

\* One round of the loop over the links.  A target that is not there, or that
\* would close a cycle, ends the request: the transaction is rolled back.
CheckLink(a) ==
    /\ At(a, "check")
    /\ \E t \in unchecked[a] :
          /\ Found(t) /\ ~LinkCreatesCycle(a, t)
          /\ unchecked' = [unchecked EXCEPT ![a] = @ \ {t}]
    /\ UNCHANGED <<rows, objects, phase, picked, report, clock, faults>>
RejectLink(a) ==
    /\ At(a, "check")
    /\ \E t \in unchecked[a] : ~Found(t) \/ LinkCreatesCycle(a, t)
    /\ Forget(a)
    /\ Goto(a, "remove")
    /\ UNCHANGED <<rows, objects, report, clock, faults>>

\* COMMIT: the row and its links become visible.
Insert(a) ==
    /\ At(a, "check") /\ unchecked[a] = {}
    /\ status' = [status EXCEPT ![a] = "PENDING"]
    /\ links' = links \cup ({a} \X picked[a])
    /\ Forget(a)
    /\ UNCHANGED <<deleted, stamp, objects, report, clock>>
Commit(a) == Insert(a) /\ Goto(a, "verify") /\ UNCHANGED faults
CommitUnanswered(a) == Insert(a) /\ Goto(a, "remove") /\ Fault

\* A statement of the transaction fails.
TransactionFails(a) ==
    /\ InTransaction(a) /\ Fault
    /\ Forget(a)
    /\ Goto(a, "remove")
    /\ UNCHANGED <<rows, objects, report, clock>>

-----------------------------------------------------------------------------
(* persistArtifact after the commit *)

\* The analysis failed or there is none; or it is stored and scored.  Then the
\* upload is announced, and the request succeeds.
Announce(a) ==
    /\ At(a, "analyse")
    /\ Goto(a, "done")
    /\ UNCHANGED <<rows, objects, linking, report, clock, faults>>

\* The refresh of the score after an analysis is not guarded: its exception ends
\* the request, with the artifact committed.
RefreshFails(a) ==
    /\ At(a, "analyse") /\ Fault
    /\ Goto(a, "remove")
    /\ UNCHANGED <<rows, objects, linking, report, clock>>

\* The catch block deletes the object, whatever was committed; its own failure
\* is swallowed.
RemoveObject(a) ==
    /\ At(a, "remove")
    /\ objects' = objects \ {KeyOf[a]}
    /\ Goto(a, "removed")
    /\ UNCHANGED <<rows, linking, report, clock, faults>>
RemoveFails(a) ==
    /\ At(a, "remove") /\ Fault
    /\ Goto(a, "done")
    /\ UNCHANGED <<rows, objects, linking, report, clock>>

-----------------------------------------------------------------------------
(* verifyArtifact and verifyLaneGraph, on request or after an upload *)

\* An upload goes on, whatever became of the verification; a request is over.
After(v) == IF v \in Checks THEN "done" ELSE IF At(v, "rehash") THEN "analyse" ELSE "survey"

Subject(v) == IF v \in Checks THEN CheckOf[v] ELSE v

\* requireArtifact: 404 if it is gone.
SkipVerification(v) ==
    /\ At(v, "verify")
    /\ Goto(v, After(v))
    /\ UNCHANGED <<rows, objects, linking, report, clock, faults>>
RequireArtifact(v) ==
    /\ At(v, "verify")
    /\ IF Subject(v) \in Active
       THEN /\ report' = [report EXCEPT ![v] = [Nothing EXCEPT ![Subject(v)] = "listed"]]
            /\ Goto(v, "hash")
       ELSE /\ report' = report
            /\ Goto(v, After(v))
    /\ UNCHANGED <<rows, objects, linking, clock, faults>>

\* listArtifactsForIntegrityCheck and findArtifactGraphForLane.  An artifact on a
\* cycle is FAILED whatever its hash.  The list, the nodes and the edges are read
\* by three statements: as links are never on a cycle (NoCycles), it makes no
\* difference what is committed between them.
Survey(v) ==
    /\ At(v, "survey")
    /\ report' = [report EXCEPT ![v] =
                    [a \in Artifacts |-> IF a \notin Active THEN "out"
                                         ELSE IF OnCycle(a) THEN "FAILED" ELSE "listed"]]
    /\ Goto(v, "rehash")
    /\ UNCHANGED <<rows, objects, linking, clock, faults>>

\* createReadStream and hashFile: no object, or an error, is FAILED.
Hash(v) ==
    /\ phase[v] \in {"hash", "rehash"}
    /\ \E a \in Artifacts :
          /\ report[v][a] = "listed"
          /\ report' = [report EXCEPT ![v][a] =
                          IF KeyOf[a] \in objects THEN "VERIFIED" ELSE "FAILED"]
    /\ UNCHANGED <<rows, objects, phase, linking, clock, faults>>
HashFails(v) ==
    /\ phase[v] \in {"hash", "rehash"} /\ Fault
    /\ \E a \in Artifacts :
          /\ report[v][a] = "listed"
          /\ report' = [report EXCEPT ![v][a] = "FAILED"]
    /\ UNCHANGED <<rows, objects, phase, linking, clock>>

Hashed(v) == {a \in Artifacts : report[v][a] # "out"}

\* The transaction that stores the statuses.  The UPDATE finds a deleted row too,
\* but reading the row back then fails: nothing is stored for any artifact.
RecordRows(v) ==
    /\ phase[v] \in {"hash", "rehash"}
    /\ \A a \in Artifacts : report[v][a] # "listed"
    /\ status' = [a \in Artifacts |-> IF a \in Hashed(v) THEN report[v][a] ELSE status[a]]
    /\ report' = [report EXCEPT ![v] = Nothing]
    /\ Goto(v, After(v))
    /\ UNCHANGED <<deleted, stamp, links, objects, linking, clock, faults>>
Record(v) ==
    /\ phase[v] \in {"hash", "rehash"}
    /\ \A a \in Artifacts : report[v][a] # "listed"
    /\ status' = IF Hashed(v) \cap deleted = {}
                 THEN [a \in Artifacts |-> IF a \in Hashed(v) THEN report[v][a] ELSE status[a]]
                 ELSE status
    /\ report' = [report EXCEPT ![v] = Nothing]
    /\ Goto(v, After(v))
    /\ UNCHANGED <<deleted, stamp, links, objects, linking, clock, faults>>

\* A statement of the verification fails; after an upload that is only logged.
VerificationFails(v) ==
    /\ phase[v] \in {"verify", "hash", "survey", "rehash"} /\ Fault
    /\ report' = [report EXCEPT ![v] = Nothing]
    /\ Goto(v, IF At(v, "survey") /\ v \in Artifacts THEN "analyse" ELSE After(v))
    /\ UNCHANGED <<rows, objects, linking, clock>>

-----------------------------------------------------------------------------
(* deleteArtifact: a soft delete, the object stays *)

RequireForDelete(d) ==
    /\ At(d, "idle")
    /\ Goto(d, IF DeletionOf[d] \in Active THEN "deleting" ELSE "done")
    /\ UNCHANGED <<rows, objects, linking, report, clock, faults>>
DeleteWithObject(d) ==
    /\ At(d, "deleting")
    /\ deleted' = deleted \cup {DeletionOf[d]}
    /\ objects' = objects \ {KeyOf[DeletionOf[d]]}
    /\ Goto(d, "done")
    /\ UNCHANGED <<status, stamp, links, linking, report, clock, faults>>
SoftDelete(d) ==
    /\ At(d, "deleting")
    /\ deleted' = deleted \cup {DeletionOf[d]}
    /\ Goto(d, "done")
    /\ UNCHANGED <<status, stamp, links, objects, linking, report, clock, faults>>
DeleteFails(d) ==
    /\ At(d, "deleting") /\ Fault
    /\ Goto(d, "done")
    /\ UNCHANGED <<rows, objects, linking, report, clock>>

-----------------------------------------------------------------------------
\* The process of a request dies.  An open transaction is rolled back.
Crash(r) ==
    /\ phase[r] \notin {"idle", "done", "removed", "dead"} /\ Fault
    /\ Goto(r, "dead")
    /\ IF r \in Artifacts THEN Forget(r) ELSE UNCHANGED linking
    /\ report' = IF r \in Verifiers THEN [report EXCEPT ![r] = Nothing] ELSE report
    /\ UNCHANGED <<rows, objects, clock>>

Init ==
    /\ status = [a \in Artifacts |-> "absent"]
    /\ deleted = {}
    /\ stamp = [a \in Artifacts |-> 0]
    /\ links = {}
    /\ objects = {}
    /\ phase = [r \in Requests |->
                  IF r \in Checks
                  THEN IF CheckOf[r] = WholeLane THEN "survey" ELSE "verify"
                  ELSE "idle"]
    /\ picked = [a \in Artifacts |-> {}]
    /\ unchecked = [a \in Artifacts |-> {}]
    /\ report = [v \in Verifiers |-> Nothing]
    /\ clock = 0
    /\ faults = 0

Upload(a) ==
    Put(a) \/ PutFails(a) \/ Begin(a) \/ FindLatest(a) \/ FindLatestOfCheckpoint(a)
    \/ CheckLink(a) \/ RejectLink(a) \/ Commit(a) \/ CommitUnanswered(a) \/ TransactionFails(a)
    \/ Announce(a) \/ RefreshFails(a) \/ RemoveObject(a) \/ RemoveFails(a)
Verify(v) ==
    RequireArtifact(v) \/ Survey(v) \/ Hash(v) \/ HashFails(v) \/ Record(v) \/ VerificationFails(v)
Delete(d) == RequireForDelete(d) \/ SoftDelete(d) \/ DeleteFails(d)

Next ==
    \/ \E a \in Artifacts : Upload(a)
    \/ \E v \in Verifiers : Verify(v)
    \/ \E d \in Deletions : Delete(d)
    \/ \E r \in Requests : Crash(r)

Spec == Init /\ [][Next]_vars

-----------------------------------------------------------------------------
(* Properties *)

\* Every variable keeps its type, and no upload is to link its artifact to itself.
TypeOK ==
    /\ status \in [Artifacts -> Statuses \cup {"absent"}]
    /\ deleted \subseteq Artifacts
    /\ stamp \in [Artifacts -> Nat]
    /\ links \subseteq Artifacts \X Artifacts
    /\ objects \subseteq Keys
    /\ phase \in [Requests -> Phase]
    /\ picked \in [Artifacts -> SUBSET Artifacts]
    /\ \A a \in Artifacts : a \notin picked[a]
    /\ unchecked \in [Artifacts -> SUBSET Artifacts]
    /\ report \in [Verifiers -> [Artifacts -> Findings]]
    /\ clock \in Nat
    /\ faults \in 0..MaxFaults

\* The evidence graph is acyclic, however uploads that link to each other
\* overlap: of any artifacts, one has no link to the others or itself.
NoCycles ==
    \A S \in SUBSET Artifacts :
        S # {} => \E a \in S : \A b \in S : <<a, b>> \notin links

\* The row of an artifact comes after its object, and deletion keeps the object:
\* only an upload of the same key that failed can have removed it.
LostObjectsHaveFailedUploads ==
    \A a \in Artifacts :
        status[a] # "absent" =>
            \/ KeyOf[a] \in objects
            \/ \E b \in Artifacts : KeyOf[b] = KeyOf[a] /\ phase[b] = "removed"

\* A verification that was under way when an artifact was deleted does not change
\* the row that the deletion's audit entry describes.
DeletedRowsAreFrozen ==
    [][\A a \in deleted : a \in deleted' /\ status'[a] = status[a]]_vars

\* Two verifications stand behind every upload: if no statement failed, an
\* artifact whose upload is over is not PENDING, also when the verification of
\* the whole lane was undone by the deletion of some other artifact.
UploadsEndVerified ==
    \A a \in Active : phase[a] \in {"analyse", "done"} /\ faults = 0 => status[a] # "PENDING"
===============================================================================
