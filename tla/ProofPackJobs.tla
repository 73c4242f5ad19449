---------------------------- MODULE ProofPackJobs -----------------------------
(***************************************************************************)
(* The durable proof-pack queue: HTTP requests enqueue packs, worker       *)
(* processes lease the jobs from PostgreSQL, render and upload the PDF and *)
(* finalize job and pack, all fenced by the lease's expiry timestamp.      *)
(* Sources: evidence/proof-pack.{service,worker,pg-store}.ts.              *)
(*                                                                         *)
(* Each SQL statement is one atomic step.  A statement may succeed, fail   *)
(* before it is applied, or be applied while its reply is lost; workers    *)
(* crash, shut down and restart; leases lapse under slow workers.  Every   *)
(* process has a clock of its own, which never runs backwards; nothing     *)
(* relates the clocks of two processes.                                    *)
(***************************************************************************)
EXTENDS Integers, FiniteSets

CONSTANTS
    Packs,         \* one pack (and its job) per POST .../packs/generate
    Keys,          \* the (lane, pack type) pairs packs are versioned within
    KeyOf,         \* pack -> key
    Workers,       \* API processes, each running a ProofPackWorkerService
    Renderings,    \* the byte strings rendering one payload can give
    LeaseMs,       \* PROOF_PACK_JOB_LEASE_MS
    RetryBackoff,  \* attempt -> getRetryBackoffMs(attempt)
    MaxAttempts,   \* PROOF_PACK_JOB_MAX_ATTEMPTS
    NoPack, NoDoc, \* null values
    MaxFaults,     \* bound: crashes, shutdowns, failed statements and lapses
    MaxRenewals    \* bound: heartbeats sent

ASSUME KeysAssumption     == KeyOf \in [Packs -> Keys]
ASSUME LeaseAssumption    == LeaseMs \in Nat \ {0}
ASSUME AttemptsAssumption == MaxAttempts \in Nat \ {0}
ASSUME BackoffAssumption  == RetryBackoff \in [1 .. MaxAttempts -> Nat \ {0}]
ASSUME NullAssumption     == NoPack \notin Packs /\ NoDoc \notin Renderings
ASSUME BoundAssumption    == MaxFaults \in Nat /\ MaxRenewals \in Nat

VARIABLES
    clock,      \* process -> its wall clock, what new Date() returns there
    requested,  \* pack -> the version its request computed, 0 before that
    pack,       \* proof_packs
    job,        \* proof_pack_jobs
    objects,    \* the object store: a function from file paths to documents
    worker,     \* process -> its mode and the claim it is working on
    renewal,    \* process -> the heartbeat statement in flight
    effects,    \* pack -> how often each follow-up of a settlement happened
    faults,     \* faults so far, at most MaxFaults
    renewals    \* heartbeats so far, at most MaxRenewals

store == <<requested, pack, job, objects>>
budget == <<faults, renewals>>
vars == <<clock, requested, pack, job, objects, worker, renewal, effects, faults, renewals>>

-----------------------------------------------------------------------------
(* Types and row values *)

PackStatus == {"ABSENT", "GENERATING", "READY", "FAILED"}
JobStatus == {"ABSENT", "QUEUED", "PROCESSING", "COMPLETED", "FAILED"}

\* The phases of processClaimedJob and completeLeasedJob.
BusyPhase == {"rendering", "uploading", "completing", "auditing", "notifying",
              "reconciling", "handling", "auditingFailure"}

\* AUDIT_READY, NOTIFIED and RECONCILED follow completion, AUDIT_FAILED failure.
Effects == {"AUDIT_READY", "NOTIFIED", "RECONCILED", "AUDIT_FAILED"}

\* lease_expires_at IS NULL: every real expiry is at least LeaseMs, hence not 0.
NoLease == 0

Document == [pack : Packs, bytes : Renderings]
NoHash == [pack |-> NoPack, bytes |-> NoDoc]

PackRow == [status : PackStatus, version : Nat, hash : Document \cup {NoHash}]
JobRow == [status : JobStatus, attempts : Nat, availableAt : Nat, lease : Nat]

\* token is currentLeaseExpiresAt, the expiry this claim believes it holds.
Claim == [mode : {"up", "draining", "down"}, phase : BusyPhase \cup {"idle", "leasing"},
          pack : Packs \cup {NoPack}, attempt : Nat, token : Nat,
          doc : Renderings \cup {NoDoc}]
Unclaimed(mode, phase) ==
    [mode |-> mode, phase |-> phase, pack |-> NoPack, attempt |-> 0, token |-> 0, doc |-> NoDoc]

Renewal == [state : {"none", "sent", "applied"}, pack : Packs \cup {NoPack},
            attempt : Nat, expected : Nat, new : Nat]
NoRenewal == [state |-> "none", pack |-> NoPack, attempt |-> 0, expected |-> 0, new |-> 0]

\* filePath: `packs/${laneId}/${packType}-v${version}.pdf`
UnversionedPath(p) == <<KeyOf[p], 1>>
Path(p) == <<KeyOf[p], pack[p].version>>

-----------------------------------------------------------------------------
(* What the statements of proof-pack.pg-store.ts select and write.  The
   definitions that follow no line of the code are mutants: a variant of the
   definition below them with a plausible mistake in it. *)

Inserted(p) == pack[p].status # "ABSENT"

\* getLatestVersion: COALESCE(MAX(version), 0) of the packs with p's key.
IsLatestVersion(p, v) ==
    LET Versions == {0} \cup {pack[q].version : q \in {r \in Packs : Inserted(r) /\ KeyOf[r] = KeyOf[p]}}
    IN  v \in Versions /\ \A u \in Versions : u <= v

\* The rows leaseNextJob may take when its $1 is t.
DueQueuedOnly(p, t) == job[p].status = "QUEUED" /\ job[p].availableAt <= t
DueAnyProcessing(p, t) ==
    \/ job[p].status = "QUEUED" /\ job[p].availableAt <= t
    \/ job[p].status = "PROCESSING"
Due(p, t) ==
    \/ job[p].status = "QUEUED" /\ job[p].availableAt <= t
    \/ job[p].status = "PROCESSING" /\ job[p].lease <= t

\* WHERE id = $1 AND status = 'PROCESSING' AND lease_expires_at = $n.
MatchesUnfenced(p, lease) == job[p].status = "PROCESSING"
MatchesAnyStatus(p, lease) == job[p].lease = lease \/ job[p].status = "COMPLETED"
Matches(p, lease) == job[p].status = "PROCESSING" /\ job[p].lease = lease

QueuedRow(t) == [status |-> "QUEUED", attempts |-> 0, availableAt |-> t, lease |-> NoLease]
LeasedRow(row, t) ==
    [row EXCEPT !.status = "PROCESSING", !.attempts = @ + 1, !.lease = t + LeaseMs]
RequeuedRow(row, t) == [row EXCEPT !.status = "QUEUED", !.availableAt = t, !.lease = NoLease]
SettledRow(row, status) == [row EXCEPT !.status = status, !.lease = NoLease]

CompletedPack(row, doc) == [row EXCEPT !.status = "COMPLETED", !.hash = doc]
ReadyPack(row, doc) == [row EXCEPT !.status = "READY", !.hash = doc]
UntouchedPack(row) == row
FailedPack(row) == [row EXCEPT !.status = "FAILED", !.hash = NoHash]

\* getJobMetrics: the jobs behind the stuck_jobs and retry_exhausted alerts.
StuckProcessing(t) == {p \in Packs : job[p].status = "PROCESSING" /\ job[p].lease <= t}
RetryExhausted == {p \in Packs : job[p].status = "FAILED" /\ job[p].attempts >= MaxAttempts}

-----------------------------------------------------------------------------
(* Helpers of the actions *)

Busy(w) == worker[w].phase \in BusyPhase
Doc(w) == [pack |-> worker[w].pack, bytes |-> worker[w].doc]
Owns(w) == Matches(worker[w].pack, worker[w].token)
Holds(w, p) == Busy(w) /\ worker[w].pack = p /\ worker[w].attempt = job[p].attempts

\* A statement ends "ok", in an "error" before it is applied, or applied and
\* "lost": both of the latter reach the caller as an exception.
Outcome == {"ok", "error", "lost"}
Applied(out) == out # "error"

\* A fault happens only within the budget; MaxFaults bounds nothing else.
Cost(isFault) == IF isFault THEN 1 ELSE 0
Spend(cost) ==
    /\ cost = 0 \/ faults + cost <= MaxFaults
    /\ faults' = faults + cost
    /\ UNCHANGED renewals

Goto(w, phase) == worker' = [worker EXCEPT ![w].phase = phase]
Release(w, phase) == worker' = [worker EXCEPT ![w] = Unclaimed(@.mode, phase)]

-----------------------------------------------------------------------------
(* Requests: ProofPackService.generatePack *)

\* The read of generatePack: version = getLatestVersion(...) + 1.
ReadVersion(p) ==
    /\ requested[p] = 0
    /\ \E v \in {0} \cup {pack[q].version : q \in Packs} :
          IsLatestVersion(p, v) /\ requested' = [requested EXCEPT ![p] = v + 1]
    /\ UNCHANGED <<clock, pack, job, objects, worker, renewal, effects, budget>>

\* The write of generatePack: enqueuePack inserts pack and job in one
\* transaction; process w serves the request and stamps it.
Enqueue(p, w) ==
    /\ requested[p] > 0
    /\ ~Inserted(p)
    /\ worker[w].mode = "up"
    /\ pack' = [pack EXCEPT ![p] =
          [status |-> "GENERATING", version |-> requested[p], hash |-> NoHash]]
    /\ job' = [job EXCEPT ![p] = QueuedRow(clock[w])]
    /\ UNCHANGED <<clock, requested, objects, worker, renewal, effects, budget>>

-----------------------------------------------------------------------------
(* The poll loop: triggerPollQueue, pollQueue, leaseNextJob *)

\* The interval fires, no poll is active and the service is not shutting down.
PollTick(w) ==
    /\ worker[w].mode = "up"
    /\ worker[w].phase = "idle"
    /\ Goto(w, "leasing")
    /\ UNCHANGED <<clock, store, renewal, effects, budget>>

\* leaseNextJob takes the due row that became available first.  Taking a row
\* from a process still working on it is a fault: its lease lapsed.
LeaseNextJob(w, out) ==
    /\ worker[w].phase = "leasing"
    /\ \E p \in Packs :
          /\ Due(p, clock[w])
          /\ \A q \in Packs : Due(q, clock[w]) => job[p].availableAt <= job[q].availableAt
          /\ Spend(Cost(out # "ok") + Cost(\E x \in Workers : Holds(x, p)))
          /\ job' = IF Applied(out) THEN [job EXCEPT ![p] = LeasedRow(@, clock[w])] ELSE job
          /\ IF out = "ok"
             THEN worker' = [worker EXCEPT ![w] =
                    [@ EXCEPT !.phase = "rendering", !.pack = p,
                              !.attempt = job[p].attempts + 1, !.token = clock[w] + LeaseMs]]
             ELSE Goto(w, "idle")
    /\ UNCHANGED <<clock, requested, pack, objects, renewal, effects>>

\* leaseNextJob finds nothing: the loop breaks.
LeaseNone(w) ==
    /\ worker[w].phase = "leasing"
    /\ \A p \in Packs : ~Due(p, clock[w])
    /\ Goto(w, "idle")
    /\ UNCHANGED <<clock, store, renewal, effects, budget>>

-----------------------------------------------------------------------------
(* A claimed job: processClaimedJob, completeLeasedJob, failLeasedJob *)

\* Template, Chromium and hash: each try may give other bytes, or fail.
Render(w) ==
    /\ worker[w].phase = "rendering"
    /\ \/ \E d \in Renderings :
             worker' = [worker EXCEPT ![w] = [@ EXCEPT !.phase = "uploading", !.doc = d]]
       \/ Goto(w, "handling")
    /\ UNCHANGED <<clock, store, renewal, effects, budget>>

\* putObjectFromFile overwrites whatever the path holds.
Upload(w, out) ==
    /\ worker[w].phase = "uploading"
    /\ Spend(Cost(out # "ok"))
    /\ objects' = IF Applied(out)
                  THEN [x \in DOMAIN objects \cup {Path(worker[w].pack)} |->
                          IF x = Path(worker[w].pack) THEN Doc(w) ELSE objects[x]]
                  ELSE objects
    /\ Goto(w, IF out = "ok" THEN "completing" ELSE "handling")
    /\ UNCHANGED <<clock, requested, pack, job, renewal, effects>>

\* completePackJob: job and pack are settled by one statement, or neither is.
\* A null result is the lease-lost error: the claim is dropped as stale.
CompleteUnchecked(w, out) ==
    LET p == worker[w].pack IN
    /\ worker[w].phase = "completing"
    /\ Spend(Cost(out # "ok"))
    /\ IF Owns(w) /\ Applied(out)
       THEN /\ job' = [job EXCEPT ![p] = SettledRow(@, "COMPLETED")]
            /\ pack' = [pack EXCEPT ![p] = ReadyPack(@, Doc(w))]
       ELSE UNCHANGED <<job, pack>>
    /\ Goto(w, IF out = "ok" THEN "auditing" ELSE "handling")
    /\ UNCHANGED <<clock, requested, objects, renewal, effects>>
Complete(w, out) ==
    LET p == worker[w].pack IN
    /\ worker[w].phase = "completing"
    /\ Spend(Cost(out # "ok"))
    /\ IF Owns(w) /\ Applied(out)
       THEN /\ job' = [job EXCEPT ![p] = SettledRow(@, "COMPLETED")]
            /\ pack' = [pack EXCEPT ![p] = ReadyPack(@, Doc(w))]
       ELSE UNCHANGED <<job, pack>>
    /\ \/ out = "ok" /\ Owns(w) /\ Goto(w, "auditing")
       \/ out = "ok" /\ ~Owns(w) /\ Release(w, "leasing")
       \/ out # "ok" /\ Goto(w, "handling")
    /\ UNCHANGED <<clock, requested, objects, renewal, effects>>

\* A follow-up e of the settlement happens once more, or fails.
FollowUp(w, e, out) ==
    /\ Spend(Cost(out # "ok"))
    /\ effects' = IF Applied(out) THEN [effects EXCEPT ![worker[w].pack][e] = @ + 1] ELSE effects
    /\ UNCHANGED <<clock, store, renewal>>

\* appendPackAuditSafely swallows the error of a failed append.
AuditReady(w, out) ==
    /\ worker[w].phase = "auditing"
    /\ FollowUp(w, "AUDIT_READY", out)
    /\ Goto(w, "notifying")

\* notifyLaneOwner is not wrapped: its error leaves completeLeasedJob.
Notify(w, out) ==
    /\ worker[w].phase = "notifying"
    /\ FollowUp(w, "NOTIFIED", out)
    /\ Goto(w, IF out = "ok" THEN "reconciling" ELSE "handling")

\* reconcileLanePackingSafely swallows errors; the loop leases the next job.
Reconcile(w, out) ==
    /\ worker[w].phase = "reconciling"
    /\ FollowUp(w, "RECONCILED", out)
    /\ Release(w, "leasing")

RetriesLeftOffByOne(w) == worker[w].attempt <= MaxAttempts
RetriesLeft(w) == worker[w].attempt < MaxAttempts

\* requeueJob: back in the queue, or stale and skipped.  Its error ends the poll.
Requeue(w, out) ==
    LET p == worker[w].pack IN
    /\ worker[w].phase = "handling"
    /\ RetriesLeft(w)
    /\ Spend(Cost(out # "ok"))
    /\ job' = IF Owns(w) /\ Applied(out)
              THEN [job EXCEPT ![p] = RequeuedRow(@, clock[w] + RetryBackoff[worker[w].attempt])]
              ELSE job
    /\ Release(w, IF out = "ok" THEN "leasing" ELSE "idle")
    /\ UNCHANGED <<clock, requested, pack, objects, renewal, effects>>

\* failPackJob: job and pack fail together, or the claim is stale and skipped.
\* Its error ends the poll.
Fail(w, out) ==
    LET p == worker[w].pack IN
    /\ worker[w].phase = "handling"
    /\ ~RetriesLeft(w)
    /\ Spend(Cost(out # "ok"))
    /\ IF Owns(w) /\ Applied(out)
       THEN /\ job' = [job EXCEPT ![p] = SettledRow(@, "FAILED")]
            /\ pack' = [pack EXCEPT ![p] = FailedPack(@)]
       ELSE UNCHANGED <<job, pack>>
    /\ \/ out = "ok" /\ Owns(w) /\ Goto(w, "auditingFailure")
       \/ out = "ok" /\ ~Owns(w) /\ Release(w, "leasing")
       \/ out # "ok" /\ Release(w, "idle")
    /\ UNCHANGED <<clock, requested, objects, renewal, effects>>

\* appendPackAuditSafely after failPackJob.
AuditFailure(w, out) ==
    /\ worker[w].phase = "auditingFailure"
    /\ FollowUp(w, "AUDIT_FAILED", out)
    /\ Release(w, "leasing")

-----------------------------------------------------------------------------
(* The heartbeat: startHeartbeat, renewJobLease *)

\* The interval of a claim fires and issues the statement.
Heartbeat(w) ==
    /\ worker[w].mode = "up"
    /\ Busy(w)
    /\ renewal[w].state = "none"
    /\ renewals < MaxRenewals
    /\ renewals' = renewals + 1
    /\ renewal' = [renewal EXCEPT ![w] =
          [state |-> "sent", pack |-> worker[w].pack, attempt |-> worker[w].attempt,
           expected |-> worker[w].token, new |-> clock[w] + LeaseMs]]
    /\ UNCHANGED <<clock, store, worker, effects, faults>>

\* The statement runs, whatever its process does meanwhile.
RenewApply(w) ==
    LET r == renewal[w] IN
    /\ r.state = "sent"
    /\ IF Matches(r.pack, r.expected)
       THEN /\ job' = [job EXCEPT ![r.pack].lease = r.new]
            /\ renewal' = [renewal EXCEPT ![w].state = "applied"]
       ELSE /\ renewal' = [renewal EXCEPT ![w] = NoRenewal]
            /\ UNCHANGED job
    /\ UNCHANGED <<clock, requested, pack, objects, worker, effects, budget>>

\* Its reply arrives and moves the token of the claim that sent it.
RenewReplyUnread(w) ==
    LET r == renewal[w] IN
    /\ r.state = "applied"
    /\ renewal' = [renewal EXCEPT ![w] = NoRenewal]
    /\ UNCHANGED <<clock, store, worker, effects, budget>>
RenewReply(w) ==
    LET r == renewal[w] IN
    /\ r.state = "applied"
    /\ worker' = IF Busy(w) /\ worker[w].pack = r.pack /\ worker[w].attempt = r.attempt
                 THEN [worker EXCEPT ![w].token = r.new] ELSE worker
    /\ renewal' = [renewal EXCEPT ![w] = NoRenewal]
    /\ UNCHANGED <<clock, store, effects, budget>>

\* The statement or its reply is lost.
RenewLost(w) ==
    /\ renewal[w].state # "none"
    /\ Spend(1)
    /\ renewal' = [renewal EXCEPT ![w] = NoRenewal]
    /\ UNCHANGED <<clock, store, worker, effects>>

-----------------------------------------------------------------------------
(* The life of a process *)

Crash(w) ==
    /\ worker[w].mode # "down"
    /\ Spend(1)
    /\ worker' = [worker EXCEPT ![w] = Unclaimed("down", "idle")]
    /\ UNCHANGED <<clock, store, renewal, effects>>

\* onModuleDestroy sets isShuttingDown: timer and heartbeats stop, but the
\* active poll goes on until the queue is empty ...
Shutdown(w) ==
    /\ worker[w].mode = "up"
    /\ Spend(1)
    /\ worker' = [worker EXCEPT ![w].mode = "draining"]
    /\ UNCHANGED <<clock, store, renewal, effects>>

\* ... and the process waits for it and for the renewals in flight.
Stopped(w) ==
    /\ worker[w].mode = "draining"
    /\ worker[w].phase = "idle"
    /\ renewal[w].state = "none"
    /\ worker' = [worker EXCEPT ![w] = Unclaimed("down", "idle")]
    /\ UNCHANGED <<clock, store, renewal, effects, budget>>

\* onModuleInit polls at once.
Restart(w) ==
    /\ worker[w].mode = "down"
    /\ worker' = [worker EXCEPT ![w] = Unclaimed("up", "leasing")]
    /\ UNCHANGED <<clock, store, renewal, effects, budget>>

\* A clock advances only towards a backoff or a lease somebody waits out:
\* other ticks change no outcome.
Tick(w) ==
    /\ \E p \in Packs : \/ job[p].status = "QUEUED" /\ job[p].availableAt > clock[w]
                        \/ job[p].status = "PROCESSING" /\ job[p].lease > clock[w]
    /\ clock' = [clock EXCEPT ![w] = @ + 1]
    /\ UNCHANGED <<store, worker, renewal, effects, budget>>

-----------------------------------------------------------------------------
Init ==
    /\ clock = [w \in Workers |-> 0]
    /\ requested = [p \in Packs |-> 0]
    /\ pack = [p \in Packs |-> [status |-> "ABSENT", version |-> 0, hash |-> NoHash]]
    /\ job = [p \in Packs |->
                [status |-> "ABSENT", attempts |-> 0, availableAt |-> 0, lease |-> NoLease]]
    /\ objects = [x \in {} |-> NoHash]
    /\ worker = [w \in Workers |-> Unclaimed("up", "leasing")]
    /\ renewal = [w \in Workers |-> NoRenewal]
    /\ effects = [p \in Packs |-> [e \in Effects |-> 0]]
    /\ faults = 0
    /\ renewals = 0

\* The statements of a poll: what isPolling keeps to one at a time per process.
PollStep(w) ==
    \/ PollTick(w) \/ LeaseNone(w) \/ Render(w)
    \/ \E out \in Outcome :
          \/ LeaseNextJob(w, out) \/ Upload(w, out) \/ Complete(w, out)
          \/ AuditReady(w, out) \/ Notify(w, out) \/ Reconcile(w, out)
          \/ Requeue(w, out) \/ Fail(w, out) \/ AuditFailure(w, out)

RenewalStep(w) == Heartbeat(w) \/ RenewApply(w) \/ RenewReply(w) \/ RenewLost(w)

ProcessStep(w) == Crash(w) \/ Shutdown(w) \/ Stopped(w) \/ Restart(w) \/ Tick(w)

Next ==
    \/ \E p \in Packs : ReadVersion(p) \/ \E w \in Workers : Enqueue(p, w)
    \/ \E w \in Workers : PollStep(w) \/ RenewalStep(w) \/ ProcessStep(w)

Spec == Init /\ [][Next]_vars

\* The poll timer, the statements and the supervisor keep going; requests,
\* heartbeats, faults and shutdowns need not happen.
Fairness ==
    \A w \in Workers :
        /\ WF_vars(PollStep(w))
        /\ WF_vars(RenewApply(w) \/ RenewReply(w))
        /\ WF_vars(Stopped(w))
        /\ WF_vars(Restart(w))
        /\ WF_vars(Tick(w))

FairSpec == Spec /\ Fairness

-----------------------------------------------------------------------------
(* Properties *)

\* Every variable keeps its type: rows only take the statuses of the schema.
TypeOK ==
    /\ clock \in [Workers -> Nat]
    /\ requested \in [Packs -> Nat]
    /\ pack \in [Packs -> PackRow]
    /\ job \in [Packs -> JobRow]
    /\ DOMAIN objects \subseteq Keys \X Nat
    /\ \A x \in DOMAIN objects : objects[x] \in Document
    /\ worker \in [Workers -> Claim]
    /\ renewal \in [Workers -> Renewal]
    /\ effects \in [Packs -> [Effects -> Nat]]
    /\ faults \in Nat
    /\ renewals \in Nat

\* Two tables, one lifecycle: whatever statement is interrupted, a pack and its
\* job tell the same story, so no READY pack has a job that could run again and
\* no GENERATING pack has a job that never will.
PackFollowsJob ==
    \A p \in Packs :
        /\ pack[p].status = "ABSENT" <=> job[p].status = "ABSENT"
        /\ pack[p].status = "GENERATING" <=> job[p].status \in {"QUEUED", "PROCESSING"}
        /\ pack[p].status = "READY" <=> job[p].status = "COMPLETED"
        /\ pack[p].status = "FAILED" <=> job[p].status = "FAILED"

\* The expiry timestamp is a fencing token: however the clocks of the processes
\* drift and the heartbeats race, only the claim of the latest attempt can match
\* the row, and so at most one process can finalize the job.
OnlyLatestAttemptOwns ==
    \A w \in Workers : Busy(w) /\ Owns(w) => worker[w].attempt = job[worker[w].pack].attempts

\* A claim another process has superseded.
Superseded(w) == Busy(w) /\ worker[w].attempt < job[worker[w].pack].attempts

\* A superseded process goes on rendering, uploading, completing and handling
\* its errors, but nothing it does reaches the row of its job or pack.
StaleWorkerHarmless ==
    [][\A w \in Workers :
          Superseded(w) /\ worker'[w] # worker[w] =>
              LET p == worker[w].pack IN job'[p] = job[p] /\ pack'[p] = pack[p]]_vars

\* A job is given up exactly when it has used its attempts: a job with attempts
\* left is never failed, and one without is never queued again.  It is also why
\* the retry_exhausted alert counts every failed job.
RetriesBeforeGivingUp ==
    /\ \A p \in Packs : job[p].status = "QUEUED" => job[p].attempts < MaxAttempts
    /\ RetryExhausted = {p \in Packs : pack[p].status = "FAILED"}

\* Retries, takeovers and lost replies never repeat a follow-up, and none is
\* sent for an outcome the pack does not have.
EffectsFollowOutcome ==
    \A p \in Packs :
        /\ \A e \in Effects : effects[p][e] <= 1
        /\ \A e \in {"AUDIT_READY", "NOTIFIED", "RECONCILED"} :
              effects[p][e] = 1 => pack[p].status = "READY"
        /\ effects[p]["AUDIT_FAILED"] = 1 => pack[p].status = "FAILED"

\* Retries are bounded: an attempt beyond PROOF_PACK_JOB_MAX_ATTEMPTS is only ever
\* made because a process crashed, a lease lapsed, a statement failed, or a
\* heartbeat overtook the statement that would have settled the attempt.
ExtraAttemptsNeedFaults ==
    \A p \in Packs : job[p].attempts <= MaxAttempts + faults + renewals

\* Attempts are counted right: none is left unused, none is made without a reason.
AttemptsAreCounted == RetriesBeforeGivingUp /\ ExtraAttemptsNeedFaults

\* verifyPack re-hashes the object at the pack's path.
Verifies(p) == Path(p) \in DOMAIN objects /\ objects[Path(p)] = pack[p].hash

\* A READY pack fails verification only if somebody else wrote to its path: a
\* pack given the same version, or a second attempt at the same pack.
OnlyRivalsBreakVerification ==
    \A p \in Packs :
        pack[p].status = "READY" /\ ~Verifies(p) =>
            \/ job[p].attempts > 1
            \/ \E q \in Packs \ {p} :
                  Inserted(q) /\ KeyOf[q] = KeyOf[p] /\ pack[q].version = pack[p].version

\* What FR-M2-003c and the verify endpoint expect of every READY pack: the
\* stored document still has the recorded hash.
ReadyPackVerifies == \A p \in Packs : pack[p].status = "READY" => Verifies(p)

\* A claim nobody superseded, of a job nobody settled, is refused only while its
\* own heartbeat has moved the expiry and the process has not read the reply:
\* without faults nothing else makes a worker lose a lease it still holds.
OnlyOwnHeartbeatRefuses ==
    \A w \in Workers :
        Busy(w) /\ ~Superseded(w) /\ job[worker[w].pack].status = "PROCESSING" /\ ~Owns(w) =>
            \/ renewal[w].state = "applied" /\ job[worker[w].pack].lease = renewal[w].new
            \/ faults > 0

\* Packs and jobs implement the promise made to the callers: a pack settles
\* once, as READY with the hash of a document of its own, or as FAILED.
Promise == INSTANCE ProofPackPromise WITH
    RenderedFrom <- [p \in Packs |-> [pack : {p}, bytes : Renderings]],
    status <- [p \in Packs |-> pack[p].status],
    hash <- [p \in Packs |-> pack[p].hash]
ImplementsPromise == Promise!PromiseSpec

\* Whatever crashes, lapses and gets lost, every enqueued pack is settled.
EveryPackSettles ==
    \A p \in Packs : Inserted(p) ~> pack[p].status \in {"READY", "FAILED"}
===============================================================================
