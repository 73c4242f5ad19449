------------------------- MODULE ProofPackJobsProofs --------------------------
(***************************************************************************)
(* Theorems about ProofPackJobs, for any number of packs, processes,       *)
(* attempts, renderings, faults and heartbeats.  The argument: the types   *)
(* (TypeInv), the fence (FenceInv, the reason why a stale token never      *)
(* matches), then what follows from the two: the promise, one process per  *)
(* attempt (UniqueInv) and the heartbeat it refuses (HeldInv), the audit   *)
(* entries and notifications (EffectInv), the failures behind an attempt   *)
(* (BoundInv) and the stored document (StoredInv).                         *)
(***************************************************************************)
EXTENDS ProofPackJobs, TLAPS

USE DEF NoLease, BusyPhase, Outcome

-----------------------------------------------------------------------------
(* Types *)

\* What a claim and a heartbeat carry while they are alive.
ClaimsTyped ==
    \A w \in Workers :
        /\ Busy(w) => worker[w].pack \in Packs /\ worker[w].attempt > 0
        /\ worker[w].phase \in {"uploading", "completing"} => worker[w].doc \in Renderings
        /\ renewal[w].state # "none" => renewal[w].pack \in Packs

TypeInv == TypeOK /\ ClaimsTyped

\* The rows the statements write are rows of the two tables.
LEMMA RowTypes ==
    /\ \A t \in Nat : QueuedRow(t) \in JobRow
    /\ \A row \in JobRow, t \in Nat : LeasedRow(row, t) \in JobRow /\ RequeuedRow(row, t) \in JobRow
    /\ \A row \in JobRow :
          SettledRow(row, "COMPLETED") \in JobRow /\ SettledRow(row, "FAILED") \in JobRow
    /\ \A row \in PackRow :
          FailedPack(row) \in PackRow /\ \A doc \in Document : ReadyPack(row, doc) \in PackRow
<1> USE LeaseAssumption DEF JobRow, PackRow, JobStatus, PackStatus
<1>1. \A t \in Nat : QueuedRow(t) \in JobRow
  BY DEF QueuedRow
<1>2. ASSUME NEW row \in JobRow, NEW t \in Nat PROVE LeasedRow(row, t) \in JobRow
  <2>1. row.attempts + 1 \in Nat /\ t + LeaseMs \in Nat
    OBVIOUS
  <2> QED
    BY <2>1 DEF LeasedRow
<1>3. \A row \in JobRow, t \in Nat : RequeuedRow(row, t) \in JobRow
  BY DEF RequeuedRow
<1>4. \A row \in JobRow : SettledRow(row, "COMPLETED") \in JobRow /\ SettledRow(row, "FAILED") \in JobRow
  BY DEF SettledRow
<1>5. \A row \in PackRow, doc \in Document : ReadyPack(row, doc) \in PackRow
  BY DEF ReadyPack
<1>6. \A row \in PackRow : FailedPack(row) \in PackRow
  BY DEF FailedPack
<1> QED
  BY <1>1, <1>2, <1>3, <1>4, <1>5, <1>6

LEMMA UnclaimedType ==
    \A mode \in {"up", "draining", "down"}, phase \in {"idle", "leasing"} :
        Unclaimed(mode, phase) \in Claim
BY DEF Unclaimed, Claim

Phase == BusyPhase \cup {"idle", "leasing"}

\* Goto moves one process to another phase and keeps its claim.
LEMMA GotoFrame ==
    ASSUME TypeOK, NEW w \in Workers, NEW phase \in Phase, Goto(w, phase)
    PROVE  /\ worker' \in [Workers -> Claim]
           /\ worker'[w].phase = phase
           /\ \A x \in Workers :
                 /\ worker'[x].pack = worker[x].pack
                 /\ worker'[x].attempt = worker[x].attempt
                 /\ worker'[x].token = worker[x].token
                 /\ worker'[x].doc = worker[x].doc
                 /\ worker'[x].mode = worker[x].mode
           /\ \A x \in Workers \ {w} : worker'[x] = worker[x]
<1>1. worker \in [Workers -> Claim]
  BY DEF TypeOK
<1>2. worker' = [worker EXCEPT ![w].phase = phase]
  BY DEF Goto
<1>3. \A x \in Workers \ {w} : worker'[x] = worker[x]
  BY <1>1, <1>2
<1>4. worker'[w] = [worker[w] EXCEPT !.phase = phase]
  BY <1>1, <1>2
<1>5. worker[w] \in Claim /\ worker'[w] \in Claim
  BY <1>1, <1>4 DEF Claim, Phase
<1>6. /\ worker'[w].phase = phase
      /\ worker'[w].pack = worker[w].pack /\ worker'[w].attempt = worker[w].attempt
      /\ worker'[w].token = worker[w].token /\ worker'[w].doc = worker[w].doc
      /\ worker'[w].mode = worker[w].mode
  BY <1>4, <1>5 DEF Claim
<1>7. worker' \in [Workers -> Claim]
  BY <1>1, <1>2, <1>5, <1>3
<1> QED
  BY <1>3, <1>6, <1>7

\* Release drops the claim of one process.
LEMMA ReleaseFrame ==
    ASSUME TypeOK, NEW w \in Workers, NEW phase \in {"idle", "leasing"}, Release(w, phase)
    PROVE  /\ worker' \in [Workers -> Claim]
           /\ worker'[w].phase = phase
           /\ \A x \in Workers \ {w} : worker'[x] = worker[x]
BY UnclaimedType DEF Release, TypeOK, Claim, Unclaimed

\* A fault costs a natural number.
LEMMA SpendType ==
    ASSUME TypeOK, NEW cost \in Nat, Spend(cost)
    PROVE  faults' \in Nat /\ renewals' \in Nat
BY DEF Spend, TypeOK

LEMMA StatementCost ==
    ASSUME TypeOK, NEW out \in Outcome, Spend(Cost(out # "ok"))
    PROVE  faults' \in Nat /\ renewals' \in Nat
<1>1. Cost(out # "ok") \in Nat
  BY DEF Cost
<1> QED
  BY <1>1, SpendType

LEMMA TypeInit == Init => TypeInv
<1> SUFFICES ASSUME Init PROVE TypeInv
  OBVIOUS
<1> USE DEF Init
<1>1. pack \in [Packs -> PackRow] /\ job \in [Packs -> JobRow]
  BY DEF PackRow, JobRow, PackStatus, JobStatus
<1>2. worker \in [Workers -> Claim]
  BY UnclaimedType
<1>3. renewal \in [Workers -> Renewal]
  BY DEF NoRenewal, Renewal
<1>4. ClaimsTyped
  BY DEF ClaimsTyped, Busy, Unclaimed, NoRenewal
<1> QED
  BY <1>1, <1>2, <1>3, <1>4 DEF TypeInv, TypeOK, Effects

LEMMA RequestTypes ==
    ASSUME TypeInv, NEW p \in Packs,
           ReadVersion(p) \/ \E w \in Workers : Enqueue(p, w)
    PROVE  TypeInv'
<1> USE DEF TypeInv, TypeOK, budget, store
<1>1. CASE ReadVersion(p)
  <2>1. \A v \in {0} \cup {pack[q].version : q \in Packs} : v + 1 \in Nat
    BY DEF PackRow
  <2> QED
    BY <1>1, <2>1 DEF ReadVersion, ClaimsTyped, Busy
<1>2. ASSUME NEW w \in Workers, Enqueue(p, w) PROVE TypeInv'
  <2>1. [status |-> "GENERATING", version |-> requested[p], hash |-> NoHash] \in PackRow
    BY DEF PackRow, PackStatus
  <2>2. QueuedRow(clock[w]) \in JobRow
    BY RowTypes
  <2> QED
    BY <1>2, <2>1, <2>2 DEF Enqueue, ClaimsTyped, Busy
<1> QED
  BY <1>1, <1>2

LEMMA FollowUpTypes ==
    ASSUME TypeOK, NEW w \in Workers, NEW e \in Effects, NEW out \in Outcome,
           worker[w].pack \in Packs, FollowUp(w, e, out)
    PROVE  effects' \in [Packs -> [Effects -> Nat]] /\ faults' \in Nat /\ renewals' \in Nat
<1>1. faults' \in Nat /\ renewals' \in Nat
  BY StatementCost DEF FollowUp
<1>2. effects[worker[w].pack][e] + 1 \in Nat
  BY DEF TypeOK
<1>3. effects' \in [Packs -> [Effects -> Nat]]
  BY <1>2 DEF FollowUp, TypeOK
<1> QED
  BY <1>1, <1>3

\* Moving on within a claim keeps it typed ...
LEMMA GotoTypes ==
    ASSUME TypeInv, NEW w \in Workers, NEW phase \in Phase, Goto(w, phase), UNCHANGED renewal,
           phase \in BusyPhase => Busy(w),
           phase \in {"uploading", "completing"} => worker[w].doc \in Renderings
    PROVE  worker' \in [Workers -> Claim] /\ ClaimsTyped'
BY GotoFrame DEF TypeInv, ClaimsTyped, Busy

\* ... and so does dropping it.
LEMMA ReleaseTypes ==
    ASSUME TypeInv, NEW w \in Workers, NEW phase \in {"idle", "leasing"}, Release(w, phase),
           UNCHANGED renewal
    PROVE  worker' \in [Workers -> Claim] /\ ClaimsTyped'
BY ReleaseFrame DEF TypeInv, ClaimsTyped, Busy

LEMMA PollTypes ==
    ASSUME TypeInv, NEW w \in Workers, PollStep(w)
    PROVE  TypeInv'
<1> USE DEF budget, store
<1>0. worker[w] \in Claim /\ clock[w] \in Nat /\ TypeOK /\ ClaimsTyped
  BY DEF TypeInv, TypeOK
<1>1. ASSUME PollTick(w) \/ LeaseNone(w) PROVE TypeInv'
  <2>1. worker' \in [Workers -> Claim] /\ ClaimsTyped'
    BY <1>1, GotoTypes DEF PollTick, LeaseNone, Phase
  <2> QED
    BY <1>1, <2>1 DEF PollTick, LeaseNone, TypeInv, TypeOK
<1>2. ASSUME Render(w) PROVE TypeInv'
  <2>1. worker' \in [Workers -> Claim] /\ ClaimsTyped'
    <3>1. CASE Goto(w, "handling")
      BY <1>2, <3>1, GotoTypes DEF Render, Phase, Busy
    <3>2. ASSUME NEW d \in Renderings,
                 worker' = [worker EXCEPT ![w] = [@ EXCEPT !.phase = "uploading", !.doc = d]]
          PROVE  worker' \in [Workers -> Claim] /\ ClaimsTyped'
      <4>1. [worker[w] EXCEPT !.phase = "uploading", !.doc = d] \in Claim
        BY <1>0 DEF Claim
      <4>2. worker' \in [Workers -> Claim]
        BY <1>0, <3>2, <4>1 DEF TypeOK
      <4> QED
        BY <1>0, <1>2, <3>2, <4>2 DEF Render, TypeOK, ClaimsTyped, Busy, Claim
    <3> QED
      BY <1>2, <3>1, <3>2 DEF Render
  <2> QED
    BY <1>2, <2>1 DEF Render, TypeInv, TypeOK
<1>3. ASSUME NEW out \in Outcome, LeaseNextJob(w, out) PROVE TypeInv'
  <2>1. PICK p \in Packs :
          /\ Due(p, clock[w])
          /\ Spend(Cost(out # "ok") + Cost(\E x \in Workers : Holds(x, p)))
          /\ job' = IF Applied(out) THEN [job EXCEPT ![p] = LeasedRow(@, clock[w])] ELSE job
          /\ IF out = "ok"
             THEN worker' = [worker EXCEPT ![w] =
                    [@ EXCEPT !.phase = "rendering", !.pack = p,
                              !.attempt = job[p].attempts + 1, !.token = clock[w] + LeaseMs]]
             ELSE Goto(w, "idle")
    BY <1>3 DEF LeaseNextJob
  <2>2. job' \in [Packs -> JobRow]
    BY <1>0, <2>1, RowTypes DEF TypeOK
  <2>3. worker' \in [Workers -> Claim] /\ ClaimsTyped'
    <3>1. CASE out # "ok"
      BY <1>3, <2>1, <3>1, GotoTypes DEF LeaseNextJob, Phase
    <3>2. CASE out = "ok"
      <4>1. job[p].attempts + 1 \in Nat \ {0} /\ clock[w] + LeaseMs \in Nat
        BY <1>0, LeaseAssumption DEF TypeOK, JobRow
      <4>2. [worker[w] EXCEPT !.phase = "rendering", !.pack = p,
                !.attempt = job[p].attempts + 1, !.token = clock[w] + LeaseMs] \in Claim
        BY <1>0, <4>1 DEF Claim
      <4>3. worker' \in [Workers -> Claim]
        BY <1>0, <2>1, <3>2, <4>2 DEF TypeOK
      <4>4. worker'[w].phase = "rendering" /\ worker'[w].pack = p /\ worker'[w].attempt > 0
        <5>1. worker'[w] = [worker[w] EXCEPT !.phase = "rendering", !.pack = p,
                               !.attempt = job[p].attempts + 1, !.token = clock[w] + LeaseMs]
          BY <1>0, <2>1, <3>2 DEF TypeOK
        <5> QED
          BY <1>0, <4>1, <5>1 DEF Claim
      <4>5. \A x \in Workers \ {w} : worker'[x] = worker[x]
        BY <1>0, <2>1, <3>2 DEF TypeOK
      <4> QED
        BY <1>0, <1>3, <4>3, <4>4, <4>5 DEF LeaseNextJob, ClaimsTyped, Busy
    <3> QED
      BY <3>1, <3>2
  <2>4. faults' \in Nat /\ renewals' \in Nat
    <3>1. Cost(out # "ok") + Cost(\E x \in Workers : Holds(x, p)) \in Nat
      BY DEF Cost
    <3> QED
      BY <1>0, <2>1, <3>1, SpendType
  <2> QED
    BY <1>0, <1>3, <2>2, <2>3, <2>4 DEF LeaseNextJob, TypeInv, TypeOK
<1>4. ASSUME NEW out \in Outcome, Upload(w, out) PROVE TypeInv'
  <2>1. Doc(w) \in Document /\ worker[w].pack \in Packs /\ worker[w].doc \in Renderings
    BY <1>0, <1>4 DEF Upload, ClaimsTyped, Busy, Doc, Document
  <2>2. Path(worker[w].pack) \in Keys \X Nat
    BY <1>0, <2>1, KeysAssumption DEF Path, PackRow, TypeOK
  <2>3. DOMAIN objects' \subseteq Keys \X Nat /\ \A x \in DOMAIN objects' : objects'[x] \in Document
    BY <1>0, <1>4, <2>1, <2>2 DEF Upload, TypeOK
  <2>4. worker' \in [Workers -> Claim] /\ ClaimsTyped'
    BY <1>4, <2>1, GotoTypes DEF Upload, Phase, Busy
  <2> QED
    BY <1>0, <1>4, <2>3, <2>4, StatementCost DEF Upload, TypeInv, TypeOK
<1>5. ASSUME NEW out \in Outcome, Complete(w, out) PROVE TypeInv'
  <2>1. Doc(w) \in Document /\ worker[w].pack \in Packs
    BY <1>0, <1>5 DEF Complete, ClaimsTyped, Busy, Doc, Document
  <2>2. SettledRow(job[worker[w].pack], "COMPLETED") \in JobRow
        /\ ReadyPack(pack[worker[w].pack], Doc(w)) \in PackRow
    BY <1>0, <2>1, RowTypes DEF TypeOK
  <2>3. job' \in [Packs -> JobRow] /\ pack' \in [Packs -> PackRow]
    BY <1>0, <1>5, <2>2 DEF Complete, TypeOK
  <2>4. worker' \in [Workers -> Claim] /\ ClaimsTyped'
    BY <1>5, GotoTypes, ReleaseTypes DEF Complete, Phase, Busy
  <2> QED
    BY <1>0, <1>5, <2>3, <2>4, StatementCost DEF Complete, TypeInv, TypeOK
<1>6. ASSUME NEW out \in Outcome,
             AuditReady(w, out) \/ Notify(w, out) \/ Reconcile(w, out) \/ AuditFailure(w, out)
      PROVE  TypeInv'
  <2>1. PICK e \in Effects : FollowUp(w, e, out)
    BY <1>6 DEF AuditReady, Notify, Reconcile, AuditFailure, Effects
  <2>2. worker[w].pack \in Packs
    BY <1>0, <1>6 DEF AuditReady, Notify, Reconcile, AuditFailure, ClaimsTyped, Busy
  <2>3. effects' \in [Packs -> [Effects -> Nat]] /\ faults' \in Nat /\ renewals' \in Nat
    BY <1>0, <2>1, <2>2, FollowUpTypes
  <2>4. worker' \in [Workers -> Claim] /\ ClaimsTyped'
    BY <1>6, <2>1, GotoTypes, ReleaseTypes
    DEF AuditReady, Notify, Reconcile, AuditFailure, FollowUp, Phase, Busy
  <2> QED
    BY <1>0, <2>1, <2>3, <2>4 DEF FollowUp, TypeInv, TypeOK
<1>7. ASSUME NEW out \in Outcome, Requeue(w, out) PROVE TypeInv'
  <2>1. worker[w].pack \in Packs /\ worker[w].attempt \in 1 .. MaxAttempts
    BY <1>0, <1>7, AttemptsAssumption DEF Requeue, RetriesLeft, ClaimsTyped, Busy, Claim
  <2>2. clock[w] + RetryBackoff[worker[w].attempt] \in Nat
    BY <1>0, <2>1, BackoffAssumption
  <2>3. RequeuedRow(job[worker[w].pack], clock[w] + RetryBackoff[worker[w].attempt]) \in JobRow
    BY <1>0, <2>1, <2>2, RowTypes DEF TypeOK
  <2>4. job' \in [Packs -> JobRow]
    BY <1>0, <1>7, <2>3 DEF Requeue, TypeOK
  <2>5. worker' \in [Workers -> Claim] /\ ClaimsTyped'
    BY <1>7, ReleaseTypes DEF Requeue
  <2> QED
    BY <1>0, <1>7, <2>4, <2>5, StatementCost DEF Requeue, TypeInv, TypeOK
<1>8. ASSUME NEW out \in Outcome, Fail(w, out) PROVE TypeInv'
  <2>1. worker[w].pack \in Packs
    BY <1>0, <1>8 DEF Fail, ClaimsTyped, Busy
  <2>2. SettledRow(job[worker[w].pack], "FAILED") \in JobRow
        /\ FailedPack(pack[worker[w].pack]) \in PackRow
    <3>1. job[worker[w].pack] \in JobRow /\ pack[worker[w].pack] \in PackRow
      BY <1>0, <2>1 DEF TypeOK
    <3> QED
      BY <3>1 DEF SettledRow, FailedPack, JobRow, PackRow, JobStatus, PackStatus
  <2>3. job' \in [Packs -> JobRow] /\ pack' \in [Packs -> PackRow]
    BY <1>0, <1>8, <2>2 DEF Fail, TypeOK
  <2>4. worker' \in [Workers -> Claim] /\ ClaimsTyped'
    BY <1>8, GotoTypes, ReleaseTypes DEF Fail, Phase, Busy
  <2> QED
    BY <1>0, <1>8, <2>3, <2>4, StatementCost DEF Fail, TypeInv, TypeOK
<1> QED
  BY <1>1, <1>2, <1>3, <1>4, <1>5, <1>6, <1>7, <1>8 DEF PollStep

LEMMA RenewalTypes ==
    ASSUME TypeInv, NEW w \in Workers, RenewalStep(w)
    PROVE  TypeInv'
<1> USE DEF TypeInv, TypeOK, budget, store
<1>0. worker[w] \in Claim /\ renewal[w] \in Renewal
  OBVIOUS
<1>1. CASE Heartbeat(w)
  BY <1>0, <1>1, LeaseAssumption DEF Heartbeat, ClaimsTyped, Busy, Claim, Renewal
<1>2. CASE RenewApply(w)
  <2>1. CASE Matches(renewal[w].pack, renewal[w].expected)
    <3>1. renewal[w].pack \in Packs /\ renewal[w].new \in Nat
      BY <1>0, <1>2 DEF RenewApply, ClaimsTyped, Renewal
    <3>2. [job[renewal[w].pack] EXCEPT !.lease = renewal[w].new] \in JobRow
      BY <3>1 DEF JobRow
    <3>3. [renewal[w] EXCEPT !.state = "applied"] \in Renewal
      BY <1>0 DEF Renewal
    <3> QED
      BY <1>2, <2>1, <3>1, <3>2, <3>3, ZenonT(60) DEF RenewApply, ClaimsTyped, Busy, Renewal
  <2>2. CASE ~Matches(renewal[w].pack, renewal[w].expected)
    <3>1. NoRenewal \in Renewal /\ NoRenewal.state = "none"
      BY DEF NoRenewal, Renewal
    <3>2. renewal' = [renewal EXCEPT ![w] = NoRenewal] /\ UNCHANGED <<job, worker>>
      BY <1>2, <2>2 DEF RenewApply
    <3> QED
      BY <1>2, <3>1, <3>2 DEF RenewApply, ClaimsTyped, Busy
  <2> QED
    BY <2>1, <2>2
<1>3. CASE RenewReply(w)
  BY <1>0, <1>3 DEF RenewReply, ClaimsTyped, Busy, Claim, Renewal, NoRenewal
<1>4. CASE RenewLost(w)
  BY <1>0, <1>4 DEF RenewLost, Spend, ClaimsTyped, Busy, Renewal, NoRenewal
<1> QED
  BY <1>1, <1>2, <1>3, <1>4 DEF RenewalStep

LEMMA ProcessTypes ==
    ASSUME TypeInv, NEW w \in Workers, ProcessStep(w)
    PROVE  TypeInv'
<1> USE DEF TypeInv, TypeOK, budget, store
<1>0. worker[w] \in Claim
  OBVIOUS
<1>1. CASE Crash(w) \/ Stopped(w) \/ Restart(w)
  <2>1. PICK mode \in {"up", "down"}, phase \in {"idle", "leasing"} :
          worker' = [worker EXCEPT ![w] = Unclaimed(mode, phase)]
    BY <1>1 DEF Crash, Stopped, Restart
  <2>2. worker' \in [Workers -> Claim] /\ worker'[w].phase = phase
    BY <2>1, UnclaimedType DEF Unclaimed
  <2>3. faults' \in Nat /\ renewals' \in Nat
    BY <1>1, SpendType DEF Crash, Stopped, Restart
  <2> QED
    BY <1>1, <2>1, <2>2, <2>3 DEF Crash, Stopped, Restart, ClaimsTyped, Busy
<1>2. CASE Shutdown(w)
  BY <1>0, <1>2 DEF Shutdown, Spend, ClaimsTyped, Busy, Claim
<1>3. CASE Tick(w)
  BY <1>3 DEF Tick, ClaimsTyped, Busy
<1> QED
  BY <1>1, <1>2, <1>3 DEF ProcessStep

LEMMA TypeNext == TypeInv /\ [Next]_vars => TypeInv'
<1> SUFFICES ASSUME TypeInv, [Next]_vars PROVE TypeInv'
  OBVIOUS
<1>1. CASE UNCHANGED vars
  BY <1>1 DEF vars, TypeInv, TypeOK, ClaimsTyped, Busy
<1>2. CASE Next
  BY <1>2, RequestTypes, PollTypes, RenewalTypes, ProcessTypes DEF Next
<1> QED
  BY <1>1, <1>2

\* Type correctness: every row, claim and heartbeat keeps its type.
THEOREM TypeCorrect == Spec => []TypeOK
<1>1. TypeInv => TypeOK
  BY DEF TypeInv
<1> QED
  BY <1>1, TypeInit, TypeNext, PTL DEF Spec

-----------------------------------------------------------------------------
(* The fence *)

\* A claim of the given attempt and token is fenced: once its job is leased
\* again, or queued again, its token lies below every lease the job can have.
Fenced(p, attempt, token) ==
    /\ job[p].status # "ABSENT"
    /\ attempt <= job[p].attempts
    /\ job[p].status = "PROCESSING" =>
          token <= job[p].lease /\ (attempt < job[p].attempts => token < job[p].lease)
    /\ job[p].status = "QUEUED" => token < job[p].availableAt + LeaseMs

\* Claims are fenced, and so are heartbeats: one that is sent by the lease it
\* expects, one that is applied by the lease its reply will give the claim.
ClaimFenced(w) ==
    /\ Fenced(worker[w].pack, worker[w].attempt, worker[w].token)
    /\ worker[w].token <= clock[w] + LeaseMs
SentFenced(w) ==
    /\ Fenced(renewal[w].pack, renewal[w].attempt, renewal[w].expected)
    /\ renewal[w].expected <= renewal[w].new
    /\ renewal[w].new <= clock[w] + LeaseMs
AppliedFenced(w) ==
    /\ Fenced(renewal[w].pack, renewal[w].attempt, renewal[w].new)
    /\ renewal[w].new <= clock[w] + LeaseMs

FenceInv ==
    \A w \in Workers :
        /\ Busy(w) => ClaimFenced(w)
        /\ renewal[w].state = "sent" => SentFenced(w)
        /\ renewal[w].state = "applied" => AppliedFenced(w)

\* What a step owes to the claims and heartbeats it does not touch.
FencesKept ==
    \A p \in Packs, attempt, token \in Nat :
        Fenced(p, attempt, token) => Fenced(p, attempt, token)'

LEMMA EnqueueKeepsFences ==
    ASSUME TypeInv, NEW p \in Packs, NEW w \in Workers, Enqueue(p, w), job[p].status = "ABSENT"
    PROVE  FencesKept
<1>1. \A q \in Packs \ {p} : job'[q] = job[q]
  BY DEF Enqueue, TypeInv, TypeOK
<1> QED
  BY <1>1 DEF FencesKept, Fenced

LEMMA LeaseKeepsFences ==
    ASSUME TypeInv, NEW w \in Workers, NEW out \in Outcome, LeaseNextJob(w, out)
    PROVE  FencesKept
<1>1. PICK p \in Packs :
        /\ Due(p, clock[w])
        /\ job' = IF Applied(out) THEN [job EXCEPT ![p] = LeasedRow(@, clock[w])] ELSE job
  BY DEF LeaseNextJob
<1>2. CASE ~Applied(out)
  BY <1>1, <1>2 DEF FencesKept, Fenced
<1>3. CASE Applied(out)
  <2>1. \A q \in Packs \ {p} : job'[q] = job[q]
    BY <1>1, <1>3 DEF TypeInv, TypeOK
  <2>2. job[p] \in JobRow /\ clock[w] \in Nat
    BY DEF TypeInv, TypeOK
  <2>3. job'[p] = LeasedRow(job[p], clock[w])
    BY <1>1, <1>3 DEF TypeInv, TypeOK
  <2>4. /\ job'[p].status = "PROCESSING"
        /\ job'[p].attempts = job[p].attempts + 1
        /\ job'[p].lease = clock[w] + LeaseMs
    BY <2>2, <2>3 DEF LeasedRow, JobRow
  <2>5. job[p].attempts \in Nat /\ job[p].lease \in Nat /\ job[p].availableAt \in Nat
    BY <2>2 DEF JobRow
  <2>6. \A attempt, token \in Nat : Fenced(p, attempt, token) => Fenced(p, attempt, token)'
    BY <1>1, <2>2, <2>4, <2>5, LeaseAssumption DEF Fenced, Due
  <2> QED
    BY <2>1, <2>6 DEF FencesKept, Fenced
<1> QED
  BY <1>2, <1>3

LEMMA SettleKeepsFences ==
    ASSUME TypeInv, NEW p \in Packs, NEW status \in {"COMPLETED", "FAILED"},
           job[p].status = "PROCESSING",
           job' = [job EXCEPT ![p] = SettledRow(@, status)]
    PROVE  FencesKept
<1>1. \A q \in Packs \ {p} : job'[q] = job[q]
  BY DEF TypeInv, TypeOK
<1>2. job'[p].status = status /\ job'[p].attempts = job[p].attempts
  BY DEF TypeInv, TypeOK, JobRow, SettledRow
<1> QED
  BY <1>1, <1>2 DEF FencesKept, Fenced

LEMMA RequeueKeepsFences ==
    ASSUME TypeInv, FenceInv, NEW w \in Workers, NEW out \in Outcome, Requeue(w, out)
    PROVE  FencesKept
<1>0. PICK p \in Packs : p = worker[w].pack
  BY DEF Requeue, TypeInv, ClaimsTyped, Busy
<1> DEFINE t == clock[w] + RetryBackoff[worker[w].attempt]
<1>1. worker[w].attempt \in 1 .. MaxAttempts /\ clock[w] \in Nat /\ Busy(w)
  BY AttemptsAssumption DEF Requeue, RetriesLeft, TypeInv, TypeOK, ClaimsTyped, Busy, Claim
<1>2. RetryBackoff[worker[w].attempt] \in Nat \ {0}
  BY <1>1, BackoffAssumption
<1>3. CASE ~(Owns(w) /\ Applied(out))
  BY <1>3 DEF Requeue, FencesKept, Fenced
<1>4. CASE Owns(w) /\ Applied(out)
  <2>1. \A q \in Packs \ {p} : job'[q] = job[q]
    BY <1>0, <1>4 DEF Requeue, TypeInv, TypeOK
  <2>2. job[p] \in JobRow /\ job[p].status = "PROCESSING" /\ job[p].lease = worker[w].token
    BY <1>0, <1>4 DEF Owns, Matches, TypeInv, TypeOK
  <2>3. job'[p] = RequeuedRow(job[p], t)
    BY <1>0, <1>4 DEF Requeue, TypeInv, TypeOK
  <2>4. job'[p].status = "QUEUED" /\ job'[p].attempts = job[p].attempts /\ job'[p].availableAt = t
    BY <2>2, <2>3 DEF RequeuedRow, JobRow
  <2>5. worker[w].token <= clock[w] + LeaseMs /\ worker[w].token \in Nat
    BY <1>1 DEF FenceInv, ClaimFenced, TypeInv, TypeOK, Claim
  <2>6. \A attempt, token \in Nat : Fenced(p, attempt, token) => Fenced(p, attempt, token)'
    BY <1>1, <1>2, <2>2, <2>4, <2>5, LeaseAssumption DEF Fenced
  <2> QED
    BY <2>1, <2>6 DEF FencesKept, Fenced
<1> QED
  BY <1>3, <1>4

\* A step that drops claims, or keeps them with their tokens, keeps the fences
\* up if it keeps those it does not touch.
LEMMA FencesStay ==
    ASSUME TypeInv, FenceInv, FencesKept, UNCHANGED renewal,
           \A x \in Workers : clock'[x] \in Nat /\ clock[x] <= clock'[x],
           \A x \in Workers : Busy(x)' =>
               /\ Busy(x)
               /\ worker'[x].pack = worker[x].pack
               /\ worker'[x].attempt = worker[x].attempt
               /\ worker'[x].token = worker[x].token
    PROVE  FenceInv'
<1> SUFFICES ASSUME NEW x \in Workers
             PROVE  /\ Busy(x)' => ClaimFenced(x)'
                    /\ renewal'[x].state = "sent" => SentFenced(x)'
                    /\ renewal'[x].state = "applied" => AppliedFenced(x)'
  BY DEF FenceInv
<1>0. clock[x] \in Nat /\ clock'[x] \in Nat /\ clock[x] <= clock'[x] /\ LeaseMs \in Nat
      /\ worker[x] \in Claim /\ renewal[x] \in Renewal
  BY LeaseAssumption DEF TypeInv, TypeOK
<1>1. Busy(x)' => ClaimFenced(x)'
  <2>1. ASSUME Busy(x)' PROVE ClaimFenced(x)'
    <3>1. worker[x].pack \in Packs /\ worker[x].attempt \in Nat /\ worker[x].token \in Nat
      BY <1>0, <2>1 DEF TypeInv, ClaimsTyped, Claim
    <3>2. Fenced(worker[x].pack, worker[x].attempt, worker[x].token)
          /\ worker[x].token <= clock[x] + LeaseMs
      BY <2>1 DEF FenceInv, ClaimFenced
    <3>3. Fenced(worker[x].pack, worker[x].attempt, worker[x].token)'
      BY <2>1, <3>1, <3>2 DEF FencesKept, Fenced
    <3> QED
      BY <1>0, <2>1, <3>1, <3>2, <3>3 DEF ClaimFenced
  <2> QED
    BY <2>1
<1>2. renewal'[x].state \in {"sent", "applied"} =>
        /\ renewal[x].pack \in Packs /\ renewal[x].attempt \in Nat
        /\ renewal[x].expected \in Nat /\ renewal[x].new \in Nat
  BY <1>0 DEF TypeInv, ClaimsTyped, Renewal
<1>3. renewal'[x].state = "sent" => SentFenced(x)'
  BY <1>0, <1>2 DEF FenceInv, SentFenced, FencesKept, Fenced
<1>4. renewal'[x].state = "applied" => AppliedFenced(x)'
  BY <1>0, <1>2 DEF FenceInv, AppliedFenced, FencesKept, Fenced
<1> QED
  BY <1>1, <1>3, <1>4

LEMMA FenceInit == Init => FenceInv
BY DEF Init, FenceInv, Busy, Unclaimed, NoRenewal

\* Steps that leave the job table alone keep every fence.
LEMMA SameJobsKeepFences == UNCHANGED job => FencesKept
BY DEF FencesKept, Fenced

\* Claims after Goto and Release are claims from before.
LEMMA GotoKeepsClaims ==
    ASSUME TypeInv, NEW w \in Workers, NEW phase \in Phase, Goto(w, phase),
           phase \in BusyPhase => Busy(w), NEW x \in Workers, Busy(x)'
    PROVE  /\ Busy(x)
           /\ worker'[x].pack = worker[x].pack
           /\ worker'[x].attempt = worker[x].attempt
           /\ worker'[x].token = worker[x].token
BY GotoFrame DEF TypeInv, Busy

LEMMA ReleaseKeepsClaims ==
    ASSUME TypeInv, NEW w \in Workers, NEW phase \in {"idle", "leasing"}, Release(w, phase),
           NEW x \in Workers, Busy(x)'
    PROVE  /\ Busy(x)
           /\ worker'[x].pack = worker[x].pack
           /\ worker'[x].attempt = worker[x].attempt
           /\ worker'[x].token = worker[x].token
BY ReleaseFrame DEF TypeInv, Busy

LEMMA FencePoll ==
    ASSUME TypeInv, FenceInv, NEW w \in Workers, PollStep(w)
    PROVE  FenceInv'
<1> USE DEF budget, store
<1>0. TypeOK /\ ClaimsTyped /\ worker[w] \in Claim /\ \A x \in Workers : clock[x] \in Nat
  BY DEF TypeInv, TypeOK
<1>1. ASSUME PollTick(w) \/ LeaseNone(w) PROVE FenceInv'
  BY <1>0, <1>1, SameJobsKeepFences, GotoKeepsClaims, FencesStay DEF PollTick, LeaseNone, Phase
<1>2. ASSUME Render(w) PROVE FenceInv'
  <2>1. \A x \in Workers : Busy(x)' =>
               /\ Busy(x)
               /\ worker'[x].pack = worker[x].pack
               /\ worker'[x].attempt = worker[x].attempt
               /\ worker'[x].token = worker[x].token
    <3>1. CASE Goto(w, "handling")
      BY <1>2, <3>1, GotoKeepsClaims DEF Render, Phase, Busy
    <3>2. ASSUME NEW d \in Renderings,
                 worker' = [worker EXCEPT ![w] = [@ EXCEPT !.phase = "uploading", !.doc = d]]
          PROVE  \A x \in Workers : Busy(x)' =>
                   /\ Busy(x)
                   /\ worker'[x].pack = worker[x].pack
                   /\ worker'[x].attempt = worker[x].attempt
                   /\ worker'[x].token = worker[x].token
      <4>1. worker'[w] = [worker[w] EXCEPT !.phase = "uploading", !.doc = d]
            /\ \A x \in Workers \ {w} : worker'[x] = worker[x]
        BY <1>0, <3>2 DEF TypeOK
      <4> QED
        BY <1>0, <1>2, <4>1 DEF Render, Busy, Claim
    <3> QED
      BY <1>2, <3>1, <3>2 DEF Render
  <2>2. UNCHANGED <<clock, job, renewal>>
    BY <1>2 DEF Render
  <2> QED
    BY <1>0, <2>1, <2>2, SameJobsKeepFences, FencesStay
<1>3. ASSUME NEW out \in Outcome, LeaseNextJob(w, out) PROVE FenceInv'
  <2>1. FencesKept
    BY <1>3, LeaseKeepsFences
  <2>2. CASE out # "ok"
    BY <1>0, <1>3, <2>1, <2>2, GotoKeepsClaims, FencesStay DEF LeaseNextJob, Phase
  <2>3. CASE out = "ok"
    <3>1. PICK p \in Packs :
            /\ job' = [job EXCEPT ![p] = LeasedRow(@, clock[w])]
            /\ worker' = [worker EXCEPT ![w] =
                    [@ EXCEPT !.phase = "rendering", !.pack = p,
                              !.attempt = job[p].attempts + 1, !.token = clock[w] + LeaseMs]]
      BY <1>3, <2>3 DEF LeaseNextJob, Applied
    <3>2. job[p] \in JobRow /\ clock[w] \in Nat /\ job'[p] = LeasedRow(job[p], clock[w])
      BY <3>1 DEF TypeInv, TypeOK
    <3>3. /\ job'[p].status = "PROCESSING"
          /\ job'[p].attempts = job[p].attempts + 1
          /\ job'[p].lease = clock[w] + LeaseMs
      BY <3>2 DEF LeasedRow, JobRow
    <3>4. worker'[w] = [worker[w] EXCEPT !.phase = "rendering", !.pack = p,
                           !.attempt = job[p].attempts + 1, !.token = clock[w] + LeaseMs]
          /\ \A x \in Workers \ {w} : worker'[x] = worker[x]
      BY <3>1 DEF TypeInv, TypeOK
    <3>5. worker'[w].pack = p /\ worker'[w].attempt = job[p].attempts + 1
          /\ worker'[w].token = clock[w] + LeaseMs
      BY <1>0, <3>4 DEF Claim
    <3>6. ClaimFenced(w)'
      BY <1>3, <3>2, <3>3, <3>5, LeaseAssumption DEF ClaimFenced, Fenced, LeaseNextJob, JobRow
    <3>7. \A x \in Workers \ {w} : Busy(x)' => ClaimFenced(x)'
      BY <1>0, <1>3, <2>1, <3>4
      DEF FenceInv, ClaimFenced, FencesKept, Fenced, Busy, LeaseNextJob, ClaimsTyped, TypeOK, Claim
    <3>8. \A x \in Workers : renewal'[x].state = "sent" => SentFenced(x)'
      BY <1>0, <1>3, <2>1
      DEF FenceInv, SentFenced, FencesKept, Fenced, LeaseNextJob, ClaimsTyped, TypeOK, Renewal
    <3>9. \A x \in Workers : renewal'[x].state = "applied" => AppliedFenced(x)'
      BY <1>0, <1>3, <2>1
      DEF FenceInv, AppliedFenced, FencesKept, Fenced, LeaseNextJob, ClaimsTyped, TypeOK, Renewal
    <3> QED
      BY <3>6, <3>7, <3>8, <3>9 DEF FenceInv
  <2> QED
    BY <2>2, <2>3
<1>4. ASSUME NEW out \in Outcome, Upload(w, out) PROVE FenceInv'
  BY <1>0, <1>4, SameJobsKeepFences, GotoKeepsClaims, FencesStay DEF Upload, Phase, Busy
<1>5. ASSUME NEW out \in Outcome, Complete(w, out) \/ Fail(w, out) PROVE FenceInv'
  <2>1. FencesKept
    <3>1. CASE Owns(w) /\ Applied(out)
      <4>1. worker[w].pack \in Packs /\ job[worker[w].pack].status = "PROCESSING"
        BY <1>0, <1>5, <3>1 DEF Complete, Fail, Owns, Matches, ClaimsTyped, Busy
      <4> QED
        BY <1>5, <3>1, <4>1, SettleKeepsFences DEF Complete, Fail
    <3>2. CASE ~(Owns(w) /\ Applied(out))
      BY <1>5, <3>2, SameJobsKeepFences DEF Complete, Fail
    <3> QED
      BY <3>1, <3>2
  <2>2. \A x \in Workers : Busy(x)' =>
               /\ Busy(x)
               /\ worker'[x].pack = worker[x].pack
               /\ worker'[x].attempt = worker[x].attempt
               /\ worker'[x].token = worker[x].token
    BY <1>5, GotoKeepsClaims, ReleaseKeepsClaims DEF Complete, Fail, Phase, Busy
  <2> QED
    BY <1>0, <1>5, <2>1, <2>2, FencesStay DEF Complete, Fail
<1>6. ASSUME NEW out \in Outcome,
             AuditReady(w, out) \/ Notify(w, out) \/ Reconcile(w, out) \/ AuditFailure(w, out)
      PROVE  FenceInv'
  <2>1. UNCHANGED <<clock, job, renewal>>
    BY <1>6 DEF AuditReady, Notify, Reconcile, AuditFailure, FollowUp
  <2>2. \A x \in Workers : Busy(x)' =>
               /\ Busy(x)
               /\ worker'[x].pack = worker[x].pack
               /\ worker'[x].attempt = worker[x].attempt
               /\ worker'[x].token = worker[x].token
    BY <1>6, GotoKeepsClaims, ReleaseKeepsClaims
    DEF AuditReady, Notify, Reconcile, AuditFailure, Phase, Busy
  <2> QED
    BY <1>0, <2>1, <2>2, SameJobsKeepFences, FencesStay
<1>7. ASSUME NEW out \in Outcome, Requeue(w, out) PROVE FenceInv'
  <2>1. FencesKept
    BY <1>7, RequeueKeepsFences
  <2> QED
    BY <1>0, <1>7, <2>1, ReleaseKeepsClaims, FencesStay DEF Requeue
<1> QED
  BY <1>1, <1>2, <1>3, <1>4, <1>5, <1>6, <1>7 DEF PollStep

LEMMA FenceRenewal ==
    ASSUME TypeInv, FenceInv, NEW w \in Workers, RenewalStep(w)
    PROVE  FenceInv'
<1> USE DEF budget, store
<1>0. /\ TypeOK /\ ClaimsTyped /\ LeaseMs \in Nat
      /\ \A x \in Workers : worker[x] \in Claim /\ renewal[x] \in Renewal /\ clock[x] \in Nat
  BY LeaseAssumption DEF TypeInv, TypeOK
<1>1. CASE Heartbeat(w)
  <2>1. renewal'[w] = [state |-> "sent", pack |-> worker[w].pack, attempt |-> worker[w].attempt,
                       expected |-> worker[w].token, new |-> clock[w] + LeaseMs]
        /\ \A x \in Workers \ {w} : renewal'[x] = renewal[x]
    BY <1>0, <1>1 DEF Heartbeat, TypeOK
  <2>2. UNCHANGED <<clock, job, worker>> /\ ClaimFenced(w)
    BY <1>1 DEF Heartbeat, FenceInv
  <2>3. SentFenced(w)'
    <3>1. renewal'[w].pack = worker[w].pack /\ renewal'[w].attempt = worker[w].attempt
          /\ renewal'[w].expected = worker[w].token /\ renewal'[w].new = clock[w] + LeaseMs
      BY <2>1
    <3>2. worker[w].token \in Nat /\ clock[w] \in Nat
      BY <1>0 DEF Claim
    <3> QED
      BY <1>0, <2>2, <3>1, <3>2 DEF SentFenced, ClaimFenced, Fenced
  <2>4. \A x \in Workers : Busy(x)' => ClaimFenced(x)'
    BY <2>2 DEF FenceInv, ClaimFenced, Fenced, Busy
  <2>5. \A x \in Workers \ {w} : /\ renewal'[x].state = "sent" => SentFenced(x)'
                                 /\ renewal'[x].state = "applied" => AppliedFenced(x)'
    BY <2>1, <2>2 DEF FenceInv, SentFenced, AppliedFenced, Fenced
  <2> QED
    BY <2>1, <2>3, <2>4, <2>5 DEF FenceInv
<1>2. CASE RenewApply(w)
  <2>1. PICK p \in Packs : p = renewal[w].pack
    BY <1>2, <1>0 DEF RenewApply, ClaimsTyped
  <2>2. /\ UNCHANGED <<clock, worker>>
        /\ SentFenced(w)
        /\ \A x \in Workers \ {w} : renewal'[x] = renewal[x]
    BY <1>0, <1>2 DEF RenewApply, FenceInv, TypeOK
  <2>3. FencesKept /\ renewal'[w].state # "sent" /\ (renewal'[w].state = "applied" => AppliedFenced(w)')
    <3>1. CASE Matches(p, renewal[w].expected)
      <4>1. job' = [job EXCEPT ![p].lease = renewal[w].new]
            /\ renewal'[w] = [renewal[w] EXCEPT !.state = "applied"]
        BY <1>0, <1>2, <2>1, <3>1 DEF RenewApply, TypeOK
      <4>2. job[p] \in JobRow /\ job'[p] = [job[p] EXCEPT !.lease = renewal[w].new]
            /\ \A q \in Packs \ {p} : job'[q] = job[q]
        BY <1>0, <4>1 DEF TypeOK
      <4>3. /\ job'[p].status = "PROCESSING" /\ job[p].status = "PROCESSING"
            /\ job'[p].attempts = job[p].attempts
            /\ job'[p].lease = renewal[w].new
            /\ job[p].lease = renewal[w].expected
        BY <3>1, <4>2 DEF Matches, JobRow
      <4>4. /\ renewal[w].expected <= renewal[w].new
            /\ renewal[w].expected \in Nat /\ renewal[w].new \in Nat /\ renewal[w].attempt \in Nat
            /\ Fenced(p, renewal[w].attempt, renewal[w].expected)
        BY <1>0, <2>1, <2>2 DEF SentFenced, Renewal
      <4>5. \A attempt, token \in Nat : Fenced(p, attempt, token) => Fenced(p, attempt, token)'
        BY <4>2, <4>3, <4>4 DEF Fenced, JobRow
      <4>6. FencesKept
        <5>1. \A q \in Packs \ {p}, attempt, token \in Nat :
                Fenced(q, attempt, token) => Fenced(q, attempt, token)'
          BY <4>2 DEF Fenced
        <5> QED
          BY <4>5, <5>1 DEF FencesKept
      <4>7. /\ renewal'[w].state = "applied" /\ renewal'[w].pack = p
            /\ renewal'[w].attempt = renewal[w].attempt /\ renewal'[w].new = renewal[w].new
        BY <1>0, <2>1, <4>1 DEF Renewal
      <4>8. AppliedFenced(w)'
        BY <2>2, <4>2, <4>3, <4>4, <4>7 DEF AppliedFenced, SentFenced, Fenced, JobRow
      <4> QED
        BY <4>6, <4>7, <4>8
    <3>2. CASE ~Matches(p, renewal[w].expected)
      <4>1. UNCHANGED job /\ renewal'[w] = NoRenewal
        BY <1>0, <1>2, <2>1, <3>2 DEF RenewApply, TypeOK
      <4>2. FencesKept
        BY <4>1, SameJobsKeepFences
      <4>3. renewal'[w].state = "none"
        BY <4>1 DEF NoRenewal
      <4> QED
        BY <4>2, <4>3
    <3> QED
      BY <3>1, <3>2
  <2>4. \A x \in Workers : Busy(x)' => ClaimFenced(x)'
    BY <1>0, <2>2, <2>3 DEF FenceInv, ClaimFenced, FencesKept, Fenced, Busy, ClaimsTyped, Claim
  <2>5. \A x \in Workers \ {w} : /\ renewal'[x].state = "sent" => SentFenced(x)'
                                 /\ renewal'[x].state = "applied" => AppliedFenced(x)'
    BY <1>0, <2>2, <2>3
    DEF FenceInv, SentFenced, AppliedFenced, FencesKept, Fenced, ClaimsTyped, Renewal
  <2> QED
    BY <2>3, <2>4, <2>5 DEF FenceInv
<1>3. CASE RenewReply(w)
  <2>1. UNCHANGED <<clock, job>> /\ AppliedFenced(w) /\ renewal'[w].state = "none"
        /\ \A x \in Workers \ {w} : renewal'[x] = renewal[x] /\ worker'[x] = worker[x]
    BY <1>0, <1>3 DEF RenewReply, FenceInv, NoRenewal, TypeOK
  <2>2. Busy(w)' => ClaimFenced(w)'
    <3>1. CASE Busy(w) /\ worker[w].pack = renewal[w].pack /\ worker[w].attempt = renewal[w].attempt
      <4>1. worker'[w].pack = renewal[w].pack /\ worker'[w].attempt = renewal[w].attempt
            /\ worker'[w].token = renewal[w].new
        BY <1>0, <1>3, <3>1 DEF RenewReply, TypeOK, Claim
      <4> QED
        BY <2>1, <4>1 DEF ClaimFenced, AppliedFenced, Fenced
    <3>2. CASE ~(Busy(w) /\ worker[w].pack = renewal[w].pack /\ worker[w].attempt = renewal[w].attempt)
      BY <1>3, <2>1, <3>2 DEF RenewReply, FenceInv, ClaimFenced, Fenced, Busy
    <3> QED
      BY <3>1, <3>2
  <2>3. \A x \in Workers \ {w} : /\ Busy(x)' => ClaimFenced(x)'
                                 /\ renewal'[x].state = "sent" => SentFenced(x)'
                                 /\ renewal'[x].state = "applied" => AppliedFenced(x)'
    BY <2>1 DEF FenceInv, ClaimFenced, SentFenced, AppliedFenced, Fenced, Busy
  <2> QED
    BY <2>1, <2>2, <2>3 DEF FenceInv
<1>4. CASE RenewLost(w)
  BY <1>0, <1>4
  DEF RenewLost, FenceInv, ClaimFenced, SentFenced, AppliedFenced, Fenced, Busy, NoRenewal, TypeOK
<1> QED
  BY <1>1, <1>2, <1>3, <1>4 DEF RenewalStep

LEMMA FenceProcess ==
    ASSUME TypeInv, FenceInv, NEW w \in Workers, ProcessStep(w)
    PROVE  FenceInv'
<1> USE DEF budget, store
<1>0. TypeOK /\ \A x \in Workers : worker[x] \in Claim /\ clock[x] \in Nat
  BY DEF TypeInv, TypeOK
<1>1. CASE Crash(w) \/ Stopped(w) \/ Restart(w)
  <2>1. ~Busy(w)' /\ \A x \in Workers \ {w} : worker'[x] = worker[x]
    BY <1>0, <1>1 DEF Crash, Stopped, Restart, Unclaimed, Busy, TypeOK
  <2>2. UNCHANGED <<clock, job, renewal>>
    BY <1>1 DEF Crash, Stopped, Restart
  <2> QED
    BY <1>0, <2>1, <2>2, SameJobsKeepFences, FencesStay DEF Busy
<1>2. CASE Shutdown(w)
  <2>1. \A x \in Workers : Busy(x)' =>
               /\ Busy(x)
               /\ worker'[x].pack = worker[x].pack
               /\ worker'[x].attempt = worker[x].attempt
               /\ worker'[x].token = worker[x].token
    BY <1>0, <1>2 DEF Shutdown, Busy, TypeOK, Claim
  <2>2. UNCHANGED <<clock, job, renewal>>
    BY <1>2 DEF Shutdown
  <2> QED
    BY <1>0, <2>1, <2>2, SameJobsKeepFences, FencesStay
<1>3. CASE Tick(w)
  <2>1. \A x \in Workers : clock'[x] \in Nat /\ clock[x] <= clock'[x]
    BY <1>0, <1>3 DEF Tick, TypeOK
  <2>2. UNCHANGED <<job, renewal, worker>>
    BY <1>3 DEF Tick
  <2> QED
    BY <2>1, <2>2, SameJobsKeepFences, FencesStay DEF Busy
<1> QED
  BY <1>1, <1>2, <1>3 DEF ProcessStep

LEMMA FenceInvOwns == TypeInv /\ FenceInv => OnlyLatestAttemptOwns
<1> SUFFICES ASSUME TypeInv, FenceInv, NEW w \in Workers, Busy(w), Owns(w)
             PROVE  worker[w].attempt = job[worker[w].pack].attempts
  BY DEF OnlyLatestAttemptOwns
<1>1. worker[w].pack \in Packs /\ worker[w].attempt \in Nat /\ worker[w].token \in Nat
  BY DEF TypeInv, TypeOK, ClaimsTyped, Claim
<1>2. job[worker[w].pack].attempts \in Nat /\ job[worker[w].pack].lease \in Nat
  BY <1>1 DEF TypeInv, TypeOK, JobRow
<1> QED
  BY <1>1, <1>2 DEF FenceInv, ClaimFenced, Fenced, Owns, Matches

-----------------------------------------------------------------------------
(* What a step does to a job and its pack *)

\* Nothing, or a renewal of the lease.
Unmoved(p) ==
    job'[p].status = job[p].status /\ job'[p].attempts = job[p].attempts /\ pack'[p] = pack[p]
Enqueued(p) ==
    /\ pack[p].status = "ABSENT"
    /\ pack'[p] = [status |-> "GENERATING", version |-> requested[p], hash |-> NoHash]
    /\ job'[p].status = "QUEUED" /\ job'[p].attempts = 0
Leased(p) ==
    /\ job[p].status \in {"QUEUED", "PROCESSING"} /\ pack'[p] = pack[p]
    /\ job'[p].status = "PROCESSING" /\ job'[p].attempts = job[p].attempts + 1
\* Only the process of the latest attempt requeues, completes or fails it.
LatestAttempt(p, w) ==
    /\ Busy(w) /\ worker[w].pack = p /\ worker[w].attempt = job[p].attempts
    /\ job[p].status = "PROCESSING" /\ job'[p].attempts = job[p].attempts
Requeued(p, w) ==
    LatestAttempt(p, w) /\ RetriesLeft(w) /\ job'[p].status = "QUEUED" /\ pack'[p] = pack[p]
Completed(p, w) ==
    /\ LatestAttempt(p, w) /\ worker[w].phase = "completing"
    /\ job'[p].status = "COMPLETED" /\ pack'[p] = ReadyPack(pack[p], Doc(w))
Failed(p, w) ==
    /\ LatestAttempt(p, w) /\ ~RetriesLeft(w)
    /\ job'[p].status = "FAILED" /\ pack'[p] = FailedPack(pack[p])

RowStep(p) ==
    \/ Unmoved(p) \/ Enqueued(p) \/ Leased(p)
    \/ \E w \in Workers : Requeued(p, w) \/ Completed(p, w) \/ Failed(p, w)

LEMMA RowSteps ==
    ASSUME TypeInv, FenceInv, [Next]_vars
    PROVE  \A p \in Packs : RowStep(p)
<1> USE DEF budget, store
<1>0. TypeOK /\ ClaimsTyped
  BY DEF TypeInv
<1>1. ASSUME UNCHANGED <<job, pack>> PROVE \A p \in Packs : RowStep(p)
  BY <1>1 DEF RowStep, Unmoved
<1>2. ASSUME NEW p \in Packs, NEW w \in Workers, Enqueue(p, w) PROVE \A q \in Packs : RowStep(q)
  <2>1. Enqueued(p) /\ \A q \in Packs \ {p} : Unmoved(q)
    BY <1>0, <1>2 DEF Enqueue, Inserted, Enqueued, Unmoved, QueuedRow, TypeOK
  <2> QED
    BY <2>1 DEF RowStep
<1>3. ASSUME NEW w \in Workers, NEW out \in Outcome, LeaseNextJob(w, out)
      PROVE  \A q \in Packs : RowStep(q)
  <2>1. PICK p \in Packs :
          /\ Due(p, clock[w])
          /\ job' = IF Applied(out) THEN [job EXCEPT ![p] = LeasedRow(@, clock[w])] ELSE job
    BY <1>3 DEF LeaseNextJob
  <2>2. CASE Applied(out)
    <3>1. job'[p] = LeasedRow(job[p], clock[w]) /\ \A q \in Packs \ {p} : job'[q] = job[q]
      BY <1>0, <2>1, <2>2 DEF TypeOK
    <3>2. job'[p].status = "PROCESSING" /\ job'[p].attempts = job[p].attempts + 1
      <4>1. job[p] \in JobRow
        BY <1>0 DEF TypeOK
      <4> QED
        BY <3>1, <4>1 DEF LeasedRow, JobRow
    <3>3. job[p].status \in {"QUEUED", "PROCESSING"}
      BY <2>1 DEF Due
    <3> QED
      BY <1>3, <3>1, <3>2, <3>3 DEF LeaseNextJob, RowStep, Leased, Unmoved
  <2>3. CASE ~Applied(out)
    BY <1>1, <1>3, <2>1, <2>3 DEF LeaseNextJob
  <2> QED
    BY <2>2, <2>3
<1>4. ASSUME NEW w \in Workers, Busy(w), Owns(w)
      PROVE  /\ worker[w].pack \in Packs
             /\ worker[w].attempt = job[worker[w].pack].attempts
             /\ job[worker[w].pack].status = "PROCESSING"
  BY <1>0, <1>4, FenceInvOwns DEF OnlyLatestAttemptOwns, Owns, Matches, ClaimsTyped
<1>5. ASSUME NEW w \in Workers, NEW out \in Outcome, Complete(w, out) \/ Fail(w, out)
      PROVE  \A q \in Packs : RowStep(q)
  <2>1. Busy(w)
    BY <1>5 DEF Complete, Fail, Busy
  <2>2. CASE Owns(w) /\ Applied(out)
    <3>1. PICK p \in Packs :
            p = worker[w].pack /\ worker[w].attempt = job[p].attempts /\ job[p].status = "PROCESSING"
      BY <1>4, <2>1, <2>2
    <3>2. \A q \in Packs \ {p} : job'[q] = job[q] /\ pack'[q] = pack[q]
      BY <1>0, <1>5, <2>2, <3>1 DEF Complete, Fail, TypeOK
    <3>3. CASE Complete(w, out)
      <4>1. job'[p] = SettledRow(job[p], "COMPLETED") /\ pack'[p] = ReadyPack(pack[p], Doc(w))
        BY <1>0, <2>2, <3>1, <3>3 DEF Complete, TypeOK
      <4>2. job'[p].status = "COMPLETED" /\ job'[p].attempts = job[p].attempts
        BY <1>0, <4>1 DEF SettledRow, TypeOK, JobRow
      <4> QED
        BY <2>1, <3>1, <3>2, <3>3, <4>1, <4>2 DEF Complete, RowStep, Unmoved, Completed, LatestAttempt
    <3>4. CASE Fail(w, out)
      <4>1. job'[p] = SettledRow(job[p], "FAILED") /\ pack'[p] = FailedPack(pack[p])
        BY <1>0, <2>2, <3>1, <3>4 DEF Fail, TypeOK
      <4>2. job'[p].status = "FAILED" /\ job'[p].attempts = job[p].attempts
        BY <1>0, <4>1 DEF SettledRow, TypeOK, JobRow
      <4> QED
        BY <2>1, <3>1, <3>2, <3>4, <4>1, <4>2 DEF Fail, RowStep, Unmoved, Failed, LatestAttempt
    <3> QED
      BY <1>5, <3>3, <3>4
  <2>3. CASE ~(Owns(w) /\ Applied(out))
    BY <1>1, <1>5, <2>3 DEF Complete, Fail
  <2> QED
    BY <2>2, <2>3
<1>6. ASSUME NEW w \in Workers, NEW out \in Outcome, Requeue(w, out)
      PROVE  \A q \in Packs : RowStep(q)
  <2>1. Busy(w)
    BY <1>6 DEF Requeue, Busy
  <2>2. CASE Owns(w) /\ Applied(out)
    <3> DEFINE t == clock[w] + RetryBackoff[worker[w].attempt]
    <3>1. PICK p \in Packs :
            p = worker[w].pack /\ worker[w].attempt = job[p].attempts /\ job[p].status = "PROCESSING"
      BY <1>4, <2>1, <2>2
    <3>2. job'[p] = RequeuedRow(job[p], t) /\ \A q \in Packs \ {p} : job'[q] = job[q]
      BY <1>0, <1>6, <2>2, <3>1 DEF Requeue, TypeOK
    <3>3. job'[p].status = "QUEUED" /\ job'[p].attempts = job[p].attempts
      BY <1>0, <3>2 DEF RequeuedRow, TypeOK, JobRow
    <3> QED
      BY <1>6, <2>1, <3>1, <3>2, <3>3 DEF Requeue, RowStep, Unmoved, Requeued, LatestAttempt
  <2>3. CASE ~(Owns(w) /\ Applied(out))
    BY <1>1, <1>6, <2>3 DEF Requeue
  <2> QED
    BY <2>2, <2>3
<1>7. ASSUME NEW w \in Workers, RenewApply(w) PROVE \A q \in Packs : RowStep(q)
  <2>1. PICK p \in Packs : p = renewal[w].pack
    BY <1>0, <1>7 DEF RenewApply, ClaimsTyped
  <2>2. CASE Matches(p, renewal[w].expected)
    <3>1. job' = [job EXCEPT ![p].lease = renewal[w].new]
      BY <1>7, <2>1, <2>2 DEF RenewApply
    <3>2. job'[p] = [job[p] EXCEPT !.lease = renewal[w].new] /\ \A q \in Packs \ {p} : job'[q] = job[q]
      BY <1>0, <3>1 DEF TypeOK
    <3>3. \A q \in Packs : job'[q].status = job[q].status /\ job'[q].attempts = job[q].attempts
      BY <1>0, <3>2 DEF TypeOK, JobRow
    <3> QED
      BY <1>7, <3>3 DEF RenewApply, RowStep, Unmoved
  <2>3. CASE ~Matches(p, renewal[w].expected)
    BY <1>1, <1>7, <2>1, <2>3 DEF RenewApply
  <2> QED
    BY <2>2, <2>3
<1>8. ASSUME NEW w \in Workers, NEW out \in Outcome,
             \/ PollTick(w) \/ LeaseNone(w) \/ Render(w) \/ Upload(w, out)
             \/ AuditReady(w, out) \/ Notify(w, out) \/ Reconcile(w, out) \/ AuditFailure(w, out)
      PROVE  UNCHANGED <<job, pack>>
  BY <1>8 DEF PollTick, LeaseNone, Render, Upload, AuditReady, Notify, Reconcile,
     AuditFailure, FollowUp
<1>9. ASSUME NEW w \in Workers, Heartbeat(w) \/ RenewReply(w) \/ RenewLost(w) \/ ProcessStep(w)
      PROVE  UNCHANGED <<job, pack>>
  BY <1>9 DEF Heartbeat, RenewReply, RenewLost, ProcessStep, Crash, Shutdown, Stopped, Restart, Tick
<1>10. ASSUME (\E p \in Packs : ReadVersion(p)) \/ UNCHANGED vars PROVE UNCHANGED <<job, pack>>
  BY <1>10 DEF ReadVersion, vars
<1> QED
  BY <1>1, <1>2, <1>3, <1>5, <1>6, <1>7, <1>8, <1>9, <1>10 DEF Next, PollStep, RenewalStep, Outcome

\* An absent pack has an absent job; the rows of the two tables agree.
LEMMA AgreeInit == Init => PackFollowsJob
BY DEF Init, PackFollowsJob

LEMMA AgreeNext ==
    ASSUME TypeInv, FenceInv, PackFollowsJob, [Next]_vars
    PROVE  PackFollowsJob'
<1> SUFFICES ASSUME NEW p \in Packs
             PROVE  /\ pack'[p].status = "ABSENT" <=> job'[p].status = "ABSENT"
                    /\ pack'[p].status = "GENERATING" <=> job'[p].status \in {"QUEUED", "PROCESSING"}
                    /\ pack'[p].status = "READY" <=> job'[p].status = "COMPLETED"
                    /\ pack'[p].status = "FAILED" <=> job'[p].status = "FAILED"
  BY DEF PackFollowsJob
<1>1. RowStep(p) /\ pack[p] \in PackRow
  BY RowSteps DEF TypeInv, TypeOK
<1>2. CASE Unmoved(p) \/ Enqueued(p) \/ Leased(p) \/ \E w \in Workers : Requeued(p, w)
  BY <1>1, <1>2 DEF PackFollowsJob, Unmoved, Enqueued, Leased, Requeued, LatestAttempt
<1>3. CASE \E w \in Workers : Completed(p, w) \/ Failed(p, w)
  BY <1>1, <1>3 DEF Completed, Failed, ReadyPack, FailedPack, PackRow
<1> QED
  BY <1>1, <1>2, <1>3 DEF RowStep

\* The inductive invariant behind the theorems below.
SafetyInv == TypeInv /\ FenceInv /\ PackFollowsJob

LEMMA SafetyInvInit == Init => SafetyInv
BY TypeInit, FenceInit, AgreeInit DEF SafetyInv

LEMMA SafetyInvNext == SafetyInv /\ [Next]_vars => SafetyInv'
<1> SUFFICES ASSUME SafetyInv, [Next]_vars PROVE SafetyInv'
  OBVIOUS
<1> USE DEF SafetyInv
<1>1. TypeInv' /\ PackFollowsJob'
  BY TypeNext, AgreeNext
<1>2. ASSUME NEW p \in Packs, ReadVersion(p) \/ \E w \in Workers : Enqueue(p, w) PROVE FenceInv'
  <2>1. FencesKept
    <3>1. CASE ReadVersion(p)
      BY <3>1, SameJobsKeepFences DEF ReadVersion
    <3>2. ASSUME NEW w \in Workers, Enqueue(p, w) PROVE FencesKept
      <4>1. job[p].status = "ABSENT"
        BY <3>2 DEF Enqueue, Inserted, PackFollowsJob
      <4> QED
        BY <3>2, <4>1, EnqueueKeepsFences
    <3> QED
      BY <1>2, <3>1, <3>2
  <2>2. UNCHANGED <<clock, worker, renewal>> /\ \A x \in Workers : clock[x] \in Nat
    BY <1>2 DEF ReadVersion, Enqueue, TypeInv, TypeOK
  <2> QED
    BY <2>1, <2>2, FencesStay DEF Busy
<1>3. ASSUME UNCHANGED vars PROVE FenceInv'
  <2>1. UNCHANGED <<clock, worker, renewal, job>> /\ \A x \in Workers : clock[x] \in Nat
    BY <1>3 DEF vars, TypeInv, TypeOK
  <2> QED
    BY <2>1, SameJobsKeepFences, FencesStay DEF Busy
<1>4. ASSUME Next PROVE FenceInv'
  BY <1>2, <1>4, FencePoll, FenceRenewal, FenceProcess DEF Next
<1> QED
  BY <1>1, <1>3, <1>4

LEMMA Safety == Spec => []SafetyInv
BY SafetyInvInit, SafetyInvNext, PTL DEF Spec

\* Pack and job agree in every reachable state.
THEOREM PackAndJobAgree == Spec => []PackFollowsJob
<1>1. SafetyInv => PackFollowsJob
  BY DEF SafetyInv
<1> QED
  BY <1>1, Safety, PTL

\* The fence: whatever the clocks, only the latest attempt can match the row.
THEOREM LatestAttemptOwns == Spec => []OnlyLatestAttemptOwns
<1>1. SafetyInv => OnlyLatestAttemptOwns
  BY FenceInvOwns DEF SafetyInv
<1> QED
  BY <1>1, Safety, PTL

-----------------------------------------------------------------------------
(* What a superseded process may do *)

LEMMA SupersededOwnsNothing ==
    ASSUME SafetyInv, NEW w \in Workers, Superseded(w)
    PROVE  ~Owns(w)
<1>1. worker[w].pack \in Packs /\ worker[w].attempt \in Nat
  BY DEF Superseded, SafetyInv, TypeInv, TypeOK, ClaimsTyped, Claim
<1>2. job[worker[w].pack].attempts \in Nat
  BY <1>1 DEF SafetyInv, TypeInv, TypeOK, JobRow
<1> QED
  BY <1>1, <1>2, FenceInvOwns DEF SafetyInv, Superseded, OnlyLatestAttemptOwns

\* The steps that change the claim of w are steps of w.
LEMMA OwnStep ==
    ASSUME SafetyInv, Next, NEW w \in Workers, Superseded(w), worker'[w] # worker[w]
    PROVE  UNCHANGED <<job, pack>>
<1> USE DEF budget, store
<1>0. TypeOK /\ ClaimsTyped /\ Busy(w) /\ ~Owns(w)
  BY SupersededOwnsNothing DEF SafetyInv, TypeInv, Superseded
<1>1. ASSUME NEW x \in Workers \ {w}, NEW phase, Goto(x, phase) PROVE worker'[w] = worker[w]
  BY <1>0, <1>1 DEF Goto, TypeOK
<1>2. ASSUME NEW x \in Workers \ {w}, NEW phase, Release(x, phase) PROVE worker'[w] = worker[w]
  BY <1>0, <1>2 DEF Release, TypeOK
<1>3. ASSUME NEW x \in Workers, PollStep(x) PROVE x = w
  <2>1. ASSUME x # w PROVE worker'[w] = worker[w]
    <3>1. ASSUME NEW out \in Outcome, LeaseNextJob(x, out) PROVE worker'[w] = worker[w]
      <4>1. CASE out = "ok"
        BY <1>0, <2>1, <3>1, <4>1 DEF LeaseNextJob, TypeOK
      <4>2. CASE out # "ok"
        BY <1>1, <2>1, <3>1, <4>2 DEF LeaseNextJob
      <4> QED
        BY <4>1, <4>2
    <3>2. ASSUME Render(x) PROVE worker'[w] = worker[w]
      <4>1. CASE Goto(x, "handling")
        BY <1>1, <2>1, <4>1
      <4>2. CASE ~Goto(x, "handling")
        BY <1>0, <2>1, <3>2, <4>2 DEF Render, TypeOK
      <4> QED
        BY <4>1, <4>2
    <3>3. ASSUME NEW out \in Outcome,
                 \/ PollTick(x) \/ LeaseNone(x) \/ Upload(x, out) \/ Complete(x, out)
                 \/ AuditReady(x, out) \/ Notify(x, out) \/ Reconcile(x, out)
                 \/ Requeue(x, out) \/ Fail(x, out) \/ AuditFailure(x, out)
          PROVE  worker'[w] = worker[w]
      BY <1>1, <1>2, <2>1, <3>3 DEF PollTick, LeaseNone, Upload, Complete, AuditReady, Notify,
         Reconcile, Requeue, Fail, AuditFailure
    <3> QED
      BY <1>3, <3>1, <3>2, <3>3 DEF PollStep, Outcome
  <2> QED
    BY <2>1
<1>4. ASSUME NEW x \in Workers, RenewApply(x) PROVE FALSE
  BY <1>4 DEF RenewApply
<1>5. ASSUME PollStep(w) PROVE UNCHANGED <<job, pack>>
  BY <1>0, <1>5 DEF PollStep, PollTick, LeaseNone, Render, LeaseNextJob, Upload, Complete, AuditReady,
     Notify, Reconcile, Requeue, Fail, AuditFailure, FollowUp, Busy
<1>6. ASSUME NEW x \in Workers, Heartbeat(x) \/ RenewReply(x) \/ RenewLost(x) \/ ProcessStep(x)
      PROVE  UNCHANGED <<job, pack>>
  BY <1>6 DEF Heartbeat, RenewReply, RenewLost, ProcessStep, Crash, Shutdown, Stopped, Restart, Tick
<1>7. ASSUME NEW p \in Packs, ReadVersion(p) \/ \E x \in Workers : Enqueue(p, x) PROVE FALSE
  BY <1>7 DEF ReadVersion, Enqueue
<1> QED
  BY <1>3, <1>4, <1>5, <1>6, <1>7 DEF Next, RenewalStep

\* A superseded process changes nothing of the job and pack it works on.
THEOREM StaleWorkersAreHarmless == Spec => StaleWorkerHarmless
<1>1. ASSUME SafetyInv, [Next]_vars
      PROVE  [\A w \in Workers :
                 Superseded(w) /\ worker'[w] # worker[w] =>
                     LET p == worker[w].pack IN job'[p] = job[p] /\ pack'[p] = pack[p]]_vars
  <2>1. CASE UNCHANGED vars
    BY <2>1
  <2>2. CASE Next
    BY <1>1, <2>2, OwnStep
  <2> QED
    BY <1>1, <2>1, <2>2
<1> QED
  BY <1>1, Safety, PTL DEF Spec, StaleWorkerHarmless

-----------------------------------------------------------------------------
(* Retries *)

RetryInv ==
    \A p \in Packs :
        /\ job[p].status = "QUEUED" => job[p].attempts < MaxAttempts
        /\ job[p].status = "FAILED" => job[p].attempts >= MaxAttempts

LEMMA RetryInit == Init => RetryInv
BY DEF Init, RetryInv

LEMMA RetryNext ==
    ASSUME SafetyInv, RetryInv, [Next]_vars
    PROVE  RetryInv'
<1> SUFFICES ASSUME NEW p \in Packs
             PROVE  /\ job'[p].status = "QUEUED" => job'[p].attempts < MaxAttempts
                    /\ job'[p].status = "FAILED" => job'[p].attempts >= MaxAttempts
  BY DEF RetryInv
<1>1. RowStep(p) /\ job[p].attempts \in Nat
  BY RowSteps DEF SafetyInv, TypeInv, TypeOK, JobRow
<1> QED
  BY <1>1, AttemptsAssumption DEF RowStep, Unmoved, Enqueued, Leased, Requeued, Completed, Failed,
     LatestAttempt, RetriesLeft, RetryInv

\* A job is failed when its attempts are used up, and not before.
THEOREM RetriesAreUsedUp == Spec => []RetriesBeforeGivingUp
<1>1. SafetyInv /\ RetryInv => RetriesBeforeGivingUp
  BY DEF SafetyInv, PackFollowsJob, RetryInv, RetriesBeforeGivingUp, RetryExhausted
<1>2. Spec => []RetryInv
  BY RetryInit, RetryNext, Safety, PTL DEF Spec
<1> QED
  BY <1>1, <1>2, Safety, PTL

-----------------------------------------------------------------------------
(* Refinement *)

\* Only READY packs carry a hash.
HashInv == \A p \in Packs : pack[p].status # "READY" => pack[p].hash = NoHash

LEMMA HashNext ==
    ASSUME SafetyInv, HashInv, [Next]_vars
    PROVE  HashInv'
<1> SUFFICES ASSUME NEW p \in Packs, pack'[p].status # "READY" PROVE pack'[p].hash = NoHash
  BY DEF HashInv
<1>1. RowStep(p) /\ pack[p] \in PackRow
  BY RowSteps DEF SafetyInv, TypeInv, TypeOK
<1>2. CASE Unmoved(p) \/ Enqueued(p) \/ Leased(p) \/ \E w \in Workers : Requeued(p, w)
  BY <1>2 DEF HashInv, Unmoved, Enqueued, Leased, Requeued
<1>3. CASE \E w \in Workers : Completed(p, w) \/ Failed(p, w)
  BY <1>1, <1>3 DEF Completed, Failed, ReadyPack, FailedPack, PackRow
<1> QED
  BY <1>1, <1>2, <1>3 DEF RowStep

LEMMA Hashes == Spec => []HashInv
<1>1. Init => HashInv
  BY DEF Init, HashInv
<1> QED
  BY <1>1, HashNext, Safety, PTL DEF Spec

LEMMA PromiseInitially == Init => Promise!PromiseInit
BY DEF Init, Promise!PromiseInit

LEMMA OnePackMoves ==
    ASSUME TypeInv, [Next]_vars, pack' # pack
    PROVE  \E p \in Packs : \A q \in Packs \ {p} : pack'[q] = pack[q]
<1> USE DEF budget, store
<1>0. TypeOK /\ ClaimsTyped
  BY DEF TypeInv
<1>1. ASSUME NEW p \in Packs, NEW w \in Workers, Enqueue(p, w)
      PROVE  \A q \in Packs \ {p} : pack'[q] = pack[q]
  BY <1>0, <1>1 DEF Enqueue, TypeOK
<1>2. ASSUME NEW w \in Workers, NEW out \in Outcome, Complete(w, out) \/ Fail(w, out)
      PROVE  worker[w].pack \in Packs /\ \A q \in Packs \ {worker[w].pack} : pack'[q] = pack[q]
  BY <1>0, <1>2 DEF Complete, Fail, TypeOK, ClaimsTyped, Busy
<1>3. ASSUME NEW w \in Workers, NEW out \in Outcome,
             \/ PollTick(w) \/ LeaseNone(w) \/ Render(w) \/ Upload(w, out) \/ LeaseNextJob(w, out)
             \/ AuditReady(w, out) \/ Notify(w, out) \/ Reconcile(w, out) \/ AuditFailure(w, out)
             \/ Requeue(w, out)
      PROVE  FALSE
  BY <1>3 DEF PollTick, LeaseNone, Render, Upload, LeaseNextJob, AuditReady, Notify, Reconcile,
     AuditFailure, Requeue, FollowUp
<1>4. ASSUME NEW w \in Workers, RenewalStep(w) \/ ProcessStep(w) PROVE FALSE
  BY <1>4 DEF RenewalStep, Heartbeat, RenewApply, RenewReply, RenewLost, ProcessStep, Crash,
     Shutdown, Stopped, Restart, Tick
<1>5. ASSUME (\E p \in Packs : ReadVersion(p)) \/ UNCHANGED vars PROVE FALSE
  BY <1>5 DEF ReadVersion, vars
<1> QED
  BY <1>1, <1>2, <1>3, <1>4, <1>5 DEF Next, PollStep, Outcome

\* Every step of the queue is a step of the promise or changes nothing of it.
LEMMA PromiseSteps ==
    ASSUME SafetyInv, HashInv, [Next]_vars
    PROVE  [Promise!PromiseNext]_(Promise!promiseVars)
<1> DEFINE status == [p \in Packs |-> pack[p].status]
           hash == [p \in Packs |-> pack[p].hash]
<1>1. CASE pack' = pack
  BY <1>1 DEF Promise!promiseVars
<1>2. CASE pack' # pack
  <2>1. PICK p \in Packs : \A q \in Packs \ {p} : pack'[q] = pack[q]
    BY <1>2, OnePackMoves DEF SafetyInv
  <2>2. RowStep(p) /\ pack[p] \in PackRow
    BY RowSteps DEF SafetyInv, TypeInv, TypeOK
  <2>3. CASE Unmoved(p) \/ Leased(p) \/ \E w \in Workers : Requeued(p, w)
    <3>1. \A q \in Packs : pack'[q] = pack[q]
      BY <2>1, <2>3 DEF Unmoved, Leased, Requeued
    <3> QED
      BY <3>1 DEF Promise!promiseVars
  <2>4. CASE Enqueued(p)
    <3>1. pack'[p].status = "GENERATING" /\ pack'[p].hash = NoHash
      BY <2>4 DEF Enqueued
    <3>2. pack[p].hash = NoHash
      BY <2>4 DEF Enqueued, HashInv
    <3> QED
      BY <2>1, <2>4, <3>1, <3>2 DEF Enqueued, Promise!PromiseNext, Promise!Request
  <2>5. ASSUME NEW w \in Workers, Completed(p, w) PROVE Promise!SettleReady(p)
    <3>1. pack[p].status = "GENERATING"
      BY <2>5 DEF Completed, LatestAttempt, SafetyInv, PackFollowsJob
    <3>2. pack'[p].status = "READY" /\ pack'[p].hash = Doc(w)
      BY <2>2, <2>5 DEF Completed, ReadyPack, PackRow
    <3>3. Doc(w) \in [pack : {p}, bytes : Renderings]
      BY <2>5 DEF Completed, LatestAttempt, Doc, SafetyInv, TypeInv, ClaimsTyped
    <3> QED
      BY <2>1, <3>1, <3>2, <3>3 DEF Promise!SettleReady
  <2>6. ASSUME NEW w \in Workers, Failed(p, w) PROVE Promise!SettleFailed(p)
    <3>1. pack[p].status = "GENERATING"
      BY <2>6 DEF Failed, LatestAttempt, SafetyInv, PackFollowsJob
    <3>2. pack'[p].status = "FAILED" /\ pack'[p].hash = NoHash
      BY <2>2, <2>6 DEF Failed, FailedPack, PackRow
    <3>3. pack[p].hash = NoHash
      BY <3>1 DEF HashInv
    <3> QED
      BY <2>1, <3>1, <3>2, <3>3 DEF Promise!SettleFailed
  <2> QED
    BY <2>2, <2>3, <2>4, <2>5, <2>6 DEF RowStep, Promise!PromiseNext
<1> QED
  BY <1>1, <1>2

\* The queue implements the promise made to those who request packs.
THEOREM QueueKeepsPromise == Spec => ImplementsPromise
BY PromiseInitially, PromiseSteps, Safety, Hashes, PTL DEF Spec, ImplementsPromise, Promise!PromiseSpec

-----------------------------------------------------------------------------
(* Whose claim is it *)

\* The claim of x is the one it had, or gone.
Kept(x) ==
    Busy(x)' =>
        Busy(x) /\ worker'[x].pack = worker[x].pack /\ worker'[x].attempt = worker[x].attempt

\* ... and its token has not moved.
KeptToken(x) == Kept(x) /\ (Busy(x)' => worker'[x].token = worker[x].token)

\* w takes p: a new attempt, which the row and the claim count alike.
Taken(w, p) ==
    /\ worker[w].phase = "leasing" /\ worker'[w].phase = "rendering"
    /\ worker'[w].pack = p
    /\ worker'[w].attempt = job[p].attempts + 1 /\ job'[p].attempts = job[p].attempts + 1
    /\ job[p].status \in {"QUEUED", "PROCESSING"} /\ job'[p].status = "PROCESSING"
    /\ worker'[w].token = job'[p].lease
    /\ (\E x \in Workers : Holds(x, p)) => faults' # 0
    /\ \A x \in Workers \ {w} : worker'[x] = worker[x]
    /\ \A q \in Packs \ {p} : job'[q] = job[q]
    /\ UNCHANGED <<pack, objects, effects, renewal>>

LEMMA LeaseTakes ==
    ASSUME TypeInv, NEW w \in Workers, LeaseNextJob(w, "ok")
    PROVE  \E p \in Packs : Taken(w, p)
<1>0. TypeOK /\ worker[w] \in Claim /\ clock[w] \in Nat
  BY DEF TypeInv, TypeOK
<1>1. PICK p \in Packs :
        /\ Due(p, clock[w])
        /\ Spend(Cost("ok" # "ok") + Cost(\E x \in Workers : Holds(x, p)))
        /\ job' = [job EXCEPT ![p] = LeasedRow(@, clock[w])]
        /\ worker' = [worker EXCEPT ![w] =
                [@ EXCEPT !.phase = "rendering", !.pack = p,
                          !.attempt = job[p].attempts + 1, !.token = clock[w] + LeaseMs]]
  BY DEF LeaseNextJob, Applied
<1>2. job[p] \in JobRow /\ job'[p] = LeasedRow(job[p], clock[w])
      /\ \A q \in Packs \ {p} : job'[q] = job[q]
  BY <1>0, <1>1 DEF TypeOK
<1>3. /\ job'[p].status = "PROCESSING"
      /\ job'[p].attempts = job[p].attempts + 1
      /\ job'[p].lease = clock[w] + LeaseMs
  BY <1>2 DEF LeasedRow, JobRow
<1>4. worker'[w] = [worker[w] EXCEPT !.phase = "rendering", !.pack = p,
                       !.attempt = job[p].attempts + 1, !.token = clock[w] + LeaseMs]
      /\ \A x \in Workers \ {w} : worker'[x] = worker[x]
  BY <1>0, <1>1 DEF TypeOK
<1>5. /\ worker'[w].phase = "rendering" /\ worker'[w].pack = p
      /\ worker'[w].attempt = job[p].attempts + 1 /\ worker'[w].token = clock[w] + LeaseMs
  BY <1>0, <1>4 DEF Claim
<1>6. (\E x \in Workers : Holds(x, p)) => faults' # 0
  BY <1>0, <1>1 DEF Spend, Cost, TypeOK
<1>7. job[p].status \in {"QUEUED", "PROCESSING"} /\ worker[w].phase = "leasing"
  BY <1>1 DEF Due, LeaseNextJob
<1> QED
  BY <1>2, <1>3, <1>4, <1>5, <1>6, <1>7 DEF Taken, LeaseNextJob

\* What the steps of one process do to its claim, and to no other.
LEMMA PollKeeps ==
    ASSUME TypeInv, NEW w \in Workers, PollStep(w), ~LeaseNextJob(w, "ok")
    PROVE  KeptToken(w) /\ UNCHANGED renewal /\ \A x \in Workers \ {w} : worker'[x] = worker[x]
<1> USE DEF budget, store
<1>0. TypeOK /\ ClaimsTyped /\ worker[w] \in Claim
  BY DEF TypeInv, TypeOK
<1>1. ASSUME NEW phase \in Phase, Goto(w, phase), phase \in BusyPhase => Busy(w)
      PROVE  KeptToken(w) /\ \A x \in Workers \ {w} : worker'[x] = worker[x]
  BY <1>0, <1>1, GotoFrame DEF Kept, KeptToken, Busy
<1>2. ASSUME NEW phase \in {"idle", "leasing"}, Release(w, phase)
      PROVE  KeptToken(w) /\ \A x \in Workers \ {w} : worker'[x] = worker[x]
  BY <1>0, <1>2, ReleaseFrame DEF Kept, KeptToken, Busy
<1>3. ASSUME PollTick(w) \/ LeaseNone(w)
      PROVE  KeptToken(w) /\ UNCHANGED renewal /\ \A x \in Workers \ {w} : worker'[x] = worker[x]
  BY <1>1, <1>3 DEF PollTick, LeaseNone, Phase
<1>4. ASSUME Render(w)
      PROVE  KeptToken(w) /\ UNCHANGED renewal /\ \A x \in Workers \ {w} : worker'[x] = worker[x]
  <2>1. CASE Goto(w, "handling")
    BY <1>1, <1>4, <2>1 DEF Render, Phase, Busy
  <2>2. ASSUME NEW d \in Renderings,
               worker' = [worker EXCEPT ![w] = [@ EXCEPT !.phase = "uploading", !.doc = d]]
        PROVE  KeptToken(w) /\ \A x \in Workers \ {w} : worker'[x] = worker[x]
    <3>1. worker'[w] = [worker[w] EXCEPT !.phase = "uploading", !.doc = d]
          /\ \A x \in Workers \ {w} : worker'[x] = worker[x]
      BY <1>0, <2>2 DEF TypeOK
    <3> QED
      BY <1>0, <1>4, <3>1 DEF Render, Kept, KeptToken, Busy, Claim
  <2> QED
    BY <1>4, <2>1, <2>2 DEF Render
<1>5. ASSUME NEW out \in Outcome \ {"ok"}, LeaseNextJob(w, out)
      PROVE  KeptToken(w) /\ UNCHANGED renewal /\ \A x \in Workers \ {w} : worker'[x] = worker[x]
  BY <1>1, <1>5 DEF LeaseNextJob, Phase
<1>6. ASSUME NEW out \in Outcome, Upload(w, out)
      PROVE  KeptToken(w) /\ UNCHANGED renewal /\ \A x \in Workers \ {w} : worker'[x] = worker[x]
  BY <1>1, <1>6 DEF Upload, Phase, Busy
<1>7. ASSUME NEW out \in Outcome, Complete(w, out) \/ Fail(w, out)
      PROVE  KeptToken(w) /\ UNCHANGED renewal /\ \A x \in Workers \ {w} : worker'[x] = worker[x]
  BY <1>1, <1>2, <1>7 DEF Complete, Fail, Phase, Busy
<1>8. ASSUME NEW out \in Outcome, AuditReady(w, out) \/ Notify(w, out)
      PROVE  KeptToken(w) /\ UNCHANGED renewal /\ \A x \in Workers \ {w} : worker'[x] = worker[x]
  BY <1>1, <1>8 DEF AuditReady, Notify, FollowUp, Phase, Busy
<1>9. ASSUME NEW out \in Outcome, Reconcile(w, out) \/ AuditFailure(w, out) \/ Requeue(w, out)
      PROVE  KeptToken(w) /\ UNCHANGED renewal /\ \A x \in Workers \ {w} : worker'[x] = worker[x]
  BY <1>2, <1>9 DEF Reconcile, AuditFailure, Requeue, FollowUp
<1> QED
  BY <1>3, <1>4, <1>5, <1>6, <1>7, <1>8, <1>9 DEF PollStep

\* What a heartbeat still in flight carries: the claim its process sends it for.
Sent(x) ==
    /\ renewal[x].state = "none" /\ Busy(x) /\ renewal'[x].state = "sent"
    /\ renewal'[x].pack = worker[x].pack /\ renewal'[x].attempt = worker[x].attempt
    /\ renewal'[x].expected = worker[x].token
Resting(x) ==
    renewal'[x].state # "none" =>
        /\ renewal[x].state # "none"
        /\ renewal'[x].pack = renewal[x].pack /\ renewal'[x].attempt = renewal[x].attempt

LEMMA RenewalKeeps ==
    ASSUME TypeInv, NEW w \in Workers, RenewalStep(w)
    PROVE  /\ \A x \in Workers : Kept(x) /\ worker'[x].phase = worker[x].phase
                                 /\ worker'[x].doc = worker[x].doc /\ worker'[x].mode = worker[x].mode
           /\ \A x \in Workers \ {w} : worker'[x] = worker[x] /\ renewal'[x] = renewal[x]
           /\ Sent(w) \/ Resting(w)
<1>0. worker[w] \in Claim /\ renewal[w] \in Renewal /\ TypeOK
  BY DEF TypeInv, TypeOK
<1>1. CASE Heartbeat(w)
  <2>1. renewal'[w] = [state |-> "sent", pack |-> worker[w].pack, attempt |-> worker[w].attempt,
                       expected |-> worker[w].token, new |-> clock[w] + LeaseMs]
        /\ \A x \in Workers \ {w} : renewal'[x] = renewal[x]
    BY <1>0, <1>1 DEF Heartbeat, TypeOK
  <2>2. UNCHANGED worker
    BY <1>1 DEF Heartbeat
  <2> QED
    BY <1>1, <2>1, <2>2 DEF Heartbeat, Kept, Busy, Sent
<1>2. CASE RenewApply(w) \/ RenewLost(w)
  <2>1. UNCHANGED worker
    BY <1>2 DEF RenewApply, RenewLost
  <2>2. /\ \A x \in Workers \ {w} : renewal'[x] = renewal[x]
        /\ renewal'[w] = NoRenewal \/ renewal'[w] = [renewal[w] EXCEPT !.state = "applied"]
        /\ renewal[w].state # "none"
    BY <1>0, <1>2 DEF RenewApply, RenewLost, TypeOK
  <2>3. Resting(w)
    BY <1>0, <2>2 DEF Resting, NoRenewal, Renewal
  <2> QED
    BY <2>1, <2>2, <2>3 DEF Kept, Busy
<1>3. CASE RenewReply(w)
  <2>1. renewal'[w] = NoRenewal /\ \A x \in Workers \ {w} : renewal'[x] = renewal[x]
    BY <1>0, <1>3 DEF RenewReply, TypeOK
  <2>2. worker'[w] = worker[w] \/ worker'[w] = [worker[w] EXCEPT !.token = renewal[w].new]
    BY <1>0, <1>3 DEF RenewReply, TypeOK
  <2>3. \A x \in Workers \ {w} : worker'[x] = worker[x]
    BY <1>0, <1>3 DEF RenewReply, TypeOK
  <2>4. /\ worker'[w].phase = worker[w].phase /\ worker'[w].pack = worker[w].pack
        /\ worker'[w].attempt = worker[w].attempt /\ worker'[w].doc = worker[w].doc
        /\ worker'[w].mode = worker[w].mode
    BY <1>0, <2>2 DEF Claim
  <2> QED
    BY <2>1, <2>3, <2>4 DEF Kept, Busy, Resting, NoRenewal
<1> QED
  BY <1>1, <1>2, <1>3 DEF RenewalStep

LEMMA ProcessKeeps ==
    ASSUME TypeInv, NEW w \in Workers, ProcessStep(w)
    PROVE  /\ \A x \in Workers : Kept(x)
           /\ \A x \in Workers : Busy(x)' =>
                 worker'[x].phase = worker[x].phase /\ worker'[x].doc = worker[x].doc
                 /\ worker'[x].token = worker[x].token
           /\ UNCHANGED <<store, renewal, effects>>
<1>0. worker[w] \in Claim /\ TypeOK
  BY DEF TypeInv, TypeOK
<1>1. CASE Crash(w) \/ Stopped(w) \/ Restart(w)
  <2>1. ~Busy(w)' /\ \A x \in Workers \ {w} : worker'[x] = worker[x]
    BY <1>0, <1>1 DEF Crash, Stopped, Restart, Unclaimed, Busy, TypeOK
  <2> QED
    BY <1>1, <2>1 DEF Crash, Stopped, Restart, Kept, Busy
<1>2. CASE Shutdown(w)
  <2>1. worker'[w] = [worker[w] EXCEPT !.mode = "draining"]
        /\ \A x \in Workers \ {w} : worker'[x] = worker[x]
    BY <1>0, <1>2 DEF Shutdown, TypeOK
  <2> QED
    BY <1>0, <1>2, <2>1 DEF Shutdown, Kept, Busy, Claim
<1>3. CASE Tick(w)
  BY <1>3 DEF Tick, Kept, Busy
<1> QED
  BY <1>1, <1>2, <1>3 DEF ProcessStep

\* Every step keeps the claims or takes one, and keeps the heartbeats or sends one.
LEMMA ClaimSteps ==
    ASSUME TypeInv, [Next]_vars
    PROVE  /\ \/ \A x \in Workers : Kept(x)
              \/ \E w \in Workers, p \in Packs : Taken(w, p)
           /\ \/ \A x \in Workers : Resting(x)
              \/ /\ UNCHANGED job /\ \A x \in Workers : Kept(x)
                 /\ \E w \in Workers : Sent(w) /\ \A x \in Workers \ {w} : Resting(x)
<1>1. ASSUME UNCHANGED renewal PROVE \A x \in Workers : Resting(x)
  BY <1>1 DEF Resting
<1>2. ASSUME UNCHANGED worker PROVE \A x \in Workers : Kept(x)
  BY <1>2 DEF Kept, Busy
<1>3. ASSUME NEW p \in Packs, ReadVersion(p) \/ \E w \in Workers : Enqueue(p, w)
      PROVE  UNCHANGED <<worker, renewal>>
  BY <1>3 DEF ReadVersion, Enqueue
<1>4. ASSUME NEW w \in Workers, PollStep(w)
      PROVE  /\ (\A x \in Workers : Kept(x)) \/ \E p \in Packs : Taken(w, p)
             /\ UNCHANGED renewal
  <2>1. CASE LeaseNextJob(w, "ok")
    BY <2>1, LeaseTakes DEF Taken
  <2>2. CASE ~LeaseNextJob(w, "ok")
    BY <1>4, <2>2, PollKeeps DEF KeptToken, Kept, Busy
  <2> QED
    BY <2>1, <2>2
<1>5. ASSUME NEW w \in Workers, RenewalStep(w)
      PROVE  /\ \A x \in Workers : Kept(x)
             /\ \/ \A x \in Workers : Resting(x)
                \/ UNCHANGED job /\ Sent(w) /\ \A x \in Workers \ {w} : Resting(x)
  <2>1. Sent(w) => UNCHANGED job
    <3>1. Heartbeat(w) \/ RenewReply(w) \/ RenewLost(w) => UNCHANGED job
      BY DEF Heartbeat, RenewReply, RenewLost, store
    <3>2. RenewApply(w) => renewal[w].state # "none"
      BY DEF RenewApply
    <3> QED
      BY <1>5, <3>1, <3>2 DEF RenewalStep, Sent
  <2> QED
    BY <1>5, <2>1, RenewalKeeps DEF Resting
<1>6. ASSUME NEW w \in Workers, ProcessStep(w)
      PROVE  (\A x \in Workers : Kept(x)) /\ UNCHANGED renewal
  BY <1>6, ProcessKeeps
<1>7. ASSUME UNCHANGED vars PROVE UNCHANGED <<worker, renewal>>
  BY <1>7 DEF vars
<1> QED
  BY <1>1, <1>2, <1>3, <1>4, <1>5, <1>6, <1>7 DEF Next

\* No two processes ever work on the same attempt at a pack, and no heartbeat of
\* one process is for the attempt another one works on.
UniqueInv ==
    \A w, x \in Workers :
        w # x /\ Busy(w) =>
            /\ Busy(x) /\ worker[x].pack = worker[w].pack => worker[x].attempt # worker[w].attempt
            /\ renewal[x].state # "none" /\ renewal[x].pack = worker[w].pack =>
                  renewal[x].attempt # worker[w].attempt

\* No claim and no heartbeat is of an attempt yet to come.
LEMMA AttemptsStarted ==
    ASSUME SafetyInv, NEW x \in Workers
    PROVE  /\ Busy(x) => /\ worker[x].pack \in Packs
                         /\ worker[x].attempt \in Nat \ {0}
                         /\ job[worker[x].pack].attempts \in Nat
                         /\ worker[x].attempt <= job[worker[x].pack].attempts
                         /\ job[worker[x].pack].status # "ABSENT"
           /\ renewal[x].state # "none" => /\ renewal[x].pack \in Packs
                                           /\ renewal[x].attempt \in Nat
                                           /\ job[renewal[x].pack].attempts \in Nat
                                           /\ renewal[x].attempt <= job[renewal[x].pack].attempts
<1>1. worker[x] \in Claim /\ renewal[x] \in Renewal /\ ClaimsTyped /\ FenceInv
      /\ \A p \in Packs : job[p] \in JobRow
  BY DEF SafetyInv, TypeInv, TypeOK
<1>2. Busy(x) => /\ worker[x].pack \in Packs
                 /\ worker[x].attempt \in Nat \ {0}
                 /\ job[worker[x].pack].attempts \in Nat
                 /\ worker[x].attempt <= job[worker[x].pack].attempts
                 /\ job[worker[x].pack].status # "ABSENT"
  BY <1>1 DEF ClaimsTyped, Claim, JobRow, FenceInv, ClaimFenced, Fenced
<1>3. renewal[x].state # "none" => /\ renewal[x].pack \in Packs
                                   /\ renewal[x].attempt \in Nat
                                   /\ job[renewal[x].pack].attempts \in Nat
                                   /\ renewal[x].attempt <= job[renewal[x].pack].attempts
  <2>1. renewal[x].state \in {"none", "sent", "applied"}
    BY <1>1 DEF Renewal
  <2> QED
    BY <1>1, <2>1 DEF ClaimsTyped, Renewal, JobRow, FenceInv, SentFenced, AppliedFenced, Fenced
<1> QED
  BY <1>2, <1>3

LEMMA UniqueNext ==
    ASSUME SafetyInv, UniqueInv, [Next]_vars
    PROVE  UniqueInv'
<1> SUFFICES ASSUME NEW w \in Workers, NEW x \in Workers, w # x, Busy(w)'
             PROVE  /\ Busy(x)' /\ worker'[x].pack = worker'[w].pack =>
                          worker'[x].attempt # worker'[w].attempt
                    /\ renewal'[x].state # "none" /\ renewal'[x].pack = worker'[w].pack =>
                          renewal'[x].attempt # worker'[w].attempt
  BY DEF UniqueInv
<1>0. TypeInv
  BY DEF SafetyInv
<1>1. CASE /\ \A y \in Workers : Kept(y)
           /\ Resting(x) \/ Sent(x)
  BY <1>1 DEF Kept, Resting, Sent, UniqueInv
<1>2. ASSUME NEW y \in Workers, NEW p \in Packs, Taken(y, p)
      PROVE  /\ Busy(x)' /\ worker'[x].pack = worker'[w].pack =>
                          worker'[x].attempt # worker'[w].attempt
             /\ renewal'[x].state # "none" /\ renewal'[x].pack = worker'[w].pack =>
                          renewal'[x].attempt # worker'[w].attempt
  <2>1. \A z \in Workers \ {y} : worker'[z] = worker[z] /\ (Busy(z)' <=> Busy(z))
    BY <1>2 DEF Taken, Busy
  <2>2. UNCHANGED renewal /\ worker'[y].pack = p /\ worker'[y].attempt = job[p].attempts + 1
    BY <1>2 DEF Taken
  <2>3. CASE w = y
    BY <2>1, <2>2, <2>3, AttemptsStarted
  <2>4. CASE x = y
    BY <2>1, <2>2, <2>4, AttemptsStarted DEF UniqueInv
  <2>5. CASE w # y /\ x # y
    BY <2>1, <2>2, <2>5 DEF UniqueInv
  <2> QED
    BY <2>3, <2>4, <2>5
<1> QED
  BY <1>0, <1>1, <1>2, ClaimSteps DEF Taken, Resting

LEMMA Uniqueness == Spec => []UniqueInv
<1>1. Init => UniqueInv
  BY DEF Init, UniqueInv, Busy, Unclaimed
<1> QED
  BY <1>1, UniqueNext, Safety, PTL DEF Spec

-----------------------------------------------------------------------------
(* Why a worker is refused *)

\* The counters of faults and heartbeats never go back.
LEMMA CountersGrow ==
    ASSUME TypeInv, [Next]_vars
    PROVE  /\ faults \in Nat /\ faults' \in Nat /\ faults <= faults'
           /\ renewals \in Nat /\ renewals' \in Nat /\ renewals <= renewals'
<1>0. faults \in Nat /\ renewals \in Nat /\ faults' \in Nat /\ renewals' \in Nat
  BY TypeNext DEF TypeInv, TypeOK
<1>1. ASSUME NEW cost \in Nat, Spend(cost) PROVE faults <= faults' /\ renewals <= renewals'
  BY <1>0, <1>1 DEF Spend
<1>2. ASSUME NEW out, Spend(Cost(out # "ok")) PROVE faults <= faults' /\ renewals <= renewals'
  BY <1>0, <1>2 DEF Spend, Cost
<1>3. ASSUME NEW w \in Workers, NEW out, LeaseNextJob(w, out)
      PROVE  faults <= faults' /\ renewals <= renewals'
  <2>1. PICK p \in Packs : Spend(Cost(out # "ok") + Cost(\E x \in Workers : Holds(x, p)))
    BY <1>3 DEF LeaseNextJob
  <2> QED
    BY <1>0, <2>1 DEF Spend, Cost
<1>4. ASSUME NEW w \in Workers, NEW out,
             \/ Upload(w, out) \/ Complete(w, out) \/ AuditReady(w, out) \/ Notify(w, out)
             \/ Reconcile(w, out) \/ Requeue(w, out) \/ Fail(w, out) \/ AuditFailure(w, out)
      PROVE  faults <= faults' /\ renewals <= renewals'
  BY <1>2, <1>4 DEF Upload, Complete, AuditReady, Notify, Reconcile, Requeue, Fail, AuditFailure, FollowUp
<1>5. ASSUME NEW w \in Workers, RenewLost(w) \/ Crash(w) \/ Shutdown(w)
      PROVE  faults <= faults' /\ renewals <= renewals'
  BY <1>1, <1>5 DEF RenewLost, Crash, Shutdown
<1>6. ASSUME NEW w \in Workers, Heartbeat(w) PROVE faults <= faults' /\ renewals <= renewals'
  BY <1>0, <1>6 DEF Heartbeat
<1>7. ASSUME UNCHANGED budget PROVE faults <= faults' /\ renewals <= renewals'
  BY <1>0, <1>7 DEF budget
<1>8. ASSUME NEW w \in Workers,
             \/ PollTick(w) \/ LeaseNone(w) \/ Render(w) \/ RenewApply(w) \/ RenewReply(w)
             \/ Stopped(w) \/ Restart(w) \/ Tick(w)
      PROVE  UNCHANGED budget
  BY <1>8 DEF PollTick, LeaseNone, Render, RenewApply, RenewReply, Stopped, Restart, Tick
<1>9. ASSUME NEW p \in Packs, ReadVersion(p) \/ \E w \in Workers : Enqueue(p, w) PROVE UNCHANGED budget
  BY <1>9 DEF ReadVersion, Enqueue
<1>10. UNCHANGED vars => UNCHANGED budget
  BY DEF vars, budget
<1> QED
  BY <1>0, <1>3, <1>4, <1>5, <1>6, <1>7, <1>8, <1>9, <1>10
  DEF Next, PollStep, RenewalStep, ProcessStep

\* A poll without faults takes a job, leaves it alone, or settles or requeues it.
LEMMA PollJobs ==
    ASSUME TypeInv, NEW w \in Workers, PollStep(w), ~LeaseNextJob(w, "ok"), faults' = 0
    PROVE  \A q \in Packs : job'[q] = job[q] \/ job'[q].status # "PROCESSING"
<1> USE DEF budget, store
<1>0. TypeOK /\ ClaimsTyped /\ worker[w] \in Claim
  BY DEF TypeInv, TypeOK
<1>1. ASSUME NEW p \in Packs, NEW row, row.status # "PROCESSING", job' = [job EXCEPT ![p] = row]
      PROVE  \A q \in Packs : job'[q] = job[q] \/ job'[q].status # "PROCESSING"
  BY <1>0, <1>1 DEF TypeOK
<1>2. ASSUME NEW out \in Outcome \ {"ok"}, LeaseNextJob(w, out) PROVE FALSE
  <2>1. PICK p \in Packs : Spend(Cost(out # "ok") + Cost(\E x \in Workers : Holds(x, p)))
    BY <1>2 DEF LeaseNextJob
  <2> QED
    BY <1>0, <1>2, <2>1 DEF Spend, Cost, TypeOK
<1>3. ASSUME NEW out \in Outcome, Complete(w, out) \/ Fail(w, out) \/ Requeue(w, out), ~UNCHANGED job
      PROVE  \E p \in Packs : \E row : row.status # "PROCESSING" /\ job' = [job EXCEPT ![p] = row]
  <2>1. PICK p \in Packs : p = worker[w].pack /\ job[p] \in JobRow
    BY <1>0, <1>3 DEF Complete, Fail, Requeue, ClaimsTyped, Busy, TypeOK
  <2>2. \/ job' = [job EXCEPT ![p] = SettledRow(job[p], "COMPLETED")]
        \/ job' = [job EXCEPT ![p] = SettledRow(job[p], "FAILED")]
        \/ \E t : job' = [job EXCEPT ![p] = RequeuedRow(job[p], t)]
    BY <1>3, <2>1 DEF Complete, Fail, Requeue
  <2>3. /\ SettledRow(job[p], "COMPLETED").status = "COMPLETED"
        /\ SettledRow(job[p], "FAILED").status = "FAILED"
        /\ \A t : RequeuedRow(job[p], t).status = "QUEUED"
    BY <2>1 DEF SettledRow, RequeuedRow, JobRow
  <2> QED
    BY <2>2, <2>3
<1>4. ASSUME NEW out \in Outcome,
             \/ PollTick(w) \/ LeaseNone(w) \/ Render(w) \/ Upload(w, out)
             \/ AuditReady(w, out) \/ Notify(w, out) \/ Reconcile(w, out) \/ AuditFailure(w, out)
      PROVE  UNCHANGED job
  BY <1>4 DEF PollTick, LeaseNone, Render, Upload, AuditReady, Notify, Reconcile,
     AuditFailure, FollowUp
<1> QED
  BY <1>1, <1>2, <1>3, <1>4 DEF PollStep

\* The reply in flight is that of the claim's own heartbeat.
OwnReply(w) ==
    /\ renewal[w].state = "applied"
    /\ renewal[w].pack = worker[w].pack /\ renewal[w].attempt = worker[w].attempt

\* The latest claim of a job still processed.
Current(w) ==
    /\ Busy(w)
    /\ job[worker[w].pack].status = "PROCESSING"
    /\ worker[w].attempt = job[worker[w].pack].attempts

\* Without faults the lease of a job is the token of its latest claim, or what
\* the claim's own heartbeat made of it.
HeldInv ==
    faults = 0 =>
        \A w \in Workers :
            Current(w) => /\ OwnReply(w) => job[worker[w].pack].lease = renewal[w].new
                          /\ ~OwnReply(w) => job[worker[w].pack].lease = worker[w].token

\* A heartbeat that finds the lease it expects is one of the latest attempt.
LEMMA AppliedIsLatest ==
    ASSUME SafetyInv, NEW w \in Workers, renewal[w].state = "sent",
           Matches(renewal[w].pack, renewal[w].expected)
    PROVE  renewal[w].attempt = job[renewal[w].pack].attempts
<1>1. renewal[w] \in Renewal /\ renewal[w].pack \in Packs /\ SentFenced(w)
  BY DEF SafetyInv, TypeInv, TypeOK, ClaimsTyped, FenceInv
<1>2. job[renewal[w].pack] \in JobRow
  BY <1>1 DEF SafetyInv, TypeInv, TypeOK
<1> QED
  BY <1>1, <1>2 DEF SentFenced, Fenced, Matches, Renewal, JobRow

LEMMA HeldNext ==
    ASSUME SafetyInv, UniqueInv, HeldInv, [Next]_vars
    PROVE  HeldInv'
<1> SUFFICES ASSUME faults' = 0, NEW w \in Workers, Current(w)'
             PROVE  /\ OwnReply(w)' => job'[worker'[w].pack].lease = renewal'[w].new
                    /\ ~OwnReply(w)' => job'[worker'[w].pack].lease = worker'[w].token
  BY DEF HeldInv
<1> DEFINE Goal == /\ OwnReply(w)' => job'[worker'[w].pack].lease = renewal'[w].new
                   /\ ~OwnReply(w)' => job'[worker'[w].pack].lease = worker'[w].token
<1>0. /\ TypeInv /\ TypeOK /\ ClaimsTyped /\ faults = 0 /\ Busy(w)'
      /\ job'[worker'[w].pack].status = "PROCESSING"
      /\ worker'[w].attempt = job'[worker'[w].pack].attempts
      /\ worker'[w].pack \in Packs
  <2>1. TypeInv /\ TypeInv'
    BY TypeNext DEF SafetyInv
  <2> QED
    BY <2>1, CountersGrow DEF TypeInv, ClaimsTyped, Current
<1>1. ASSUME KeptToken(w), renewal'[w] = renewal[w], job'[worker'[w].pack] = job[worker'[w].pack]
      PROVE  Goal
  BY <1>0, <1>1 DEF KeptToken, Kept, HeldInv, Current, OwnReply
<1>2. ASSUME NEW y \in Workers, PollStep(y) PROVE Goal
  <2>1. CASE LeaseNextJob(y, "ok")
    <3>1. PICK p \in Packs : Taken(y, p)
      BY <1>0, <2>1, LeaseTakes
    <3>2. CASE w = y
      BY <1>0, <3>1, <3>2, AttemptsStarted DEF Taken, OwnReply
    <3>3. CASE w # y
      <4>1. worker'[w] = worker[w] /\ renewal'[w] = renewal[w] /\ Busy(w)
        BY <1>0, <3>1, <3>3 DEF Taken, Busy
      <4>2. worker[w].pack # p
        BY <1>0, <3>1, <4>1, AttemptsStarted DEF Taken
      <4> QED
        BY <1>0, <1>1, <3>1, <4>1, <4>2 DEF Taken, KeptToken, Kept
    <3> QED
      BY <3>2, <3>3
  <2>2. CASE ~LeaseNextJob(y, "ok")
    <3>1. KeptToken(w) /\ renewal'[w] = renewal[w]
      BY <1>0, <1>2, <2>2, PollKeeps DEF KeptToken, Kept, Busy
    <3>2. job'[worker'[w].pack] = job[worker'[w].pack]
      BY <1>0, <1>2, <2>2, PollJobs
    <3> QED
      BY <1>1, <3>1, <3>2
  <2> QED
    BY <2>1, <2>2
<1>3. ASSUME NEW y \in Workers, ProcessStep(y) PROVE Goal
  BY <1>0, <1>1, <1>3, ProcessKeeps DEF KeptToken, store
<1>4. ASSUME NEW p \in Packs, ReadVersion(p) \/ \E y \in Workers : Enqueue(p, y) PROVE Goal
  <2>1. UNCHANGED <<worker, renewal>> /\ \A q \in Packs : job'[q] = job[q] \/ job'[q].status # "PROCESSING"
    BY <1>0, <1>4 DEF ReadVersion, Enqueue, QueuedRow, TypeOK
  <2> QED
    BY <1>0, <1>1, <2>1 DEF KeptToken, Kept, Busy
<1>5. ASSUME UNCHANGED vars PROVE Goal
  BY <1>0, <1>1, <1>5 DEF vars, KeptToken, Kept, Busy
<1>6. ASSUME NEW y \in Workers, Heartbeat(y) PROVE Goal
  <2>1. UNCHANGED <<job, worker>> /\ Current(w)
    BY <1>0, <1>6 DEF Heartbeat, store, Current, Busy
  <2>2. CASE y # w
    BY <1>0, <1>1, <1>6, <2>1, <2>2 DEF Heartbeat, KeptToken, Kept, Busy, TypeOK
  <2>3. CASE y = w
    <3>1. renewal'[w].state = "sent" /\ renewal[w].state = "none"
      BY <1>0, <1>6, <2>3 DEF Heartbeat, TypeOK
    <3> QED
      BY <1>0, <2>1, <3>1 DEF OwnReply, HeldInv
  <2> QED
    BY <2>2, <2>3
<1>7. ASSUME NEW y \in Workers, RenewApply(y) PROVE Goal
  <2>1. UNCHANGED worker /\ Busy(w) /\ worker[w].pack \in Packs
        /\ renewal[y].state = "sent" /\ renewal[y].pack \in Packs
    BY <1>0, <1>7 DEF RenewApply, Busy, ClaimsTyped
  <2>2. CASE Matches(renewal[y].pack, renewal[y].expected)
    <3>1. /\ job' = [job EXCEPT ![renewal[y].pack].lease = renewal[y].new]
          /\ renewal' = [renewal EXCEPT ![y].state = "applied"]
      BY <1>7, <2>2 DEF RenewApply
    <3>2. renewal[y].attempt = job[renewal[y].pack].attempts
      BY <2>1, <2>2, AppliedIsLatest
    <3>3. CASE renewal[y].pack # worker[w].pack
      <4>1. job'[worker[w].pack] = job[worker[w].pack] /\ Current(w)
        BY <1>0, <2>1, <3>1, <3>3 DEF TypeOK, Current
      <4>2. CASE y # w
        BY <1>0, <1>1, <2>1, <3>1, <4>1, <4>2 DEF KeptToken, Kept, TypeOK
      <4>3. CASE y = w
        <5>1. ~OwnReply(w) /\ renewal'[w].pack = renewal[w].pack
          BY <1>0, <2>1, <3>1, <4>3 DEF OwnReply, TypeOK, Renewal
        <5> QED
          BY <1>0, <2>1, <3>3, <4>1, <4>3, <5>1 DEF OwnReply, HeldInv
      <4> QED
        BY <4>2, <4>3
    <3>4. CASE renewal[y].pack = worker[w].pack
      <4>1. job'[worker[w].pack] = [job[worker[w].pack] EXCEPT !.lease = renewal[y].new]
            /\ job[worker[w].pack] \in JobRow
        BY <1>0, <2>1, <3>1, <3>4 DEF TypeOK
      <4>2. job'[worker[w].pack].attempts = job[worker[w].pack].attempts
            /\ job'[worker[w].pack].lease = renewal[y].new
        BY <4>1 DEF JobRow
      <4>3. renewal[y].attempt = worker[w].attempt
        BY <1>0, <2>1, <3>2, <3>4, <4>2
      <4>4. y = w
        BY <2>1, <3>4, <4>3 DEF UniqueInv
      <4>5. renewal'[w].state = "applied" /\ renewal'[w].pack = worker[w].pack
            /\ renewal'[w].attempt = worker[w].attempt /\ renewal'[w].new = renewal[w].new
        BY <1>0, <3>1, <3>4, <4>3, <4>4 DEF TypeOK, Renewal
      <4> QED
        BY <2>1, <4>2, <4>4, <4>5 DEF OwnReply
    <3> QED
      BY <3>3, <3>4
  <2>3. CASE ~Matches(renewal[y].pack, renewal[y].expected)
    <3>1. UNCHANGED job /\ renewal' = [renewal EXCEPT ![y] = NoRenewal] /\ Current(w)
      BY <1>0, <1>7, <2>1, <2>3 DEF RenewApply, Current
    <3>2. CASE y # w
      BY <1>0, <1>1, <2>1, <3>1, <3>2 DEF KeptToken, Kept, TypeOK
    <3>3. CASE y = w
      BY <1>0, <2>1, <3>1, <3>3 DEF OwnReply, HeldInv, NoRenewal, TypeOK
    <3> QED
      BY <3>2, <3>3
  <2> QED
    BY <2>2, <2>3
<1>8. ASSUME NEW y \in Workers, RenewReply(y) PROVE Goal
  <2>1. UNCHANGED job /\ renewal' = [renewal EXCEPT ![y] = NoRenewal] /\ renewal[y].state = "applied"
    BY <1>8 DEF RenewReply, store
  <2>2. CASE y # w
    <3>1. worker'[w] = worker[w] /\ renewal'[w] = renewal[w]
      BY <1>0, <1>8, <2>1, <2>2 DEF RenewReply, TypeOK
    <3> QED
      BY <1>0, <1>1, <2>1, <3>1 DEF KeptToken, Kept, Busy
  <2>3. CASE y = w
    <3>1. ~OwnReply(w)'
      BY <1>0, <2>1, <2>3 DEF OwnReply, NoRenewal, TypeOK
    <3>2. CASE Busy(w) /\ OwnReply(w)
      <4>1. worker'[w] = [worker[w] EXCEPT !.token = renewal[w].new] /\ worker[w] \in Claim
        BY <1>0, <1>8, <2>3, <3>2 DEF RenewReply, OwnReply, TypeOK
      <4>2. worker'[w].pack = worker[w].pack /\ worker'[w].attempt = worker[w].attempt
            /\ worker'[w].token = renewal[w].new
        BY <4>1 DEF Claim
      <4> QED
        BY <1>0, <2>1, <3>1, <3>2, <4>2 DEF HeldInv, Current
    <3>3. CASE ~(Busy(w) /\ OwnReply(w))
      <4>1. UNCHANGED worker
        BY <1>8, <2>1, <2>3, <3>3 DEF RenewReply, OwnReply
      <4>2. Busy(w) /\ Current(w)
        BY <1>0, <2>1, <4>1 DEF Busy, Current
      <4> QED
        BY <1>0, <2>1, <3>1, <3>3, <4>1, <4>2 DEF HeldInv
    <3> QED
      BY <3>2, <3>3
  <2> QED
    BY <2>2, <2>3
<1>9. ASSUME NEW y \in Workers, RenewLost(y) PROVE FALSE
  BY <1>0, <1>9 DEF RenewLost, Spend, TypeOK
<1> QED
  BY <1>2, <1>3, <1>4, <1>5, <1>6, <1>7, <1>8, <1>9 DEF Next, RenewalStep

\* Without faults, a worker that still holds its job is refused only while the
\* reply to its own heartbeat is under way.
THEOREM OnlyHeartbeatsRefuse == Spec => []OnlyOwnHeartbeatRefuses
<1>1. Init => HeldInv
  BY DEF Init, HeldInv, Current, Busy, Unclaimed
<1>2. SafetyInv /\ HeldInv => OnlyOwnHeartbeatRefuses
  <2> SUFFICES ASSUME SafetyInv, HeldInv, NEW w \in Workers, Busy(w), ~Superseded(w),
                      job[worker[w].pack].status = "PROCESSING", ~Owns(w), ~(faults > 0)
               PROVE  renewal[w].state = "applied" /\ job[worker[w].pack].lease = renewal[w].new
    BY DEF OnlyOwnHeartbeatRefuses
  <2>1. faults = 0
    BY DEF SafetyInv, TypeInv, TypeOK
  <2>2. Current(w)
    BY AttemptsStarted DEF Superseded, Current
  <2> QED
    BY <2>1, <2>2 DEF HeldInv, OwnReply, Owns, Matches
<1> QED
  BY <1>1, <1>2, HeldNext, Uniqueness, Safety, PTL DEF Spec

-----------------------------------------------------------------------------
(* The follow-ups of a settlement *)

ReadyEffects == {"AUDIT_READY", "NOTIFIED", "RECONCILED"}

\* A process that follows up an outcome settled it with the latest attempt, and
\* the follow-ups still ahead of it have not happened.
Closing(w) ==
    LET p == worker[w].pack IN
    /\ worker[w].phase \in {"auditing", "notifying", "reconciling"} =>
          pack[p].status = "READY" /\ worker[w].attempt = job[p].attempts
    /\ worker[w].phase = "auditingFailure" =>
          pack[p].status = "FAILED" /\ worker[w].attempt = job[p].attempts
    /\ worker[w].phase = "auditing" => effects[p]["AUDIT_READY"] = 0
    /\ worker[w].phase \in {"auditing", "notifying"} => effects[p]["NOTIFIED"] = 0
    /\ worker[w].phase \in {"auditing", "notifying", "reconciling"} => effects[p]["RECONCILED"] = 0
    /\ worker[w].phase = "auditingFailure" => effects[p]["AUDIT_FAILED"] = 0

EffectInv ==
    /\ \A w \in Workers : Closing(w)
    /\ \A p \in Packs :
          /\ \A e \in Effects : effects[p][e] \in {0, 1}
          /\ pack[p].status # "READY" => \A e \in ReadyEffects : effects[p][e] = 0
          /\ pack[p].status # "FAILED" => effects[p]["AUDIT_FAILED"] = 0

\* A settled pack stays as it is, and its attempts are over.
LEMMA SettledStays ==
    ASSUME SafetyInv, [Next]_vars, NEW p \in Packs, pack[p].status \in {"READY", "FAILED"}
    PROVE  pack'[p] = pack[p] /\ job'[p].attempts = job[p].attempts /\ job'[p].status = job[p].status
<1>1. RowStep(p) /\ job[p].status \in {"COMPLETED", "FAILED"}
  BY RowSteps DEF SafetyInv, PackFollowsJob
<1> QED
  BY <1>1 DEF RowStep, Unmoved, Enqueued, Leased, Requeued, Completed, Failed, LatestAttempt

\* A pack is settled by the step of a process that completes or handles it.
LEMMA SettledBy ==
    ASSUME SafetyInv, [Next]_vars, NEW p \in Packs, pack[p].status \notin {"READY", "FAILED"}
    PROVE  /\ pack'[p].status = "READY" => \E w \in Workers : Completed(p, w)
           /\ pack'[p].status = "FAILED" => \E w \in Workers : Failed(p, w)
<1>1. RowStep(p) /\ pack[p] \in PackRow
  BY RowSteps DEF SafetyInv, TypeInv, TypeOK
<1>2. CASE Unmoved(p) \/ Enqueued(p) \/ Leased(p) \/ \E w \in Workers : Requeued(p, w)
  BY <1>2 DEF Unmoved, Enqueued, Leased, Requeued
<1>3. ASSUME NEW w \in Workers, Completed(p, w) PROVE pack'[p].status = "READY"
  BY <1>1, <1>3 DEF Completed, ReadyPack, PackRow
<1>4. ASSUME NEW w \in Workers, Failed(p, w) PROVE pack'[p].status = "FAILED"
  BY <1>1, <1>4 DEF Failed, FailedPack, PackRow
<1> QED
  BY <1>1, <1>2, <1>3, <1>4 DEF RowStep

\* Only these phases matter to Closing; a step that leaves them and the effects
\* alone keeps it.
LEMMA ClosingStays ==
    ASSUME SafetyInv, [Next]_vars, NEW x \in Workers, Closing(x), UNCHANGED effects, Kept(x),
           worker'[x].phase = worker[x].phase \/ worker'[x].phase \notin
               {"auditing", "notifying", "reconciling", "auditingFailure"}
    PROVE  Closing(x)'
<1>1. CASE worker'[x].phase \in {"auditing", "notifying", "reconciling", "auditingFailure"}
  <2>1. /\ Busy(x) /\ worker'[x].phase = worker[x].phase /\ worker'[x].pack = worker[x].pack
        /\ worker'[x].attempt = worker[x].attempt /\ worker[x].pack \in Packs
    BY <1>1 DEF Kept, Busy, SafetyInv, TypeInv, ClaimsTyped
  <2>2. pack[worker[x].pack].status \in {"READY", "FAILED"}
    BY <1>1, <2>1 DEF Closing
  <2> QED
    BY <2>1, <2>2, SettledStays DEF Closing
<1>2. CASE worker'[x].phase \notin {"auditing", "notifying", "reconciling", "auditingFailure"}
  BY <1>2 DEF Closing
<1> QED
  BY <1>1, <1>2

\* The effects a pack has stay in step with its status while none happens.
LEMMA EffectsStay ==
    ASSUME SafetyInv, EffectInv, [Next]_vars, UNCHANGED effects, NEW p \in Packs
    PROVE  /\ \A e \in Effects : effects'[p][e] \in {0, 1}
           /\ pack'[p].status # "READY" => \A e \in ReadyEffects : effects'[p][e] = 0
           /\ pack'[p].status # "FAILED" => effects'[p]["AUDIT_FAILED"] = 0
BY SettledStays DEF EffectInv

\* A follow-up of w happens to its pack, once, and touches no other process.
LEMMA FollowUpNext ==
    ASSUME SafetyInv, EffectInv, UniqueInv, [Next]_vars, NEW w \in Workers, NEW e \in Effects,
           NEW out \in Outcome, FollowUp(w, e, out), effects[worker[w].pack][e] = 0,
           \/ /\ worker[w].phase \in {"auditing", "notifying", "reconciling"} /\ e \in ReadyEffects
           \/ worker[w].phase = "auditingFailure" /\ e = "AUDIT_FAILED",
           \A x \in Workers \ {w} : worker'[x] = worker[x]
    PROVE  /\ \A f \in Effects \ {e} : effects'[worker[w].pack][f] = effects[worker[w].pack][f]
           /\ \A x \in Workers \ {w} : Closing(x)'
           /\ \A p \in Packs :
                 /\ \A f \in Effects : effects'[p][f] \in {0, 1}
                 /\ pack'[p].status # "READY" => \A f \in ReadyEffects : effects'[p][f] = 0
                 /\ pack'[p].status # "FAILED" => effects'[p]["AUDIT_FAILED"] = 0
<1>0. TypeOK /\ ClaimsTyped /\ Busy(w) /\ worker[w].pack \in Packs /\ UNCHANGED <<job, pack>>
  BY DEF SafetyInv, TypeInv, ClaimsTyped, Busy, FollowUp, store
<1>1. \/ UNCHANGED effects
      \/ effects' = [effects EXCEPT ![worker[w].pack][e] = @ + 1]
  BY DEF FollowUp
<1>2. effects \in [Packs -> [Effects -> Nat]]
  BY <1>0 DEF TypeOK
<1>3. \A p \in Packs, f \in Effects : p # worker[w].pack \/ f # e => effects'[p][f] = effects[p][f]
  BY <1>0, <1>1, <1>2
<1>4. effects'[worker[w].pack][e] \in {0, 1}
  BY <1>0, <1>1, <1>2
<1>5. worker[w].phase = "auditingFailure" => pack[worker[w].pack].status = "FAILED"
  BY DEF EffectInv, Closing
<1>6. worker[w].phase # "auditingFailure" => pack[worker[w].pack].status = "READY" /\ e \in ReadyEffects
  BY DEF EffectInv, Closing
<1>7. worker[w].attempt = job[worker[w].pack].attempts
  BY DEF EffectInv, Closing
<1>8. ASSUME NEW x \in Workers \ {w} PROVE Closing(x)'
  <2>1. CASE worker[x].phase \notin {"auditing", "notifying", "reconciling", "auditingFailure"}
    BY <1>8, <2>1 DEF Closing
  <2>2. CASE worker[x].phase \in {"auditing", "notifying", "reconciling", "auditingFailure"}
    <3>1. Busy(x) /\ Closing(x) /\ worker[x].pack \in Packs
      BY <1>0, <1>8, <2>2 DEF Busy, ClaimsTyped, EffectInv
    <3>2. worker[x].attempt = job[worker[x].pack].attempts
      BY <2>2, <3>1 DEF Closing
    <3>3. worker[x].pack # worker[w].pack
      BY <1>0, <1>7, <1>8, <3>1, <3>2 DEF UniqueInv
    <3> QED
      BY <1>0, <1>3, <1>8, <3>1, <3>3 DEF Closing, Effects
  <2> QED
    BY <2>1, <2>2
<1>9. ASSUME NEW p \in Packs
      PROVE  /\ \A f \in Effects : effects'[p][f] \in {0, 1}
             /\ pack'[p].status # "READY" => \A f \in ReadyEffects : effects'[p][f] = 0
             /\ pack'[p].status # "FAILED" => effects'[p]["AUDIT_FAILED"] = 0
  BY <1>0, <1>3, <1>4, <1>5, <1>6 DEF EffectInv, Effects, ReadyEffects
<1> QED
  BY <1>0, <1>3, <1>8, <1>9

LEMMA EffectNext ==
    ASSUME SafetyInv, EffectInv, UniqueInv, [Next]_vars
    PROVE  EffectInv'
<1> USE DEF budget, store
<1> DEFINE ClosingPhase == {"auditing", "notifying", "reconciling", "auditingFailure"}
<1>0. TypeInv /\ TypeOK /\ ClaimsTyped /\ FenceInv /\ \A x \in Workers : Closing(x)
  BY DEF SafetyInv, TypeInv, EffectInv
<1>1. ASSUME UNCHANGED effects,
             \A x \in Workers : /\ Kept(x) \/ worker'[x].phase \notin ClosingPhase
                               /\ \/ worker'[x].phase = worker[x].phase
                                  \/ worker'[x].phase \notin ClosingPhase
      PROVE  EffectInv'
  <2>1. ASSUME NEW x \in Workers PROVE Closing(x)'
    <3>1. CASE worker'[x].phase \notin ClosingPhase
      BY <3>1 DEF Closing
    <3>2. CASE worker'[x].phase \in ClosingPhase
      BY <1>0, <1>1, <3>2, ClosingStays
    <3> QED
      BY <3>1, <3>2
  <2> QED
    BY <1>1, <2>1, EffectsStay DEF EffectInv
<1>2. ASSUME NEW p \in Packs, ReadVersion(p) \/ \E w \in Workers : Enqueue(p, w) PROVE EffectInv'
  BY <1>1, <1>2 DEF ReadVersion, Enqueue, Kept, Busy
<1>3. ASSUME UNCHANGED vars PROVE EffectInv'
  BY <1>1, <1>3 DEF vars, Kept, Busy
<1>4. ASSUME NEW w \in Workers, RenewalStep(w) PROVE EffectInv'
  <2>1. UNCHANGED effects
    BY <1>4 DEF RenewalStep, Heartbeat, RenewApply, RenewReply, RenewLost
  <2> QED
    BY <1>0, <1>1, <1>4, <2>1, RenewalKeeps
<1>5. ASSUME NEW w \in Workers, ProcessStep(w) PROVE EffectInv'
  BY <1>0, <1>1, <1>5, ProcessKeeps DEF Busy
<1>6. ASSUME NEW w \in Workers, LeaseNextJob(w, "ok") PROVE EffectInv'
  <2>1. PICK p \in Packs : Taken(w, p)
    BY <1>0, <1>6, LeaseTakes
  <2> QED
    BY <1>1, <2>1 DEF Taken, Kept, Busy
<1>7. ASSUME NEW w \in Workers, PollStep(w), ~LeaseNextJob(w, "ok") PROVE EffectInv'
  <2>0. Kept(w) /\ UNCHANGED renewal /\ \A x \in Workers \ {w} : worker'[x] = worker[x] /\ Kept(x)
    BY <1>0, <1>7, PollKeeps DEF KeptToken, Kept, Busy
  <2>1. ASSUME UNCHANGED effects, worker'[w].phase \notin ClosingPhase PROVE EffectInv'
    BY <1>1, <2>0, <2>1
  <2>2. ASSUME NEW phase \in Phase, Goto(w, phase) PROVE worker'[w].phase = phase
    BY <1>0, <2>2, GotoFrame
  <2>3. ASSUME NEW phase \in {"idle", "leasing"}, Release(w, phase) PROVE worker'[w].phase = phase
    BY <1>0, <2>3, ReleaseFrame
  <2>4. ASSUME NEW out \in Outcome,
               PollTick(w) \/ LeaseNone(w) \/ LeaseNextJob(w, out) \/ Upload(w, out) \/ Requeue(w, out)
        PROVE  EffectInv'
    <3>1. UNCHANGED effects
      BY <2>4 DEF PollTick, LeaseNone, LeaseNextJob, Upload, Requeue
    <3>2. worker'[w].phase \notin ClosingPhase
      BY <1>7, <2>2, <2>3, <2>4 DEF PollTick, LeaseNone, LeaseNextJob, Upload, Requeue, Phase
    <3> QED
      BY <2>1, <3>1, <3>2
  <2>5. ASSUME Render(w) PROVE EffectInv'
    <3>1. worker'[w].phase \notin ClosingPhase
      <4>1. CASE Goto(w, "handling")
        BY <2>2, <4>1 DEF Phase
      <4>2. ASSUME NEW d \in Renderings,
                   worker' = [worker EXCEPT ![w] = [@ EXCEPT !.phase = "uploading", !.doc = d]]
            PROVE  worker'[w].phase = "uploading"
        <5>1. worker'[w] = [worker[w] EXCEPT !.phase = "uploading", !.doc = d] /\ worker[w] \in Claim
          BY <1>0, <4>2 DEF TypeOK
        <5> QED
          BY <5>1 DEF Claim
      <4> QED
        BY <2>5, <4>1, <4>2 DEF Render
    <3> QED
      BY <2>1, <2>5, <3>1 DEF Render
  <2>6. ASSUME NEW out \in Outcome, Complete(w, out) \/ Fail(w, out) PROVE EffectInv'
    <3>1. UNCHANGED effects /\ Busy(w) /\ worker[w].pack \in Packs
      BY <1>0, <2>6 DEF Complete, Fail, Busy, ClaimsTyped
    <3>2. CASE worker'[w].phase \notin ClosingPhase
      BY <2>1, <3>1, <3>2
    <3>3. CASE worker'[w].phase \in ClosingPhase
      <4>1. /\ out = "ok" /\ Owns(w)
            /\ Complete(w, out) => Goto(w, "auditing")
            /\ Fail(w, out) => Goto(w, "auditingFailure")
        BY <2>2, <2>3, <2>6, <3>3 DEF Complete, Fail, Phase
      <4>2. /\ Complete(w, out) => worker'[w].phase = "auditing"
            /\ Fail(w, out) => worker'[w].phase = "auditingFailure"
        BY <2>2, <4>1 DEF Phase
      <4>3. /\ job[worker[w].pack].status = "PROCESSING"
            /\ worker[w].attempt = job[worker[w].pack].attempts
            /\ pack[worker[w].pack].status = "GENERATING"
        BY <1>0, <3>1, <4>1, FenceInvOwns DEF OnlyLatestAttemptOwns, Owns, Matches, SafetyInv, PackFollowsJob
      <4>4. pack[worker[w].pack] \in PackRow /\ job[worker[w].pack] \in JobRow
        BY <1>0, <3>1 DEF TypeOK
      <4>5. /\ Complete(w, out) => pack'[worker[w].pack] = ReadyPack(pack[worker[w].pack], Doc(w))
            /\ Fail(w, out) => pack'[worker[w].pack] = FailedPack(pack[worker[w].pack])
        BY <1>0, <3>1, <4>1 DEF Complete, Fail, Applied, TypeOK
      <4>6. /\ Complete(w, out) => pack'[worker[w].pack].status = "READY"
            /\ Fail(w, out) => pack'[worker[w].pack].status = "FAILED"
        BY <4>4, <4>5 DEF ReadyPack, FailedPack, PackRow
      <4>7. job'[worker[w].pack].attempts = job[worker[w].pack].attempts
        <5>1. \/ job'[worker[w].pack] = SettledRow(job[worker[w].pack], "COMPLETED")
              \/ job'[worker[w].pack] = SettledRow(job[worker[w].pack], "FAILED")
          BY <1>0, <2>6, <3>1, <4>1 DEF Complete, Fail, Applied, TypeOK
        <5> QED
          BY <4>4, <5>1 DEF SettledRow, JobRow
      <4>8. worker'[w].pack = worker[w].pack /\ worker'[w].attempt = worker[w].attempt
        BY <2>0, <3>3 DEF Kept, Busy
      <4>9. \A e \in Effects : effects[worker[w].pack][e] = 0
        BY <3>1, <4>3 DEF EffectInv, Effects, ReadyEffects
      <4>10. Closing(w)'
        BY <2>6, <3>1, <4>2, <4>3, <4>6, <4>7, <4>8, <4>9 DEF Closing, Effects
      <4>11. \A x \in Workers \ {w} : Closing(x)'
        BY <1>0, <2>0, <3>1, ClosingStays
      <4> QED
        BY <3>1, <4>10, <4>11, EffectsStay DEF EffectInv
    <3> QED
      BY <3>2, <3>3
  <2>7. ASSUME NEW out \in Outcome, NEW e \in Effects, FollowUp(w, e, out),
               effects[worker[w].pack][e] = 0,
               \/ /\ worker[w].phase \in {"auditing", "notifying", "reconciling"} /\ e \in ReadyEffects
               \/ worker[w].phase = "auditingFailure" /\ e = "AUDIT_FAILED",
               Closing(w)'
        PROVE  EffectInv'
    BY <2>0, <2>7, FollowUpNext DEF EffectInv
  <2>8. ASSUME NEW out \in Outcome, AuditReady(w, out) \/ Notify(w, out) PROVE EffectInv'
    <3>1. PICK e \in {"AUDIT_READY", "NOTIFIED"} :
            /\ FollowUp(w, e, out)
            /\ \/ e = "AUDIT_READY" /\ worker[w].phase = "auditing" /\ Goto(w, "notifying")
               \/ /\ e = "NOTIFIED" /\ worker[w].phase = "notifying"
                  /\ Goto(w, "reconciling") \/ Goto(w, "handling")
      BY <2>8 DEF AuditReady, Notify
    <3>2. effects[worker[w].pack][e] = 0 /\ e \in Effects /\ e \in ReadyEffects
      BY <1>0, <3>1 DEF Closing, Effects, ReadyEffects
    <3>3. /\ worker'[w].phase = "notifying" => e = "AUDIT_READY"
          /\ worker'[w].phase \in {"notifying", "reconciling", "handling"}
      BY <2>2, <3>1 DEF Phase
    <3>4. Busy(w) /\ worker[w].pack \in Packs /\ UNCHANGED <<pack, job>>
      BY <1>0, <3>1 DEF Busy, ClaimsTyped, FollowUp
    <3>5. worker'[w].pack = worker[w].pack /\ worker'[w].attempt = worker[w].attempt
      BY <2>0, <3>3 DEF Kept, Busy
    <3>6. \A f \in Effects \ {e} : effects'[worker[w].pack][f] = effects[worker[w].pack][f]
      BY <2>0, <3>1, <3>2, FollowUpNext
    <3>7. Closing(w)'
      BY <1>0, <3>1, <3>3, <3>4, <3>5, <3>6 DEF Closing, Effects
    <3> QED
      BY <2>7, <3>1, <3>2, <3>7
  <2>9. ASSUME NEW out \in Outcome, Reconcile(w, out) \/ AuditFailure(w, out) PROVE EffectInv'
    <3>1. PICK e \in {"RECONCILED", "AUDIT_FAILED"} :
            /\ FollowUp(w, e, out)
            /\ \/ e = "RECONCILED" /\ worker[w].phase = "reconciling"
               \/ e = "AUDIT_FAILED" /\ worker[w].phase = "auditingFailure"
            /\ Release(w, "leasing")
      BY <2>9 DEF Reconcile, AuditFailure
    <3>2. effects[worker[w].pack][e] = 0 /\ e \in Effects /\ (e = "RECONCILED" => e \in ReadyEffects)
      BY <1>0, <3>1 DEF Closing, Effects, ReadyEffects
    <3>3. Closing(w)'
      BY <2>3, <3>1 DEF Closing
    <3> QED
      BY <2>7, <3>1, <3>2, <3>3
  <2> QED
    BY <1>7, <2>4, <2>5, <2>6, <2>8, <2>9 DEF PollStep
<1> QED
  BY <1>2, <1>3, <1>4, <1>5, <1>6, <1>7 DEF Next

LEMMA EffectsKept == Spec => []EffectInv
<1>1. Init => EffectInv
  BY DEF Init, EffectInv, Closing, Unclaimed, Effects, ReadyEffects
<1> QED
  BY <1>1, EffectNext, Uniqueness, Safety, PTL DEF Spec

\* No follow-up of a settlement is repeated, and none is sent for an outcome the
\* pack does not have.
THEOREM EffectsHappenOnce == Spec => []EffectsFollowOutcome
<1>1. EffectInv => EffectsFollowOutcome
  <2> SUFFICES ASSUME EffectInv, NEW p \in Packs
               PROVE  /\ \A e \in Effects : effects[p][e] <= 1
                      /\ \A e \in ReadyEffects : effects[p][e] = 1 => pack[p].status = "READY"
                      /\ effects[p]["AUDIT_FAILED"] = 1 => pack[p].status = "FAILED"
    BY DEF EffectsFollowOutcome, ReadyEffects
  <2>1. \A e \in Effects : effects[p][e] \in {0, 1}
    BY DEF EffectInv
  <2> QED
    BY <2>1 DEF EffectInv
<1> QED
  BY <1>1, EffectsKept, PTL

-----------------------------------------------------------------------------
(* How many attempts a job can have *)

Bound == MaxAttempts + faults + renewals

\* w has the lease of p, and no heartbeat of its claim is under way that could
\* move the lease before it settles: only a fault or a heartbeat can make
\* another attempt at p.
Sure(w, p) ==
    /\ Holds(w, p) /\ Owns(w)
    /\ ~(renewal[w].state # "none" /\ renewal[w].pack = p /\ renewal[w].attempt = worker[w].attempt)

\* A process that is down works on nothing.
DownInv == \A w \in Workers : worker[w].mode = "down" => worker[w].phase = "idle"

Bounded(p) ==
    /\ job[p].attempts <= Bound
    /\ job[p].status = "PROCESSING" /\ (\A w \in Workers : ~Sure(w, p)) => job[p].attempts < Bound

BoundInv == \A p \in Packs : Bounded(p)

LEMMA Sums ==
    ASSUME NEW m \in Nat, NEW f \in Nat, NEW r \in Nat, NEW f1 \in Nat, NEW r1 \in Nat
    PROVE  /\ m + f + r \in Nat
           /\ f + r < f1 + r1 => m + f + r < m + f1 + r1
           /\ f <= f1 /\ r <= r1 => m + f + r <= m + f1 + r1
OBVIOUS

LEMMA BoundAfter ==
    ASSUME TypeInv, [Next]_vars
    PROVE  /\ Bound \in Nat /\ Bound' \in Nat /\ Bound <= Bound'
           /\ faults + renewals < faults' + renewals' => Bound < Bound'
           /\ Bound = MaxAttempts + faults + renewals
           /\ Bound' = MaxAttempts + faults' + renewals'
<1>1. MaxAttempts \in Nat /\ faults \in Nat /\ renewals \in Nat /\ faults' \in Nat /\ renewals' \in Nat
      /\ faults <= faults' /\ renewals <= renewals'
  BY CountersGrow, AttemptsAssumption
<1>2. Bound = MaxAttempts + faults + renewals
  BY DEF Bound
<1>3. Bound' = MaxAttempts + faults' + renewals'
  BY DEF Bound
<1> QED
  BY <1>1, <1>2, <1>3, Sums

LEMMA DownNext ==
    ASSUME TypeInv, DownInv, [Next]_vars
    PROVE  DownInv'
<1> USE DEF budget, store
<1>0. TypeOK
  BY DEF TypeInv
<1>1. UNCHANGED worker => DownInv'
  BY DEF DownInv
<1>2. ASSUME NEW w \in Workers, worker[w].phase # "idle" \/ worker[w].mode # "down",
             worker'[w].mode = worker[w].mode,
             \A x \in Workers \ {w} : worker'[x] = worker[x]
      PROVE  DownInv'
  BY <1>2 DEF DownInv
<1>3. ASSUME NEW w \in Workers, NEW phase \in Phase, Goto(w, phase)
      PROVE  worker'[w].mode = worker[w].mode /\ \A x \in Workers \ {w} : worker'[x] = worker[x]
  BY <1>0, <1>3, GotoFrame
<1>4. ASSUME NEW w \in Workers, NEW phase \in {"idle", "leasing"}, Release(w, phase)
      PROVE  worker'[w].mode = worker[w].mode /\ \A x \in Workers \ {w} : worker'[x] = worker[x]
  <2>1. worker' = [worker EXCEPT ![w] = Unclaimed(worker[w].mode, phase)]
    BY <1>4 DEF Release
  <2> QED
    BY <1>0, <2>1 DEF TypeOK, Unclaimed
<1>5. ASSUME NEW w \in Workers, LeaseNextJob(w, "ok") PROVE DownInv'
  <2>1. PICK p \in Packs :
          worker' = [worker EXCEPT ![w] =
                [@ EXCEPT !.phase = "rendering", !.pack = p,
                          !.attempt = job[p].attempts + 1, !.token = clock[w] + LeaseMs]]
    BY <1>5 DEF LeaseNextJob
  <2>2. worker'[w] = [worker[w] EXCEPT !.phase = "rendering", !.pack = p,
                         !.attempt = job[p].attempts + 1, !.token = clock[w] + LeaseMs]
        /\ worker[w] \in Claim /\ \A x \in Workers \ {w} : worker'[x] = worker[x]
    BY <1>0, <2>1 DEF TypeOK
  <2>3. worker'[w].mode = worker[w].mode
    BY <2>2 DEF Claim
  <2> QED
    BY <1>2, <1>5, <2>2, <2>3 DEF LeaseNextJob
<1>6. ASSUME NEW w \in Workers, NEW out \in Outcome \ {"ok"}, LeaseNextJob(w, out) PROVE DownInv'
  BY <1>2, <1>3, <1>6 DEF LeaseNextJob, Phase
<1>7. ASSUME NEW w \in Workers, Render(w) PROVE DownInv'
  <2>1. CASE Goto(w, "handling")
    BY <1>2, <1>3, <1>7, <2>1 DEF Render, Phase
  <2>2. ASSUME NEW d \in Renderings,
               worker' = [worker EXCEPT ![w] = [@ EXCEPT !.phase = "uploading", !.doc = d]]
        PROVE  DownInv'
    <3>1. worker'[w] = [worker[w] EXCEPT !.phase = "uploading", !.doc = d]
          /\ worker[w] \in Claim /\ \A x \in Workers \ {w} : worker'[x] = worker[x]
      BY <1>0, <2>2 DEF TypeOK
    <3>2. worker'[w].mode = worker[w].mode
      BY <3>1 DEF Claim
    <3> QED
      BY <1>2, <1>7, <3>1, <3>2 DEF Render
  <2> QED
    BY <1>7, <2>1, <2>2 DEF Render
<1>8. ASSUME NEW w \in Workers, NEW out \in Outcome,
             \/ PollTick(w) \/ LeaseNone(w) \/ Upload(w, out) \/ Complete(w, out) \/ AuditReady(w, out)
             \/ Notify(w, out) \/ Reconcile(w, out) \/ Requeue(w, out) \/ Fail(w, out)
             \/ AuditFailure(w, out)
      PROVE  DownInv'
  <2>1. /\ worker[w].phase # "idle" \/ worker[w].mode # "down"
        /\ (\E phase \in Phase : Goto(w, phase)) \/ \E phase \in {"idle", "leasing"} : Release(w, phase)
    BY <1>8 DEF PollTick, LeaseNone, Upload, Complete, AuditReady, Notify, Reconcile, Requeue, Fail,
       AuditFailure, Phase
  <2> QED
    BY <1>2, <1>3, <1>4, <2>1
<1>9. ASSUME NEW w \in Workers, PollStep(w) PROVE DownInv'
  BY <1>5, <1>6, <1>7, <1>8, <1>9 DEF PollStep
<1>10. ASSUME NEW w \in Workers, RenewalStep(w) PROVE DownInv'
  BY <1>10, RenewalKeeps DEF DownInv
<1>11. ASSUME NEW w \in Workers, ProcessStep(w) PROVE DownInv'
  <2>1. CASE Crash(w) \/ Stopped(w) \/ Restart(w)
    BY <1>0, <2>1 DEF Crash, Stopped, Restart, Unclaimed, DownInv, TypeOK
  <2>2. CASE Shutdown(w)
    <3>1. worker'[w] = [worker[w] EXCEPT !.mode = "draining"] /\ worker[w] \in Claim
          /\ \A x \in Workers \ {w} : worker'[x] = worker[x]
      BY <1>0, <2>2 DEF Shutdown, TypeOK
    <3>2. worker'[w].mode = "draining"
      BY <3>1 DEF Claim
    <3> QED
      BY <3>1, <3>2 DEF DownInv
  <2>3. CASE Tick(w)
    BY <1>1, <2>3 DEF Tick
  <2> QED
    BY <1>11, <2>1, <2>2, <2>3 DEF ProcessStep
<1>12. ASSUME NEW p \in Packs, ReadVersion(p) \/ \E w \in Workers : Enqueue(p, w) PROVE DownInv'
  BY <1>1, <1>12 DEF ReadVersion, Enqueue
<1>13. UNCHANGED vars => DownInv'
  BY <1>1 DEF vars
<1> QED
  BY <1>9, <1>10, <1>11, <1>12, <1>13 DEF Next

\* A process that is sure of p keeps its place while the row and its own claim
\* and heartbeat stay.
LEMMA SureStays ==
    ASSUME SafetyInv, NEW x \in Workers, NEW p \in Packs, Sure(x, p), job'[p] = job[p],
           worker'[x] = worker[x],
           renewal'[x].state # "none" =>
               /\ renewal[x].state # "none"
               /\ renewal'[x].pack = renewal[x].pack /\ renewal'[x].attempt = renewal[x].attempt
    PROVE  Sure(x, p)'
BY DEF Sure, Holds, Owns, Matches, Busy

\* More faults or heartbeats than before leave room for one more attempt.
LEMMA BoundGrows ==
    ASSUME SafetyInv, BoundInv, [Next]_vars, NEW p \in Packs, faults + renewals < faults' + renewals',
           job'[p].attempts <= job[p].attempts
    PROVE  Bounded(p)'
<1>1. /\ faults \in Nat /\ renewals \in Nat /\ faults' \in Nat /\ renewals' \in Nat
      /\ MaxAttempts \in Nat /\ job[p].attempts \in Nat /\ job'[p].attempts \in Nat
  <2>1. TypeInv /\ TypeInv'
    BY TypeNext DEF SafetyInv
  <2> QED
    BY <2>1, AttemptsAssumption DEF TypeInv, TypeOK, JobRow
<1>2. job[p].attempts <= Bound
  BY DEF BoundInv, Bounded
<1>3. Bound \in Nat /\ Bound' \in Nat /\ Bound < Bound'
  BY <1>1, BoundAfter DEF SafetyInv
<1>4. job'[p].attempts < Bound' /\ job'[p].attempts <= Bound'
  BY <1>1, <1>2, <1>3
<1> QED
  BY <1>4 DEF Bounded

\* No more attempts, and whoever was sure of a job still processed still is.
LEMMA BoundStays ==
    ASSUME SafetyInv, BoundInv, [Next]_vars, NEW p \in Packs,
           job'[p].attempts <= job[p].attempts,
           job'[p].status = "PROCESSING" =>
               /\ job[p].status = "PROCESSING"
               /\ (\A x \in Workers : ~Sure(x, p)') => \A x \in Workers : ~Sure(x, p)
    PROVE  Bounded(p)'
<1>1. /\ faults \in Nat /\ renewals \in Nat /\ faults' \in Nat /\ renewals' \in Nat
      /\ job[p].attempts \in Nat /\ job'[p].attempts \in Nat
      /\ Bound \in Nat /\ Bound' \in Nat /\ Bound <= Bound'
  <2>1. TypeInv /\ TypeInv'
    BY TypeNext DEF SafetyInv
  <2> QED
    BY <2>1, BoundAfter DEF TypeInv, TypeOK, JobRow
<1>2. Bounded(p)
  BY DEF BoundInv
<1>3. job'[p].attempts <= Bound'
  BY <1>1, <1>2 DEF Bounded
<1>4. ASSUME job'[p].status = "PROCESSING", \A w \in Workers : ~Sure(w, p)'
      PROVE  job'[p].attempts < Bound'
  <2>1. job[p].attempts < Bound
    BY <1>2, <1>4 DEF Bounded
  <2> QED
    BY <1>1, <2>1
<1> QED
  BY <1>3, <1>4 DEF Bounded

\* A poll that takes no job changes at most the row of its claim, and settles it
\* or puts it back.
LEMMA PollRows ==
    ASSUME TypeInv, NEW w \in Workers, PollStep(w), \A out \in Outcome : ~LeaseNextJob(w, out)
    PROVE  \A q \in Packs :
              \/ job'[q] = job[q]
              \/ /\ q = worker[w].pack /\ job'[q].status # "PROCESSING"
                 /\ job'[q].attempts = job[q].attempts
<1> USE DEF budget, store
<1>0. TypeOK /\ ClaimsTyped /\ worker[w] \in Claim
  BY DEF TypeInv, TypeOK
<1>1. ASSUME NEW out \in Outcome, Complete(w, out) \/ Fail(w, out) \/ Requeue(w, out), ~UNCHANGED job
      PROVE  /\ worker[w].pack \in Packs
             /\ \A q \in Packs \ {worker[w].pack} : job'[q] = job[q]
             /\ job'[worker[w].pack].status # "PROCESSING"
             /\ job'[worker[w].pack].attempts = job[worker[w].pack].attempts
  <2>1. PICK p \in Packs : p = worker[w].pack /\ job[p] \in JobRow
    BY <1>0, <1>1 DEF Complete, Fail, Requeue, ClaimsTyped, Busy, TypeOK
  <2>2. \/ job' = [job EXCEPT ![p] = SettledRow(job[p], "COMPLETED")]
        \/ job' = [job EXCEPT ![p] = SettledRow(job[p], "FAILED")]
        \/ \E t : job' = [job EXCEPT ![p] = RequeuedRow(job[p], t)]
    BY <1>1, <2>1 DEF Complete, Fail, Requeue
  <2>3. /\ SettledRow(job[p], "COMPLETED").status = "COMPLETED"
        /\ SettledRow(job[p], "FAILED").status = "FAILED"
        /\ SettledRow(job[p], "COMPLETED").attempts = job[p].attempts
        /\ SettledRow(job[p], "FAILED").attempts = job[p].attempts
        /\ \A t : RequeuedRow(job[p], t).status = "QUEUED"
        /\ \A t : RequeuedRow(job[p], t).attempts = job[p].attempts
    BY <2>1 DEF SettledRow, RequeuedRow, JobRow
  <2> QED
    BY <1>0, <2>1, <2>2, <2>3 DEF TypeOK
<1>2. ASSUME NEW out \in Outcome,
             \/ PollTick(w) \/ LeaseNone(w) \/ Render(w) \/ Upload(w, out)
             \/ AuditReady(w, out) \/ Notify(w, out) \/ Reconcile(w, out) \/ AuditFailure(w, out)
      PROVE  UNCHANGED job
  BY <1>2 DEF PollTick, LeaseNone, Render, Upload, AuditReady, Notify, Reconcile,
     AuditFailure, FollowUp
<1> QED
  BY <1>1, <1>2 DEF PollStep

\* Only a fault makes a process give up a job it is sure of.
LEMMA PollSure ==
    ASSUME SafetyInv, EffectInv, NEW w \in Workers, NEW q \in Packs, Sure(w, q),
           PollStep(w), \A out \in Outcome : ~LeaseNextJob(w, out),
           ~(faults + renewals < faults' + renewals'), job'[q].status = "PROCESSING"
    PROVE  Busy(w)'
<1>0. /\ TypeInv /\ TypeOK /\ Busy(w) /\ worker[w].pack = q /\ Owns(w)
      /\ job[q].status = "PROCESSING" /\ faults \in Nat /\ renewals \in Nat
  BY DEF SafetyInv, TypeInv, TypeOK, Sure, Holds, Owns, Matches
<1>1. ASSUME NEW out \in Outcome, Spend(Cost(out # "ok")) PROVE out = "ok"
  BY <1>0, <1>1 DEF Spend, Cost
<1>2. pack[q].status \notin {"READY", "FAILED"}
  BY <1>0 DEF SafetyInv, PackFollowsJob
<1>3. worker[w].phase \notin {"auditing", "notifying", "reconciling", "auditingFailure"}
  BY <1>0, <1>2 DEF EffectInv, Closing
<1>4. ASSUME NEW phase \in BusyPhase, Goto(w, phase) PROVE Busy(w)'
  BY <1>0, <1>4, GotoFrame DEF Phase, Busy
<1>5. ASSUME NEW out \in Outcome, Complete(w, out) \/ Fail(w, out) \/ Requeue(w, out) PROVE FALSE
  <2>1. out = "ok"
    BY <1>1, <1>5 DEF Complete, Fail, Requeue
  <2>2. \/ job'[q] = SettledRow(job[q], "COMPLETED")
        \/ job'[q] = SettledRow(job[q], "FAILED")
        \/ \E t : job'[q] = RequeuedRow(job[q], t)
    BY <1>0, <1>5, <2>1 DEF Complete, Fail, Requeue, Applied, TypeOK
  <2>3. job[q] \in JobRow
    BY <1>0 DEF TypeOK
  <2> QED
    BY <2>2, <2>3 DEF SettledRow, RequeuedRow, JobRow
<1>6. ASSUME NEW out \in Outcome, Upload(w, out) PROVE Busy(w)'
  BY <1>4, <1>6 DEF Upload
<1>7. ASSUME Render(w) PROVE Busy(w)'
  <2>1. CASE Goto(w, "handling")
    BY <1>4, <2>1
  <2>2. ASSUME NEW d \in Renderings,
               worker' = [worker EXCEPT ![w] = [@ EXCEPT !.phase = "uploading", !.doc = d]]
        PROVE  Busy(w)'
    <3>1. worker'[w] = [worker[w] EXCEPT !.phase = "uploading", !.doc = d] /\ worker[w] \in Claim
      BY <1>0, <2>2 DEF TypeOK
    <3> QED
      BY <3>1 DEF Claim, Busy
  <2> QED
    BY <1>7, <2>1, <2>2 DEF Render
<1>8. ASSUME NEW out \in Outcome,
             \/ PollTick(w) \/ LeaseNone(w)
             \/ AuditReady(w, out) \/ Notify(w, out) \/ Reconcile(w, out) \/ AuditFailure(w, out)
      PROVE  FALSE
  BY <1>0, <1>3, <1>8 DEF PollTick, LeaseNone, AuditReady, Notify, Reconcile, AuditFailure, Busy
<1> QED
  BY <1>5, <1>6, <1>7, <1>8 DEF PollStep

LEMMA BoundNext ==
    ASSUME SafetyInv, RetryInv, EffectInv, UniqueInv, DownInv, BoundInv, [Next]_vars
    PROVE  BoundInv'
<1> SUFFICES ASSUME NEW p \in Packs PROVE Bounded(p)'
  BY DEF BoundInv
<1>0. TypeInv /\ TypeOK /\ ClaimsTyped /\ job[p] \in JobRow /\ job[p].attempts \in Nat
  BY DEF SafetyInv, TypeInv, TypeOK, JobRow
<1>1. ASSUME job'[p] = job[p], \A x \in Workers : Sure(x, p) => Sure(x, p)'
      PROVE  Bounded(p)'
  <2>1. (\A x \in Workers : ~Sure(x, p)') => \A x \in Workers : ~Sure(x, p)
    BY <1>1
  <2>2. job'[p].attempts <= job[p].attempts
    BY <1>0, <1>1
  <2> QED
    BY <1>1, <2>1, <2>2, BoundStays
<1>2. ASSUME UNCHANGED <<job, worker>>, \A x \in Workers : Resting(x) PROVE Bounded(p)'
  <2>1. \A x \in Workers : Sure(x, p) => Sure(x, p)'
    BY <1>2, SureStays DEF Resting
  <2> QED
    BY <1>1, <1>2, <2>1
<1>3. ASSUME NEW q \in Packs, ReadVersion(q) \/ \E y \in Workers : Enqueue(q, y) PROVE Bounded(p)'
  <2>1. UNCHANGED <<worker, renewal>>
    BY <1>3 DEF ReadVersion, Enqueue
  <2>2. CASE job'[p] = job[p]
    BY <1>1, <2>1, <2>2, SureStays
  <2>3. CASE job'[p] # job[p]
    <3>1. \E t : job'[p] = QueuedRow(t)
      BY <1>0, <1>3, <2>3 DEF ReadVersion, Enqueue, TypeOK
    <3>2. job'[p].status = "QUEUED" /\ job'[p].attempts = 0
      BY <3>1 DEF QueuedRow
    <3> QED
      BY <1>0, <3>2, BoundStays
  <2> QED
    BY <2>2, <2>3
<1>4. ASSUME UNCHANGED vars PROVE Bounded(p)'
  BY <1>2, <1>4 DEF vars, Resting
<1>5. ASSUME NEW y \in Workers, Heartbeat(y) \/ RenewLost(y) \/ Crash(y) \/ Shutdown(y) PROVE Bounded(p)'
  <2>1. UNCHANGED job /\ faults + renewals < faults' + renewals'
    BY <1>0, <1>5 DEF Heartbeat, RenewLost, Crash, Shutdown, Spend, store, TypeOK
  <2> QED
    BY <1>0, <2>1, BoundGrows
<1>6. ASSUME NEW y \in Workers, RenewReply(y) PROVE Bounded(p)'
  <2>1. UNCHANGED job /\ (\A x \in Workers : Resting(x))
        /\ \A x \in Workers \ {y} : worker'[x] = worker[x]
    <3>1. Sent(y) => FALSE
      BY <1>6 DEF RenewReply, Sent
    <3>2. RenewalStep(y)
      BY <1>6 DEF RenewalStep
    <3> QED
      BY <1>0, <1>6, <3>1, <3>2, RenewalKeeps DEF RenewReply, store, Resting
  <2>2. Sure(y, p) => worker'[y] = worker[y]
    BY <1>6 DEF RenewReply, Sure, Holds
  <2>3. \A x \in Workers : Sure(x, p) => Sure(x, p)'
    BY <2>1, <2>2, SureStays DEF Resting
  <2> QED
    BY <1>1, <2>1, <2>3
<1>7. ASSUME NEW y \in Workers, RenewApply(y) PROVE Bounded(p)'
  <2>1. UNCHANGED worker /\ renewal[y].state = "sent" /\ renewal[y].pack \in Packs
        /\ \A x \in Workers : Resting(x)
    <3>1. RenewalStep(y) /\ ~Sent(y)
      BY <1>7 DEF RenewalStep, RenewApply, Sent
    <3> QED
      BY <1>0, <1>7, <3>1, RenewalKeeps DEF RenewApply, Resting, ClaimsTyped
  <2>2. CASE ~Matches(renewal[y].pack, renewal[y].expected)
    BY <1>2, <1>7, <2>1, <2>2 DEF RenewApply
  <2>3. CASE Matches(renewal[y].pack, renewal[y].expected)
    <3>1. job' = [job EXCEPT ![renewal[y].pack].lease = renewal[y].new]
      BY <1>7, <2>3 DEF RenewApply
    <3>2. CASE renewal[y].pack # p
      <4>1. job'[p] = job[p]
        BY <1>0, <3>1, <3>2 DEF TypeOK
      <4> QED
        BY <1>1, <2>1, <4>1, SureStays DEF Resting
    <3>3. CASE renewal[y].pack = p
      <4>1. renewal[y].attempt = job[p].attempts
        BY <2>1, <2>3, <3>3, AppliedIsLatest
      <4>2. \A x \in Workers : ~Sure(x, p)
        BY <2>1, <3>3, <4>1 DEF Sure, Holds, UniqueInv
      <4>3. job'[p] = [job[p] EXCEPT !.lease = renewal[y].new]
        BY <1>0, <3>1, <3>3 DEF TypeOK
      <4>4. job'[p].attempts = job[p].attempts /\ job'[p].status = job[p].status
        BY <1>0, <4>3 DEF JobRow
      <4> QED
        BY <1>0, <4>2, <4>4, BoundStays
    <3> QED
      BY <3>2, <3>3
  <2> QED
    BY <2>2, <2>3
<1>8. ASSUME NEW y \in Workers, Stopped(y) \/ Restart(y) \/ Tick(y) PROVE Bounded(p)'
  <2>1. UNCHANGED <<job, renewal>> /\ (\A x \in Workers \ {y} : worker'[x] = worker[x])
        /\ (worker'[y] = worker[y] \/ ~Busy(y))
    BY <1>0, <1>8 DEF Stopped, Restart, Tick, store, DownInv, Busy, TypeOK
  <2>2. \A x \in Workers : Sure(x, p) => Sure(x, p)'
    BY <2>1, SureStays DEF Sure, Holds
  <2> QED
    BY <1>1, <2>1, <2>2
<1>9. ASSUME NEW y \in Workers, PollStep(y), \A out \in Outcome : ~LeaseNextJob(y, out)
      PROVE  Bounded(p)'
  <2>1. /\ KeptToken(y) /\ UNCHANGED renewal /\ \A x \in Workers \ {y} : worker'[x] = worker[x]
        /\ \/ job'[p] = job[p]
           \/ job'[p].status # "PROCESSING" /\ job'[p].attempts = job[p].attempts
    BY <1>0, <1>9, PollKeeps, PollRows
  <2>2. job'[p].attempts <= job[p].attempts
    BY <1>0, <2>1
  <2>3. CASE faults + renewals < faults' + renewals'
    BY <2>2, <2>3, BoundGrows
  <2>4. CASE ~(faults + renewals < faults' + renewals')
    <3>1. CASE job'[p].status # "PROCESSING"
      BY <2>2, <3>1, BoundStays
    <3>2. CASE job'[p].status = "PROCESSING"
      <4>1. job'[p] = job[p]
        BY <2>1, <3>2
      <4>2. ASSUME Sure(y, p) PROVE Sure(y, p)'
        <5>1. Busy(y)'
          BY <1>9, <2>4, <3>2, <4>2, PollSure
        <5> QED
          BY <2>1, <4>1, <4>2, <5>1 DEF KeptToken, Kept, Sure, Holds, Owns, Matches
      <4>3. \A x \in Workers : Sure(x, p) => Sure(x, p)'
        BY <2>1, <4>1, <4>2, SureStays
      <4> QED
        BY <1>1, <4>1, <4>3
    <3> QED
      BY <3>1, <3>2
  <2> QED
    BY <2>3, <2>4
<1>10. ASSUME NEW y \in Workers, NEW out \in Outcome, LeaseNextJob(y, out) PROVE Bounded(p)'
  <2>1. PICK q \in Packs :
          /\ Due(q, clock[y])
          /\ Spend(Cost(out # "ok") + Cost(\E x \in Workers : Holds(x, q)))
          /\ job' = IF Applied(out) THEN [job EXCEPT ![q] = LeasedRow(@, clock[y])] ELSE job
    BY <1>10 DEF LeaseNextJob
  <2>2. faults \in Nat /\ renewals \in Nat /\ renewals' = renewals /\ Bound \in Nat /\ Bound' \in Nat
    BY <1>0, <2>1, BoundAfter DEF Spend, TypeOK
  <2>3. CASE job'[p] = job[p]
    <3>1. CASE out # "ok"
      <4>1. faults + renewals < faults' + renewals'
        BY <2>1, <2>2, <3>1 DEF Spend, Cost
      <4> QED
        BY <1>0, <2>3, <4>1, BoundGrows
    <3>2. CASE out = "ok"
      <4>1. PICK r \in Packs : Taken(y, r)
        BY <1>0, <1>10, <3>2, LeaseTakes
      <4>2. \A x \in Workers : Sure(x, p) => Sure(x, p)'
        <5>1. ~Busy(y)
          BY <4>1 DEF Taken, Busy
        <5> QED
          BY <2>3, <4>1, <5>1, SureStays DEF Taken, Sure, Holds
      <4> QED
        BY <1>1, <2>3, <4>2
    <3> QED
      BY <3>1, <3>2
  <2>4. CASE job'[p] # job[p]
    <3>1. p = q /\ Applied(out) /\ job'[p] = LeasedRow(job[p], clock[y])
      BY <1>0, <2>1, <2>4 DEF TypeOK
    <3>2. job'[p].attempts = job[p].attempts + 1 /\ job'[p].status = "PROCESSING"
      BY <1>0, <3>1 DEF LeasedRow, JobRow
    <3>3. job[p].attempts <= Bound
      BY DEF BoundInv, Bounded
    <3>4. ASSUME \A x \in Workers : ~Holds(x, p) PROVE job[p].attempts < Bound
      <4>1. CASE job[p].status = "QUEUED"
        BY <1>0, <2>2, <4>1, AttemptsAssumption DEF RetryInv, Bound
      <4>2. CASE job[p].status = "PROCESSING"
        BY <3>4, <4>2 DEF BoundInv, Bounded, Sure
      <4> QED
        BY <2>1, <3>1, <4>1, <4>2 DEF Due
    <3>5. job[p].attempts + 1 <= Bound + Cost(\E x \in Workers : Holds(x, p))
      BY <1>0, <2>2, <3>3, <3>4 DEF Cost
    <3>6. Bound' = Bound + Cost(out # "ok") + Cost(\E x \in Workers : Holds(x, p))
      BY <1>0, <2>1, <2>2, <3>1, BoundAfter, AttemptsAssumption DEF Spend, Cost
    <3>7. job'[p].attempts <= Bound'
      BY <1>0, <2>2, <3>2, <3>5, <3>6 DEF Cost
    <3>8. CASE out # "ok"
      BY <1>0, <2>2, <3>2, <3>5, <3>6, <3>7, <3>8 DEF Bounded, Cost
    <3>9. CASE out = "ok"
      <4>1. PICK r \in Packs : Taken(y, r)
        BY <1>0, <1>10, <3>9, LeaseTakes
      <4>2. r = p
        BY <2>4, <4>1 DEF Taken
      <4>3. Sure(y, p)'
        BY <4>1, <4>2, AttemptsStarted, <1>0 DEF Taken, Sure, Holds, Owns, Matches, Busy
      <4> QED
        BY <3>7, <4>3 DEF Bounded
    <3> QED
      BY <3>8, <3>9
  <2> QED
    BY <2>3, <2>4
<1> QED
  BY <1>3, <1>4, <1>5, <1>6, <1>7, <1>8, <1>9, <1>10 DEF Next, RenewalStep, ProcessStep

LEMMA Downs == Spec => []DownInv
<1>1. Init => DownInv
  BY DEF Init, DownInv, Unclaimed
<1>2. SafetyInv => TypeInv
  BY DEF SafetyInv
<1> QED
  BY <1>1, <1>2, DownNext, Safety, PTL DEF Spec

LEMMA Bounds == Spec => []BoundInv
<1>1. Init => BoundInv
  <2> SUFFICES ASSUME Init, NEW p \in Packs PROVE Bounded(p)
    BY DEF BoundInv
  <2>1. job[p].attempts = 0 /\ job[p].status = "ABSENT" /\ faults = 0 /\ renewals = 0
    BY DEF Init
  <2> QED
    BY <2>1, AttemptsAssumption DEF Bounded, Bound
<1>2. Spec => []RetryInv
  BY RetryInit, RetryNext, Safety, PTL DEF Spec
<1> QED
  BY <1>1, <1>2, BoundNext, Safety, EffectsKept, Uniqueness, Downs, PTL DEF Spec

\* Retries are bounded by the configured attempts, one more for each fault and
\* for each heartbeat; and none is left unused.
THEOREM RetriesAreCounted == Spec => []AttemptsAreCounted
<1>1. BoundInv => ExtraAttemptsNeedFaults
  BY DEF BoundInv, Bounded, Bound, ExtraAttemptsNeedFaults
<1>2. RetriesBeforeGivingUp /\ ExtraAttemptsNeedFaults => AttemptsAreCounted
  BY DEF AttemptsAreCounted
<1> QED
  BY <1>1, <1>2, Bounds, RetriesAreUsedUp, PTL

-----------------------------------------------------------------------------
(* The stored document *)

\* The phases in which a process may still write its document.
Early == {"rendering", "uploading", "completing"}

Rival(p) ==
    \E q \in Packs \ {p} :
        Inserted(q) /\ KeyOf[q] = KeyOf[p] /\ pack[q].version = pack[p].version

Stored(p, doc) == Path(p) \in DOMAIN objects /\ objects[Path(p)] = doc

\* While a pack has no rival and one attempt, what its process uploaded stays
\* where it is until and after the pack is READY.
StoredInv ==
    \A p \in Packs :
        job[p].attempts <= 1 /\ ~Rival(p) =>
            /\ \A w \in Workers :
                  worker[w].phase = "completing" /\ worker[w].pack = p => Stored(p, Doc(w))
            /\ pack[p].status = "READY" =>
                  /\ Stored(p, pack[p].hash)
                  /\ \A w \in Workers : worker[w].phase \in Early => worker[w].pack # p

\* A pack keeps its version, and its job the attempts it had.
LEMMA InsertedStays ==
    ASSUME SafetyInv, [Next]_vars, NEW p \in Packs, Inserted(p)
    PROVE  /\ Inserted(p)' /\ pack'[p].version = pack[p].version
           /\ job'[p].attempts <= 1 => job[p].attempts <= 1
<1>1. RowStep(p) /\ pack[p] \in PackRow /\ job[p] \in JobRow
  BY RowSteps DEF SafetyInv, TypeInv, TypeOK
<1>2. ~Enqueued(p)
  BY DEF Enqueued, Inserted
<1>3. CASE Unmoved(p) \/ Leased(p) \/ \E w \in Workers : Requeued(p, w)
  BY <1>1, <1>3 DEF Unmoved, Leased, Requeued, LatestAttempt, Inserted, JobRow
<1>4. CASE \E w \in Workers : Completed(p, w) \/ Failed(p, w)
  BY <1>1, <1>4 DEF Completed, Failed, LatestAttempt, ReadyPack, FailedPack, Inserted, PackRow
<1> QED
  BY <1>1, <1>2, <1>3, <1>4 DEF RowStep

LEMMA RivalStays ==
    ASSUME SafetyInv, [Next]_vars, NEW p \in Packs, Inserted(p), Rival(p)
    PROVE  Rival(p)'
BY InsertedStays DEF Rival

\* A process works on packs that were inserted.
LEMMA BusyInserted ==
    ASSUME SafetyInv, NEW w \in Workers, Busy(w)
    PROVE  worker[w].pack \in Packs /\ Inserted(worker[w].pack)
BY AttemptsStarted DEF SafetyInv, PackFollowsJob, Inserted

\* A job with one attempt has one process working on it.
LEMMA OneAttemptOneProcess ==
    ASSUME SafetyInv, UniqueInv, NEW w \in Workers, NEW x \in Workers, Busy(w), Busy(x),
           worker[w].pack = worker[x].pack, job[worker[w].pack].attempts <= 1
    PROVE  w = x
<1>1. worker[w].attempt = 1 /\ worker[x].attempt = 1
  BY AttemptsStarted
<1> QED
  BY <1>1 DEF UniqueInv

\* What a process in an early phase was doing before.
From(x) ==
    worker'[x].phase \in Early =>
        \/ /\ worker[x].phase \in Early /\ worker'[x].pack = worker[x].pack
           /\ worker'[x].phase = "completing" =>
                 worker[x].phase = "completing" /\ worker'[x].doc = worker[x].doc
        \/ worker'[x].phase = "rendering" /\ \E r \in Packs : Taken(x, r)

\* Everything but an upload or a completion leaves the objects alone, makes no
\* pack READY and starts no completion.
LEMMA OtherSteps ==
    ASSUME SafetyInv, [Next]_vars,
           \A w \in Workers, out \in Outcome : ~Upload(w, out) /\ ~Complete(w, out)
    PROVE  /\ UNCHANGED objects
           /\ \A p \in Packs : pack'[p].status = "READY" => pack'[p] = pack[p]
           /\ \A x \in Workers : From(x)
<1> USE DEF budget, store
<1>0. TypeInv /\ TypeOK /\ ClaimsTyped
  BY DEF SafetyInv, TypeInv
<1>1. ASSUME UNCHANGED worker PROVE \A x \in Workers : From(x)
  BY <1>1 DEF From
<1>2. ASSUME NEW w \in Workers, worker'[w].phase \notin Early,
             \A x \in Workers \ {w} : worker'[x] = worker[x]
      PROVE  \A x \in Workers : From(x)
  BY <1>2 DEF From
<1>3. ASSUME NEW p \in Packs, NEW w \in Workers, Enqueue(p, w)
      PROVE  UNCHANGED <<objects, worker>> /\ \A q \in Packs : pack'[q].status = "READY" => pack'[q] = pack[q]
  BY <1>0, <1>3 DEF Enqueue, TypeOK
<1>4. ASSUME (\E p \in Packs : ReadVersion(p)) \/ UNCHANGED vars PROVE UNCHANGED <<objects, worker, pack>>
  BY <1>4 DEF ReadVersion, vars
<1>5. ASSUME NEW w \in Workers, RenewalStep(w)
      PROVE  UNCHANGED <<objects, pack>> /\ \A x \in Workers : From(x)
  <2>1. UNCHANGED <<objects, pack>>
    BY <1>5 DEF RenewalStep, Heartbeat, RenewApply, RenewReply, RenewLost
  <2> QED
    BY <1>0, <1>5, <2>1, RenewalKeeps DEF From, Kept, Busy, Early
<1>6. ASSUME NEW w \in Workers, ProcessStep(w)
      PROVE  UNCHANGED <<objects, pack>> /\ \A x \in Workers : From(x)
  BY <1>0, <1>6, ProcessKeeps DEF From, Kept, Busy, Early
<1>7. ASSUME NEW w \in Workers, LeaseNextJob(w, "ok")
      PROVE  UNCHANGED <<objects, pack>> /\ \A x \in Workers : From(x)
  BY <1>0, <1>7, LeaseTakes DEF Taken, From
<1>8. ASSUME NEW w \in Workers, PollStep(w), ~LeaseNextJob(w, "ok")
      PROVE  /\ UNCHANGED objects
             /\ \A p \in Packs : pack'[p].status = "READY" => pack'[p] = pack[p]
             /\ \A x \in Workers : From(x)
  <2>0. \A x \in Workers \ {w} : worker'[x] = worker[x]
    BY <1>0, <1>8, PollKeeps
  <2>1. ASSUME NEW phase \in Phase, Goto(w, phase) PROVE worker'[w].phase = phase
    BY <1>0, <2>1, GotoFrame
  <2>2. ASSUME NEW phase \in {"idle", "leasing"}, Release(w, phase) PROVE worker'[w].phase = phase
    BY <1>0, <2>2, ReleaseFrame
  <2>3. ASSUME Render(w) PROVE UNCHANGED <<objects, pack>> /\ \A x \in Workers : From(x)
    <3>1. CASE Goto(w, "handling")
      BY <1>2, <2>0, <2>1, <2>3, <3>1 DEF Render, Phase, Early
    <3>2. ASSUME NEW d \in Renderings,
                 worker' = [worker EXCEPT ![w] = [@ EXCEPT !.phase = "uploading", !.doc = d]]
          PROVE  \A x \in Workers : From(x)
      <4>1. worker'[w] = [worker[w] EXCEPT !.phase = "uploading", !.doc = d] /\ worker[w] \in Claim
        BY <1>0, <3>2 DEF TypeOK
      <4>2. worker'[w].phase = "uploading" /\ worker'[w].pack = worker[w].pack
        BY <4>1 DEF Claim
      <4> QED
        BY <2>0, <2>3, <4>2 DEF Render, From, Early
    <3> QED
      BY <2>3, <3>1, <3>2 DEF Render
  <2>4. ASSUME NEW out \in Outcome, Fail(w, out)
        PROVE  /\ UNCHANGED objects
               /\ \A p \in Packs : pack'[p].status = "READY" => pack'[p] = pack[p]
               /\ \A x \in Workers : From(x)
    <3>1. worker[w].pack \in Packs
      BY <1>0, <2>4 DEF Fail, ClaimsTyped, Busy
    <3>2. FailedPack(pack[worker[w].pack]).status = "FAILED"
      BY <1>0, <3>1 DEF FailedPack, TypeOK, PackRow
    <3>3. \A p \in Packs : pack'[p].status = "READY" => pack'[p] = pack[p]
      BY <1>0, <2>4, <3>1, <3>2 DEF Fail, TypeOK
    <3>4. worker'[w].phase \notin Early
      BY <2>1, <2>2, <2>4 DEF Fail, Phase, Early
    <3> QED
      BY <1>2, <2>0, <2>4, <3>3, <3>4 DEF Fail
  <2>5. ASSUME NEW out \in Outcome,
               \/ PollTick(w) \/ LeaseNone(w) \/ LeaseNextJob(w, out) \/ AuditReady(w, out)
               \/ Notify(w, out) \/ Reconcile(w, out) \/ AuditFailure(w, out) \/ Requeue(w, out)
        PROVE  UNCHANGED <<objects, pack>> /\ \A x \in Workers : From(x)
    <3>1. UNCHANGED <<objects, pack>>
      BY <2>5 DEF PollTick, LeaseNone, LeaseNextJob, AuditReady, Notify, Reconcile, AuditFailure,
         Requeue, FollowUp
    <3>2. worker'[w].phase \notin Early
      BY <1>8, <2>1, <2>2, <2>5 DEF PollTick, LeaseNone, LeaseNextJob, AuditReady, Notify,
         Reconcile, AuditFailure, Requeue, Phase, Early
    <3> QED
      BY <1>2, <2>0, <3>1, <3>2
  <2> QED
    BY <1>8, <2>3, <2>4, <2>5 DEF PollStep
<1> QED
  BY <1>1, <1>3, <1>4, <1>5, <1>6, <1>7, <1>8 DEF Next

LEMMA StoredNext ==
    ASSUME SafetyInv, UniqueInv, StoredInv, [Next]_vars
    PROVE  StoredInv'
<1> DEFINE Goal(p) ==
        /\ \A w \in Workers :
              worker'[w].phase = "completing" /\ worker'[w].pack = p => Stored(p, Doc(w))'
        /\ pack'[p].status = "READY" =>
              /\ Stored(p, pack[p].hash)'
              /\ \A w \in Workers : worker'[w].phase \in Early => worker'[w].pack # p
<1> SUFFICES ASSUME NEW p \in Packs, job'[p].attempts <= 1, ~Rival(p)'
             PROVE  Goal(p)
  BY DEF StoredInv
<1>0. TypeInv /\ TypeOK /\ ClaimsTyped
  BY DEF SafetyInv, TypeInv
<1>1. ASSUME Inserted(p)
      PROVE  /\ job[p].attempts <= 1 /\ ~Rival(p) /\ Path(p)' = Path(p)
             /\ \A w \in Workers :
                   worker[w].phase = "completing" /\ worker[w].pack = p => Stored(p, Doc(w))
             /\ pack[p].status = "READY" =>
                   /\ Stored(p, pack[p].hash)
                   /\ \A w \in Workers : worker[w].phase \in Early => worker[w].pack # p
             /\ \A w, x \in Workers :
                   Busy(w) /\ Busy(x) /\ worker[w].pack = p /\ worker[x].pack = p => w = x
  <2>1. job[p].attempts <= 1 /\ ~Rival(p) /\ Path(p)' = Path(p)
    BY <1>1, InsertedStays, RivalStays DEF Path
  <2> QED
    BY <2>1, OneAttemptOneProcess DEF StoredInv
<1>2. CASE \A w \in Workers, out \in Outcome : ~Upload(w, out) /\ ~Complete(w, out)
  <2>1. /\ UNCHANGED objects
        /\ pack'[p].status = "READY" => pack'[p] = pack[p]
        /\ \A x \in Workers : From(x)
    BY <1>2, OtherSteps
  <2>2. ASSUME NEW x \in Workers, worker'[x].phase = "completing", worker'[x].pack = p
        PROVE  Stored(p, Doc(x))'
    <3>1. worker[x].phase = "completing" /\ worker'[x].doc = worker[x].doc /\ worker[x].pack = p
      BY <2>1, <2>2 DEF From, Early
    <3>2. Inserted(p)
      BY <3>1, BusyInserted DEF Busy
    <3> QED
      BY <1>1, <2>1, <2>2, <3>1, <3>2 DEF Stored, Doc
  <2>3. ASSUME pack'[p].status = "READY"
        PROVE  Stored(p, pack[p].hash)' /\ \A x \in Workers : worker'[x].phase \in Early => worker'[x].pack # p
    <3>1. pack[p].status = "READY" /\ pack'[p].hash = pack[p].hash /\ Inserted(p)
      BY <2>1, <2>3 DEF Inserted
    <3>2. Stored(p, pack[p].hash)'
      BY <1>1, <2>1, <3>1 DEF Stored
    <3>3. ASSUME NEW x \in Workers, worker'[x].phase \in Early PROVE worker'[x].pack # p
      <4>1. CASE worker[x].phase \in Early /\ worker'[x].pack = worker[x].pack
        BY <1>1, <3>1, <4>1
      <4>2. ASSUME NEW r \in Packs, Taken(x, r) PROVE worker'[x].pack # p
        BY <3>1, <4>2 DEF Taken, SafetyInv, PackFollowsJob
      <4> QED
        BY <2>1, <3>3, <4>1, <4>2 DEF From
    <3> QED
      BY <3>2, <3>3
  <2> QED
    BY <2>2, <2>3
<1>3. ASSUME NEW w \in Workers, NEW out \in Outcome, Upload(w, out) PROVE Goal(p)
  <2>0. Busy(w) /\ worker[w].pack \in Packs /\ UNCHANGED <<pack, job>> /\ worker[w].phase \in Early
    BY <1>0, <1>3 DEF Upload, Busy, ClaimsTyped, Early
  <2>1. /\ worker'[w].phase \in {"completing", "handling"}
        /\ worker'[w].phase = "completing" => out = "ok"
        /\ worker'[w].pack = worker[w].pack /\ worker'[w].doc = worker[w].doc
        /\ \A x \in Workers \ {w} : worker'[x] = worker[x]
    BY <1>0, <1>3, GotoFrame DEF Upload, Phase
  <2>2. CASE worker[w].pack = p
    <3>1. Inserted(p) /\ pack'[p].status # "READY"
      BY <1>1, <2>0, <2>2, BusyInserted
    <3>2. ASSUME NEW x \in Workers, worker'[x].phase = "completing", worker'[x].pack = p
          PROVE  Stored(p, Doc(x))'
      <4>1. x = w
        BY <1>1, <2>0, <2>1, <2>2, <3>1, <3>2 DEF Busy
      <4>2. objects' = [y \in DOMAIN objects \cup {Path(p)} |->
                          IF y = Path(p) THEN Doc(w) ELSE objects[y]]
        BY <1>3, <2>1, <2>2, <3>2, <4>1 DEF Upload, Applied
      <4>3. Path(p) \in DOMAIN objects' /\ objects'[Path(p)] = Doc(w)
        BY <4>2
      <4>4. Doc(w)' = Doc(w)
        BY <2>1 DEF Doc
      <4> QED
        BY <1>1, <3>1, <4>1, <4>3, <4>4 DEF Stored
    <3> QED
      BY <3>1, <3>2
  <2>3. CASE worker[w].pack # p
    <3>1. ASSUME Inserted(p) PROVE Path(worker[w].pack) # Path(p)
      BY <1>1, <2>0, <2>3, <3>1, BusyInserted DEF Path, Rival
    <3>2. ASSUME Inserted(p), NEW doc, Stored(p, doc) PROVE Path(p)' \in DOMAIN objects' /\ objects'[Path(p)'] = doc
      BY <1>1, <1>3, <3>1, <3>2 DEF Upload, Stored
    <3>3. ASSUME NEW x \in Workers, worker'[x].phase = "completing", worker'[x].pack = p
          PROVE  Stored(p, Doc(x))'
      <4>1. x # w /\ worker'[x] = worker[x] /\ Inserted(p)
        BY <2>1, <2>3, <3>3, BusyInserted DEF Busy
      <4>2. Doc(x)' = Doc(x) /\ Stored(p, Doc(x))
        BY <1>1, <3>3, <4>1 DEF Doc
      <4> QED
        BY <3>2, <4>1, <4>2 DEF Stored
    <3>4. ASSUME pack'[p].status = "READY"
          PROVE  Stored(p, pack[p].hash)' /\ \A x \in Workers : worker'[x].phase \in Early => worker'[x].pack # p
      <4>1. Inserted(p) /\ pack[p].status = "READY"
        BY <2>0, <3>4 DEF Inserted
      <4> QED
        BY <1>1, <2>0, <2>1, <2>3, <3>2, <4>1 DEF Stored
    <3> QED
      BY <3>3, <3>4
  <2> QED
    BY <2>2, <2>3
<1>4. ASSUME NEW w \in Workers, NEW out \in Outcome, Complete(w, out) PROVE Goal(p)
  <2>0. Busy(w) /\ worker[w].pack \in Packs /\ UNCHANGED objects /\ worker[w].phase = "completing"
    BY <1>0, <1>4 DEF Complete, Busy, ClaimsTyped
  <2>1. worker'[w].phase \notin Early /\ \A x \in Workers \ {w} : worker'[x] = worker[x]
    <3>1. CASE Goto(w, "auditing") \/ Goto(w, "handling")
      BY <1>0, <3>1, GotoFrame DEF Phase, Early
    <3>2. CASE Release(w, "leasing")
      BY <1>0, <3>2, ReleaseFrame DEF Early
    <3> QED
      BY <1>4, <3>1, <3>2 DEF Complete
  <2>2. ASSUME NEW x \in Workers, worker'[x].phase = "completing", worker'[x].pack = p
        PROVE  Stored(p, Doc(x))'
    <3>1. worker'[x] = worker[x] /\ Inserted(p)
      BY <2>1, <2>2, BusyInserted DEF Busy, Early
    <3> QED
      BY <1>1, <2>0, <2>2, <3>1 DEF Stored, Doc
  <2>3. CASE worker[w].pack = p /\ Owns(w) /\ Applied(out)
    <3>1. pack'[p] = ReadyPack(pack[p], Doc(w)) /\ pack[p] \in PackRow
      BY <1>0, <1>4, <2>3 DEF Complete, TypeOK
    <3>2. pack'[p].hash = Doc(w) /\ Inserted(p)
      BY <2>0, <2>3, <3>1, BusyInserted DEF ReadyPack, PackRow
    <3>3. Stored(p, pack[p].hash)'
      BY <1>1, <2>0, <2>3, <3>2 DEF Stored
    <3>4. \A x \in Workers : worker'[x].phase \in Early => worker'[x].pack # p
      BY <1>1, <2>0, <2>1, <2>3, <3>2 DEF Busy, Early
    <3> QED
      BY <2>2, <3>3, <3>4
  <2>4. CASE ~(worker[w].pack = p /\ Owns(w) /\ Applied(out))
    <3>1. pack'[p] = pack[p]
      BY <1>0, <1>4, <2>0, <2>4 DEF Complete, TypeOK
    <3>2. ASSUME pack'[p].status = "READY"
          PROVE  Stored(p, pack[p].hash)' /\ \A x \in Workers : worker'[x].phase \in Early => worker'[x].pack # p
      BY <1>1, <2>0, <2>1, <3>1, <3>2 DEF Stored, Inserted
    <3> QED
      BY <2>2, <3>2
  <2> QED
    BY <2>3, <2>4
<1> QED
  BY <1>2, <1>3, <1>4

\* A READY pack fails verification only when another pack of its key was given
\* its version, or a second attempt at it was made.
THEOREM OnlyRivalsOverwrite == Spec => []OnlyRivalsBreakVerification
<1>1. Init => StoredInv
  BY DEF Init, StoredInv, Unclaimed, Early
<1>2. SafetyInv /\ StoredInv => OnlyRivalsBreakVerification
  <2> SUFFICES ASSUME SafetyInv, StoredInv, NEW p \in Packs, pack[p].status = "READY", ~Verifies(p),
                      ~(job[p].attempts > 1)
               PROVE  Rival(p)
    BY DEF OnlyRivalsBreakVerification, Rival
  <2>1. job[p].attempts <= 1
    BY DEF SafetyInv, TypeInv, TypeOK, JobRow
  <2> QED
    BY <2>1 DEF StoredInv, Stored, Verifies
<1> QED
  BY <1>1, <1>2, StoredNext, Uniqueness, Safety, PTL DEF Spec
===============================================================================
