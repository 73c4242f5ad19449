# A verification model of zrl

zrl is a NestJS backend (`src/src`) over PostgreSQL, an S3 or local object store
and Redis, with a Next.js frontend (`src/frontend`). Exporters open a *lane* per
shipment, upload evidence until its completeness reaches 95 %, have proof packs
generated, and move the lane through its lifecycle; every action is recorded in a
hash chain per lane. This directory holds TLA+ modules of the parts of that
system whose correctness depends on interleavings, failures and ordering, the TLC
configurations that check them, and TLAPS proofs of what they should never do; and
modules of operators for the parts that compute, checked against definitions of
their own over small inputs. Source paths below are relative to the repository;
`PROJECT.json` maps each definition to the lines it stands for.

## Inventory

| Component | State it keeps | Operations | How it interacts | What is hard, and what makes it correct |
|---|---|---|---|---|
| Proof-pack job queue (`modules/evidence/proof-pack.*`) | `proof_packs`, `proof_pack_jobs`, PDF objects, the claim of each worker process | enqueue, lease, heartbeat, render, upload, complete, requeue, fail, verify | enqueued by HTTP; polls the database; on READY it audits, notifies the owner and has the lane reconciled | leases lapse under living workers, replies get lost, processes crash and restart: one attempt owns the job, pack and job agree, each pack is settled once and eventually |
| Audit chain (`common/audit`, `common/hashing`) | `audit_entries`, advisory locks | append in the caller's transaction or one of its own, verify, export | called by every other service | concurrent appends, clocks of several processes, two forms of a lane's id: no fork, and what nobody tampered with verifies |
| Lane lifecycle (`modules/lane`) | `lanes`: status, score, retention; batches, checkpoints | create, update, transition, reconcile, checkpoints | reads packs; reconciled after uploads and packs; transitioned by disputes; its numbers are given out under advisory locks | checks on an old row and an unconditional write: the evidence and packs a status stands for are there; numbers without gaps or doubles |
| Evidence (`modules/evidence/evidence.*`) | `evidence_artifacts`, links, analyses, objects, `lanes.completeness_score` | upload, link, verify, analyse, reanalyse, delete, submit a checkpoint | evaluates with the rules engine, appends entries, reconciles the lane | score computed from one read and written later; object written before the row, shared by equal files and removed on an error; verification results stored after a deletion: acyclic links, no object lost by a success, no upload left unverified |
| Document analysis (`evidence.document-*`, `document-catalog.ts`) | one analysis per artifact, a temporary directory for OCR | classify, extract fields, match documents | its result feeds the checklist | a clue more must not turn a file into another document |
| Rules engine (`modules/rules-engine`) | rule sets and their versions, substances, alert deliveries, the loader's cache | evaluate, edit substances, reload, certification alerts | called by lanes and evidence; notifies a market's audience and lane owners | versions derived from a read and written later; alerts claimed, delivered, completed or released in separate steps; a signature taken after the load it stands for |
| Disputes (`modules/dispute`) | `disputes` | create, update, defense pack, resolve | transitions the lane and appends entries on connections other than its transaction's | partial failure across three transactions; a full pool |
| Cold chain (`modules/cold-chain`) | readings, excursions, the lane's SLA breach | ingest, detect, replace, alert; listing and SLA report | notifies owners | delete and insert of excursions under concurrent ingestion: nothing unannounced, tables right again, the breach the earliest |
| Authentication (`common/auth`, the frontend's session routes and proxy) | users, session versions, reset requests, cookies, API keys | login, MFA, refresh, logout, reset, guards | guards of all controllers | a session must not survive logout, reset or erasure, whatever was under way; single-use tokens, limits counted before inserts |
| Privacy (`modules/privacy`) | consents, requests, breach incidents | consent, export, correct, erase, withdraw, report | erases from the tables of others and ends sessions | erasure while the user works on, and what it leaves; a request carried out twice |
| Notifications (`modules/notifications`) | notifications, preferences, channel targets, socket rooms | store, fan out, deliver, read, subscribe | called by packs, rules, cold chain; Redis between processes | what is committed must be announced; failing channels, counters that drift |
| Database (`common/database`) | the connection pool | connect, release | every store | requests that hold one client while they wait for another |
| Partner integrations (`integrations`, partner routes) | rate-limit stamps and a certificate cache per process | fetch, look up, import, partner upload | providers by HTTP; imports become evidence and readings | retries, partial imports, stale answers |
| Analytics, MRV-lite (`modules/analytics`, `modules/mrv-lite`) | none of their own | overviews, trends, emissions, waste | read the tables of the others | exporters see their own, and sums add up |
| Frontend pages, scripts, load tests, templates | none | render, run | HTTP | none that a model adds to |

## Modules

State machines:

| Module | What it is |
|---|---|
| `ProofPackPromise` | abstract specification: each requested pack settles at most once, READY with the hash of a document of its own, or FAILED |
| `ProofPackJobs`, `MCProofPackJobs`, `ProofPackJobsProofs` | the queue, workers, heartbeats and object store |
| `AuditChain`, `MCAuditChain`, `AuditChainProofs` | the append protocol, the listing order and the verification of chains |
| `LaneLifecycle`, `MCLaneLifecycle`, `LaneLifecycleProofs` | one lane's status and score with the evidence, pack, transition and dispute requests that change them |
| `EvidenceStore`, `MCEvidenceStore`, `EvidenceStoreProofs` | rows, links and objects of a lane's evidence under uploads, verifications and deletions |
| `Accounts`, `MCAccounts`, `AccountsProofs` | accounts, sessions, cookies, password resets and data subject requests |
| `Notifications` | what the handlers that end in a notification share: slots, bounds, the owner's preference |
| `Ingestion`, `CertificationAlerts`, `RuleBook` | three parts over it: temperature ingestion, expiry alerts, rule changes |
| `Monitoring`, `MCMonitoring`, `MonitoringProofs` | their composition and its theorems |
| `LaneCreation`, `MCLaneCreation`, `LaneCreationProofs` | creations and disputes on the connection pool, and the numbers of lanes and batches |

Operators, each with ASSUMEs that TLC evaluates at the start of the run named:

| Module | What it computes | Run |
|---|---|---|
| `DocumentCatalog`, `Classifier`, `Checklist`, `ChecklistChecks` | which documents files show, what an analysis makes of them, the completeness of a lane | `lane_*` |
| `RuleFiles` | rule files to rule sets and snapshots; the loader's cache | `lane_*` |
| `ColdChain`, `ColdChainChecks`, `TemperatureReports` | excursions, severity, shelf life, logger configurations; the pictures and reports of them | `monitoring` |
| `Delivery` | preferences, audiences, channels, read counts, sockets | `monitoring` |
| `LaneRecords` | updates of a lane, listings, timelines, checkpoint submissions | `lane_creation` | 4 creations around New Year, one of another product, a dispute, 2 clients, 1 fault, 999 lanes of the old year and 998 batches of mangoes before, fairness | numbers are consecutive, only number 1000 is refused, only a pool full of waiting transactions keeps a request from ending |
| `DefensePack` | dispute rows, defense packs and their timelines | `lane_creation` | 4 creations around New Year, one of another product, a dispute, 2 clients, 1 fault, 999 lanes of the old year and 998 batches of mangoes before, fairness | numbers are consecutive, only number 1000 is refused, only a pool full of waiting transactions keeps a request from ending |
| `Reports` | analytics and MRV-lite | `lane_creation` | 4 creations around New Year, one of another product, a dispute, 2 clients, 1 fault, 999 lanes of the old year and 998 batches of mangoes before, fairness | numbers are consecutive, only number 1000 is refused, only a pool full of waiting transactions keeps a request from ending |
| `PartnerImports` | requests to providers, payloads, partner routes | `evidence_store` |

`OperatorProofs` has the theorems about these modules, for all inputs.

The definitions named in `PROJECT.json` under `mutants` as `as` are variants of
the definition that follows them with a plausible mistake (a guard dropped, a
lock not taken, a count off by one). No action uses them; each shows that the
property it is listed with notices that mistake.

### ProofPackJobs

`pack` and `job` are the two tables, `objects` the store (path to document),
`worker[w]` the state of one API process: its mode (up, draining, down) and the
phase of `processClaimedJob` or `completeLeasedJob` it is in, with the attempt and
the lease expiry it believes it holds. `renewal[w]` is the heartbeat statement in
flight. Every SQL statement is one step, and each can succeed, fail before it is
applied, or be applied while its reply is lost; the last two, like a crash, a
shutdown or a lapsed lease, use one unit of `MaxFaults`. Each process has its own
clock, which never runs backwards; nothing relates two clocks, so a lease may
lapse under a living worker at any time. A process has one heartbeat in flight at a
time. A document is the pack it renders and which of the possible renderings it is,
and its hash is the document itself (SHA-256 taken as injective).

### AuditChain

`log` is the table in commit order, `holder` the advisory lock of each lane's
stream, `phase` and `draft` the append in progress. An append that is `coupled`
commits with its mutation (evidence, rules), a `separate` one after it (lanes,
packs, disputes), and `verify` is the endpoint whose interceptor stores an entry
under the form of the lane id the caller used. Entries are listed by (timestamp,
id), so the commit order, the clock of each process and the order of random ids
are independent. A hash is the write it digests.

### LaneLifecycle

`lane` is the row; a score is the set of required documents that were PRESENT
when it was computed and `Sufficient` the sets worth at least 95 %, closed under
adding documents, which is what `buildCategorySummary` and the weights amount to.
`Declared` and `Recognized` are what `matchChecklistDocumentAgainstArtifact` says
of an artifact before and after its analysis; the runs compute them with `Checklist`.
Requests are uploads, reanalyses,
deletions, pack requests, transitions and disputes; `phase` is the statement each
comes to next, `seen` the row it read, `target` and `draft` what it is about to
write. The upload transaction is split where it takes the audit lock and at its
COMMIT; everything else is one statement per step. Certificates do not expire in
this model, and an analysis of one artifact always finds the same label.

### EvidenceStore

`status`, `deleted`, `stamp` and `links` are the tables, `objects` the keys that
have a file; `phase` is where each upload, verification or deletion stands. An
upload puts its object, begins a transaction (which fixes `uploaded_at`), picks the
latest artifacts of lane and checkpoint next to those its request names, looks each
up (`CheckLink`, `RejectLink`), and commits row and links together (`Insert`). It
then verifies the artifact and the lane, analyses and announces. `picked` and
`unchecked` are the links of the open transaction, `report` what a verification has
found before it stores it. An exception after the object was put, also one after
the commit, deletes the object (`RemoveObject`), which may be another artifact's as
well: identical files have one key. Failing statements, a lost answer to COMMIT and
crashes use one unit of `MaxFaults` each. What the same requests do to score and
status is in `LaneLifecycle`.

### Accounts

`account`, `data`, `reset` and `right` are the rows; `jar` is the cookies of each
user's browser, `issued` all tokens ever handed out, and `request[s]` the request that
slot `s` handles, with what it has read so far. A step is one statement, or one
transaction whose statements lock what they read. A JWT is its user and session
version (`sv`); signatures and expiry are data, so a token is accepted exactly while
its version is the row's. Login, the second factor, the guard, the proxy's refresh and
its late writing of cookies, logout, forgotten and reset passwords, consent, export,
and the rights requests with their fulfilment (correction, erasure, withdrawal) are
the actions; `Die` ends any request anywhere. Ghosts: `grants` counts what ended a
user's sessions, `uses` and `acted` what a reset and a right did, `contested` the
rights whose fulfilments overlapped or died, `erased` and `excused` the users erased,
and those of them with a request under way then. `Kinds` are the tables with something
of a person; `anonymizeUser` deletes or overwrites those in `Scrubbed`, and leaves
`privacy_requests` with the reason, details and resolution of each request. It always
fails for administrators and auditors (`ErasureFails`): it disables their MFA, which a
CHECK of the table forbids.

### Monitoring

`Notifications` gives slots to handlers and holds the owner's preference; an
`Ingestion` is a request with readings, a `CertificationAlerts` handler is a scan of
the expiry timer or the check after an upload, and a `RuleBook` handler is a change of
a substance or a reload. A handler that breaks uses one unit of `MaxFaults`, at any
statement, before or after its commit. The transactions are READ COMMITTED: the delete
of `replaceExcursions` takes the rows of its snapshot and waits for those another
transaction has deleted; a rule change locks what it wrote, in the other order than a
reload does, and `AbortDeadlocked` is what Postgres then does. `Detected` (readings to
excursions) is a constant, which the run sets to the rules of `ColdChain` and the
theorems leave open. `Audiences` is how many users of a market may want to hear of a
rule change: `createNotifications` numbers seven parameters a row but binds eight, so
its INSERT can only carry one (`Insertable`). Ghosts say which excursions were
announced or lost their announcement (`announced`, `unannounced`), whether an ingestion
or change had the tables to itself (`fresh`, `inStep`), and which claims lost their
holder (`orphaned`). A scan survives an error over one artifact: it releases the claim
(`FailToNotify`, `Release`), or goes on without doing so when the claim itself, or the
release, throws (`FailToClaim`, `FailToRelease`).

### LaneCreation

`at[r]` is the call a request comes to next, `queue` those waiting for a client of the
pool, `outer` and `borrowed` those that hold a client for their transaction and for a
statement beside it, `locks` the advisory locks of year and prefix, `given` the
numbers committed. pg serves the waiting in order and nothing times out. Numbers are
text: `Latest` reads the greatest id by text order, which is why 1000 is found to come
before 999. Both ids are unique columns, so an insert waits for one of the same number
under way and is refused by a committed one (`Clash`).

### Operator modules

Parsing, matching, scoring, detection and reporting keep no state of their own: they
are operators, and their properties are ASSUMEs that compare them, over every small
input, with a definition that does not share their construction. `ChecklistChecks`
among others shows that the 95 percent ask for every document but one of the chain of
custody, that a document more never costs a point, and that only a newer certificate
takes a document away. `MCLaneLifecycle` takes its constants from there:
`ConstantsAreComputed` says that `Checklist` computes the sufficient sets and what each
file shows. `ColdChainChecks` compares the loop over readings with maximal runs;
`RuleFiles` lets every order of two loads and an edit run through the loader's cache;
`LaneRecords` interleaves the statements of two updates of a lane; `DefensePack` runs
every short sequence of updates of a dispute; `Delivery` every short life of a socket;
`PartnerImports` every three replies of a provider.

## Runs

| Run | Instance | What it shows |
|---|---|---|
| `pack_leases` | 2 processes, 1 pack, 2 attempts, 1 fault, 1 heartbeat, fairness | leases fence stale workers, retries are counted right, follow-ups are not repeated, only its own heartbeat makes a worker lose its claim, and every pack is settled |
| `pack_versions` | 2 processes, 2 packs of one key, 2 renderings, 1 attempt, 2 faults | pack and job agree, the queue implements `ProofPackPromise`, only a rival writer of a path breaks verification |
| `pack_immutable` | as `pack_versions` with 1 process and no fault | a READY pack can stop verifying (finding) |
| `audit_chain` | 4 writes of the three kinds to one lane, 2 processes, 4 ids, 2 ticks | links are current, entries agree with mutations and only a failed append leaves a gap, chains verify when stamped in commit order, no append blocks the others |
| `audit_verify` | verifications by public id, 1 process | an untampered chain is answered invalid (finding) |
| `lane_evidence` | 2 uploads, reanalysis, deletion, one transition, 2 documents, fairness | scores stay exact until an analysis, validation has evidence until a deletion, a quiet lane is reconciled, reconciliation ends |
| `lane_transitions` | upload, pack, two transitions to any status, dispute, 1 failure | packed lanes and disputes have a READY pack; only races leave the status graph |
| `lane_validated` | 2 uploads and a deletion | a lane is validated without its evidence (finding) |
| `evidence_store` | 2 uploads of one file at one checkpoint, each may name the other, a verification of the lane, a deletion, 2 faults | links stay acyclic, only failed uploads lose objects, deleted rows are frozen, finished uploads are verified |
| `accounts` | an exporter and an auditor with MFA, 3 resets, an export, a correction, a deletion and one of the auditor, 2 slots, 4 requests, 1 fault | sessions end for good, reset tokens work once, the hourly limit holds up to the requests that overlap, an erasure leaves the rights requests and nothing else, a right is carried out once |
| `monitoring` | 2 slots, 3 handlers, 1 fault, 4 readings in 3 batches, 2 certificates, days 0, 10 and 20, 2 substances, an audience of 1 or 2 | what is committed is announced, excursions and rule sets follow their source again after a change that runs alone, the breach is the earliest, an alert is told once |
| `lane_creation` | 4 creations around New Year, one of another product, a dispute, 2 clients, 1 fault, 999 lanes of the old year and 998 batches of mangoes before, fairness | numbers are consecutive, only number 1000 is refused, only a pool full of waiting transactions keeps a request from ending |

Why the bounds are enough. Stale workers need two processes and one lapse or crash;
the second fault of `pack_versions` adds one in the takeover itself. Two attempts are
the first and a retry, and `MaxAttempts = 1` in `pack_versions` is the boundary.
One heartbeat suffices to race with its own worker and with a takeover. Versions
collide with two requests, and one rendering cannot tell two documents of one pack
apart, two can. Forks need two appends; the third and fourth write are the
verifications that read them. Two ticks give entries before, at and after each
other. Scores race with two uploads (overlapping evaluations), a reanalysis
(refresh without a lock), a deletion and a manual transition; two documents let
each artifact alone be insufficient. Two manual transitions and a dispute are
needed to leave the status graph, since one of them must overtake another.
`move1` and `move2` are interchangeable there, hence the symmetry set of that run,
which checks no liveness. In `evidence_store` two uploads suffice for links both
ways, a shared object and a verification of one by the other; two faults let an
upload fail and its removal, or the other upload, fail too. Longer cycles and more
artifacts are covered by the proofs.

In `accounts` a race is between two requests, so two slots; three or four requests one
after the other lead to it (a login, what reads the session, what ends it, and what is
still under way), and three resets are one more than the limit of one with two
overlapping requests allows to be live. A correction that asks for the auditor's
address is the one that fails. In `monitoring` two ingestions overlap each other, or a
third comes after; the last batch splits an excursion of the first two and ends it, and
the last reading is too warm where the first were too cold. The days are those before
the first warning, of a warning and of the expiry. In `lane_creation` two clients and
five transactions are more than starvation needs, and a plain append is what a creation
does after its commit. The next lane of the old year is the 1000th and the second batch
of mangoes is: two creations of that year suffice for a refusal by the lane alone, three
of that product for one by the batch alone, and both occur. Two of the new year begin at
1. Slots are alike in `accounts` and
`monitoring`, hence their symmetry.

Deadlock is checked in the pack runs. The other instances disable it: a finite set of
requests ends and clocks stop at their bound, so those instances stop by design; that
no request is stuck is `EveryAppendEnds`, `EveryRequestEnds` and
`RequestsEndOrStarve` in the audit, lane and creation runs. In `monitoring` the one
mutual wait there is, of a change and a reload, is what `AbortDeadlocked` resolves.

## Fairness

* `ProofPackJobs!Fairness`: the poll timer fires (`setInterval`), a statement of a
  running process returns or fails, a draining process stops, a stopped one is
  started again, and its clock advances. Nothing is assumed of enqueues, faults or
  shutdowns.
* `AuditChain!FairSpec`: statements are answered, and a transaction-level advisory
  lock that stays free is granted. No transaction is assumed to begin.
* `LaneLifecycle!FairSpec`: a request that arrived is served to its end. None is
  assumed to arrive, and the retention clock may stand still.
* `LaneCreation!FairSpec`: the event loop goes on with a request that does not wait,
  Postgres grants a free lock, the pool a free client. No request is assumed to start.

All of it is weak fairness. `Accounts`, `Monitoring` and `EvidenceStore` assume none:
they claim nothing that has to happen.

## What is proved

The theorems hold for all values of the constants that satisfy the modules'
ASSUMEs: `Slots` and `Resets` are finite, no other set is assumed to be, and no bound
is assumed beyond being a natural number. (One theorem, `LargePoolsNeverStarve`, and
those on the score are about finite sets, and say so.)

* **ProofPackJobs.** The invariant behind the fence is that expiries on one job
  only grow with its attempts: a claim's token and any renewal in flight were
  issued for the claim's attempt, so a token that matches the row is one of the
  latest attempt (`LatestAttemptOwns`), and a superseded worker changes nothing
  (`StaleWorkersAreHarmless`). Pack and job rows change in the same statements
  (`PackAndJobAgree`); attempts are compared before each requeue
  (`RetriesAreUsedUp`); with these every step is a step or a stutter of the
  promise (`QueueKeepsPromise`). At most one process works on an attempt
  (`UniqueInv`), so a claim nobody superseded can only be refused because of its own
  heartbeat (`OnlyHeartbeatsRefuse`). The follow-ups of an outcome come from the one
  process that settled the job, each in its own phase: what that process has yet to
  send has not been sent (`EffectsHappenOnce`, from `EffectInv`). An attempt that did
  not settle its job is charged to a fault or a heartbeat unless its process is sure to
  requeue it (`RetriesAreCounted`, from `BoundInv`). And a READY
  pack of one attempt has what it uploaded under its path, until another pack with
  that path writes there (`OnlyRivalsOverwrite`, from `StoredInv`).
* **AuditChain.** An append between its lock and its commit holds the lock of its
  stream, hence what it read is the latest entry when it inserts
  (`LinksAreCurrent`), and each entry links to the head of those committed before
  it. Where the stamps follow the commits that is the chain listed
  (`OrderedChainsAreValid`); one process's clock stamps under the lock, so without
  ties they do (`OneHostChainsAreValid`). `LanesKeepOneChain` puts the three together.
* **LaneLifecycle.** While nothing is deleted the documents the evidence covers
  only grow, so every score and row a request keeps understates them; with the
  guard, each kept status past EVIDENCE_COLLECTING is justified
  (`ValidationHasEvidence`). The inductive invariant has to speak of the rows and
  targets *kept by requests*, because the write itself checks nothing. The same
  argument over READY packs gives `PackedLanesHavePacks`; the audit lock gives
  `UploadScoresAreExact`; the edge from the row read to the target gives
  `GraphIsLeftByRacesOnly`. While nothing failed and nobody moved the lane by hand, a
  lane that could be VALIDATED has a request that will read it or is about to write
  (`PendingInv`), hence `QuietLanesAreValidated`. That theorem asks that no documents
  are not enough, `{} \notin Sufficient`: `create` stores a score of 0, and rules that
  require no document would leave such a lane collecting evidence.
* **EvidenceStore.** What an upload picks was committed before, and links leave an
  artifact only at its own commit: the links of each artifact lead to artifacts
  committed earlier, so any set of artifacts has one without a link into the set
  (`EvidenceIsAcyclic`). The lemma `CheckNeverFires` follows: `linkCreatesCycle` is
  asked before any link of the new artifact exists and never answers yes; the lookup
  of the target is what keeps the graph acyclic. A row has an object unless a failed
  upload of its key removed it (`ObjectsAreKept`). A status is stored only if no
  artifact in the report is deleted (`DeletionsAreFinal`), and since an upload
  verifies its artifact by itself before the lane, its result does not depend on
  what becomes of the others (`UploadsAreVerified`).
* **Accounts.** `IInv` is the type invariant with one part per table. Ending a user's
  sessions and raising the session version are one write, and the version of no token is
  ever raised; so a token whose version is the row's is of the last grant, whichever
  request read the row before (`SessionsReallyEnd`). A reset row a handler holds is live
  and held by no other, and what was used is never live again
  (`ResetTokensReallyWorkOnce`). The rows of an hour and the requests on their way to
  insert one are together fewer than the limit and the slots, which needs the
  cardinality lemmas and finite `Slots` and `Resets` (`ResetsReallyLimited`). Of a user
  erased with nothing under way every cookie and token is stale and the guard turns each
  request away, while a request that was filed stays stored (`FiledInv`), so that exactly
  the rights requests are left (`ErasureReallyLasts`). A right that is not contested has
  one fulfilment at a time, and stays PENDING until that has acted and marked it; and who
  is about to complete a deletion has erased the person (`DeletionInv`), which no
  administrator or auditor ever sees (`ReallyFulfilledOnce`).
* **Monitoring.** The parts touch disjoint tables, so each has an inductive invariant of
  its own (`IngestionInv`, `AlertingInv`, `BookInv`), with a link that says which slot
  runs which handler, and `IInv` joins them. `CommitsReallyAnnounced` rests on the lists
  an ingestion has read: each of their excursions was announced, or is another's to
  announce. `DerivedTablesReallyFollow` needs that a transaction that ran alone saw what
  it then replaced; `BreachReallyEarliest` that each transaction's excursions were
  detected in a subset of the readings; `AlertsReallyOnce` that a claimed alert has one
  holder, which knows whether it has told the owner. `Detected` is any function that
  finds well-formed excursions.
* **LaneCreation.** Between the read of the latest number and the end of the
  transaction a creation holds the lock of that sequence (`LockInv`), so the number it
  drafted is still the next (`DraftInv`) and those committed stay an interval
  (`DenseInv`). Text order is the order of numbers up to 999, and of an interval that
  ends at 1000 the last text is 999: from there on every creation drafts 1000, which the
  unique index refuses. Nobody else can have drafted its number, so this is the only
  refusal there is (`NumbersAreReallyConsecutive`). Of the pool: only creations and disputes hold a client
  while they wait, so fewer of them than clients never starve it
  (`LargePoolsNeverStarve`), but once every client belongs to such a wait nothing except
  a failing statement frees one (`StarvedForGood`): the pool has no timeout.
* **Operators.** `OperatorProofs` states for all inputs what TLC evaluates over small
  ones. The score: over the common denominator of two scores each category counts at
  least as much when documents are added (`DocumentsNeverCost`), a complete lane has the
  sum of the weights (`CompleteLanesScoreFully`), so what `LaneLifecycle` assumes of
  `Sufficient` holds for every rule file (`SufficientSetsAreClosedUpwards`). A ratio
  rounded to hundredths reaches a bound exactly where the ratio reaches it less a half,
  whence `StricterLimitsAreRiskier`. The indices of the chart's twelve points differ by
  more than one before they are rounded, whence `ChartsKeepTheEnds`. What an exporter
  is shown is a function of its own lanes (`ReportsDependOnOwnLanes`,
  `EsgReportsDependOnOwnLanes`). Further: `BuiltSubstancesAreRated`,
  `LeaksComeFromErrors`, `AcceptedConfigurationsStay`, `WorseExcursionsAreNotMilder`.

Only model-checked: the liveness properties (`EveryPackSettles`, `EveryAppendEnds`,
`EveryRequestEnds`, `RequestsEndOrStarve`), which are out of the prover's reach. Of the
operators, those that loop over a sequence or add up a set (`Detect`, `Label`,
`LabStatus`, `Timeline`, the totals of `Report` and `Reports`, the lives of `Delivery`)
are recursive definitions, which need induction over data; and `@@` of the TLC module
has no definition the prover can expand (`Update`, `Submit`, the partners' cache). Of
those TLC evaluates the inputs their ASSUMEs name and no others.

## Findings

1. `pack_immutable`: `generatePack` computes the version in one statement and
   inserts in another, with no unique index, so two concurrent requests share a
   path and the later upload invalidates the READY pack of the other.
2. `audit_verify`: verifying a lane by its public id stores an entry outside the
   stream its other entries are in, and the next verification by public id lists
   both: valid chains are answered invalid from then on.
3. `lane_validated`: deleting an artifact does not refresh the cached score that
   guards VALIDATED.

Observations that are built into the models, and that no run refutes, because the
properties state what the code does:

* Evidence: a failed upload removes the object another artifact's row points to
  (`LostObjectsHaveFailedUploads`); the cycle check reads only the first 20 artifacts,
  which is harmless because there are no cycles; a checkpoint submission that is refused
  or fails early leaves its temporary files, and a repeated one may upload its photo
  twice; a failing `ocrmypdf` leaks its directory (`LeaksAreErrors`); of two laboratory
  results for one substance the last counts.
* Lanes: once there are 1000 lanes of a year, or 1000 batches of a prefix, every further
  creation in it is refused (`NumbersAreConsecutive`); as many transactions as the pool
  has clients wait for each other for good (`Starved`); an update is several
  transactions, the audit entry last (`UnauditedChange`); timelines show a dispute's
  entry with the lane's present status.
* Disputes: linking a defense pack opens a RESOLVED dispute again, with its
  `resolved_at` (`ReopenedByPack`).
* Rules: a reload resets version and history and drops substances that only the table
  had; the loader's cache takes the files' signature after it has loaded them, so an edit
  in between stays unseen (`StaleForGood`); an alert skipped because its type was muted
  is not sent after unmuting.
* Audit: transitions, disputes and packs commit before their entry, in another
  transaction, and pack follow-ups only log an append that fails: where `docs/PRD.md` asks
  for zero gaps in the chain, an append that fails leaves one (`MutationsAndEntriesAgree`).
* Cold chain: an excursion that goes on is not in the report of a window that begins
  after its start (`OngoingExcursionsLeaveTheWindow`).
* Notifications: a rule change whose audience is more than one is announced to nobody
  (`Insertable`), where `docs/PRD.md` asks to alert exporters; `pack.generated` is not
  published when the owner muted packs (`MutedPacksAreNotShown`); the gateway's counters
  drift (`ConnectionsDrift`, `SubscriptionsDrift`).
* Privacy: an erasure leaves `privacy_requests` as they are, with the address or company
  name a correction stored in its resolution and whatever the person wrote as details or
  reason (`ErasureLeavesRequests`). The erasure of an administrator or auditor
  disables MFA, which `chk_admin_auditor_mfa` refuses: it is rolled back each time and the
  request stays PENDING (`ErasureFails`), where `docs/PRD.md` asks for all rights to be
  exercisable within 30 days.
* Sessions: the guard throws a plain error, not the 401 that `docs/PRD.md` names, so the
  proxy refreshes only when the access cookie is missing.
* Partners: the timeout of a request to a provider does not cover its body, the rate
  limit counts requests and not attempts, a certificate's date of expiry is not compared,
  overlapping lookups may store the older answer last, and a repeated temperature import
  repeats the artifact.
* Reports: everybody but exporters may read the report of any exporter, deleted evidence
  counts, and the MRV-lite store asks `audit_entries` for a `lane_id` it does not have.

## Plan

Done: 1 `ProofPackJobs` with its promise, 2 `AuditChain`, 3 `LaneLifecycle`, 4
`EvidenceStore`, 5 `LaneCreation` with the pool, 6 `CertificationAlerts`, 7 `Ingestion`
and `ColdChain`, 8 `Accounts` with erasure, 9 `RuleBook` and their composition, 10 the
operator modules.

Left: `LaneLifecycle` composed with `ProofPackJobs` in place of its `packs`, and shown
to implement it; updates of a lane as actions beside its status machine; breach
incidents and API keys.

Not modelled, and why:

* `createApiKey`, `revokeApiKey` and `ApiKeyAuthGuard` (a row and a lookup; what the
  scopes of a key allow is `MayWrite`), `reportBreachIncident` (one insert), consent
  history and other read-only listings, downloads and exports.
* `evaluateReadings` and `classifyTemperature`, which return a value nothing stores;
  readings sent twice for one instant; substances field by field (a change is one
  value); certificates a newer one supersedes (`Checklist` says which counts).
* OCR of pixels, PDF and HTML layout, EXIF parsing, hashing and JWT cryptography: they
  are functions of their input, and the models use only that they are (equal inputs,
  equal results; SHA-256 injective).
* The frontend's pages, scripts, load tests and templates: display and tooling.
