----------------------------- MODULE LaneCreation ------------------------------
(***************************************************************************)
(* Lane creation and its use of the connection pool.  LaneService.create   *)
(* numbers a lane and its batch under two advisory locks, in a transaction *)
(* on one client of the pool, while the rule snapshot is read through      *)
(* another client.  createDispute and generateDefensePack do likewise:     *)
(* the transition and the audit entry take clients of their own while the  *)
(* transaction keeps its client.  A plain append is any other request: one *)
(* client, given back by itself.  pg serves the waiting in order, without  *)
(* a timeout (database.module.ts sets none).                               *)
(*                                                                         *)
(* Rows of a lane other than its two numbers are data.  The stream lock of *)
(* an audit entry is AuditChain's: an append that has a client ends.       *)
(* ServeClientUnbounded, NumberUnlocked and RollbackKeepingClient are      *)
(* mutants.                                                                *)
(***************************************************************************)
EXTENDS Integers, FiniteSets, SequencesExt

CONSTANTS
    Requests,
    KindOf,      \* request -> create, dispute (or defense pack), append
    YearOf,      \* request -> year of the clock when it began
    PrefixOf,    \* request -> buildBatchPrefix
    Seeded,      \* year or prefix -> numbers given out before
    Pool,        \* DB_POOL_SIZE
    MaxFaults,   \* bound: statements that fail
    Nobody

Years == {YearOf[r] : r \in Requests}
BatchPrefixes == {PrefixOf[r] : r \in Requests}
Counters == Years \cup BatchPrefixes

ASSUME CreationAssumption ==
    /\ KindOf \in [Requests -> {"create", "dispute", "append"}]
    /\ Nobody \notin Requests
    /\ Years \cap BatchPrefixes = {}
    /\ Seeded \in [Counters -> 0 .. 999]
    /\ Pool \in Nat \ {0} /\ MaxFaults \in Nat

VARIABLES
    at,        \* request -> the call it is in
    queue,     \* requests that wait for a client
    outer,     \* requests whose transaction holds a client
    borrowed,  \* requests that hold a client for a call of its own
    locks,     \* sequence -> holder of its advisory lock
    draft,     \* request -> numbers generated
    given,     \* sequence -> numbers committed, with the request: [number, by]
    result,    \* request -> how it ended
    faults

vars == <<at, queue, outer, borrowed, locks, draft, given, result, faults>>

At == {"idle", "open", "year", "number", "prefix", "count", "rules", "insert", "commit",
       "transition", "entry", "close", "ended"}
Result == {"none", "created", "unruled", "duplicate", "failed", "done"}
NoNumbers == [lane |-> 0, batch |-> 0]

\* Calls that take a client of the pool.
Taking == {"open", "rules", "transition", "entry"}
Free == Pool - Cardinality(outer) - Cardinality(borrowed)
Waits(r) == \E i \in DOMAIN queue : queue[i] = r

\* ORDER BY lane_id DESC compares texts: padSequence pads to three digits, so that
\* 1000 comes before 999.
TextBefore(m, n) ==
    LET cut(k) == IF k > 999 THEN k \div 10 ELSE k
    IN  IF (m > 999) = (n > 999) THEN m < n
        ELSE cut(m) < cut(n) \/ (cut(m) = cut(n) /\ m < n)
Numbers(sequence) == {g.number : g \in given[sequence]}
Latest(sequence) ==
    LET rows == Numbers(sequence) \cup ({Seeded[sequence]} \ {0})
    IN  IF rows = {} THEN 0
        ELSE CHOOSE n \in rows : \A m \in rows \ {n} : TextBefore(m, n)

-----------------------------------------------------------------------------
Init ==
    /\ at = [r \in Requests |-> "idle"]
    /\ queue = << >> /\ outer = {} /\ borrowed = {}
    /\ locks = [s \in Counters |-> Nobody]
    /\ draft = [r \in Requests |-> NoNumbers]
    /\ given = [s \in Counters |-> {}]
    /\ result = [r \in Requests |-> "none"]
    /\ faults = 0

Goto(r, call) == at' = [at EXCEPT ![r] = call]
Finish(r, how) == Goto(r, "ended") /\ result' = [result EXCEPT ![r] = how]

Start(r) ==
    /\ at[r] = "idle"
    /\ Goto(r, IF KindOf[r] = "append" THEN "entry" ELSE "open")
    /\ UNCHANGED <<queue, outer, borrowed, locks, draft, given, result, faults>>

\* pool.connect() or pool.query(): in line behind the others ...
AskForClient(r) ==
    /\ at[r] \in Taking /\ ~Waits(r) /\ r \notin borrowed
    /\ queue' = Append(queue, r)
    /\ UNCHANGED <<at, outer, borrowed, locks, draft, given, result, faults>>

\* ... until a client is free.  Of a dispute only a CLOSED lane is moved.
ServeFirst ==
    /\ queue' = Tail(queue)
    /\ LET r == Head(queue)
       IN  IF at[r] = "open"
           THEN /\ outer' = outer \cup {r} /\ UNCHANGED borrowed
                /\ \E call \in IF KindOf[r] = "create" THEN {"year"} ELSE {"transition", "entry"} :
                      Goto(r, call)
           ELSE borrowed' = borrowed \cup {r} /\ UNCHANGED <<at, outer>>
    /\ UNCHANGED <<locks, draft, given, result, faults>>
ServeClientUnbounded == queue # << >> /\ ServeFirst
ServeClient == queue # << >> /\ Free > 0 /\ ServeFirst

\* findLatestLaneIdByYear, findLatestBatchIdByPrefix: the lock, held to the end of the
\* transaction, then the query.
Sequence(r) == IF at[r] = "year" THEN YearOf[r] ELSE PrefixOf[r]
NumberUnlocked(r) ==
    /\ at[r] \in {"year", "prefix"}
    /\ Goto(r, IF at[r] = "year" THEN "number" ELSE "count")
    /\ UNCHANGED <<queue, outer, borrowed, locks, draft, given, result, faults>>
LockSequence(r) ==
    /\ at[r] \in {"year", "prefix"}
    /\ locks[Sequence(r)] = Nobody
    /\ locks' = [locks EXCEPT ![Sequence(r)] = r]
    /\ Goto(r, IF at[r] = "year" THEN "number" ELSE "count")
    /\ UNCHANGED <<queue, outer, borrowed, draft, given, result, faults>>

GenerateLaneId(r) ==
    /\ at[r] = "number"
    /\ draft' = [draft EXCEPT ![r].lane = Latest(YearOf[r]) + 1]
    /\ Goto(r, "prefix")
    /\ UNCHANGED <<queue, outer, borrowed, locks, given, result, faults>>
GenerateBatchId(r) ==
    /\ at[r] = "count"
    /\ draft' = [draft EXCEPT ![r].batch = Latest(PrefixOf[r]) + 1]
    /\ Goto(r, "rules")
    /\ UNCHANGED <<queue, outer, borrowed, locks, given, result, faults>>

-----------------------------------------------------------------------------
\* The end of a transaction frees its locks, and finally its client.
Unlock(r) == locks' = [s \in Counters |-> IF locks[s] = r THEN Nobody ELSE locks[s]]
RollbackKeepingClient(r, how) ==
    /\ Unlock(r) /\ borrowed' = borrowed \ {r} /\ UNCHANGED outer
    /\ Finish(r, how)
Rollback(r, how) ==
    /\ Unlock(r) /\ outer' = outer \ {r} /\ borrowed' = borrowed \ {r}
    /\ Finish(r, how)

\* ruleSnapshotResolver.resolve has its answer, rules or none, and gives its client back.
ResolveRules(r) ==
    /\ at[r] = "rules" /\ r \in borrowed
    /\ \/ /\ Goto(r, "insert") /\ borrowed' = borrowed \ {r}
          /\ UNCHANGED <<outer, locks, result>>
       \/ Rollback(r, "unruled")
    /\ UNCHANGED <<queue, draft, given, faults>>

\* createLaneBundle: lane_id and batch_id are unique, so an insert waits for another
\* transaction's of the same number, and is refused when that is committed.
Clash(r, t) ==
    \/ YearOf[t] = YearOf[r] /\ draft[t].lane = draft[r].lane
    \/ PrefixOf[t] = PrefixOf[r] /\ draft[t].batch = draft[r].batch
CreateLaneBundle(r) ==
    /\ at[r] = "insert"
    /\ \A t \in outer : ~(at[t] = "commit" /\ Clash(r, t))
    /\ IF draft[r].lane \in Numbers(YearOf[r]) \/ draft[r].batch \in Numbers(PrefixOf[r])
       THEN Rollback(r, "duplicate")
       ELSE Goto(r, "commit") /\ UNCHANGED <<outer, borrowed, locks, result>>
    /\ UNCHANGED <<queue, draft, given, faults>>

CommitLane(r) ==
    /\ at[r] = "commit"
    /\ given' = [given EXCEPT ![YearOf[r]] = @ \cup {[number |-> draft[r].lane, by |-> r]},
                              ![PrefixOf[r]] = @ \cup {[number |-> draft[r].batch, by |-> r]}]
    /\ Unlock(r) /\ outer' = outer \ {r}
    /\ Goto(r, "entry")
    /\ UNCHANGED <<queue, borrowed, draft, result, faults>>

-----------------------------------------------------------------------------
\* createDispute: the lane's transition, and its entry, on clients of their own.
TransitionLane(r) ==
    /\ at[r] = "transition" /\ r \in borrowed
    /\ borrowed' = borrowed \ {r}
    /\ Goto(r, "entry")
    /\ UNCHANGED <<queue, outer, locks, draft, given, result, faults>>

\* AuditService.createEntry: of a creation after its commit, of a dispute before it.
AppendEntry(r) ==
    /\ at[r] = "entry" /\ r \in borrowed
    /\ borrowed' = borrowed \ {r}
    /\ IF r \in outer THEN Goto(r, "close") /\ UNCHANGED result
       ELSE Finish(r, IF KindOf[r] = "create" THEN "created" ELSE "done")
    /\ UNCHANGED <<queue, outer, locks, draft, given, faults>>

CommitDispute(r) ==
    /\ at[r] = "close"
    /\ outer' = outer \ {r}
    /\ Finish(r, "done")
    /\ UNCHANGED <<queue, borrowed, locks, draft, given, faults>>

\* A statement on a client it has fails: ROLLBACK, if there is a transaction.
Fail(r) ==
    /\ IF at[r] \in Taking THEN r \in borrowed ELSE r \in outer
    /\ faults < MaxFaults /\ faults' = faults + 1
    /\ Rollback(r, "failed")
    /\ UNCHANGED <<queue, draft, given>>

Step(r) ==
    \/ LockSequence(r) \/ GenerateLaneId(r) \/ GenerateBatchId(r) \/ ResolveRules(r)
    \/ CreateLaneBundle(r) \/ CommitLane(r)
    \/ TransitionLane(r) \/ AppendEntry(r) \/ CommitDispute(r)

Next ==
    \/ \E r \in Requests : Start(r) \/ AskForClient(r) \/ Step(r) \/ Fail(r)
    \/ ServeClient

Spec == Init /\ [][Next]_vars

\* The event loop goes on with every request that does not wait, Postgres grants a
\* free lock and the pool a free client.  Nobody has to send a request.
FairSpec ==
    /\ Spec
    /\ \A r \in Requests : WF_vars(AskForClient(r) \/ Step(r))
    /\ WF_vars(ServeClient)

-----------------------------------------------------------------------------
TypeOK ==
    /\ at \in [Requests -> At]
    /\ Range(queue) \subseteq Requests /\ IsInjective(queue)
    /\ outer \subseteq Requests /\ borrowed \subseteq Requests
    /\ Free \in 0 .. Pool
    /\ locks \in [Counters -> Requests \cup {Nobody}]
    /\ draft \in [Requests -> [lane : 0 .. 1000, batch : 0 .. 1000]]
    /\ \A s \in Counters : given[s] \subseteq [number : 1 .. 1000, by : Requests]
    /\ result \in [Requests -> Result]
    /\ faults \in 0 .. MaxFaults

\* Concurrent creations, whichever fail, number the lanes of a year and the batches of a
\* prefix without a gap and without a number twice, and none is refused because of
\* another, as far as three digits go: once 1000 lanes of its year or 1000 batches of its
\* prefix are there, a creation drafts 1000 again, and the unique index refuses it.
NumbersAreConsecutive ==
    /\ \A s \in Counters :
          /\ Numbers(s) = Seeded[s] + 1 .. Seeded[s] + Cardinality(Numbers(s))
          /\ \A g, h \in given[s] : g.number = h.number => g = h
    /\ \A r \in Requests : result[r] = "duplicate" =>
          1000 \in Numbers(YearOf[r]) \cup Numbers(PrefixOf[r])

\* Every client belongs to a transaction that waits for one more, or for a transaction
\* that does.
Starved ==
    /\ Cardinality(outer) = Pool
    /\ \A r \in outer :
          \/ Waits(r)
          \/ at[r] \in {"year", "prefix"} /\ locks[Sequence(r)] \in outer

\* Nothing but a pool full of such transactions keeps a request from ending: no order
\* of the two locks, no failure and no refused creation leaves a lock or a client behind.
RequestsEndOrStarve ==
    []<>(Starved \/ \A r \in Requests : at[r] \in {"idle", "ended"})
===============================================================================
