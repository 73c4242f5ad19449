------------------------------ MODULE AuditChain -------------------------------
(***************************************************************************)
(* The tamper-evident audit trail: every lane has a hash chain of audit    *)
(* entries in one shared table.  An append locks the lane's stream, reads  *)
(* the latest entry, stamps and links the new one and commits.  Chains are *)
(* verified by sorting the lane's entries by time and id.                  *)
(* Sources: common/audit/*, common/hashing/hashing.utils.ts and, for how   *)
(* a mutation and its entry are coupled, the services that append entries. *)
(*                                                                         *)
(* A hash is modelled by the write whose entry it digests: each write      *)
(* appends at most one entry, nothing updates the digested columns, and    *)
(* SHA-256 is taken to be injective.  The append transaction is four       *)
(* steps, each of which may fail; processes stamp entries with clocks of   *)
(* their own that never run backwards.  BeginUncoupled, LockNothing,       *)
(* FindLatestUnhashed and RollbackKeepingLock are mutants: variants of the *)
(* action below them with a plausible mistake.                             *)
(***************************************************************************)
EXTENDS Integers, FiniteSets, Sequences

CONSTANTS
    Writes,      \* requests that append an audit entry, or try to
    Lanes,       \* lanes; each is one stream
    LaneOf,      \* write -> the lane resolveStreamId finds
    KindOf,      \* write -> how its mutation is tied to its entry
    FormOf,      \* write -> the lane identifier form its entry stores
    Hosts,       \* API processes
    HostOf,      \* write -> the process that serves it
    Ids,         \* what randomUUID can return, ordered as PostgreSQL orders ids
    MaxTime,     \* bound: clock ticks
    Genesis      \* getGenesisHash()

\* "coupled": the mutation commits with its entry (evidence, rules engine);
\* "separate": it is committed before (lanes, proof packs, disputes);
\* "verify": POST lanes/:id/audit/verify, which mutates nothing.
Kinds == {"coupled", "separate", "verify"}

\* lanes.id, or the lanes.lane_id that users see.  Only the audit interceptor
\* stores the latter: it copies the route's parameter.
Forms == {"internal", "public"}

ASSUME WriteAssumption ==
    /\ LaneOf \in [Writes -> Lanes]
    /\ KindOf \in [Writes -> Kinds]
    /\ FormOf \in [Writes -> Forms]
    /\ HostOf \in [Writes -> Hosts]
    /\ \A w \in Writes : FormOf[w] = "public" => KindOf[w] = "verify"
ASSUME ValueAssumption == Ids \subseteq Nat /\ MaxTime \in Nat /\ Genesis \notin Writes

VARIABLES
    clock,    \* process -> new Date()
    log,      \* audit_entries, in the order of their commits
    holder,   \* lane -> the write holding its advisory lock, or Genesis
    phase,    \* write -> where createEntryWithStore stands
    draft,    \* write -> the timestamp and prevHash computed so far
    mutated,  \* writes whose mutation is committed
    verdict   \* verify request -> what it answered

vars == <<clock, log, holder, phase, draft, mutated, verdict>>

-----------------------------------------------------------------------------
(* The table and its two queries *)

Entry == [write : Writes, time : Nat, id : Ids, prev : Writes \cup {Genesis}]
Phase == {"idle", "locking", "reading", "inserting", "done", "failed"}
NoDraft == [time |-> 0, prev |-> Genesis]

Entries == {log[i] : i \in DOMAIN log}

\* ORDER BY timestamp, id
Before(e, f) == e.time < f.time \/ (e.time = f.time /\ e.id < f.id)
IsLast(e, S) == e \in S /\ \A f \in S \ {e} : Before(f, e)

\* buildLaneWhereClause: a LANE entry is matched by the identifier the caller
\* passed or by lanes.id, so only a caller passing the public form sees the
\* entries stored under it.
Listed(lane, form) ==
    {e \in Entries : LaneOf[e.write] = lane /\ FormOf[e.write] \in {"internal", form}}

\* The hash of the latest entry of S, or the genesis hash.
IsHead(h, S) ==
    \/ S = {} /\ h = Genesis
    \/ \E e \in S : IsLast(e, S) /\ h = e.write

\* verifyHashChain: every entry carries the hash of the one listed before it.
ChainValid(S) == \A e \in S : IsHead(e.prev, {f \in S : Before(f, e)})

-----------------------------------------------------------------------------
(* One append: AuditService.createEntryWithStore *)

\* The caller: a separate mutation commits first, a verification answers first,
\* a coupled mutation stays in the open transaction.
BeginUncoupled(w) ==
    /\ phase[w] = "idle"
    /\ mutated' = IF KindOf[w] # "verify" THEN mutated \cup {w} ELSE mutated
    /\ verdict' = IF KindOf[w] = "verify"
                  THEN [verdict EXCEPT ![w] =
                          IF ChainValid(Listed(LaneOf[w], FormOf[w])) THEN "valid" ELSE "invalid"]
                  ELSE verdict
    /\ phase' = [phase EXCEPT ![w] = "locking"]
    /\ UNCHANGED <<clock, log, holder, draft>>
Begin(w) ==
    /\ phase[w] = "idle"
    /\ mutated' = IF KindOf[w] = "separate" THEN mutated \cup {w} ELSE mutated
    /\ verdict' = IF KindOf[w] = "verify"
                  THEN [verdict EXCEPT ![w] =
                          IF ChainValid(Listed(LaneOf[w], FormOf[w])) THEN "valid" ELSE "invalid"]
                  ELSE verdict
    /\ phase' = [phase EXCEPT ![w] = "locking"]
    /\ UNCHANGED <<clock, log, holder, draft>>

\* lockStream: pg_advisory_xact_lock blocks until the holder's transaction ends.
LockNothing(w) ==
    /\ phase[w] = "locking"
    /\ phase' = [phase EXCEPT ![w] = "reading"]
    /\ UNCHANGED <<clock, log, holder, draft, mutated, verdict>>
LockStream(w) ==
    /\ phase[w] = "locking"
    /\ holder[LaneOf[w]] = Genesis
    /\ holder' = [holder EXCEPT ![LaneOf[w]] = w]
    /\ phase' = [phase EXCEPT ![w] = "reading"]
    /\ UNCHANGED <<clock, log, draft, mutated, verdict>>

\* findLatestForStream(the internal id), then the timestamp and the link.
FindLatestUnhashed(w) ==
    /\ phase[w] = "reading"
    /\ draft' = [draft EXCEPT ![w] =
          [time |-> clock[HostOf[w]], prev |-> {e.write : e \in Listed(LaneOf[w], "internal")}]]
    /\ phase' = [phase EXCEPT ![w] = "inserting"]
    /\ UNCHANGED <<clock, log, holder, mutated, verdict>>
FindLatest(w) ==
    /\ phase[w] = "reading"
    /\ \E h \in {Genesis} \cup {e.write : e \in Entries} :
          /\ IsHead(h, Listed(LaneOf[w], "internal"))
          /\ draft' = [draft EXCEPT ![w] = [time |-> clock[HostOf[w]], prev |-> h]]
    /\ phase' = [phase EXCEPT ![w] = "inserting"]
    /\ UNCHANGED <<clock, log, holder, mutated, verdict>>

\* The transaction ends: its advisory lock and its locals are gone.
Finish(w, outcome) ==
    /\ phase' = [phase EXCEPT ![w] = outcome]
    /\ holder' = [l \in Lanes |-> IF holder[l] = w THEN Genesis ELSE holder[l]]
    /\ draft' = [draft EXCEPT ![w] = NoDraft]

\* createEntry and COMMIT, with a coupled mutation.
CommitEntry(w) ==
    /\ phase[w] = "inserting"
    /\ \E id \in Ids \ {e.id : e \in Entries} :
          log' = Append(log, [write |-> w, time |-> draft[w].time, id |-> id, prev |-> draft[w].prev])
    /\ mutated' = IF KindOf[w] = "coupled" THEN mutated \cup {w} ELSE mutated
    /\ Finish(w, "done")
    /\ UNCHANGED <<clock, verdict>>

\* Any statement fails, or the process crashes: ROLLBACK.  Whoever called goes
\* on (appendPackAuditSafely, AuditInterceptor) or answers with an error; a
\* separate mutation stays.
RollbackKeepingLock(w) ==
    /\ phase[w] \in {"locking", "reading", "inserting"}
    /\ phase' = [phase EXCEPT ![w] = "failed"]
    /\ UNCHANGED <<clock, log, holder, draft, mutated, verdict>>
Rollback(w) ==
    /\ phase[w] \in {"locking", "reading", "inserting"}
    /\ Finish(w, "failed")
    /\ UNCHANGED <<clock, log, mutated, verdict>>

Tick(h) ==
    /\ clock[h] < MaxTime
    /\ clock' = [clock EXCEPT ![h] = @ + 1]
    /\ UNCHANGED <<log, holder, phase, draft, mutated, verdict>>

-----------------------------------------------------------------------------
Init ==
    /\ clock = [h \in Hosts |-> 0]
    /\ log = <<>>
    /\ holder = [l \in Lanes |-> Genesis]
    /\ phase = [w \in Writes |-> "idle"]
    /\ draft = [w \in Writes |-> NoDraft]
    /\ mutated = {}
    /\ verdict = [w \in Writes |-> "none"]

AppendStep(w) == LockStream(w) \/ FindLatest(w) \/ CommitEntry(w)

Next ==
    \/ \E w \in Writes : Begin(w) \/ AppendStep(w) \/ Rollback(w)
    \/ \E h \in Hosts : Tick(h)

Spec == Init /\ [][Next]_vars

\* Statements are answered, and the lock is granted once it stays free.
FairSpec == Spec /\ \A w \in Writes : WF_vars(AppendStep(w))

-----------------------------------------------------------------------------
(* Properties *)

\* Every variable keeps its type.
TypeOK ==
    /\ clock \in [Hosts -> Nat]
    /\ log \in Seq(Entry)
    /\ holder \in [Lanes -> Writes \cup {Genesis}]
    /\ phase \in [Writes -> Phase]
    /\ draft \in [Writes -> [time : Nat, prev : Writes \cup {Genesis}]]
    /\ mutated \subseteq Writes
    /\ verdict \in [Writes -> {"none", "valid", "invalid"}]

\* What an append read is still true when it inserts: nobody appended to the
\* same stream in between, whatever the interleaving of the transactions.
LinkStaysCurrent ==
    \A w \in Writes :
        phase[w] = "inserting" => IsHead(draft[w].prev, Listed(LaneOf[w], "internal"))

\* Evidence changes and their entries commit together or not at all.  A transition, a
\* dispute or a pack is committed before its entry: nothing is recorded that is not
\* committed, and what is committed and not recorded has an append that is under way or
\* has failed.
MutationsAndEntriesAgree ==
    \A w \in Writes :
        LET recorded == \E e \in Entries : e.write = w IN
        /\ KindOf[w] = "coupled" => (w \in mutated <=> recorded)
        /\ KindOf[w] = "separate" =>
              /\ recorded => w \in mutated
              /\ w \in mutated =>
                    recorded \/ phase[w] \in {"locking", "reading", "inserting", "failed"}

\* The entries a caller sees were stamped in the order they were committed in.
StampedInOrder(lane, form) ==
    \A i, j \in DOMAIN log :
        i < j /\ {log[i], log[j]} \subseteq Listed(lane, form) => log[i].time < log[j].time

\* Concurrent appends never fork a chain: the entries under a lane's internal id
\* verify whenever the clocks stamped them in commit order.
OrderedChainsVerify ==
    \A lane \in Lanes : StampedInOrder(lane, "internal") => ChainValid(Listed(lane, "internal"))

\* A process whose clock does not run backwards stamps a lane's entries in order,
\* because it does so under the lock: on one process only a tie of two
\* timestamps can break the chain.
OneHostChainsVerify ==
    \A lane \in Lanes :
        LET S == Listed(lane, "internal") IN
            /\ \A e, f \in S : HostOf[e.write] = HostOf[f.write]
            /\ \A e, f \in S : e # f => e.time # f.time
            => ChainValid(S)

\* However appends overlap, a lane's entries stay one chain: what an append read is still
\* the head when it inserts, and the chain verifies unless clocks disagree or tie.
OneChainPerLane == LinkStaysCurrent /\ OrderedChainsVerify /\ OneHostChainsVerify

\* No append blocks a stream for good: whatever fails and in whatever order the
\* lock is granted, every append that was begun has ended, time and again.
EveryAppendEnds == []<>(\A w \in Writes : phase[w] \in {"idle", "done", "failed"})

\* What the integrity test promises of POST lanes/:id/audit/verify: the answer
\* for a chain nobody tampered with is valid, at least while no clock puts the
\* entries in another order than their commits.
UntamperedChainVerifies ==
    \A w \in Writes : StampedInOrder(LaneOf[w], "public") => verdict[w] # "invalid"
===============================================================================
