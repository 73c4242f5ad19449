--------------------------- MODULE AuditChainProofs ---------------------------
(***************************************************************************)
(* Theorems about AuditChain, for any number of writes, lanes, processes   *)
(* and clock ticks.  The argument: an append in progress holds its lane's  *)
(* lock (LockInv), so what it read stays the latest entry and its stamp    *)
(* the lane's greatest of that process (DraftInv); hence each entry links  *)
(* to the one committed before it (LogInv, OrderInv), which is the one     *)
(* listed before it whenever the stamps follow the commits.                *)
(***************************************************************************)
EXTENDS AuditChain, TLAPS

\* A transaction between its lock and its end holds the lane's lock.
LockInv ==
    \A w \in Writes : phase[w] \in {"reading", "inserting"} => holder[LaneOf[w]] = w

\* i and j are entries of one lane; of one lane and one process.
SameLane(x, y) == LaneOf[x] = LaneOf[y]
SameSource(x, y) == LaneOf[x] = LaneOf[y] /\ HostOf[x] = HostOf[y]

\* The stamp of an insert is no later than its clock, and no earlier than any
\* stamp its process has put on the lane.
DraftInv ==
    \A w \in Writes : phase[w] = "inserting" =>
        /\ draft[w].time <= clock[HostOf[w]]
        /\ \A i \in DOMAIN log : SameSource(log[i].write, w) => log[i].time <= draft[w].time

\* The entries of entry i's lane under its internal id committed before it.
Earlier(i) ==
    {log[j] : j \in {k \in DOMAIN log :
        k < i /\ SameLane(log[k].write, log[i].write) /\ FormOf[log[k].write] = "internal"}}

LogInv ==
    \A i \in DOMAIN log :
        /\ phase[log[i].write] = "done"
        /\ log[i].time <= clock[HostOf[log[i].write]]
        /\ IsHead(log[i].prev, Earlier(i))

\* A write appends once, and one process stamps a lane's entries in order.
OrderInv ==
    \A i, j \in DOMAIN log : i < j =>
        /\ log[i].write # log[j].write
        /\ SameSource(log[i].write, log[j].write) => log[i].time <= log[j].time

\* What a write's phase says of its mutation and its entry.
MutationInv ==
    \A w \in Writes :
        /\ KindOf[w] = "coupled" => (w \in mutated <=> phase[w] = "done")
        /\ KindOf[w] = "separate" => (w \in mutated <=> phase[w] # "idle")
        /\ phase[w] = "done" => \E i \in DOMAIN log : log[i].write = w

SafetyInv ==
    TypeOK /\ LockInv /\ LinkStaysCurrent /\ DraftInv /\ LogInv /\ OrderInv /\ MutationInv

-----------------------------------------------------------------------------
(* Types *)

\* A commit appends one entry of the write's lane, stamped and linked as drafted.
LEMMA CommitFrame ==
    ASSUME TypeOK, NEW w \in Writes, CommitEntry(w)
    PROVE  /\ log' \in Seq(Entry)
           /\ DOMAIN log' = DOMAIN log \cup {Len(log) + 1}
           /\ DOMAIN log = 1 .. Len(log)
           /\ Len(log) \in Nat
           /\ \A i \in DOMAIN log : log'[i] = log[i]
           /\ log'[Len(log) + 1] \in Entry
           /\ log'[Len(log) + 1].write = w
           /\ log'[Len(log) + 1].time = draft[w].time
           /\ log'[Len(log) + 1].prev = draft[w].prev
<1>1. PICK id \in Ids :
        log' = Append(log, [write |-> w, time |-> draft[w].time, id |-> id, prev |-> draft[w].prev])
  BY DEF CommitEntry
<1> DEFINE e == [write |-> w, time |-> draft[w].time, id |-> id, prev |-> draft[w].prev]
<1>2. e \in Entry
  BY DEF TypeOK, Entry
<1>3. log \in Seq(Entry)
  BY DEF TypeOK
<1>4. /\ log' = Append(log, e)
      /\ e.write = w /\ e.time = draft[w].time /\ e.prev = draft[w].prev
  BY <1>1
<1> HIDE DEF e
<1>5. /\ Len(log) \in Nat
      /\ DOMAIN log = 1 .. Len(log)
      /\ log' \in Seq(Entry)
      /\ Len(log') = Len(log) + 1
      /\ DOMAIN log' = 1 .. (Len(log) + 1)
      /\ \A i \in 1 .. Len(log) : log'[i] = log[i]
      /\ log'[Len(log) + 1] = e
  BY <1>2, <1>3, <1>4
<1> QED
  BY <1>2, <1>4, <1>5

\* The rows of the table.
LEMMA EntryTypes ==
    ASSUME TypeOK, NEW i \in DOMAIN log
    PROVE  /\ i \in Int
           /\ log[i] \in Entry
           /\ log[i].write \in Writes /\ log[i].time \in Nat /\ log[i].id \in Nat
           /\ HostOf[log[i].write] \in Hosts
<1>1. i \in 1 .. Len(log) /\ log[i] \in Entry
  BY DEF TypeOK
<1>2. log[i].write \in Writes /\ log[i].time \in Nat /\ log[i].id \in Ids
  BY <1>1 DEF Entry
<1>3. i \in Int
  BY <1>1 DEF TypeOK
<1>4. HostOf[log[i].write] \in Hosts
  BY <1>2, WriteAssumption
<1>5. log[i].id \in Nat
  BY <1>2, ValueAssumption
<1> QED
  BY <1>1, <1>2, <1>3, <1>4, <1>5

LEMMA TypeInit == Init => TypeOK
BY WriteAssumption, ValueAssumption DEF Init, TypeOK, Phase, NoDraft

LEMMA FinishType ==
    ASSUME TypeOK, NEW w \in Writes, NEW outcome \in {"done", "failed"}, Finish(w, outcome)
    PROVE  /\ phase' \in [Writes -> Phase]
           /\ holder' \in [Lanes -> Writes \cup {Genesis}]
           /\ draft' \in [Writes -> [time : Nat, prev : Writes \cup {Genesis}]]
BY DEF TypeOK, Finish, Phase, NoDraft

LEMMA TypeNext == TypeOK /\ [Next]_vars => TypeOK'
<1> SUFFICES ASSUME TypeOK, [Next]_vars PROVE TypeOK'
  OBVIOUS
<1> USE WriteAssumption, ValueAssumption
<1>1. CASE UNCHANGED vars
  BY <1>1 DEF TypeOK, vars
<1>2. ASSUME NEW w \in Writes, Begin(w) PROVE TypeOK'
  <2>1. verdict' \in [Writes -> {"none", "valid", "invalid"}]
    BY <1>2 DEF Begin, TypeOK
  <2> QED
    BY <1>2, <2>1 DEF Begin, TypeOK, Phase
<1>3. ASSUME NEW w \in Writes, LockStream(w) PROVE TypeOK'
  BY <1>3 DEF LockStream, TypeOK, Phase
<1>4. ASSUME NEW w \in Writes, FindLatest(w) PROVE TypeOK'
  <2>1. PICK h \in {Genesis} \cup {e.write : e \in Entries} :
          draft' = [draft EXCEPT ![w] = [time |-> clock[HostOf[w]], prev |-> h]]
    BY <1>4 DEF FindLatest
  <2>2. Entries \subseteq Entry
    BY DEF TypeOK, Entries
  <2>3. h \in Writes \cup {Genesis}
    BY <2>2 DEF Entry
  <2>4. draft' \in [Writes -> [time : Nat, prev : Writes \cup {Genesis}]]
    BY <2>1, <2>3 DEF TypeOK
  <2> QED
    BY <1>4, <2>4 DEF FindLatest, TypeOK, Phase
<1>5. ASSUME NEW w \in Writes, CommitEntry(w) PROVE TypeOK'
  <2>1. Finish(w, "done") /\ UNCHANGED <<clock, verdict>> /\ mutated' \subseteq Writes
    BY <1>5 DEF CommitEntry, TypeOK
  <2> QED
    BY <1>5, <2>1, CommitFrame, FinishType DEF TypeOK
<1>6. ASSUME NEW w \in Writes, Rollback(w) PROVE TypeOK'
  <2>1. Finish(w, "failed") /\ UNCHANGED <<clock, log, mutated, verdict>>
    BY <1>6 DEF Rollback
  <2> QED
    BY <2>1, FinishType DEF TypeOK
<1>7. ASSUME NEW h \in Hosts, Tick(h) PROVE TypeOK'
  BY <1>7 DEF Tick, TypeOK
<1> QED
  BY <1>1, <1>2, <1>3, <1>4, <1>5, <1>6, <1>7 DEF Next, AppendStep

\* The trail keeps its types: entries stamped with naturals and linked to writes.
THEOREM AuditTypeCorrect == Spec => []TypeOK
BY TypeInit, TypeNext, PTL DEF Spec

-----------------------------------------------------------------------------
(* The steps of a write, as seen by the others *)

\* Every step but a commit leaves the trail alone; every step leaves the phases,
\* the drafts and the locks of the other writes alone; no clock runs backwards.
LEMMA Frame ==
    ASSUME TypeOK, LockInv, [Next]_vars
    PROVE  /\ log' = log \/ \E w \in Writes : CommitEntry(w)
           /\ \A h \in Hosts : clock[h] <= clock'[h]
           /\ \A w \in Writes : phase[w] = "done" => phase'[w] = "done"
           /\ \A w \in Writes : phase'[w] = "inserting" /\ phase[w] = "inserting" => draft'[w] = draft[w]
           /\ LockInv'
<1> USE WriteAssumption, ValueAssumption
<1>1. CASE UNCHANGED vars
  BY <1>1 DEF TypeOK, vars, LockInv
<1>2. ASSUME NEW w \in Writes, Begin(w) PROVE UNCHANGED <<clock, log, holder, draft>> /\ phase[w] = "idle"
                                              /\ phase' = [phase EXCEPT ![w] = "locking"]
  BY <1>2 DEF Begin
<1>3. ASSUME NEW w \in Writes, LockStream(w)
      PROVE  /\ UNCHANGED <<clock, log, draft>> /\ phase[w] = "locking"
             /\ phase' = [phase EXCEPT ![w] = "reading"]
             /\ holder[LaneOf[w]] = Genesis /\ holder' = [holder EXCEPT ![LaneOf[w]] = w]
  BY <1>3 DEF LockStream
<1>4. ASSUME NEW w \in Writes, FindLatest(w)
      PROVE  /\ UNCHANGED <<clock, log, holder>> /\ phase[w] = "reading"
             /\ phase' = [phase EXCEPT ![w] = "inserting"]
             /\ \A x \in Writes \ {w} : draft'[x] = draft[x]
  BY <1>4 DEF FindLatest, TypeOK
<1>5. ASSUME NEW w \in Writes, NEW outcome \in {"done", "failed"}, Finish(w, outcome),
             phase[w] \in {"locking", "reading", "inserting"}, UNCHANGED clock
      PROVE  /\ \A h \in Hosts : clock[h] <= clock'[h]
             /\ \A x \in Writes : phase[x] = "done" => phase'[x] = "done"
             /\ \A x \in Writes : phase'[x] = "inserting" /\ phase[x] = "inserting" => draft'[x] = draft[x]
             /\ LockInv'
  BY <1>5 DEF Finish, TypeOK, LockInv
<1>6. ASSUME NEW h \in Hosts, Tick(h)
      PROVE  UNCHANGED <<log, holder, phase, draft>> /\ \A g \in Hosts : clock[g] <= clock'[g]
  BY <1>6 DEF Tick, TypeOK
<1>7. ASSUME NEW w \in Writes, CommitEntry(w)
      PROVE  Finish(w, "done") /\ phase[w] = "inserting" /\ UNCHANGED clock
  BY <1>7 DEF CommitEntry
<1>8. ASSUME NEW w \in Writes, Rollback(w)
      PROVE  /\ Finish(w, "failed") /\ phase[w] \in {"locking", "reading", "inserting"}
             /\ UNCHANGED <<clock, log>>
  BY <1>8 DEF Rollback
<1>9. CASE \E w \in Writes : Begin(w)
  BY <1>9, <1>2 DEF TypeOK, LockInv
<1>10. CASE \E w \in Writes : LockStream(w)
  <2>1. PICK w \in Writes : LockStream(w)
    BY <1>10
  <2>2. \A x \in Writes : x # w => phase'[x] = phase[x]
    BY <2>1, <1>3 DEF TypeOK
  <2>3. \A l \in Lanes : holder'[l] = IF l = LaneOf[w] THEN w ELSE holder[l]
    BY <2>1, <1>3 DEF TypeOK
  <2>4. ASSUME NEW x \in Writes, phase'[x] \in {"reading", "inserting"} PROVE holder'[LaneOf[x]] = x
    <3>1. x # w => holder[LaneOf[x]] = x
      BY <2>2, <2>4 DEF LockInv
    <3> QED
      BY <3>1, <2>1, <2>3, <1>3
  <2>5. LockInv'
    BY <2>4 DEF LockInv
  <2>6. phase'[w] = "reading" /\ phase[w] = "locking"
    BY <2>1, <1>3 DEF TypeOK
  <2> QED
    BY <2>1, <2>2, <2>5, <2>6, <1>3 DEF TypeOK
<1>11. CASE \E w \in Writes : FindLatest(w)
  BY <1>11, <1>4 DEF TypeOK, LockInv
<1>12. CASE \E w \in Writes : CommitEntry(w)
  BY <1>12, <1>5, <1>7
<1>13. CASE \E w \in Writes : Rollback(w)
  BY <1>13, <1>5, <1>8
<1>14. CASE \E h \in Hosts : Tick(h)
  BY <1>14, <1>6 DEF TypeOK, LockInv
<1> QED
  BY <1>1, <1>9, <1>10, <1>11, <1>12, <1>13, <1>14 DEF Next, AppendStep

\* A commit in another lane does not change what a lane lists.
LEMMA OtherLanesListTheSame ==
    ASSUME TypeOK, NEW w \in Writes, CommitEntry(w), NEW lane \in Lanes, LaneOf[w] # lane, NEW form \in Forms
    PROVE  Listed(lane, form)' = Listed(lane, form)
<1> USE CommitFrame
<1>1. \A i \in DOMAIN log : log[i] \in Entries' /\ log[i] \in Entries
  BY DEF Entries
<1>2. \A e \in Entries' : e \in Entries \/ e.write = w
  BY DEF Entries
<1>3. \A e \in Entries : e \in Entries'
  BY <1>1 DEF Entries
<1> QED
  BY <1>2, <1>3 DEF Listed

\* What the inserts in progress have read does not go stale.
LEMMA LinkNext ==
    TypeOK /\ LockInv /\ LinkStaysCurrent /\ [Next]_vars => LinkStaysCurrent'
<1> SUFFICES ASSUME TypeOK, LockInv, LinkStaysCurrent, [Next]_vars,
                    NEW w \in Writes, phase'[w] = "inserting"
             PROVE  IsHead(draft[w].prev, Listed(LaneOf[w], "internal"))'
  BY DEF LinkStaysCurrent
<1> USE WriteAssumption, ValueAssumption
<1>1. CASE phase[w] = "inserting"
  <2>1. draft'[w] = draft[w] /\ IsHead(draft[w].prev, Listed(LaneOf[w], "internal"))
    BY <1>1, Frame DEF LinkStaysCurrent
  <2>2. CASE log' = log
    BY <2>1, <2>2 DEF IsHead, IsLast, Before, Listed, Entries
  <2>3. ASSUME NEW x \in Writes, CommitEntry(x) PROVE LaneOf[x] # LaneOf[w]
    <3>1. phase[x] = "inserting" /\ phase'[x] = "done"
      BY <2>3 DEF CommitEntry, Finish, TypeOK
    <3> QED
      BY <3>1, <1>1 DEF LockInv
  <2>4. CASE \E x \in Writes : CommitEntry(x)
    <3>1. Listed(LaneOf[w], "internal")' = Listed(LaneOf[w], "internal")
      BY <2>3, <2>4, OtherLanesListTheSame DEF Forms
    <3> QED
      BY <2>1, <3>1 DEF IsHead, IsLast, Before
  <2> QED
    BY <2>2, <2>4, Frame
<1>2. CASE phase[w] # "inserting"
  <2>1. FindLatest(w)
    BY <1>2 DEF Next, AppendStep, vars, TypeOK, Begin, LockStream, FindLatest, CommitEntry, Rollback, Finish, Tick
  <2>2. PICK h \in {Genesis} \cup {e.write : e \in Entries} :
          /\ IsHead(h, Listed(LaneOf[w], "internal"))
          /\ draft' = [draft EXCEPT ![w] = [time |-> clock[HostOf[w]], prev |-> h]]
    BY <2>1 DEF FindLatest
  <2>3. draft'[w].prev = h /\ log' = log
    BY <2>1, <2>2 DEF FindLatest, TypeOK
  <2> QED
    BY <2>2, <2>3 DEF IsHead, IsLast, Before, Listed, Entries
<1> QED
  BY <1>1, <1>2

\* A stamp is taken under the lock, so no later entry of the lane precedes it.
LEMMA DraftNext ==
    TypeOK /\ LockInv /\ DraftInv /\ LogInv /\ [Next]_vars => DraftInv'
<1> SUFFICES ASSUME TypeOK, LockInv, DraftInv, LogInv, [Next]_vars,
                    NEW w \in Writes, phase'[w] = "inserting"
             PROVE  /\ draft'[w].time <= clock'[HostOf[w]]
                    /\ \A i \in DOMAIN log' :
                          SameSource(log'[i].write, w) => log'[i].time <= draft'[w].time
  BY DEF DraftInv, SameSource
<1> USE WriteAssumption, ValueAssumption
<1>0. HostOf[w] \in Hosts /\ clock[HostOf[w]] \in Nat
  BY DEF TypeOK
<1>1. CASE phase[w] = "inserting"
  <2>1. /\ draft'[w] = draft[w]
        /\ draft[w].time <= clock[HostOf[w]]
        /\ \A i \in DOMAIN log : SameSource(log[i].write, w) => log[i].time <= draft[w].time
    BY <1>1, Frame DEF DraftInv
  <2>2. draft'[w].time <= clock'[HostOf[w]]
    <3>1. clock[HostOf[w]] <= clock'[HostOf[w]]
      BY <1>0, Frame
    <3>2. TypeOK'
      BY TypeNext
    <3>3. clock'[HostOf[w]] \in Nat /\ draft[w].time \in Nat
      BY <1>0, <3>2 DEF TypeOK
    <3> QED
      BY <1>0, <2>1, <3>1, <3>3
  <2>3. CASE log' = log
    BY <2>1, <2>2, <2>3
  <2>4. ASSUME NEW x \in Writes, CommitEntry(x)
        PROVE  \A i \in DOMAIN log' : SameSource(log'[i].write, w) => log'[i].time <= draft'[w].time
    <3>1. phase[x] = "inserting" /\ phase'[x] = "done"
      BY <2>4 DEF CommitEntry, Finish, TypeOK
    <3>2. ~SameSource(x, w)
      BY <3>1, <1>1 DEF LockInv, SameSource
    <3> QED
      BY <2>1, <2>4, <3>2, CommitFrame
  <2> QED
    BY <2>2, <2>3, <2>4, Frame
<1>2. CASE phase[w] # "inserting"
  <2>1. FindLatest(w)
    BY <1>2 DEF Next, AppendStep, vars, TypeOK, Begin, LockStream, FindLatest, CommitEntry, Rollback, Finish, Tick
  <2>2. draft'[w].time = clock[HostOf[w]] /\ UNCHANGED <<log, clock>>
    BY <2>1 DEF FindLatest, TypeOK
  <2>3. \A i \in DOMAIN log : SameSource(log[i].write, w) => log[i].time <= clock[HostOf[w]]
    BY DEF LogInv, SameSource
  <2> QED
    BY <1>0, <2>2, <2>3
<1> QED
  BY <1>1, <1>2

\* The entries committed before a new one are those its writer could list.
LEMMA EarlierIsListed ==
    ASSUME TypeOK, NEW w \in Writes, CommitEntry(w), NEW n \in Nat, n = Len(log) + 1
    PROVE  /\ \A i \in DOMAIN log : Earlier(i)' = Earlier(i)
           /\ Earlier(n)' = Listed(LaneOf[w], "internal")
<1> USE CommitFrame
<1>1. ASSUME NEW i \in DOMAIN log PROVE Earlier(i)' = Earlier(i)
  <2>1. \A k \in DOMAIN log' : k < i <=> k \in DOMAIN log /\ k < i
    OBVIOUS
  <2> QED
    BY <2>1 DEF Earlier, SameLane
<1>2. \A k \in DOMAIN log' : k < n <=> k \in DOMAIN log
  OBVIOUS
<1>3. Earlier(n)' =
        {log[k] : k \in {j \in DOMAIN log : LaneOf[log[j].write] = LaneOf[w] /\ FormOf[log[j].write] = "internal"}}
  BY <1>2 DEF Earlier, SameLane
<1>4. Listed(LaneOf[w], "internal") =
        {log[k] : k \in {j \in DOMAIN log : LaneOf[log[j].write] = LaneOf[w] /\ FormOf[log[j].write] = "internal"}}
  BY DEF Listed, Entries
<1> QED
  BY <1>1, <1>3, <1>4

\* Each entry links to the latest one committed before it in its lane.
LEMMA LogNext ==
    TypeOK /\ LockInv /\ LinkStaysCurrent /\ DraftInv /\ LogInv /\ [Next]_vars => LogInv'
<1> SUFFICES ASSUME TypeOK, LockInv, LinkStaysCurrent, DraftInv, LogInv, [Next]_vars,
                    NEW i \in DOMAIN log'
             PROVE  /\ phase'[log'[i].write] = "done"
                    /\ log'[i].time <= clock'[HostOf[log'[i].write]]
                    /\ IsHead(log[i].prev, Earlier(i))'
  BY DEF LogInv
<1> USE WriteAssumption
<1>1. \A h \in Hosts : clock[h] \in Nat /\ clock'[h] \in Nat /\ clock[h] <= clock'[h]
  BY Frame, TypeNext DEF TypeOK
<1>2. \A j \in DOMAIN log : log[j] \in Entry /\ log[j].write \in Writes /\ log[j].time \in Nat
                          /\ HostOf[log[j].write] \in Hosts
  BY EntryTypes
<1>3. CASE log' = log
  <2>1. IsHead(log[i].prev, Earlier(i))' <=> IsHead(log[i].prev, Earlier(i))
    BY <1>3 DEF IsHead, IsLast, Before, Earlier, SameLane
  <2> QED
    BY <1>1, <1>2, <1>3, <2>1, Frame DEF LogInv
<1>4. ASSUME NEW w \in Writes, CommitEntry(w), i \in DOMAIN log
      PROVE  /\ phase'[log'[i].write] = "done"
             /\ log'[i].time <= clock'[HostOf[log'[i].write]]
             /\ IsHead(log[i].prev, Earlier(i))'
  <2>1. log'[i] = log[i] /\ Earlier(i)' = Earlier(i)
    <3>1. PICK n \in Nat : n = Len(log) + 1
      BY <1>4, CommitFrame
    <3> QED
      BY <1>4, <3>1, CommitFrame, EarlierIsListed
  <2>2. IsHead(log[i].prev, Earlier(i))' <=> IsHead(log[i].prev, Earlier(i))
    BY <2>1 DEF IsHead, IsLast, Before
  <2> QED
    BY <1>1, <1>2, <1>4, <2>1, <2>2, Frame DEF LogInv
<1>5. ASSUME NEW w \in Writes, CommitEntry(w), i = Len(log) + 1
      PROVE  /\ phase'[log'[i].write] = "done"
             /\ log'[i].time <= clock'[HostOf[log'[i].write]]
             /\ IsHead(log[i].prev, Earlier(i))'
  <2>1. phase[w] = "inserting" /\ phase'[w] = "done" /\ clock' = clock
    BY <1>5 DEF CommitEntry, Finish, TypeOK
  <2>2. log'[i].write = w /\ log'[i].time = draft[w].time /\ log'[i].prev = draft[w].prev
    BY <1>5, CommitFrame
  <2>3. IsHead(draft[w].prev, Listed(LaneOf[w], "internal"))
    BY <2>1 DEF LinkStaysCurrent
  <2>4. IsHead(log[i].prev, Earlier(i))'
    <3>1. Earlier(i)' = Listed(LaneOf[w], "internal")
      BY <1>5, CommitFrame, EarlierIsListed
    <3> QED
      BY <2>2, <2>3, <3>1 DEF IsHead, IsLast, Before
  <2> QED
    BY <2>1, <2>2, <2>4 DEF DraftInv
<1> QED
  BY <1>3, <1>4, <1>5, Frame, CommitFrame

\* No write appends twice, and a process stamps a lane's entries in order.
LEMMA OrderNext ==
    TypeOK /\ LockInv /\ DraftInv /\ LogInv /\ OrderInv /\ [Next]_vars => OrderInv'
<1> SUFFICES ASSUME TypeOK, LockInv, DraftInv, LogInv, OrderInv, [Next]_vars,
                    NEW i \in DOMAIN log', NEW j \in DOMAIN log', i < j
             PROVE  /\ log'[i].write # log'[j].write
                    /\ SameSource(log'[i].write, log'[j].write) => log'[i].time <= log'[j].time
  BY DEF OrderInv, SameSource
<1>1. CASE log' = log
  BY <1>1 DEF OrderInv
<1>2. ASSUME NEW w \in Writes, CommitEntry(w), j \in DOMAIN log
      PROVE  /\ log'[i].write # log'[j].write
             /\ SameSource(log'[i].write, log'[j].write) => log'[i].time <= log'[j].time
  <2>1. i \in DOMAIN log
    BY <1>2, CommitFrame
  <2> QED
    BY <1>2, <2>1, CommitFrame DEF OrderInv
<1>3. ASSUME NEW w \in Writes, CommitEntry(w), j = Len(log) + 1
      PROVE  /\ log'[i].write # log'[j].write
             /\ SameSource(log'[i].write, log'[j].write) => log'[i].time <= log'[j].time
  <2>1. i \in DOMAIN log
    BY <1>3, CommitFrame
  <2>2. log'[i] = log[i] /\ log'[j].write = w /\ log'[j].time = draft[w].time
    BY <1>3, <2>1, CommitFrame
  <2>3. phase[log[i].write] = "done" /\ phase[w] = "inserting"
    BY <1>3, <2>1 DEF LogInv, CommitEntry
  <2>4. SameSource(log[i].write, w) => log[i].time <= draft[w].time
    BY <2>1, <2>3 DEF DraftInv
  <2> QED
    BY <2>2, <2>3, <2>4
<1> QED
  BY <1>1, <1>2, <1>3, Frame, CommitFrame

\* A coupled mutation is committed by the commit of its entry and by nothing
\* else, a separate one before its entry.
LEMMA MutationNext == TypeOK /\ LockInv /\ MutationInv /\ [Next]_vars => MutationInv'
<1> SUFFICES ASSUME TypeOK, LockInv, MutationInv, [Next]_vars, NEW w \in Writes
             PROVE  /\ KindOf[w] = "coupled" => (w \in mutated' <=> phase'[w] = "done")
                    /\ KindOf[w] = "separate" => (w \in mutated' <=> phase'[w] # "idle")
                    /\ phase'[w] = "done" => \E i \in DOMAIN log' : log'[i].write = w
  BY DEF MutationInv
<1>1. \/ mutated' = mutated /\ phase'[w] = phase[w]
      \/ Begin(w) \/ LockStream(w) \/ FindLatest(w) \/ CommitEntry(w) \/ Rollback(w)
      \/ \E x \in Writes \ {w} : phase'[w] = phase[w] /\ mutated' \in {mutated, mutated \cup {x}}
  <2>1. CASE UNCHANGED vars
    BY <2>1 DEF vars
  <2>2. ASSUME NEW x \in Writes, Begin(x) \/ AppendStep(x) \/ Rollback(x), x # w
        PROVE  phase'[w] = phase[w] /\ mutated' \in {mutated, mutated \cup {x}}
    <3>1. phase'[w] = phase[w]
      BY <2>2 DEF TypeOK, AppendStep, Begin, LockStream, FindLatest, CommitEntry, Rollback, Finish
    <3>2. mutated' = mutated \/ mutated' = mutated \cup {x}
      BY <2>2 DEF AppendStep, Begin, LockStream, FindLatest, CommitEntry, Rollback
    <3> QED
      BY <3>1, <3>2
  <2>3. CASE \E h \in Hosts : Tick(h)
    BY <2>3 DEF Tick
  <2> QED
    BY <2>1, <2>2, <2>3 DEF Next, AppendStep
<1>2. /\ KindOf[w] = "coupled" => (w \in mutated' <=> phase'[w] = "done")
      /\ KindOf[w] = "separate" => (w \in mutated' <=> phase'[w] # "idle")
  BY <1>1 DEF MutationInv, TypeOK, Begin, LockStream, FindLatest, CommitEntry, Rollback, Finish
<1>3. phase'[w] = "done" => \E i \in DOMAIN log' : log'[i].write = w
  <2>1. CASE log' = log
    <3>1. ~CommitEntry(w)
      BY <2>1, CommitFrame
    <3>2. phase'[w] = "done" => phase[w] = "done"
      BY <1>1, <3>1 DEF TypeOK, Begin, LockStream, FindLatest, Rollback, Finish
    <3> QED
      BY <2>1, <3>2 DEF MutationInv
  <2>2. ASSUME NEW x \in Writes, CommitEntry(x), phase'[w] = "done"
        PROVE  \E i \in DOMAIN log' : log'[i].write = w
    <3>1. CASE x = w
      BY <2>2, <3>1, CommitFrame
    <3>2. CASE x # w
      <4>1. phase[w] = "done"
        BY <2>2, <3>2 DEF CommitEntry, Finish, TypeOK
      <4> QED
        BY <2>2, <4>1, CommitFrame DEF MutationInv
    <3> QED
      BY <3>1, <3>2
  <2> QED
    BY <2>1, <2>2, Frame
<1> QED
  BY <1>2, <1>3

-----------------------------------------------------------------------------
(* The theorems *)

LEMMA SafetyInit == Init => SafetyInv
<1> SUFFICES ASSUME Init PROVE SafetyInv
  OBVIOUS
<1>1. DOMAIN log = {}
  BY DEF Init
<1>2. TypeOK
  BY TypeInit
<1>3. LockInv /\ LinkStaysCurrent /\ DraftInv
  BY DEF Init, LockInv, LinkStaysCurrent, DraftInv
<1>4. LogInv /\ OrderInv
  BY <1>1 DEF LogInv, OrderInv
<1>5. MutationInv
  BY DEF Init, MutationInv
<1> QED
  BY <1>2, <1>3, <1>4, <1>5 DEF SafetyInv

\* The strengthened invariant every theorem below rests on.
THEOREM AuditSafety == Spec => []SafetyInv
<1>1. SafetyInv /\ [Next]_vars => SafetyInv'
  BY TypeNext, Frame, LinkNext, DraftNext, LogNext, OrderNext, MutationNext DEF SafetyInv
<1> QED
  BY <1>1, SafetyInit, PTL DEF Spec

\* No append links to an entry that is no longer the latest.
THEOREM LinksAreCurrent == Spec => []LinkStaysCurrent
<1>1. SafetyInv => LinkStaysCurrent
  BY DEF SafetyInv
<1> QED
  BY <1>1, AuditSafety, PTL

\* Coupled mutations and their entries commit together, nothing is recorded that did not
\* happen, and only an append that goes on or has failed leaves a gap.
THEOREM MutationsAreRecordedTogether == Spec => []MutationsAndEntriesAgree
<1>1. SafetyInv => MutationsAndEntriesAgree
  <2> SUFFICES ASSUME SafetyInv PROVE MutationsAndEntriesAgree
    OBVIOUS
  <2>1. \A w \in Writes : (\E e \in Entries : e.write = w) <=> phase[w] = "done"
    BY DEF SafetyInv, MutationInv, LogInv, Entries
  <2>2. \A w \in Writes : phase[w] \in Phase
    BY DEF SafetyInv, TypeOK
  <2> QED
    BY <2>1, <2>2 DEF SafetyInv, MutationsAndEntriesAgree, MutationInv, Phase
<1> QED
  BY <1>1, AuditSafety, PTL

\* The step from commits to listings: when stamps follow commits, the entries
\* committed before an entry are the entries listed before it.
LEMMA OrderedChainValid ==
    ASSUME SafetyInv, NEW lane \in Lanes, StampedInOrder(lane, "internal")
    PROVE  ChainValid(Listed(lane, "internal"))
<1> DEFINE S == Listed(lane, "internal")
<1> SUFFICES ASSUME NEW e \in S PROVE IsHead(e.prev, {f \in S : Before(f, e)})
  BY DEF ChainValid
<1>1. PICK i \in DOMAIN log : e = log[i]
  BY DEF Listed, Entries
<1>2. DOMAIN log \subseteq Int /\ \A j \in DOMAIN log : log[j].time \in Nat /\ log[j].id \in Nat
  BY EntryTypes DEF SafetyInv
<1>3. ASSUME NEW j \in DOMAIN log, log[j] \in S PROVE Before(log[j], log[i]) <=> j < i
  <2>1. log[i] \in S
    BY <1>1
  <2>2. j < i => log[j].time < log[i].time
    BY <1>3, <2>1 DEF StampedInOrder
  <2>3. i < j => log[i].time < log[j].time
    BY <1>3, <2>1 DEF StampedInOrder
  <2> QED
    BY <1>2, <2>2, <2>3 DEF Before
<1>4. {f \in S : Before(f, e)} = Earlier(i)
  <2>1. \A f \in S : \E j \in DOMAIN log : f = log[j]
    BY DEF Listed, Entries
  <2>2. \A j \in DOMAIN log :
          log[j] \in S <=> SameLane(log[j].write, log[i].write) /\ FormOf[log[j].write] = "internal"
    BY <1>1 DEF Listed, Entries, SameLane
  <2> QED
    BY <1>1, <1>3, <2>1, <2>2 DEF Earlier
<1> QED
  BY <1>1, <1>4 DEF SafetyInv, LogInv

\* Concurrent appends never fork a chain whose stamps follow its commits.
THEOREM OrderedChainsAreValid == Spec => []OrderedChainsVerify
<1>1. SafetyInv => OrderedChainsVerify
  BY OrderedChainValid DEF OrderedChainsVerify
<1> QED
  BY <1>1, AuditSafety, PTL

\* On one process only a tie of two timestamps can break a chain.
THEOREM OneHostChainsAreValid == Spec => []OneHostChainsVerify
<1>1. ASSUME SafetyInv, NEW lane \in Lanes,
             \A e, f \in Listed(lane, "internal") : HostOf[e.write] = HostOf[f.write],
             \A e, f \in Listed(lane, "internal") : e # f => e.time # f.time
      PROVE  ChainValid(Listed(lane, "internal"))
  <2>1. ASSUME NEW i \in DOMAIN log, NEW j \in DOMAIN log, i < j,
               {log[i], log[j]} \subseteq Listed(lane, "internal")
        PROVE  log[i].time < log[j].time
    <3>1. SameSource(log[i].write, log[j].write)
      BY <1>1, <2>1 DEF SameSource, Listed
    <3>2. log[i].write # log[j].write /\ log[i].time <= log[j].time
      BY <1>1, <2>1, <3>1 DEF SafetyInv, OrderInv
    <3>3. log[i].time # log[j].time
      BY <1>1, <2>1, <3>2
    <3>4. log[i].time \in Nat /\ log[j].time \in Nat
      BY <1>1, <2>1, EntryTypes DEF SafetyInv
    <3> QED
      BY <3>2, <3>3, <3>4
  <2> QED
    BY <1>1, <2>1, OrderedChainValid DEF StampedInOrder
<1>2. SafetyInv => OneHostChainsVerify
  BY <1>1 DEF OneHostChainsVerify
<1> QED
  BY <1>2, AuditSafety, PTL

\* A lane's entries stay one chain, for any number of writers, lanes and processes.
THEOREM LanesKeepOneChain == Spec => []OneChainPerLane
<1>1. LinkStaysCurrent /\ OrderedChainsVerify /\ OneHostChainsVerify => OneChainPerLane
  BY DEF OneChainPerLane
<1> QED
  BY <1>1, LinksAreCurrent, OrderedChainsAreValid, OneHostChainsAreValid, PTL
===============================================================================
