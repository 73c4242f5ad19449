-------------------------- MODULE LaneCreationProofs ---------------------------
(***************************************************************************)
(* Theorems about LaneCreation, for any requests, years, prefixes, pool    *)
(* and numbers given out before.  The argument: whoever has read the       *)
(* latest number of a sequence holds its lock until the transaction ends   *)
(* (LockInv), so the number it drafted is still the next one (DraftInv),   *)
(* and the numbers of a sequence stay an interval (DenseInv).  It ends at  *)
(* 1000, because 999 is the last text there is (LatestIsLast): the number  *)
(* drafted after it is 1000 again, which the unique index refuses.         *)
(* ClientInv says who may hold a client: only creations and disputes hold  *)
(* one over a wait, and who waits in line holds none for a call.           *)
(***************************************************************************)
EXTENDS LaneCreation, FiniteSetTheorems, TLAPS

-----------------------------------------------------------------------------
(* Types and the pool *)

\* The drafts and rows are typed with the numbers, below.
PoolInv ==
    /\ at \in [Requests -> At]
    /\ queue \in Seq(Requests) /\ IsInjective(queue)
    /\ outer \subseteq Requests /\ borrowed \subseteq Requests
    /\ IsFiniteSet(outer) /\ IsFiniteSet(borrowed)
    /\ Free \in 0 .. Pool
    /\ locks \in [Counters -> Requests \cup {Nobody}]
    /\ result \in [Requests -> Result]
    /\ faults \in 0 .. MaxFaults

LEMMA PoolInvInit == Init => PoolInv
<1> SUFFICES ASSUME Init PROVE PoolInv
  OBVIOUS
<1>1. IsFiniteSet({}) /\ Cardinality({}) = 0
  BY FS_EmptySet
<1>2. Free = Pool
  BY <1>1, CreationAssumption DEF Init, Free
<1> QED
  BY <1>1, <1>2, CreationAssumption DEF Init, PoolInv, At, Result, IsInjective

\* Giving clients back leaves at least as many free.
LEMMA GiveBack ==
    ASSUME NEW S \in SUBSET Requests, NEW T \in SUBSET Requests,
           IsFiniteSet(outer), IsFiniteSet(borrowed), Free \in 0 .. Pool,
           S \subseteq outer, T \subseteq borrowed, outer' = S, borrowed' = T
    PROVE  IsFiniteSet(outer') /\ IsFiniteSet(borrowed') /\ Free' \in 0 .. Pool
<1>1. /\ IsFiniteSet(S) /\ Cardinality(S) <= Cardinality(outer)
      /\ IsFiniteSet(T) /\ Cardinality(T) <= Cardinality(borrowed)
  BY FS_Subset
<1>2. /\ Cardinality(S) \in Nat /\ Cardinality(T) \in Nat
      /\ Cardinality(outer) \in Nat /\ Cardinality(borrowed) \in Nat
  BY <1>1, FS_CardinalityType
<1>3. Free' = Pool - Cardinality(S) - Cardinality(T)
  BY DEF Free
<1>4. Free = Pool - Cardinality(outer) - Cardinality(borrowed)
  BY DEF Free
<1> QED
  BY <1>1, <1>2, <1>3, <1>4, CreationAssumption

\* A request moves on; nobody else does.
LEMMA Moves ==
    ASSUME PoolInv, NEW r \in Requests, NEW call \in At, Goto(r, call)
    PROVE  /\ at' \in [Requests -> At] /\ at'[r] = call
           /\ \A t \in Requests \ {r} : at'[t] = at[t]
BY DEF Goto, PoolInv

LEMMA PoolInvServe ==
    ASSUME PoolInv, ServeClient
    PROVE  PoolInv'
<1> DEFINE r == Head(queue)
<1>1. queue # << >> /\ Free > 0 /\ ServeFirst /\ r \in Requests
  BY DEF ServeClient, PoolInv
<1>2. queue' \in Seq(Requests) /\ IsInjective(queue')
  <2>1. queue' = Tail(queue) /\ queue \in Seq(Requests)
    BY <1>1 DEF ServeFirst, PoolInv
  <2>2. /\ queue' \in Seq(Requests) /\ Len(queue) \in Nat /\ Len(queue) > 0
        /\ DOMAIN queue = 1 .. Len(queue) /\ DOMAIN queue' = 1 .. Len(queue) - 1
        /\ \A i \in 1 .. Len(queue) - 1 : queue'[i] = queue[i + 1]
    BY <1>1, <2>1
  <2>3. \A a, b \in DOMAIN queue : queue[a] = queue[b] => a = b
    BY DEF PoolInv, IsInjective
  <2>4. ASSUME NEW a \in DOMAIN queue', NEW b \in DOMAIN queue', queue'[a] = queue'[b]
        PROVE  a = b
    <3>1. a \in 1 .. Len(queue) - 1 /\ b \in 1 .. Len(queue) - 1 /\ queue[a + 1] = queue[b + 1]
      BY <2>2, <2>4
    <3>2. a + 1 \in DOMAIN queue /\ b + 1 \in DOMAIN queue
      BY <3>1, <2>2
    <3> QED
      BY <3>1, <3>2, <2>3
  <2> QED
    BY <2>2, <2>4 DEF IsInjective
<1>3. at' \in [Requests -> At] /\ UNCHANGED <<locks, result, faults>>
  BY <1>1 DEF ServeFirst, Goto, PoolInv, At
<1>4. \/ outer' = outer \cup {r} /\ borrowed' = borrowed
      \/ outer' = outer /\ borrowed' = borrowed \cup {r}
  BY <1>1 DEF ServeFirst
<1>5. /\ Cardinality(outer) \in Nat /\ Cardinality(borrowed) \in Nat
      /\ Free = Pool - Cardinality(outer) - Cardinality(borrowed)
      /\ Free' = Pool - Cardinality(outer') - Cardinality(borrowed')
  BY FS_CardinalityType DEF PoolInv, Free
<1>6. CASE outer' = outer \cup {r} /\ borrowed' = borrowed
  <2>1. IsFiniteSet(outer') /\ Cardinality(outer') \in {Cardinality(outer), Cardinality(outer) + 1}
    BY <1>6, FS_AddElement DEF PoolInv
  <2>2. Free' \in 0 .. Pool
    BY <1>1, <1>5, <1>6, <2>1, CreationAssumption
  <2> QED
    BY <1>1, <1>2, <1>3, <1>6, <2>1, <2>2 DEF PoolInv
<1>7. CASE outer' = outer /\ borrowed' = borrowed \cup {r}
  <2>1. IsFiniteSet(borrowed') /\ Cardinality(borrowed') \in {Cardinality(borrowed), Cardinality(borrowed) + 1}
    BY <1>7, FS_AddElement DEF PoolInv
  <2>2. Free' \in 0 .. Pool
    BY <1>1, <1>5, <1>7, <2>1, CreationAssumption
  <2> QED
    BY <1>1, <1>2, <1>3, <1>7, <2>1, <2>2 DEF PoolInv
<1> QED
  BY <1>4, <1>6, <1>7

LEMMA PoolInvStep ==
    ASSUME PoolInv, NEW r \in Requests, Start(r) \/ AskForClient(r) \/ Step(r) \/ Fail(r)
    PROVE  PoolInv'
<1>1. at' \in [Requests -> At] /\ result' \in [Requests -> Result]
  BY DEF PoolInv, Start, AskForClient, Step, Fail, LockSequence, GenerateLaneId, GenerateBatchId,
     ResolveRules, CreateLaneBundle, CommitLane, TransitionLane, AppendEntry, CommitDispute,
     Rollback, Finish, Goto, At, Result
<1>2. locks' \in [Counters -> Requests \cup {Nobody}] /\ faults' \in 0 .. MaxFaults
  BY CreationAssumption DEF PoolInv, Start, AskForClient, Step, Fail, LockSequence, GenerateLaneId,
     GenerateBatchId, ResolveRules, CreateLaneBundle, CommitLane, TransitionLane, AppendEntry,
     CommitDispute, Rollback, Unlock
<1>3. queue' \in Seq(Requests) /\ IsInjective(queue')
  <2>1. CASE AskForClient(r)
    <3>1. /\ queue \in Seq(Requests) /\ queue' = Append(queue, r)
          /\ \A i \in DOMAIN queue : queue[i] # r
      BY <2>1 DEF AskForClient, Waits, PoolInv
    <3>2. /\ queue' \in Seq(Requests) /\ Len(queue) \in Nat
          /\ DOMAIN queue = 1 .. Len(queue) /\ DOMAIN queue' = 1 .. Len(queue) + 1
          /\ \A i \in DOMAIN queue : queue'[i] = queue[i]
          /\ queue'[Len(queue) + 1] = r
      BY <3>1
    <3>3. \A i \in DOMAIN queue' : i \in DOMAIN queue \/ i = Len(queue) + 1
      BY <3>2
    <3> QED
      BY <3>1, <3>2, <3>3 DEF PoolInv, IsInjective
  <2>2. CASE ~AskForClient(r)
    BY <2>2 DEF PoolInv, Start, Step, Fail, LockSequence, GenerateLaneId, GenerateBatchId,
       ResolveRules, CreateLaneBundle, CommitLane, TransitionLane, AppendEntry, CommitDispute
  <2> QED
    BY <2>1, <2>2
<1>4. outer' \subseteq outer /\ borrowed' \subseteq borrowed
  BY DEF Start, AskForClient, Step, Fail, LockSequence, GenerateLaneId, GenerateBatchId,
     ResolveRules, CreateLaneBundle, CommitLane, TransitionLane, AppendEntry, CommitDispute, Rollback
<1>5. IsFiniteSet(outer') /\ IsFiniteSet(borrowed') /\ Free' \in 0 .. Pool
  BY <1>4, GiveBack DEF PoolInv
<1> QED
  BY <1>1, <1>2, <1>3, <1>4, <1>5 DEF PoolInv

LEMMA PoolInvNext == PoolInv /\ [Next]_vars => PoolInv'
<1>1. PoolInv /\ UNCHANGED vars => PoolInv'
  BY DEF PoolInv, vars, Free, IsInjective
<1> QED
  BY <1>1, PoolInvServe, PoolInvStep DEF Next

-----------------------------------------------------------------------------
(* Numbers *)

\* Who has a number of the year, and who one of the prefix as well.
InYear == {"number", "prefix", "count", "rules", "insert", "commit"}
InBatch == {"count", "rules", "insert", "commit"}
Numbered == {"prefix", "count", "rules", "insert", "commit"}
Counted == {"rules", "insert", "commit"}

LockInv ==
    \A r \in Requests :
        /\ at[r] \in InYear => locks[YearOf[r]] = r
        /\ at[r] \in InBatch => locks[PrefixOf[r]] = r

DraftInv ==
    \A r \in Requests :
        /\ at[r] \in Numbered => draft[r].lane = Latest(YearOf[r]) + 1
        /\ at[r] \in Counted => draft[r].batch = Latest(PrefixOf[r]) + 1
        /\ at[r] = "commit" => /\ draft[r].lane \notin Numbers(YearOf[r])
                               /\ draft[r].batch \notin Numbers(PrefixOf[r])

LEMMA SeededType ==
    ASSUME NEW s \in Counters
    PROVE  Seeded[s] \in Nat /\ Seeded[s] <= 999
<1>1. Seeded[s] \in 0 .. 999
  BY CreationAssumption
<1>2. ASSUME NEW z \in 0 .. 999 PROVE z \in Nat /\ z <= 999
  OBVIOUS
<1> QED
  BY <1>1, <1>2

Drafts == [lane : 0 .. 1000, batch : 0 .. 1000]
Dense(s) ==
    /\ given[s] \subseteq [number : 1 .. 1000, by : Requests]
    /\ \E k \in Nat : Seeded[s] <= k /\ k <= 1000 /\ Numbers(s) = Seeded[s] + 1 .. k
    /\ \A g, h \in given[s] : g.number = h.number => g = h

DenseInv ==
    /\ draft \in [Requests -> Drafts]
    /\ DOMAIN given = Counters
    /\ \A s \in Counters : Dense(s)
    /\ \A r \in Requests : result[r] = "duplicate" =>
          1000 \in Numbers(YearOf[r]) \cup Numbers(PrefixOf[r])

NumberInv == LockInv /\ DraftInv /\ DenseInv
IInv == PoolInv /\ NumberInv

\* The texts end at 999.
LastText(N, z) ==
    LET rows == N \cup ({z} \ {0})
    IN  IF rows = {} THEN 0 ELSE CHOOSE n \in rows : \A m \in rows \ {n} : TextBefore(m, n)

LEMMA TextOrder ==
    ASSUME NEW m \in Nat, NEW n \in Nat, m <= 1000, n <= 1000
    PROVE  TextBefore(m, n) <=> IF m = 1000 THEN n > 100 /\ n < 1000
                                ELSE IF n = 1000 THEN m <= 100 ELSE m < n
<1>1. 1000 \div 10 = 100
  OBVIOUS
<1> QED
  BY <1>1 DEF TextBefore

LEMMA LastOfInterval ==
    ASSUME NEW z \in Nat, z <= 999, NEW k \in Nat, z <= k, k <= 1000
    PROVE  LastText(z + 1 .. k, z) = IF k = 1000 THEN 999 ELSE k
<1> DEFINE rows == (z + 1 .. k) \cup ({z} \ {0})
           last == IF k = 1000 THEN 999 ELSE k
<1>1. rows \subseteq 1 .. k
  OBVIOUS
<1>2. CASE rows = {}
  <2>1. k = 0
    <3>1. k # 0 => k \in rows
      OBVIOUS
    <3> QED
      BY <1>2, <3>1
  <2> QED
    BY <1>2, <2>1 DEF LastText
<1>3. CASE rows # {}
  <2>1. last \in rows /\ last \in Nat /\ last <= 999 /\ last <= k
    BY <1>3
  <2>2. ASSUME NEW m \in rows \ {last} PROVE TextBefore(m, last)
    <3>1. m \in 1 .. k /\ m \in Nat /\ m <= 1000 /\ last \in Nat /\ last <= 1000
      BY <1>1, <2>1
    <3>2. IF m = 1000 THEN last > 100 /\ last < 1000
          ELSE IF last = 1000 THEN m <= 100 ELSE m < last
      BY <2>1, <3>1
    <3> HIDE DEF last
    <3> QED
      BY <3>1, <3>2, TextOrder
  <2>3. ASSUME NEW n \in rows, \A m \in rows \ {n} : TextBefore(m, n) PROVE n = last
    <3>1. n \in 1 .. k
      BY <1>1
    <3>2. ASSUME n # last PROVE FALSE
      <4>1. TextBefore(last, n)
        BY <2>1, <2>3, <3>2
      <4>2. last \in Nat /\ last <= 1000 /\ n \in Nat /\ n <= 1000
        BY <2>1, <3>1
      <4>3. IF last = 1000 THEN n > 100 /\ n < 1000
            ELSE IF n = 1000 THEN last <= 100 ELSE last < n
        <5> HIDE DEF last
        <5> QED
          BY <4>1, <4>2, TextOrder
      <4> QED
        BY <2>1, <3>1, <3>2, <4>3
    <3> QED
      BY <3>2
  <2>4. LastText(z + 1 .. k, z) = CHOOSE n \in rows : \A m \in rows \ {n} : TextBefore(m, n)
    BY <1>3 DEF LastText
  <2> HIDE DEF rows, last
  <2>5. LastText(z + 1 .. k, z) = last
    BY <2>1, <2>2, <2>3, <2>4
  <2> QED
    BY <2>5 DEF last
<1> QED
  BY <1>2, <1>3

LEMMA LatestIsLast ==
    ASSUME NEW s \in Counters, NEW k, k \in Nat, Seeded[s] <= k, k <= 1000,
           Numbers(s) = Seeded[s] + 1 .. k
    PROVE  Latest(s) = IF k = 1000 THEN 999 ELSE k
<1>1. Latest(s) = LastText(Numbers(s), Seeded[s])
  BY DEF Latest, LastText
<1>2. Seeded[s] \in Nat /\ Seeded[s] <= 999
  BY SeededType
<1>3. LastText(Seeded[s] + 1 .. k, Seeded[s]) = IF k = 1000 THEN 999 ELSE k
  BY <1>2, LastOfInterval
<1> QED
  BY <1>1, <1>3

LEMMA SuccessorFits ==
    ASSUME NEW z \in Nat, z <= 999, NEW k \in Nat, z <= k, k <= 1000, NEW n \in Nat,
           n = IF k = 1000 THEN 1000 ELSE k + 1
    PROVE  /\ n \in 1 .. 1000 /\ z <= n
           /\ n \in z + 1 .. k => n = 1000
           /\ (z + 1 .. k) \cup {n} = z + 1 .. n
OBVIOUS

\* An interval ends before its latest number's successor, or is full.
LEMMA NextNumber ==
    ASSUME DenseInv, NEW s \in Counters
    PROVE  LET n == Latest(s) + 1
           IN  /\ n \in 1 .. 1000 /\ Seeded[s] <= n
               /\ n \in Numbers(s) => n = 1000
               /\ Numbers(s) \cup {n} = Seeded[s] + 1 .. n
<1>0. Seeded[s] \in Nat /\ Seeded[s] <= 999
  BY SeededType
<1>1. PICK k \in Nat : Seeded[s] <= k /\ k <= 1000 /\ Numbers(s) = Seeded[s] + 1 .. k
  BY DEF DenseInv, Dense
<1>2. Latest(s) = IF k = 1000 THEN 999 ELSE k
  BY <1>1, LatestIsLast
<1>3. Latest(s) + 1 \in Nat /\ Latest(s) + 1 = IF k = 1000 THEN 1000 ELSE k + 1
  BY <1>1, <1>2
<1>4. ASSUME NEW n \in Nat, n = IF k = 1000 THEN 1000 ELSE k + 1
      PROVE  /\ n \in 1 .. 1000 /\ Seeded[s] <= n
             /\ n \in Seeded[s] + 1 .. k => n = 1000
             /\ (Seeded[s] + 1 .. k) \cup {n} = Seeded[s] + 1 .. n
  BY <1>0, <1>1, <1>4, SuccessorFits
<1> DEFINE next == Latest(s) + 1
<1>5. next \in Nat /\ next = IF k = 1000 THEN 1000 ELSE k + 1
  BY <1>3
<1> HIDE DEF next
<1>6. /\ next \in 1 .. 1000 /\ Seeded[s] <= next
      /\ next \in Numbers(s) => next = 1000
      /\ Numbers(s) \cup {next} = Seeded[s] + 1 .. next
  BY <1>1, <1>4, <1>5
<1> QED
  BY <1>6 DEF next

LEMMA NumberInvInit == Init => NumberInv
<1> SUFFICES ASSUME Init PROVE NumberInv
  OBVIOUS
<1>1. LockInv /\ DraftInv
  BY DEF Init, LockInv, DraftInv, InYear, InBatch, Numbered, Counted
<1>2. \A s \in Counters : Numbers(s) = {} /\ given[s] = {}
  BY DEF Init, Numbers
<1>3. ASSUME NEW s \in Counters PROVE Dense(s)
  <2>1. Seeded[s] \in Nat /\ Seeded[s] <= 999
    BY SeededType
  <2>2. ASSUME NEW z \in Nat PROVE z + 1 .. z = {}
    OBVIOUS
  <2>3. Numbers(s) = Seeded[s] + 1 .. Seeded[s]
    BY <1>2, <2>1, <2>2
  <2> QED
    BY <1>2, <2>1, <2>3 DEF Dense
<1>4. draft \in [Requests -> Drafts] /\ DOMAIN given = Counters
  BY DEF Init, Drafts, NoNumbers
<1>5. \A r \in Requests : result[r] # "duplicate"
  BY DEF Init
<1> QED
  BY <1>1, <1>3, <1>4, <1>5 DEF NumberInv, DenseInv

\* Nobody else uses a sequence whose lock is held.
LEMMA YearsAndPrefixes ==
    ASSUME NEW r \in Requests, NEW t \in Requests
    PROVE  YearOf[r] \in Counters /\ PrefixOf[r] \in Counters /\ YearOf[r] # PrefixOf[t]
BY CreationAssumption DEF Counters, Years, BatchPrefixes

\* The calls that give no number leave locks to their holders.
LEMMA LocksKept ==
    ASSUME PoolInv, LockInv, NEW r \in Requests, NEW call \in At, Goto(r, call), Unlock(r),
           call \notin InYear
    PROVE  LockInv'
<1>1. \A t \in Requests \ {r} : at'[t] = at[t]
  BY Moves
<1>2. at'[r] = call
  BY Moves
<1>3. \A s \in Counters : locks'[s] = IF locks[s] = r THEN Nobody ELSE locks[s]
  BY DEF Unlock
<1>4. \A t \in Requests \ {r} : /\ at[t] \in InYear => locks'[YearOf[t]] = t
                                /\ at[t] \in InBatch => locks'[PrefixOf[t]] = t
  BY <1>3, YearsAndPrefixes DEF LockInv
<1> QED
  BY <1>1, <1>2, <1>4 DEF LockInv, InYear, InBatch

LEMMA LockInvNext ==
    ASSUME PoolInv, LockInv, [Next]_vars
    PROVE  LockInv'
<1>1. CASE UNCHANGED <<at, locks>>
  BY <1>1 DEF LockInv
<1>2. CASE ServeClient
  <2>1. UNCHANGED locks /\ \A t \in Requests : at'[t] # at[t] => at'[t] \in {"year", "transition", "entry"}
    BY <1>2 DEF ServeClient, ServeFirst, Goto, PoolInv
  <2> QED
    BY <2>1 DEF LockInv, InYear, InBatch
<1>3. ASSUME NEW r \in Requests, Start(r) \/ AskForClient(r) \/ Step(r) \/ Fail(r)
      PROVE  LockInv'
  <2>1. CASE LockSequence(r)
    <3>1. PICK s \in Counters : /\ s = Sequence(r) /\ locks[s] = Nobody
                                /\ locks' = [locks EXCEPT ![s] = r]
      BY <2>1, YearsAndPrefixes DEF LockSequence, Sequence
    <3>2. locks'[s] = r /\ \A q \in Counters \ {s} : locks'[q] = locks[q]
      BY <3>1 DEF PoolInv
    <3>3. \A q \in Counters : locks[q] \in Requests => locks'[q] = locks[q]
      BY <3>1, <3>2, CreationAssumption
    <3>4. /\ \A t \in Requests \ {r} : at'[t] = at[t]
          /\ \/ at[r] = "year" /\ s = YearOf[r] /\ at'[r] = "number"
             \/ at[r] = "prefix" /\ s = PrefixOf[r] /\ at'[r] = "count"
      BY <2>1, <3>1 DEF LockSequence, Sequence, Goto, PoolInv
    <3> QED
      BY <3>2, <3>3, <3>4, YearsAndPrefixes DEF LockInv, InYear, InBatch
  <2>2. CASE \E how : Rollback(r, how)
    BY <2>2, LocksKept DEF Rollback, Finish, InYear, At
  <2>3. CASE CommitLane(r)
    BY <2>3, LocksKept DEF CommitLane, InYear, At
  <2>4. CASE UNCHANGED locks /\ ~LockSequence(r) /\ ~CommitLane(r)
    <3>1. PICK call \in At : /\ Goto(r, call)
                             /\ call \in InYear => at[r] \in InYear
                             /\ call \in InBatch => at[r] \in InBatch
      <4>1. CASE Start(r)
        BY <4>1 DEF Start, At, InYear, InBatch
      <4>2. CASE AskForClient(r)
        <5>1. at[r] \in At /\ Goto(r, at[r])
          BY <4>2 DEF AskForClient, Goto, PoolInv
        <5> QED
          BY <5>1
      <4>3. CASE GenerateLaneId(r) \/ GenerateBatchId(r) \/ ResolveRules(r) \/ CreateLaneBundle(r)
        BY <4>3 DEF GenerateLaneId, GenerateBatchId, ResolveRules, CreateLaneBundle, Rollback,
           Finish, At, InYear, InBatch
      <4>4. CASE TransitionLane(r) \/ AppendEntry(r) \/ CommitDispute(r) \/ Fail(r)
        BY <4>4 DEF TransitionLane, AppendEntry, CommitDispute, Fail, Rollback, Finish, At,
           InYear, InBatch
      <4> QED
        BY <1>3, <2>4, <4>1, <4>2, <4>3, <4>4 DEF Step
    <3>2. /\ \A t \in Requests \ {r} : at'[t] = at[t]
          /\ at'[r] = call
      BY <3>1, Moves
    <3> QED
      BY <2>4, <3>1, <3>2 DEF LockInv
  <2> QED
    BY <1>3, <2>1, <2>2, <2>3, <2>4 DEF Start, AskForClient, Step, Fail, GenerateLaneId,
       GenerateBatchId, ResolveRules, CreateLaneBundle, TransitionLane, AppendEntry, CommitDispute
<1> QED
  BY <1>1, <1>2, <1>3 DEF Next, vars

LEMMA LatestKept ==
    ASSUME NEW s, given'[s] = given[s]
    PROVE  Latest(s)' = Latest(s) /\ Numbers(s)' = Numbers(s)
BY DEF Latest, Numbers

\* A draft stays the next number: whoever commits one of the sequence holds its lock.
LEMMA DraftInvNext ==
    ASSUME PoolInv, NumberInv, [Next]_vars
    PROVE  DraftInv'
<1>0. draft \in [Requests -> Drafts]
  BY DEF NumberInv, DenseInv
<1>1. ASSUME NEW r \in Requests, CommitLane(r) PROVE DraftInv'
  <2>1. /\ at[r] = "commit" /\ at'[r] = "entry" /\ UNCHANGED draft
        /\ \A t \in Requests \ {r} : at'[t] = at[t]
        /\ \A s \in Counters \ {YearOf[r], PrefixOf[r]} : given'[s] = given[s]
    BY <1>1, YearsAndPrefixes DEF CommitLane, Goto, PoolInv, NumberInv, DenseInv
  <2>2. ASSUME NEW t \in Requests \ {r}, at[t] \in InYear
        PROVE  Latest(YearOf[t])' = Latest(YearOf[t]) /\ Numbers(YearOf[t])' = Numbers(YearOf[t])
    <3>1. YearOf[t] # YearOf[r]
      BY <2>1, <2>2 DEF NumberInv, LockInv, InYear
    <3> QED
      BY <2>1, <3>1, YearsAndPrefixes, LatestKept
  <2>3. ASSUME NEW t \in Requests \ {r}, at[t] \in InBatch
        PROVE  Latest(PrefixOf[t])' = Latest(PrefixOf[t]) /\ Numbers(PrefixOf[t])' = Numbers(PrefixOf[t])
    <3>1. PrefixOf[t] # PrefixOf[r]
      BY <2>1, <2>3 DEF NumberInv, LockInv, InBatch
    <3> QED
      BY <2>1, <3>1, YearsAndPrefixes, LatestKept
  <2> QED
    BY <2>1, <2>2, <2>3 DEF NumberInv, DraftInv, Numbered, Counted, InYear, InBatch
<1>2. ASSUME UNCHANGED given
      PROVE  \A s : Latest(s)' = Latest(s) /\ Numbers(s)' = Numbers(s)
  BY <1>2, LatestKept
<1>3. CASE UNCHANGED <<at, draft, given>>
  BY <1>2, <1>3 DEF NumberInv, DraftInv
<1>4. CASE ServeClient
  <2>1. /\ UNCHANGED <<draft, given>>
        /\ \A t \in Requests : at'[t] # at[t] => at'[t] \in {"year", "transition", "entry"}
    BY <1>4 DEF ServeClient, ServeFirst, Goto, PoolInv
  <2> QED
    BY <1>2, <2>1 DEF NumberInv, DraftInv, Numbered, Counted
<1>5. ASSUME NEW r \in Requests, GenerateLaneId(r) PROVE DraftInv'
  <2>1. /\ at'[r] = "prefix" /\ draft'[r].lane = Latest(YearOf[r]) + 1
        /\ \A t \in Requests \ {r} : at'[t] = at[t] /\ draft'[t] = draft[t]
    BY <1>0, <1>5 DEF GenerateLaneId, Goto, PoolInv, Drafts
  <2> QED
    BY <1>2, <1>5, <2>1 DEF GenerateLaneId, NumberInv, DraftInv, Counted
<1>6. ASSUME NEW r \in Requests, GenerateBatchId(r) PROVE DraftInv'
  <2>1. /\ at[r] = "count" /\ at'[r] = "rules"
        /\ draft'[r].batch = Latest(PrefixOf[r]) + 1 /\ draft'[r].lane = draft[r].lane
        /\ \A t \in Requests \ {r} : at'[t] = at[t] /\ draft'[t] = draft[t]
    BY <1>0, <1>6 DEF GenerateBatchId, Goto, PoolInv, Drafts
  <2> QED
    BY <1>2, <1>6, <2>1 DEF GenerateBatchId, NumberInv, DraftInv, Numbered
<1>7. ASSUME NEW r \in Requests, CreateLaneBundle(r) PROVE DraftInv'
  <2>1. /\ UNCHANGED <<draft, given>> /\ at[r] = "insert"
        /\ at'[r] = "commit" => /\ draft[r].lane \notin Numbers(YearOf[r])
                                /\ draft[r].batch \notin Numbers(PrefixOf[r])
        /\ at'[r] \in {"commit", "ended"}
        /\ \A t \in Requests \ {r} : at'[t] = at[t]
    BY <1>7 DEF CreateLaneBundle, Rollback, Finish, Goto, PoolInv
  <2> QED
    BY <1>2, <2>1 DEF NumberInv, DraftInv, Numbered, Counted
<1>8. ASSUME NEW r \in Requests,
             \/ Start(r) \/ AskForClient(r) \/ LockSequence(r) \/ ResolveRules(r)
             \/ TransitionLane(r) \/ AppendEntry(r) \/ CommitDispute(r) \/ Fail(r)
      PROVE  DraftInv'
  <2>1. /\ UNCHANGED <<draft, given>>
        /\ \A t \in Requests \ {r} : at'[t] = at[t]
    BY <1>8 DEF Start, AskForClient, LockSequence, ResolveRules, TransitionLane, AppendEntry,
       CommitDispute, Fail, Rollback, Finish, Goto, PoolInv
  <2>2. /\ at'[r] \in Numbered => at[r] \in Numbered
        /\ at'[r] \in Counted => at[r] \in Counted
        /\ at'[r] = "commit" => at[r] = "commit"
    BY <1>8 DEF Start, AskForClient, LockSequence, ResolveRules, TransitionLane, AppendEntry,
       CommitDispute, Fail, Rollback, Finish, Goto, PoolInv, Numbered, Counted
  <2> QED
    BY <1>2, <2>1, <2>2 DEF NumberInv, DraftInv
<1> QED
  BY <1>1, <1>3, <1>4, <1>5, <1>6, <1>7, <1>8 DEF Next, Step, vars

\* A sequence that is given its next number stays an interval.
LEMMA DenseGrows ==
    ASSUME DenseInv, NEW s \in Counters, NEW r \in Requests, NEW n, n = Latest(s) + 1,
           n \notin Numbers(s),
           given'[s] = given[s] \cup {[number |-> n, by |-> r]}
    PROVE  Dense(s)'
<1>1. /\ n \in 1 .. 1000 /\ Seeded[s] <= n
      /\ n \in Numbers(s) => n = 1000
      /\ Numbers(s) \cup {n} = Seeded[s] + 1 .. n
  BY NextNumber
<1> DEFINE row == [number |-> n, by |-> r]
<1>2. Numbers(s)' = Numbers(s) \cup {n}
  <2>1. row.number = n /\ given'[s] = given[s] \cup {row}
    OBVIOUS
  <2> HIDE DEF row
  <2> QED
    BY <2>1 DEF Numbers
<1>3. given'[s] \subseteq [number : 1 .. 1000, by : Requests]
  <2>1. given[s] \subseteq [number : 1 .. 1000, by : Requests]
    BY DEF DenseInv, Dense
  <2>2. row \in [number : 1 .. 1000, by : Requests]
    BY <1>1
  <2> QED
    BY <2>1, <2>2
<1>4. n \in Nat /\ n <= 1000 /\ Numbers(s)' = Seeded[s] + 1 .. n
  BY <1>1, <1>2
<1>5. ASSUME NEW g \in given'[s], NEW h \in given'[s], g.number = h.number
      PROVE  g = h
  <2>1. CASE g \in given[s] /\ h \in given[s]
    BY <1>5, <2>1 DEF DenseInv, Dense
  <2>2. CASE ~(g \in given[s] /\ h \in given[s])
    <3>1. g = row \/ g.number \in Numbers(s)
      BY DEF Numbers
    <3>2. h = row \/ h.number \in Numbers(s)
      BY DEF Numbers
    <3>3. (g = row \/ h = row) /\ row.number = n
      BY <2>2
    <3> HIDE DEF row
    <3> QED
      BY <1>5, <3>1, <3>2, <3>3
  <2> QED
    BY <2>1, <2>2
<1> QED
  BY <1>1, <1>3, <1>4, <1>5 DEF Dense

LEMMA DenseInvNext ==
    ASSUME PoolInv, NumberInv, [Next]_vars
    PROVE  DenseInv'
<1>0. DenseInv /\ draft \in [Requests -> Drafts] /\ DOMAIN given = Counters
  BY DEF NumberInv, DenseInv
<1>1. ASSUME NEW r \in Requests, CommitLane(r) PROVE DenseInv'
  <2>1. /\ at[r] = "commit" /\ UNCHANGED <<draft, result>> /\ DOMAIN given' = Counters
        /\ given'[YearOf[r]] = given[YearOf[r]] \cup {[number |-> draft[r].lane, by |-> r]}
        /\ given'[PrefixOf[r]] = given[PrefixOf[r]] \cup {[number |-> draft[r].batch, by |-> r]}
        /\ \A s \in Counters \ {YearOf[r], PrefixOf[r]} : given'[s] = given[s]
    BY <1>0, <1>1, YearsAndPrefixes DEF CommitLane
  <2>2. /\ draft[r].lane = Latest(YearOf[r]) + 1 /\ draft[r].lane \notin Numbers(YearOf[r])
        /\ draft[r].batch = Latest(PrefixOf[r]) + 1 /\ draft[r].batch \notin Numbers(PrefixOf[r])
    BY <2>1 DEF NumberInv, DraftInv, Numbered, Counted
  <2>3. Dense(YearOf[r])'
    BY <1>0, <2>1, <2>2, YearsAndPrefixes, DenseGrows
  <2>4. Dense(PrefixOf[r])'
    BY <1>0, <2>1, <2>2, YearsAndPrefixes, DenseGrows
  <2>5. ASSUME NEW s \in Counters \ {YearOf[r], PrefixOf[r]} PROVE Dense(s)'
    BY <1>0, <2>1, <2>5, LatestKept DEF DenseInv, Dense
  <2>6. ASSUME NEW s \in Counters, 1000 \in Numbers(s) PROVE 1000 \in Numbers(s)'
    BY <2>1, <2>6 DEF Numbers
  <2>7. \A t \in Requests : result'[t] = "duplicate" =>
           1000 \in Numbers(YearOf[t])' \/ 1000 \in Numbers(PrefixOf[t])'
    BY <1>0, <2>1, <2>6, YearsAndPrefixes DEF DenseInv
  <2> QED
    BY <1>0, <2>1, <2>3, <2>4, <2>5, <2>7 DEF DenseInv
<1>2. ASSUME UNCHANGED given PROVE \A s : (Dense(s)' <=> Dense(s)) /\ Numbers(s)' = Numbers(s)
  BY <1>2 DEF Dense, Numbers
<1>3. CASE UNCHANGED <<draft, given, result>>
  BY <1>0, <1>2, <1>3 DEF DenseInv
<1>4. ASSUME NEW r \in Requests, GenerateLaneId(r) \/ GenerateBatchId(r) PROVE DenseInv'
  <2>1. UNCHANGED <<given, result>>
    BY <1>4 DEF GenerateLaneId, GenerateBatchId
  <2>2. ASSUME NEW s \in Counters PROVE Latest(s) + 1 \in 0 .. 1000
    <3>1. Latest(s) + 1 \in 1 .. 1000
      BY <1>0, NextNumber
    <3> QED
      BY <3>1
  <2>3. Latest(YearOf[r]) + 1 \in 0 .. 1000 /\ Latest(PrefixOf[r]) + 1 \in 0 .. 1000
    BY <2>2, YearsAndPrefixes
  <2>4. draft' \in [Requests -> Drafts]
    BY <1>0, <1>4, <2>3 DEF GenerateLaneId, GenerateBatchId, Drafts
  <2> QED
    BY <1>0, <1>2, <2>1, <2>4 DEF DenseInv
<1>5. ASSUME NEW r \in Requests, CreateLaneBundle(r) PROVE DenseInv'
  <2>1. UNCHANGED <<draft, given>> /\ at[r] = "insert"
    BY <1>5 DEF CreateLaneBundle
  <2>2. /\ draft[r].lane \in Numbers(YearOf[r]) => 1000 \in Numbers(YearOf[r])
        /\ draft[r].batch \in Numbers(PrefixOf[r]) => 1000 \in Numbers(PrefixOf[r])
    <3>1. draft[r].lane = Latest(YearOf[r]) + 1 /\ draft[r].batch = Latest(PrefixOf[r]) + 1
      BY <2>1 DEF NumberInv, DraftInv, Numbered, Counted
    <3> QED
      BY <1>0, <3>1, NextNumber, YearsAndPrefixes
  <2>3. \A t \in Requests : result'[t] = "duplicate" =>
           \/ result[t] = "duplicate"
           \/ t = r /\ draft[r].lane \in Numbers(YearOf[r])
           \/ t = r /\ draft[r].batch \in Numbers(PrefixOf[r])
    BY <1>5 DEF CreateLaneBundle, Rollback, Finish, PoolInv
  <2> QED
    BY <1>0, <1>2, <2>1, <2>2, <2>3 DEF DenseInv
<1>6. ASSUME NEW r \in Requests,
             \/ Start(r) \/ AskForClient(r) \/ LockSequence(r) \/ ResolveRules(r)
             \/ TransitionLane(r) \/ AppendEntry(r) \/ CommitDispute(r) \/ Fail(r)
      PROVE  DenseInv'
  <2>1. UNCHANGED <<draft, given>>
    BY <1>6 DEF Start, AskForClient, LockSequence, ResolveRules, TransitionLane, AppendEntry,
       CommitDispute, Fail
  <2>2. \A t \in Requests : result'[t] = "duplicate" => result[t] = "duplicate"
    BY <1>6 DEF Start, AskForClient, LockSequence, ResolveRules, TransitionLane, AppendEntry,
       CommitDispute, Fail, Rollback, Finish, PoolInv
  <2> QED
    BY <1>0, <1>2, <2>1, <2>2 DEF DenseInv
<1>7. CASE ServeClient
  BY <1>3, <1>7 DEF ServeClient, ServeFirst
<1> QED
  BY <1>1, <1>3, <1>4, <1>5, <1>6, <1>7 DEF Next, Step, vars

-----------------------------------------------------------------------------
\* The inductive invariant: clients are counted, a sequence that was read is locked until
\* its numbers are committed or given up, drafts are the next numbers, and numbers are
\* dense.
THEOREM CreationSafety == Spec => []IInv
<1>1. Init => IInv
  BY PoolInvInit, NumberInvInit DEF IInv
<1>2. IInv /\ [Next]_vars => IInv'
  BY PoolInvNext, LockInvNext, DraftInvNext, DenseInvNext DEF IInv, NumberInv
<1> QED
  BY <1>1, <1>2, PTL DEF Spec

\* The pool never hands out more clients than it has, and keeps one line.
THEOREM CreationTypeCorrect == Spec => []TypeOK
<1>1. IInv => TypeOK
  <2> SUFFICES ASSUME IInv PROVE TypeOK
    OBVIOUS
  <2>1. Range(queue) \subseteq Requests
    BY DEF IInv, PoolInv, Range
  <2> QED
    BY <2>1 DEF IInv, PoolInv, NumberInv, DenseInv, Dense, Drafts, TypeOK
<1> QED
  BY <1>1, CreationSafety, PTL

\* Lanes of a year and batches of a prefix are numbered without a gap and without a number
\* twice, however creations overlap and fail, and a creation is refused for its numbers
\* only when 1000 of its year or 1000 of its prefix are there.
THEOREM NumbersAreReallyConsecutive == Spec => []NumbersAreConsecutive
<1>1. IInv => NumbersAreConsecutive
  <2> SUFFICES ASSUME IInv PROVE NumbersAreConsecutive
    OBVIOUS
  <2>1. DenseInv
    BY DEF IInv, NumberInv
  <2>2. ASSUME NEW s \in Counters
        PROVE  Numbers(s) = Seeded[s] + 1 .. Seeded[s] + Cardinality(Numbers(s))
    <3>1. PICK k \in Nat : Seeded[s] <= k /\ Numbers(s) = Seeded[s] + 1 .. k
      BY <2>1 DEF DenseInv, Dense
    <3>2. Seeded[s] \in Nat
      BY SeededType
    <3>3. ASSUME NEW z \in Nat, z <= k PROVE k = z + Cardinality(z + 1 .. k)
      <4>1. Cardinality(z + 1 .. k) = IF z + 1 > k THEN 0 ELSE k - (z + 1) + 1
        BY FS_Interval
      <4> QED
        BY <3>3, <4>1
    <3>4. k = Seeded[s] + Cardinality(Seeded[s] + 1 .. k)
      BY <3>1, <3>2, <3>3
    <3> QED
      BY <3>1, <3>4
  <2>3. \A s \in Counters : \A g, h \in given[s] : g.number = h.number => g = h
    BY <2>1 DEF DenseInv, Dense
  <2> QED
    BY <2>1, <2>2, <2>3 DEF NumbersAreConsecutive, DenseInv
<1> QED
  BY <1>1, CreationSafety, PTL

-----------------------------------------------------------------------------
(* The pool *)

Holders == {r \in Requests : KindOf[r] # "append"}
InTransaction == {"year", "number", "prefix", "count", "rules", "insert", "commit", "transition", "close"}

\* Who waits for a client has none for that call; a transaction has one of its own.
ClientInv ==
    /\ \A r \in Requests : Waits(r) => at[r] \in Taking /\ r \notin borrowed
    /\ \A r \in Requests : at[r] \in InTransaction => r \in outer
    /\ \A r \in Requests : at[r] \in InTransaction \cup {"open"} => r \in Holders
    /\ outer \subseteq Holders

LEMMA ClientInvServe ==
    ASSUME PoolInv, ClientInv, ServeClient
    PROVE  ClientInv'
<1> DEFINE r == Head(queue)
<1>1. queue # << >> /\ ServeFirst /\ r \in Requests /\ queue \in Seq(Requests) /\ Waits(r)
  BY DEF ServeClient, PoolInv, Waits
<1>2. ASSUME NEW t \in Requests, Waits(t)' PROVE Waits(t) /\ t # r
  <2>1. PICK i \in DOMAIN Tail(queue) : Tail(queue)[i] = t
    BY <1>1, <1>2 DEF ServeFirst, Waits
  <2>2. /\ i + 1 \in DOMAIN queue /\ queue[i + 1] = t
        /\ 1 \in DOMAIN queue /\ queue[1] = r /\ i + 1 # 1
    BY <1>1, <2>1
  <2> QED
    BY <2>2 DEF Waits, PoolInv, IsInjective
<1>3. CASE at[r] = "open"
  <2>1. /\ outer' = outer \cup {r} /\ borrowed' = borrowed
        /\ at'[r] \in {"year", "transition", "entry"}
        /\ \A t \in Requests \ {r} : at'[t] = at[t]
    BY <1>1, <1>3 DEF ServeFirst, Goto, PoolInv
  <2>2. r \in Holders
    BY <1>1, <1>3 DEF ClientInv
  <2> QED
    BY <1>1, <1>2, <2>1, <2>2 DEF ClientInv
<1>4. CASE at[r] # "open"
  <2>1. borrowed' = borrowed \cup {r} /\ UNCHANGED <<at, outer>>
    BY <1>1, <1>4 DEF ServeFirst
  <2> QED
    BY <1>2, <2>1 DEF ClientInv
<1> QED
  BY <1>3, <1>4

LEMMA ClientInvStep ==
    ASSUME PoolInv, ClientInv, NEW r \in Requests, Start(r) \/ AskForClient(r) \/ Step(r) \/ Fail(r)
    PROVE  ClientInv'
<1>1. CASE AskForClient(r)
  <2>1. /\ queue \in Seq(Requests) /\ queue' = Append(queue, r)
        /\ at[r] \in Taking /\ r \notin borrowed /\ UNCHANGED <<at, outer, borrowed>>
    BY <1>1 DEF AskForClient, PoolInv
  <2>2. ASSUME NEW t \in Requests \ {r}, Waits(t)' PROVE Waits(t)
    BY <2>1, <2>2 DEF Waits
  <2> QED
    BY <2>1, <2>2 DEF ClientInv
<1>2. CASE ~AskForClient(r)
  <2>1. UNCHANGED queue /\ ~Waits(r) /\ borrowed' \subseteq borrowed
    BY <1>2 DEF ClientInv, Taking, Start, Step, Fail, LockSequence, GenerateLaneId, GenerateBatchId,
       ResolveRules, CreateLaneBundle, CommitLane, TransitionLane, AppendEntry, CommitDispute, Rollback
  <2>2. \A t \in Requests \ {r} : at'[t] = at[t] /\ (t \in outer => t \in outer')
    BY <1>2 DEF PoolInv, Start, Step, Fail, LockSequence, GenerateLaneId, GenerateBatchId,
       ResolveRules, CreateLaneBundle, CommitLane, TransitionLane, AppendEntry, CommitDispute,
       Rollback, Finish, Goto
  <2>3. outer' \subseteq outer
    BY <1>2 DEF Start, Step, Fail, LockSequence, GenerateLaneId, GenerateBatchId,
       ResolveRules, CreateLaneBundle, CommitLane, TransitionLane, AppendEntry, CommitDispute, Rollback
  <2>4. /\ at'[r] \in InTransaction => r \in outer' /\ r \in Holders
        /\ at'[r] = "open" => r \in Holders
    <3>1. CASE Start(r)
      <4>1. at'[r] = IF KindOf[r] = "append" THEN "entry" ELSE "open"
        BY <3>1 DEF Start, Goto, PoolInv
      <4> QED
        BY <4>1 DEF InTransaction, Holders
    <3>2. CASE LockSequence(r) \/ GenerateLaneId(r) \/ GenerateBatchId(r) \/ ResolveRules(r)
      BY <3>2 DEF PoolInv, ClientInv, InTransaction, LockSequence, GenerateLaneId, GenerateBatchId,
         ResolveRules, Rollback, Finish, Goto
    <3>3. CASE CreateLaneBundle(r) \/ CommitLane(r) \/ CommitDispute(r) \/ Fail(r)
      BY <3>3 DEF PoolInv, ClientInv, InTransaction, CreateLaneBundle, CommitLane, CommitDispute,
         Fail, Rollback, Finish, Goto
    <3>4. CASE TransitionLane(r) \/ AppendEntry(r)
      BY <3>4 DEF PoolInv, ClientInv, InTransaction, TransitionLane, AppendEntry, Finish, Goto
    <3> QED
      BY <1>2, <3>1, <3>2, <3>3, <3>4 DEF Step
  <2>5. \A t \in Requests : Waits(t)' => Waits(t) /\ t # r
    BY <2>1 DEF Waits
  <2> QED
    BY <2>1, <2>2, <2>3, <2>4, <2>5 DEF ClientInv
<1> QED
  BY <1>1, <1>2

LEMMA ClientSafety == Spec => [](PoolInv /\ ClientInv)
<1>1. Init => PoolInv /\ ClientInv
  <2>1. Init => ClientInv
    BY DEF Init, ClientInv, Waits, InTransaction
  <2> QED
    BY <2>1, PoolInvInit
<1>2. PoolInv /\ ClientInv /\ UNCHANGED vars => ClientInv'
  BY DEF ClientInv, Waits, vars
<1>3. PoolInv /\ ClientInv /\ [Next]_vars => (PoolInv /\ ClientInv)'
  BY <1>2, PoolInvNext, ClientInvServe, ClientInvStep DEF Next
<1> QED
  BY <1>1, <1>3, PTL DEF Spec

\* Only creations and disputes starve a pool, and it takes as many of them as it has
\* clients: where there are fewer, Starved is never reached.
THEOREM LargePoolsNeverStarve ==
    ASSUME IsFiniteSet(Holders), Cardinality(Holders) < Pool
    PROVE  Spec => []~Starved
<1>1. PoolInv /\ ClientInv => ~Starved
  <2> SUFFICES ASSUME PoolInv, ClientInv PROVE Cardinality(outer) # Pool
    BY DEF Starved
  <2>1. outer \subseteq Holders
    BY DEF ClientInv
  <2>2. Cardinality(outer) <= Cardinality(Holders) /\ Cardinality(outer) \in Nat /\ Cardinality(Holders) \in Nat
    BY <2>1, FS_Subset, FS_CardinalityType
  <2> QED
    BY <2>2, CreationAssumption
<1> QED
  BY <1>1, ClientSafety, PTL

\* Without a failure a starved pool stays as it is: it serves no one, no transaction ends,
\* and no lock is released.
THEOREM StarvedForGood ==
    Spec => [][Starved /\ UNCHANGED faults => Starved' /\ UNCHANGED <<outer, borrowed, locks, given>>]_vars
<1> DEFINE Stays == Starved /\ UNCHANGED faults => Starved' /\ UNCHANGED <<outer, borrowed, locks, given>>
<1>1. ASSUME PoolInv, ClientInv, [Next]_vars PROVE [Stays]_vars
  <2> SUFFICES ASSUME Starved, UNCHANGED faults, Next
               PROVE  Starved' /\ UNCHANGED <<outer, borrowed, locks, given>>
    BY <1>1
  <2>1. borrowed = {} /\ Free = 0
    <3>1. /\ Free \in 0 .. Pool /\ Cardinality(outer) = Pool
          /\ Free = Pool - Cardinality(outer) - Cardinality(borrowed)
          /\ IsFiniteSet(borrowed) /\ Cardinality(borrowed) \in Nat
      BY <1>1, FS_CardinalityType DEF PoolInv, Starved, Free
    <3>2. Cardinality(borrowed) = 0
      BY <3>1, CreationAssumption
    <3> QED
      BY <3>1, <3>2, FS_EmptySet, CreationAssumption
  <2>2. ~ServeClient
    BY <2>1 DEF ServeClient
  <2>3. PICK r \in Requests : Start(r) \/ AskForClient(r) \/ Step(r) \/ Fail(r)
    BY <2>2 DEF Next
  <2>4. ~Fail(r)
    <3>1. Fail(r) => faults' = faults + 1 /\ faults \in Nat
      BY <1>1, CreationAssumption DEF Fail, PoolInv
    <3> QED
      BY <3>1
  <2>5. \A t \in outer : \/ Waits(t) /\ at[t] \in Taking
                         \/ at[t] \in {"year", "prefix"} /\ locks[Sequence(t)] \in outer
    BY <1>1 DEF Starved, ClientInv, PoolInv
  <2>6. ~Step(r)
    <3>1. Nobody \notin outer
      BY <1>1, CreationAssumption DEF PoolInv
    <3>2. ~LockSequence(r)
      BY <1>1, <2>5, <3>1 DEF LockSequence, ClientInv, InTransaction, Taking
    <3>3. ~(ResolveRules(r) \/ TransitionLane(r) \/ AppendEntry(r))
      BY <2>1 DEF ResolveRules, TransitionLane, AppendEntry
    <3>4. ~(GenerateLaneId(r) \/ GenerateBatchId(r) \/ CreateLaneBundle(r) \/ CommitLane(r) \/ CommitDispute(r))
      BY <1>1, <2>5 DEF GenerateLaneId, GenerateBatchId, CreateLaneBundle, CommitLane, CommitDispute,
         ClientInv, InTransaction, Taking
    <3> QED
      BY <3>2, <3>3, <3>4 DEF Step
  <2>7. CASE Start(r)
    <3>1. UNCHANGED <<queue, outer, borrowed, locks, given>> /\ at[r] = "idle"
          /\ \A t \in Requests \ {r} : at'[t] = at[t]
      BY <1>1, <2>7 DEF Start, Goto, PoolInv
    <3>2. \A t \in outer : t # r /\ t \in Requests
      BY <1>1, <2>5, <3>1 DEF Taking, PoolInv
    <3>3. \A t \in outer : (Waits(t)' <=> Waits(t)) /\ at'[t] = at[t] /\ Sequence(t)' = Sequence(t)
      BY <3>1, <3>2 DEF Waits, Sequence
    <3> QED
      BY <3>1, <3>3 DEF Starved
  <2>8. CASE AskForClient(r)
    <3>1. UNCHANGED <<at, outer, borrowed, locks, given>> /\ queue' = Append(queue, r)
          /\ queue \in Seq(Requests)
      BY <1>1, <2>8 DEF AskForClient, PoolInv
    <3>2. \A t : Waits(t) => Waits(t)'
      BY <3>1 DEF Waits
    <3>3. \A t : Sequence(t)' = Sequence(t)
      BY <3>1 DEF Sequence
    <3> QED
      BY <3>1, <3>2, <3>3 DEF Starved
  <2> QED
    BY <2>3, <2>4, <2>6, <2>7, <2>8
<1> QED
  BY <1>1, ClientSafety, PTL DEF Spec
==============================================================================
