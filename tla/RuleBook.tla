------------------------------- MODULE RuleBook --------------------------------
(***************************************************************************)
(* The rules of one market: the substances table, the rule set derived     *)
(* from it and its recorded versions, as createSubstance, updateSubstance  *)
(* and reloadRules of rules-engine.service.ts change them in transactions  *)
(* of rules-engine.pg-store.ts.  READ COMMITTED: a row that was written is *)
(* locked until the transaction ends, what was only read is not; a change  *)
(* writes its substance first and the rule set last, a reload the other    *)
(* way round, so that the two can wait for each other until Postgres       *)
(* aborts one.  A substance is a number: that of the request that wrote it *)
(* last, or the rule file's, or Absent.                                    *)
(***************************************************************************)
EXTENDS Notifications

CONSTANTS
    Names,         \* names of substances
    FileRules,     \* the substances of the market's rule file
    FileVersion,   \* its version
    Audiences      \* how many of the market's audience may have a channel switched on

Absent == 0
Rules == [Names -> Nat]

ASSUME RuleAssumption ==
    FileRules \in Rules /\ FileVersion \in Nat /\ Audiences \subseteq Nat

VARIABLES
    substances,    \* substances
    ruleSet,       \* rule_sets: version and substances of the market's rule set
    history,       \* rule_versions
    book,          \* slot -> the change or reload in it
    ruleNotices,   \* changes the market's audience was notified of
    changes,       \* ghost: changes committed
    unheard,       \* ghost: changes that broke before their notification, or whose was refused
    inStep         \* ghost: the last commit was of a change that no other overlapped

records == <<substances, ruleSet, history>>
bookVars == <<records, book, ruleNotices, changes, unheard, inStep>>

Version == [version : Nat, rules : Rules]
Edit == [at : {"none", "write", "version", "rules", "bump", "sync", "upsert", "commit", "notify"},
         op : {"none", "create", "update", "reload"}, by : Nat, names : SUBSET Names, version : Nat, rules : Rules,
         alone : BOOLEAN]
NoEdit == [at |-> "none", op |-> "none", by |-> 0, names |-> {}, version |-> 0,
           rules |-> FileRules, alone |-> TRUE]

\* The file's substances: those a reload upserts.
InFile == {n \in Names : FileRules[n] # Absent}

\* From the first write to the end of the transaction.
InTransaction(s) == book[s].at \in {"version", "rules", "bump", "upsert", "commit"}
\* The rows it holds locked: substances written, the rule set.
Locks(s, n) == n \in book[s].names /\ book[s].at \in {"version", "rules", "bump", "commit"}
LocksRuleSet(s) == book[s].at \in {"upsert", "commit"}

\* The first write of the transaction in s.
Opening(s, edit) ==
    book' = [t \in Slots |->
        IF t = s THEN [edit EXCEPT !.alone = \A u \in Slots \ {s} : ~InTransaction(u)]
        ELSE [book[t] EXCEPT !.alone = @ /\ ~InTransaction(t)]]
Goto(s, at) == book' = [book EXCEPT ![s].at = at]
Quit(s) == book' = [book EXCEPT ![s] = NoEdit]

-----------------------------------------------------------------------------
\* The rules as the first import leaves them.
BookInit ==
    /\ substances = FileRules
    /\ ruleSet = [version |-> FileVersion, rules |-> FileRules]
    /\ history = {ruleSet}
    /\ book = [s \in Slots |-> NoEdit]
    /\ ruleNotices = {} /\ changes = {} /\ unheard = {}
    /\ inStep = FALSE

\* createSubstance of a name not seen, updateSubstance of one that is there.
StartChange(s, n) ==
    /\ Begin(s, "change")
    /\ book' = [book EXCEPT ![s] = [NoEdit EXCEPT
           !.at = "write", !.op = IF substances[n] = Absent THEN "create" ELSE "update",
           !.by = started + 1, !.names = {n}]]
    /\ UNCHANGED <<records, ruleNotices, changes, unheard, inStep>>

\* INSERT or UPDATE of the row, once no other transaction holds it.
WriteSubstance(s) ==
    /\ book[s].at = "write"
    /\ \A n \in book[s].names : \A t \in Slots : ~Locks(t, n)
    /\ book[s].op = "create" => \A n \in book[s].names : substances[n] = Absent
    /\ Opening(s, [book[s] EXCEPT !.at = "version"])
    /\ UNCHANGED <<records, ruleNotices, changes, unheard, inStep>> /\ Continue

IgnoreDuplicate(s) ==
    /\ book[s].at = "write" /\ book[s].op = "create"
    /\ \E n \in book[s].names : substances[n] # Absent
    /\ Quit(s) /\ Continue
    /\ UNCHANGED <<records, ruleNotices, changes, unheard, inStep>>
\* The insert violates the unique (market, name).
RefuseDuplicate(s) ==
    /\ book[s].at = "write" /\ book[s].op = "create"
    /\ \E n \in book[s].names : substances[n] # Absent
    /\ Quit(s) /\ End(s)
    /\ UNCHANGED <<records, ruleNotices, changes, unheard, inStep>>

\* bumpRuleVersionsForMarket reads the rule set ...
ReadRuleSet(s) ==
    /\ book[s].at = "version"
    /\ book' = [book EXCEPT ![s].at = "rules", ![s].version = ruleSet.version + 1]
    /\ UNCHANGED <<records, ruleNotices, changes, unheard, inStep>> /\ Continue

\* ... and the substances: what is committed, and its own.
ReadSubstances(s) ==
    /\ book[s].at = "rules"
    /\ book' = [book EXCEPT ![s].at = "bump", ![s].rules =
           [n \in Names |-> IF n \in book[s].names THEN book[s].by ELSE substances[n]]]
    /\ UNCHANGED <<records, ruleNotices, changes, unheard, inStep>> /\ Continue

\* UPDATE rule_sets, recordRuleVersion and the audit entry.
BumpRuleSet(s) ==
    /\ book[s].at = "bump"
    /\ \A t \in Slots : ~LocksRuleSet(t)
    /\ Goto(s, "commit")
    /\ UNCHANGED <<records, ruleNotices, changes, unheard, inStep>> /\ Continue

StartReload(s) ==
    /\ Begin(s, "reload")
    /\ book' = [book EXCEPT ![s] = [NoEdit EXCEPT !.at = "sync", !.op = "reload", !.by = started + 1]]
    /\ UNCHANGED <<records, ruleNotices, changes, unheard, inStep>>

\* syncRuleDefinition: the rule set and its version take what the file says ...
SyncRuleSet(s) ==
    /\ book[s].at = "sync"
    /\ \A t \in Slots : ~LocksRuleSet(t)
    /\ Opening(s, [book[s] EXCEPT !.at = "upsert", !.version = FileVersion, !.rules = FileRules])
    /\ UNCHANGED <<records, ruleNotices, changes, unheard, inStep>> /\ Continue

\* ... then the substances of the file, once nobody holds their rows.
UpsertSubstances(s) ==
    /\ book[s].at = "upsert"
    /\ \A n \in InFile : \A t \in Slots : ~Locks(t, n)
    /\ book' = [book EXCEPT ![s].at = "commit", ![s].names = InFile]
    /\ UNCHANGED <<records, ruleNotices, changes, unheard, inStep>> /\ Continue

\* The deadlock detector aborts a change or a reload that wait for each other.
AbortDeadlocked(s) ==
    /\ \E t, u \in Slots :
          /\ s \in {t, u}
          /\ book[t].at = "upsert" /\ book[u].at = "bump"
          /\ \E n \in InFile : Locks(u, n)
    /\ Quit(s) /\ End(s)
    /\ UNCHANGED <<records, ruleNotices, changes, unheard, inStep>>

\* COMMIT; ON CONFLICT (rule_set_id, version) the recorded version is overwritten.
CommitRules(s) ==
    /\ book[s].at = "commit"
    /\ LET e == book[s]
           next == [version |-> e.version, rules |-> e.rules]
           change == e.op # "reload"
       IN  /\ substances' = [n \in Names |-> IF n \in e.names THEN e.rules[n] ELSE substances[n]]
           /\ ruleSet' = next
           /\ history' = {h \in history : h.version # e.version} \cup {next}
           /\ changes' = IF change THEN changes \cup {e.by} ELSE changes
           /\ inStep' = (change /\ e.alone)
           /\ IF change THEN Goto(s, "notify") ELSE Quit(s)
           /\ EndOr(s, change)
    /\ UNCHANGED <<ruleNotices, unheard>>

\* notifyRuleChange to the audience as it is by then; an insert that is refused is an
\* error of the request, whose change is committed.
AnnounceChange(s) ==
    /\ book[s].at = "notify"
    /\ \E audience \in Audiences :
          IF Insertable(audience)
          THEN ruleNotices' = ruleNotices \cup {book[s].by} /\ UNCHANGED unheard
          ELSE unheard' = unheard \cup {book[s].by} /\ UNCHANGED ruleNotices
    /\ Quit(s) /\ End(s)
    /\ UNCHANGED <<records, changes, inStep>>

\* Any statement may fail, the transaction is rolled back.
BreakBook(s) ==
    /\ book[s].at # "none"
    /\ Break(s)
    /\ unheard' = IF book[s].at = "notify" THEN unheard \cup {book[s].by} ELSE unheard
    /\ Quit(s)
    /\ UNCHANGED <<records, ruleNotices, changes, inStep>>

BookStep(s) ==
    \/ \E n \in Names : StartChange(s, n)
    \/ WriteSubstance(s) \/ RefuseDuplicate(s) \/ ReadRuleSet(s) \/ ReadSubstances(s)
    \/ BumpRuleSet(s) \/ StartReload(s) \/ SyncRuleSet(s) \/ UpsertSubstances(s)
    \/ AbortDeadlocked(s) \/ CommitRules(s) \/ AnnounceChange(s) \/ BreakBook(s)

-----------------------------------------------------------------------------
BookTypeOK ==
    /\ substances \in Rules
    /\ ruleSet \in Version
    /\ history \subseteq Version
    /\ book \in [Slots -> Edit]
    /\ ruleNotices \subseteq Nat /\ changes \subseteq Nat /\ unheard \subseteq Nat
    /\ inStep \in BOOLEAN

\* The audience hears of every committed change, unless its request broke after the
\* commit or more than one was to hear of it, and of no other.
RuleChangesAnnounced ==
    /\ ruleNotices \subseteq changes
    /\ \A c \in changes :
          \/ c \in ruleNotices \cup unheard
          \/ \E s \in Slots : book[s].at = "notify" /\ book[s].by = c

\* After a change that no other transaction overlapped, the rule set lists what the
\* substances table holds, whatever overlapping ones and reloads left before; the
\* version recorded under its number is always the rule set itself.
InStepWithTable ==
    /\ inStep => ruleSet.rules = substances
    /\ \A h \in history : h.version = ruleSet.version => h = ruleSet
===============================================================================
