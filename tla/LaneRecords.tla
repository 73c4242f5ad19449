------------------------------ MODULE LaneRecords ------------------------------
(***************************************************************************)
(* The records of a lane besides its status: lane.controller.ts,           *)
(* lane.service.ts and lane.pg-store.ts on updates, lists and timelines,   *)
(* and the submissions of checkpoint-evidence.controller.ts.  What they    *)
(* return is checked at the end of the module.                             *)
(*                                                                         *)
(* An optional value is a set of at most one.  A row is a function from    *)
(* its columns.                                                            *)
(***************************************************************************)
EXTENDS ColdChain, TLC

NoConfig == [mode |-> "none", device |-> "none", frequency |-> Null]
The(option) == CHOOSE x \in option : TRUE

-----------------------------------------------------------------------------
(* Updates: input is [mode, config, batch, route], of which batch and route hold the  *)
(* columns to change.  The mode "none" is null.                                       *)

\* parseCreateLaneInput, parseUpdateLaneInput
Agrees(input) == \A m \in input.mode \ {"none"}, c \in input.config : m = c.mode

\* normalizeCreateColdChainConfig, normalizeUpdateColdChainConfig: a configuration wins
\* over a mode, and a mode alone is validated without device and frequency.
Normalized(input) ==
    IF input.config # {}
    THEN LET c == The(input.config) IN {Configuration(c.mode, c.device, c.frequency)}
    ELSE {IF m = "none" THEN NoConfig ELSE Configuration(m, "none", Null) : m \in input.mode}
Accepted(input) == Agrees(input) /\ Refused \notin Normalized(input)

\* updateLaneBundle outside of a transaction: each UPDATE commits by itself.  batches
\* and routes keep the columns that are not given.
Statements(input) ==
    SelectSeq(<<"config", "batch", "route">>,
              LAMBDA part : CASE part = "config" -> Normalized(input) # {}
                              [] part = "batch" -> input.batch # << >>
                              [] part = "route" -> input.route # << >>)
Execute(lane, input, part) ==
    CASE part = "config" -> [lane EXCEPT !.config = The(Normalized(input))]
      [] part = "batch" -> [lane EXCEPT !.batch = input.batch @@ @]
      [] part = "route" -> [lane EXCEPT !.route = input.route @@ @]

\* update, of which the first done statements succeed: only after the last one an audit
\* entry is appended.
Update(lane, input, done) ==
    LET todo == Statements(input)
        step(x, part) == Execute(x, input, part)
    IN  IF ~Accepted(input) THEN [lane |-> lane, audited |-> FALSE]
        ELSE [lane |-> FoldLeft(step, lane, SubSeq(todo, 1, AtMost(done, Len(todo)))),
              audited |-> done > Len(todo)]

-----------------------------------------------------------------------------
(* Checkpoints: sequence -> row, since (lane_id, sequence) is unique. *)

Columns == {"location", "status", "timestamp", "temperature", "signature", "signer"}
Preconfigured(location) == [c \in Columns |->
    CASE c = "location" -> location [] c = "status" -> "PENDING" [] OTHER -> "none"]

\* createCheckpoint of the controller; form: [sequence, location, timestamp, captured,
\* temperature, signature, signer, photo, signed] of which photo and signed tell which
\* files came along; steps: how many of insert, its audit entry, photo, signature and
\* update succeed.  The files multer stored are removed only once the checkpoint is there.
Submit(rows, form, steps) ==
    LET known == form.sequence \in DOMAIN rows
        refused == ~form.photo \/ ~form.signed \/ (~known /\ form.location = {})
        created == IF known THEN rows ELSE (form.sequence :> Preconfigured(The(form.location))) @@ rows
        taken == IF form.timestamp # {} THEN The(form.timestamp)
                 ELSE IF form.captured # {} THEN The(form.captured) ELSE "now"
        change == [status |-> "COMPLETED", timestamp |-> taken, temperature |-> form.temperature,
                   signature |-> form.signature, signer |-> form.signer]
    IN  IF refused THEN [rows |-> rows, uploads |-> << >>, left |-> form.photo \/ form.signed]
        ELSE [rows |-> IF steps = 5 THEN [created EXCEPT ![form.sequence] = change @@ @]
                       ELSE IF steps = 0 THEN rows ELSE created,
              uploads |-> SubSeq(<<"CHECKPOINT_PHOTO", "HANDOFF_SIGNATURE">>, 1,
                                 AtMost(2, AtLeast(0, steps - 2))),
              left |-> ~known /\ steps < 2]

\* updateCheckpoint: the columns that are given, of a checkpoint of this lane.
UpdateCheckpoint(rows, sequence, change) ==
    IF sequence \notin DOMAIN rows THEN rows ELSE [rows EXCEPT ![sequence] = change @@ @]

-----------------------------------------------------------------------------
(* Lists and timelines *)

\* findAll: of the lanes, newest first, those of the exporter and of each given filter.
Filtered(lanes, wanted) ==
    SelectSeq(lanes, LAMBDA l : \A column \in DOMAIN wanted : l[column] = wanted[column])
Page(lanes, wanted, page, limit) ==
    LET found == Filtered(lanes, wanted)
        size == AtMost(limit, 100)
    IN  [data |-> SubSeq(found, (page - 1) * size + 1, AtMost(page * size, Len(found))),
         total |-> Len(found), totalPages |-> (Len(found) + size - 1) \div size]

\* buildTimelineMetadata: what an entry recorded (of a dispute it recorded nothing that is
\* shown), or else what its entity is now, which for deleted artifacts, unknown
\* checkpoints and packs is nothing.  entry: [entity, id, recorded]; now: entity -> id ->
\* value.
TimelineMetadata(entry, now) ==
    IF entry.recorded # {} THEN entry.recorded
    ELSE IF entry.entity \notin DOMAIN now THEN {}
    ELSE {now[entry.entity][i] : i \in {entry.id} \cap DOMAIN now[entry.entity]}

-----------------------------------------------------------------------------
(* Checks *)

Given == {[mode |-> "MANUAL", device |-> "d1", frequency |-> 300],
          [mode |-> "LOGGER", device |-> "d2", frequency |-> 900],
          [mode |-> "LOGGER", device |-> "none", frequency |-> 900],
          [mode |-> "TELEMETRY", device |-> "d1", frequency |-> 30]}
ValidConfigs ==
    ({NoConfig, Configuration("LOGGER", "d1", 300)}
     \cup {Configuration(g.mode, g.device, g.frequency) : g \in Given}) \ {Refused}
Inputs ==
    {[mode |-> m, config |-> c, batch |-> b, route |-> r] :
        m \in {{}, {"none"}, {"MANUAL"}, {"LOGGER"}}, c \in {{}} \cup {{g} : g \in Given},
        b \in {<< >>, [grade |-> "A"]}, r \in {<< >>, [carrier |-> "air"]}}
Old == [config |-> Configuration("LOGGER", "d1", 300),
        batch |-> [grade |-> "B", variety |-> "none"],
        route |-> [carrier |-> "sea", mode |-> "SEA"]]

\* Whatever an update of a lane is given and wherever it stops, the configuration is one
\* that validation accepts, with a device exactly if the lane is not read by hand; an
\* update that was not recorded in the audit trail may still have changed the lane.
ASSUME ConfigurationStaysValid ==
    \A input \in Inputs, done \in 0 .. 4 :
        LET after == Update(Old, input, done)
        IN  /\ after.lane.config \in ValidConfigs
            /\ after.lane.config.device # "none" <=> after.lane.config.mode \in {"LOGGER", "TELEMETRY"}
            /\ after.audited => after = Update(after.lane, input, 4)
            /\ after.lane # Old => Accepted(input)
ASSUME UnauditedChange ==
    \E input \in Inputs : LET after == Update(Old, input, 1) IN after.lane # Old /\ ~after.audited

\* Statements of two updates in any order: each part is as the last of its statements
\* left it, the whole is one of the two serial results only if they share a part at most.
Merges(m, n) == {S \in SUBSET (1 .. m + n) : Cardinality(S) = m}
Interleaved(x, y, S) ==
    LET a == Statements(x)
        b == Statements(y)
        nth(i) == Cardinality({j \in S : j <= i})
        step(lane, i) == IF i \in S THEN Execute(lane, x, a[nth(i)])
                         ELSE Execute(lane, y, b[i - nth(i)])
    IN  FoldLeft(step, Old, [i \in 1 .. Len(a) + Len(b) |-> i])
ASSUME PartsAreOfOneUpdate ==
    \A x \in {i \in Inputs : Accepted(i) /\ i.mode = {}} :
        LET y == [mode |-> {"none"}, config |-> {}, batch |-> [grade |-> "PREMIUM"],
                  route |-> [carrier |-> "truck"]]
            serial == {Update(Update(Old, x, 4).lane, y, 4).lane, Update(Update(Old, y, 4).lane, x, 4).lane}
            ends == {Interleaved(x, y, S) : S \in Merges(Len(Statements(x)), Len(Statements(y)))}
        IN  /\ serial \subseteq ends
            /\ \A lane \in ends, part \in DOMAIN Old : \E s \in serial : lane[part] = s[part]
            /\ ends # serial <=> Len(Statements(x)) > 1

\* A submission that failed may be sent again: the checkpoint ends as after one that
\* succeeded at once, its photo may be there twice, and a completed checkpoint always
\* has both of its files.
Form(location, photo) ==
    [sequence |-> 2, location |-> location, timestamp |-> {}, captured |-> {"t1"}, temperature |-> "12",
     signature |-> "h", signer |-> "ann", photo |-> photo, signed |-> TRUE]
ASSUME SubmissionsMayBeRepeated ==
    \A rows \in {<< >>, (1 :> Preconfigured("farm")), (2 :> Preconfigured("farm"))},
       location \in {{}, {"port"}}, photo \in BOOLEAN, steps \in 0 .. 4 :
        LET form == Form(location, photo)
            first == Submit(rows, form, steps)
            second == Submit(first.rows, form, 5)
        IN  /\ second.rows = Submit(rows, form, 5).rows
            /\ Submit(second.rows, form, 5).rows = second.rows
            /\ 2 \in DOMAIN first.rows => first.rows[2].status = "PENDING"
            /\ 2 \in DOMAIN second.rows /\ second.rows[2].status = "COMPLETED" <=>
                  Len(second.uploads) = 2
            /\ first.left => first.uploads = << >>

\* Pages that nobody changes in between are all of the list.
ASSUME PagesCover ==
    \A n \in 0 .. 5, limit \in 1 .. 3 :
        LET lanes == [i \in 1 .. n |-> [exporter |-> IF i % 2 = 0 THEN "e1" ELSE "e2", status |-> "CREATED"]]
            wanted == [exporter |-> "e2"]
            pages == Page(lanes, wanted, 1, limit).totalPages
        IN  /\ FlattenSeq([i \in 1 .. pages |-> Page(lanes, wanted, i, limit).data]) = Filtered(lanes, wanted)
            /\ \A i \in 1 .. pages : Page(lanes, wanted, i, limit).data # << >>

\* What an entry recorded does not change with the lane, what it did not record does.
ASSUME RecordedIsKept ==
    \A now, later \in [{"LANE", "ARTIFACT"} -> {<< >>, ("x" :> "v1"), ("x" :> "v2")}],
       entity \in {"LANE", "ARTIFACT", "RULE_SET"}, recorded \in {{}, {"v1"}} :
        LET entry == [entity |-> entity, id |-> "x", recorded |-> recorded]
        IN  TimelineMetadata(entry, now) # TimelineMetadata(entry, later) =>
                recorded = {} /\ entity \in DOMAIN now /\ now[entity] # later[entity]
===============================================================================
