---------------------------- MODULE SnapshotStore ----------------------------
(***************************************************************************)
(* The Postgres tables of one deployment.  Indexers take the advisory lock, *)
(* load the snapshot statement by statement, run a pass and write the       *)
(* result in one transaction; readers (the query server, status pages) load *)
(* without lock and without transaction.  Retained history is kept as       *)
(* deltas with tombstones, and every write extends the activity trail.      *)
(***************************************************************************)
EXTENDS Snapshots

CONSTANTS
    Indexers,        \* sync processes of the deployment
    Readers,         \* processes that only load
    ReadKinds,       \* what they load: "full", "current", "status"
    LegacyHistory,   \* the history an earlier release left behind
    LegacyForms,     \* how: "json", "snapshot" or "delta"; "none": new database
    ResetArgs,       \* --reset values
    MaxWrites        \* bound: committed passes

NoOne == "nobody"

ASSUME StoreConstants ==
    /\ Indexers \cap Readers = {}
    /\ NoOne \notin Indexers
    /\ ResetArgs \subseteq BOOLEAN
    /\ LegacyForms \subseteq {"none", "json", "snapshot", "delta"}
    /\ LegacyHistory # <<>> /\ LegacyHistory \in Seq(Range(LegacyHistory))
    /\ \A i \in DOMAIN LegacyHistory : IsEntry(LegacyHistory[i])
    /\ \A i, j \in DOMAIN LegacyHistory :
          i < j => LegacyHistory[i].ckpt.to < LegacyHistory[j].ckpt.to

VARIABLES
    db,        \* the tables
    lock,      \* the indexer whose session holds the advisory lock, or NoOne
    proc,      \* the locals of indexers and readers
    writes,    \* committed passes so far
    during,    \* ghost: the snapshots in force since a reader's load began
    tracked    \* ghost: does the trail reach back to the empty store?

vars == <<db, lock, proc, writes, during, tracked>>

(***************************************************************************)
(* Tables and their contents.                                               *)
(***************************************************************************)
\* changed_entity_versions.
ChangedEntityVersions(prev, cur) ==
    {[key |-> k, data |-> cur[k], removed |-> FALSE,
      prev |-> IF k \in DOMAIN prev THEN prev[k] ELSE NoData] :
        k \in {j \in DOMAIN cur : j \notin DOMAIN prev \/ prev[j] # cur[j]}}
    \cup {[key |-> k, data |-> NoData, removed |-> TRUE, prev |-> prev[k]] :
            k \in DOMAIN prev \ DOMAIN cur}

\* Fault: tombstones are skipped.
ApplyVersionsKeepingRemoved(state, rows) ==
    LET set == {w \in rows : ~w.removed}
    IN  [k \in DOMAIN state \cup {v.key : v \in set} |->
            IF \E v \in set : v.key = k THEN (CHOOSE v \in set : v.key = k).data
            ELSE state[k]]

\* One block's delta rows applied to the entities of the block before.
ApplyVersions(state, rows) ==
    LET gone == {v.key : v \in {w \in rows : w.removed}}
        set  == {w \in rows : ~w.removed}
    IN  [k \in (DOMAIN state \ gone) \cup {v.key : v \in set} |->
            IF \E v \in set : v.key = k THEN (CHOOSE v \in set : v.key = k).data
            ELSE state[k]]

\* order by block_number, of which the rows have different ones.
InBlockOrder(rows) ==
    CHOOSE s \in [1 .. Cardinality(rows) -> rows] :
        \A i, j \in DOMAIN s : i < j => s[i].ckpt.to < s[j].ckpt.to

\* One row of load_postgres_history: "delta" rows accumulate, "snapshot" rows
\* start anew.
Rebuilt(versions, acc, row) ==
    LET applied == ApplyVersions(IF row.mode = "delta" THEN acc.state ELSE NoEntities,
                                 {v \in versions : v.blk = row.ckpt.to})
    IN  [state |-> applied,
         out |-> Append(acc.out, [ckpt |-> row.ckpt, applied |-> applied, dyn |-> row.dyn])]

LoadPostgresHistory(rows, versions) ==
    FoldLeft(LAMBDA acc, row : Rebuilt(versions, acc, row),
             [state |-> NoEntities, out |-> <<>>], InBlockOrder(rows)).out

\* load_postgres_snapshot, once its statements have been answered.
LoadPostgresSnapshot(t) ==
    LET stored == LoadPostgresHistory(t.history, t.versions)
    IN  IF ~t.row.found THEN NoSnapshot
        ELSE [found |-> TRUE, ckpt |-> t.row.ckpt, applied |-> t.entities,
              dyn |-> t.sources, done |-> t.cursors,
              history |-> IF stored = <<>> THEN t.row.legacy ELSE stored]

HistoryRows(history, mode) ==
    {[ckpt |-> history[i].ckpt, dyn |-> history[i].dyn, mode |-> mode] : i \in DOMAIN history}

\* write_postgres_history: what is not retained goes, with its versions; every
\* retained block gets the difference to the retained block before it.
VersionRows(history) ==
    UNION {{[blk |-> history[i].ckpt.to, key |-> v.key, data |-> v.data, removed |-> v.removed] :
              v \in ChangedEntityVersions(IF i = 1 THEN NoEntities ELSE history[i - 1].applied,
                                          history[i].applied)} :
           i \in DOMAIN history}

ChangeAction(v) ==
    IF v.removed THEN "removed" ELSE IF v.prev # NoData THEN "updated" ELSE "created"

ChangeRow(b, v) ==
    [blk |-> b, key |-> v.key, action |-> ChangeAction(v), data |-> v.data, prev |-> v.prev]

\* The last activity snapshot of every block, in block order.
OrderedActivity(activity) ==
    LET last == {i \in DOMAIN activity :
                   \A j \in DOMAIN activity : activity[j].ckpt.to = activity[i].ckpt.to => j <= i}
    IN  InBlockOrder({activity[i] : i \in last})

\* write_postgres_activity: the rows of blocks about to be written go (all of
\* them with --reset), then every block gets a checkpoint row and its changes.
ActivityBaseline(t, o, reset) ==
    IF reset THEN NoEntities ELSE IF o.prev.found THEN o.prev.applied ELSE t.entities

\* Fault: the rows of the first rewritten block survive.
KeptActivityInclusive(rows, first, reset) == IF reset THEN {} ELSE {x \in rows : x.blk <= first}

KeptActivity(rows, first, reset) == IF reset THEN {} ELSE {x \in rows : x.blk < first}

\* Fault: the count of a checkpoint row forgets removals.
PointRowSkipsRemovals(b, changes) ==
    [blk |-> b, changes |-> Cardinality({c \in changes : c.blk = b /\ c.action # "removed"})]

\* A row of ugraph_sync_checkpoints.
PointRow(b, changes) == [blk |-> b, changes |-> Cardinality({c \in changes : c.blk = b})]

WriteActivity(t, o, reset) ==
    LET steps    == OrderedActivity(o.activity)
        before(i) == IF i = 1 THEN ActivityBaseline(t, o, reset) ELSE steps[i - 1].applied
        changes  == UNION {{ChangeRow(steps[i].ckpt.to, v) :
                              v \in ChangedEntityVersions(before(i), steps[i].applied)} :
                           i \in DOMAIN steps}
        first    == steps[1].ckpt.to
    IN  [changes |-> KeptActivity(t.changes, first, reset) \cup changes,
         points |-> KeptActivity(t.points, first, reset)
                    \cup {PointRow(steps[i].ckpt.to, changes) : i \in DOMAIN steps}]

\* write_postgres_snapshot: one transaction.
WriteTables(t, o, reset) ==
    LET act == WriteActivity(t, o, reset)
        s   == o.snap
    IN  [t EXCEPT !.row = [found |-> TRUE, ckpt |-> s.ckpt, legacy |-> s.history],
                  !.changes = act.changes, !.points = act.points,
                  !.entities = s.applied, !.sources = s.dyn, !.cursors = s.done,
                  !.history = HistoryRows(s.history, "delta"),
                  !.versions = VersionRows(s.history)]

(***************************************************************************)
(* The database an earlier release left, and the one-off backfill.          *)
(***************************************************************************)
EmptyTables ==
    [migrated |-> FALSE,
     row |-> [found |-> FALSE, ckpt |-> NoSnapshot.ckpt, legacy |-> <<>>],
     entities |-> NoEntities, sources |-> {}, cursors |-> {},
     history |-> {}, versions |-> {}, points |-> {}, changes |-> {}]

\* Every retained block with all its entities.
FullRows(history) ==
    UNION {{[blk |-> history[i].ckpt.to, key |-> k, data |-> history[i].applied[k],
             removed |-> FALSE] : k \in DOMAIN history[i].applied} : i \in DOMAIN history}

\* "json": retained history in the deployment row only; "snapshot": a full set
\* of version rows per block; "delta": as today, before the activity tables.
LegacyTables(form) ==
    LET h    == LegacyHistory
        last == Last(h)
    IN  [EmptyTables EXCEPT
           !.row = [found |-> TRUE, ckpt |-> last.ckpt, legacy |-> h],
           !.entities = last.applied, !.sources = last.dyn,
           !.history = IF form = "json" THEN {} ELSE HistoryRows(h, form),
           !.versions = CASE form = "json" -> {} [] form = "snapshot" -> FullRows(h)
                          [] OTHER -> VersionRows(h)]

\* ugraph_migration: changes are read off the version rows.
BackfilledChanges(versions) ==
    LET earlier(v) == {p \in versions : p.key = v.key /\ p.blk < v.blk}
        latest(v)  == {p \in earlier(v) : \A q \in earlier(v) : q.blk <= p.blk}
        known(v)   == {p \in latest(v) : ~p.removed}
        row(v)     == [v |-> v, prev |-> IF known(v) = {} THEN NoData
                                         ELSE (CHOOSE p \in known(v) : TRUE).data]
        real(x)    == IF x.v.removed THEN x.prev # NoData ELSE x.prev # x.v.data
    IN  {ChangeRow(x.v.blk, [key |-> x.v.key, data |-> x.v.data, removed |-> x.v.removed,
                             prev |-> x.prev]) :
           x \in {y \in {row(v) : v \in versions} : real(y)}}

Migrate ==
    /\ ~db.migrated
    /\ LET changes == BackfilledChanges(db.versions)
           blocks  == {h.ckpt.to : h \in {g \in db.history : g.ckpt.from <= g.ckpt.to}}
       IN  db' = [db EXCEPT !.migrated = TRUE, !.changes = changes,
                            !.points = {PointRow(b, changes) : b \in blocks}]
    /\ UNCHANGED <<lock, proc, writes, during, tracked>>

(***************************************************************************)
(* Processes.  `got' holds the tables as each statement found them.         *)
(***************************************************************************)
Idle == [pc |-> "idle", kind |-> "full", next |-> 1, reset |-> FALSE, got |-> EmptyTables]

\* Fault: the checkpoint is read last.
StatementsRowLast(kind) ==
    CASE kind = "full" -> <<"history", "versions", "entities", "sources", "cursors", "row">>
      [] kind = "current" -> <<"entities", "sources", "row">>
      [] OTHER -> <<"entities", "sources", "history", "row">>

\* The statements of load, load_current and status, in order.
Statements(kind) ==
    CASE kind = "full" -> <<"row", "history", "versions", "entities", "sources", "cursors">>
      [] kind = "current" -> <<"row", "entities", "sources">>
      [] OTHER -> <<"row", "entities", "sources", "history">>

Init ==
    /\ \E form \in LegacyForms :
          /\ db = IF form = "none" THEN EmptyTables ELSE LegacyTables(form)
          /\ tracked = (form # "json")
    /\ writes = 0
    /\ during = [r \in Readers |-> <<>>]
    /\ lock = NoOne
    /\ proc = [p \in Indexers \cup Readers |-> Idle]

SetProc(p, locals) == proc' = [proc EXCEPT ![p] = locals]

\* acquire_indexer_lock; a second indexer of the deployment exits here.
AcquireIndexerLock(i) ==
    /\ db.migrated
    /\ proc[i].pc = "idle"
    /\ lock = NoOne
    /\ lock' = i
    /\ \E r \in ResetArgs : SetProc(i, [Idle EXCEPT !.pc = IF r THEN "loaded" ELSE "load", !.reset = r])
    /\ UNCHANGED <<db, writes, during, tracked>>

StartRead(r) ==
    /\ db.migrated
    /\ proc[r].pc = "idle"
    /\ \E kind \in ReadKinds : SetProc(r, [Idle EXCEPT !.pc = "load", !.kind = kind])
    /\ during' = [during EXCEPT ![r] = <<LoadPostgresSnapshot(db)>>]
    /\ UNCHANGED <<db, lock, writes, tracked>>

\* The next statement of a load.  Without a deployment row the load ends.
ReadStatement(p) ==
    /\ proc[p].pc = "load"
    /\ LET todo  == Statements(proc[p].kind)
           table == todo[proc[p].next]
           done  == proc[p].next = Len(todo) \/ (table = "row" /\ ~db.row.found)
       IN  SetProc(p, [proc[p] EXCEPT !.got[table] = db[table], !.next = @ + 1,
                                      !.pc = IF done THEN "loaded" ELSE "load"])
    /\ UNCHANGED <<db, lock, writes, during, tracked>>

\* Fault: the version rows written before survive.
WriteSnapshotKeepingVersions(i) ==
    /\ proc[i].pc = "loaded"
    /\ writes < MaxWrites
    /\ \E o \in PassOutcomes(LoadPostgresSnapshot(proc[i].got), proc[i].reset) :
          /\ db' = [WriteTables(db, o, proc[i].reset) EXCEPT !.versions = @ \cup db.versions]
          /\ during' = [r \in Readers |-> IF during[r] = <<>> THEN <<>>
                                         ELSE Append(during[r], o.snap)]
    /\ writes' = writes + 1
    /\ tracked' = (tracked \/ proc[i].reset)
    /\ SetProc(i, [Idle EXCEPT !.pc = "load"])
    /\ UNCHANGED lock

\* The pass and its transaction; --watch goes on with the next load.
WriteSnapshot(i) ==
    /\ proc[i].pc = "loaded"
    /\ writes < MaxWrites
    /\ \E o \in PassOutcomes(LoadPostgresSnapshot(proc[i].got), proc[i].reset) :
          /\ db' = WriteTables(db, o, proc[i].reset)
          /\ during' = [r \in Readers |-> IF during[r] = <<>> THEN <<>>
                                         ELSE Append(during[r], o.snap)]
    /\ writes' = writes + 1
    /\ tracked' = (tracked \/ proc[i].reset)
    /\ SetProc(i, [Idle EXCEPT !.pc = "load"])
    /\ UNCHANGED lock

\* A reader answers its request; an indexer without --watch, or one that
\* cannot go on, drops its lock.
Finish(p) ==
    /\ proc[p].pc = "loaded"
    /\ SetProc(p, Idle)
    /\ lock' = IF lock = p THEN NoOne ELSE lock
    /\ during' = [r \in Readers |-> IF r = p THEN <<>> ELSE during[r]]
    /\ UNCHANGED <<db, writes, tracked>>

\* A pass fails before its transaction commits, or the process dies.
Fail(i) ==
    /\ proc[i].pc # "idle"
    /\ \/ SetProc(i, Idle) /\ lock' = (IF lock = i THEN NoOne ELSE lock)
       \/ SetProc(i, [Idle EXCEPT !.pc = "load"]) /\ UNCHANGED lock
    /\ UNCHANGED <<db, writes, during, tracked>>

Next ==
    \/ Migrate
    \/ \E i \in Indexers : AcquireIndexerLock(i) \/ WriteSnapshot(i) \/ Fail(i)
    \/ \E r \in Readers : StartRead(r)
    \/ \E p \in Indexers \cup Readers : ReadStatement(p) \/ Finish(p)

Spec == Init /\ [][Next]_vars

(***************************************************************************)
(* Properties.                                                              *)
(***************************************************************************)
LegacySnapshot ==
    LET last == Last(LegacyHistory)
    IN  [found |-> TRUE, ckpt |-> last.ckpt, applied |-> last.applied,
         dyn |-> last.dyn, done |-> {}, history |-> LegacyHistory]

\* The tables, with their deltas, tombstones, statement-wise loads and locks,
\* implement one snapshot that changes by whole passes over itself.
Register == INSTANCE SnapshotRegister WITH snap <- LoadPostgresSnapshot(db),
    InitialSnapshots <- {NoSnapshot, LegacySnapshot}
ImplementsRegister == Register!Spec

\* No update is lost: whatever a transaction writes is the result of a pass over
\* the snapshot the tables hold when it commits, although the indexer read that
\* snapshot statement by statement and long before.
PassOverStored ==
    [][writes' # writes =>
          \E reset \in BOOLEAN :
              \E o \in PassOutcomes(LoadPostgresSnapshot(db), reset) :
                  db' = WriteTables(db, o, reset)]_vars

ValueOf(entities, k) == IF k \in DOMAIN entities THEN entities[k] ELSE NoData

\* The changes of one entity, those before a block, and the newest of some.
Trail(changes, k) == {c \in changes : c.key = k}
Prior(trail, b) == {c \in trail : c.blk < b}
Newest(trail) == {c \in trail : \A e \in trail : e.blk <= c.blk}

\* The activity trail explains the entities: per key, a block has at most one
\* change, every change starts from what the one before it left, the last one
\* leaves what is stored, and a key without changes does not exist (unless the
\* trail began with a database whose past was never recorded).
TrailReplays ==
    \A k \in UNION {DOMAIN m : m \in EntityMaps} :
        LET trail == Trail(db.changes, k)
        IN  db.migrated =>
              /\ \A c, e \in trail : c.blk = e.blk => c = e
              /\ \A c \in trail : \A e \in Newest(Prior(trail, c.blk)) : c.prev = e.data
              /\ \A c \in Newest(trail) : c.data = ValueOf(db.entities, k)
              /\ tracked => /\ trail = {} => k \notin DOMAIN db.entities
                            /\ \A c \in trail :
                                  Prior(trail, c.blk) = {} => c.action = "created"

\* What the theorem about TrailReplays assumes: a block is indexed in one step;
\* policy `reset' is not used (its pass drops the rows of entities and compares
\* with the entities still stored); entities are never empty; the earlier release
\* left complete checkpoints and, where it kept all rows of each block, removed
\* no entity.
WholeBlocks ==
    /\ LogsPerBlock = 1 /\ MaxSpan = 1 /\ "reset" \notin Policies
    /\ \A m \in EntityMaps : \A k \in DOMAIN m : m[k] # NoData
    /\ \A i \in DOMAIN LegacyHistory :
          LET e == LegacyHistory[i]
          IN  e.ckpt.complete /\ \A k \in DOMAIN e.applied : e.applied[k] # NoData
    /\ "snapshot" \in LegacyForms =>
          \A i, j \in DOMAIN LegacyHistory :
              i < j => DOMAIN LegacyHistory[i].applied \subseteq DOMAIN LegacyHistory[j].applied

\* recent_sync_activity: one page of blocks, newest first (order by, limit and
\* offset: a block is on the page that its rank falls in).
ActivityPage(t, page, limit, showEmpty) ==
    LET all     == {p.blk : p \in {q \in t.points : showEmpty \/ q.changes > 0}}
        rank(b) == Cardinality({a \in all : a > b})
    IN  [blocks  |-> {b \in all : rank(b) \in (page - 1) * limit .. page * limit - 1},
         hasNext |-> Cardinality(all) > page * limit]

\* Paging through the timeline, from the first page on while there is a next
\* one, shows the block of every change row, and shows it once.
TimelineComplete ==
    \A limit \in 1 .. 50, c \in db.changes :
        LET pages == 1 .. Cardinality(db.points)
        IN  \E n \in pages :
              /\ \A m \in pages : c.blk \in ActivityPage(db, m, limit, FALSE).blocks <=> m = n
              /\ \A m \in 1 .. n - 1 : ActivityPage(db, m, limit, FALSE).hasNext

\* What the theorem about TimelineComplete assumes: each checkpoint of the
\* earlier release covers a block.
NoEmptyRange ==
    \A i \in DOMAIN LegacyHistory : LegacyHistory[i].ckpt.from <= LegacyHistory[i].ckpt.to

Answered(r) == proc[r].pc = "loaded" /\ proc[r].got.row.found

\* A current-state answer never shows entities older than the block it names:
\* they were committed together with that checkpoint or by a later pass.
MetaIsLowerBound ==
    \A r \in Readers :
        Answered(r) /\ proc[r].kind # "full" =>
            \E i, j \in DOMAIN during[r] :
                /\ i <= j
                /\ during[r][i].ckpt = proc[r].got.row.ckpt
                /\ during[r][j].applied = proc[r].got.entities

\* An answer at a retained block shows the entities committed for that block.
RetainedBlocksAreExact ==
    \A r \in Readers :
        Answered(r) /\ proc[r].kind = "full" =>
            ToSet(LoadPostgresSnapshot(proc[r].got).history)
              \subseteq UNION {ToSet(during[r][i].history) : i \in DOMAIN during[r]}
=============================================================================
