------------------------------ MODULE Snapshots ------------------------------
(***************************************************************************)
(* The snapshot of one deployment and what a sync pass makes of it, without *)
(* the tables it is kept in: SnapshotRegister is the abstract store,        *)
(* SnapshotStore the Postgres one.                                          *)
(*                                                                          *)
(* Entities are a function from the existing (entity, id) keys to data.     *)
(* The record fields are those of SyncCore: `applied' holds the entities,   *)
(* `dyn' the dynamic sources, `done' the processed-log cursors.  A block    *)
(* has LogsPerBlock logs; a log is <<block, index>>, and what its handler   *)
(* does to the entities is an arbitrary member of EntityMaps.               *)
(***************************************************************************)
EXTENDS SyncCore

CONSTANTS
    EntityMaps,     \* the entity states handlers may leave behind
    Sources,        \* dynamic sources handlers may create
    LogsPerBlock,   \* logs in a block
    MaxBlock,       \* bound: highest block ever indexed
    MaxSpan,        \* bound: blocks of one pass
    HistoryLimit,   \* --history-limit
    Policies        \* --reorg-policy values

\* A finite function from keys to data.
IsMap(m) == IsFiniteSet(DOMAIN m) /\ m = [k \in DOMAIN m |-> m[k]]

\* A retained historical snapshot.
IsEntry(e) ==
    /\ e = [ckpt |-> e.ckpt, applied |-> e.applied, dyn |-> e.dyn]
    /\ e.ckpt.from \in Int /\ e.ckpt.to \in Int
    /\ IsMap(e.applied)

ASSUME SnapshotConstants ==
    /\ \A v \in {LogsPerBlock, MaxBlock, MaxSpan, HistoryLimit} : v \in Nat
    /\ Policies \subseteq {"fail", "rollback", "reset"}
    /\ \A m \in EntityMaps : IsMap(m)

NoData == "none"                 \* EntityData::new(), and an absent previous value
NoEntities == [k \in {} |-> NoData]

Blocks == 0 .. MaxBlock

\* SyncCheckpoint, as far as storing it goes.
Checkpoint(from, to, complete) == [from |-> from, to |-> to, complete |-> complete]

\* Option<StoreSnapshot>::None.
NoSnapshot == [found |-> FALSE, ckpt |-> Checkpoint(NoBlock, NoBlock, FALSE),
               applied |-> NoEntities, dyn |-> {}, done |-> {}, history |-> <<>>]

\* apply_reorg_policy: the snapshot as loaded, a rollback to a retained entry,
\* or nothing.  Which of them it is depends on the RPC.
Previous(loaded) ==
    {loaded}
    \cup (IF loaded.found /\ "rollback" \in Policies
          THEN {RollbackToHistoricalSnapshot(loaded, loaded.history[i]) :
                  i \in DOMAIN loaded.history}
          ELSE {})
    \cup (IF "reset" \in Policies THEN {NoSnapshot} ELSE {})

\* The logs of a range in order, without the processed ones.
PendingLogs(from, to, done) ==
    LET all == [i \in 1 .. (to - from + 1) * LogsPerBlock |->
                  <<from + (i - 1) \div LogsPerBlock, (i - 1) % LogsPerBlock>>]
    IN  KeepOnly(all, Range(all) \ done)

\* run_replay pushes a history entry behind the last pending log of a block,
\* with an unfinished checkpoint at that block.
RunHistory(from, pending, after) ==
    LET last == {i \in DOMAIN after : \/ i = Len(pending)
                                      \/ pending[i + 1][1] # pending[i][1]}
        entry(i) == [ckpt |-> Checkpoint(from, pending[i][1], FALSE),
                     applied |-> after[i].applied, dyn |-> after[i].dyn]
        steps == KeepOnly([i \in DOMAIN after |-> i], last)
    IN  [j \in DOMAIN steps |-> entry(steps[j])]

\* sync_once behind run_replay: the snapshot to write and its activity.
\* `after' is the store behind each executed log.
FinishedPass(prev, from, to, pending, after) ==
    LET n        == Len(after)
        complete == n = Len(pending)
        current  == [ckpt |-> Checkpoint(from, to, complete),
                     applied |-> IF n = 0 THEN prev.applied ELSE after[n].applied,
                     dyn |-> IF n = 0 THEN prev.dyn ELSE after[n].dyn]
        run      == RunHistory(from, pending, after)
        known    == IF prev.found THEN <<HistoryEntry(prev)>> ELSE <<>>
    IN  [prev |-> prev,
         activity |-> Append(run, current),
         snap |-> [found |-> TRUE, ckpt |-> current.ckpt, applied |-> current.applied,
                   dyn |-> current.dyn,
                   done |-> IF complete THEN {}
                            ELSE prev.done \cup {pending[i] : i \in 1 .. n},
                   history |-> MergeHistory(prev.history, known \o Append(run, current),
                                            HistoryLimit)]]

\* What n handlers may leave behind: any entities, and from some log on the
\* sources they create.
Effects(prev, n) ==
    {[i \in 1 .. n |-> [applied |-> maps[i],
                        dyn |-> prev.dyn \cup (IF i >= created THEN Sources ELSE {})]] :
        maps \in [1 .. n -> EntityMaps], created \in 1 .. n + 1}

\* A pass from `prev': any target within the bounds, any number of its logs
\* executed (all of them, or cut by --limit or by an invalid entity).
PassesFrom(prev) ==
    LET from   == SyncStartBlock(0, prev.found, prev.ckpt)
        resume == [prev EXCEPT !.done = IF prev.ckpt.complete THEN {} ELSE @]
    IN  UNION {LET pending == PendingLogs(from, to, resume.done)
               IN  {FinishedPass(resume, from, to, pending, after) :
                      after \in UNION {Effects(prev, n) : n \in 0 .. Len(pending)}} :
               to \in {b \in Blocks : b \in from .. from + MaxSpan - 1}}

\* sync_once: `reset' is --reset, which loads nothing.
PassOutcomes(loaded, reset) ==
    UNION {PassesFrom(prev) : prev \in IF reset THEN {NoSnapshot} ELSE Previous(loaded)}
=============================================================================
