# Verification of ugraph

TLA+ models of `ugraph`, a small self-hosted indexer for subgraphs: it reads
Ethereum logs, runs AssemblyScript mappings compiled to WASM over them, stores
the resulting entities and serves them over GraphQL. The models are translated
from the Rust sources under `core/` and `cli/`.

## 1. Inventory

| Part | State it keeps | Operations | Hard behaviour | Correct when |
|---|---|---|---|---|
| Indexer (`ugraph-node/src/main.rs`: `sync_once`, `run_replay`, the `--watch` loop) | one snapshot per deployment: entities, dynamic sources, checkpoint, processed-log cursors, retained history | a pass: load, compare hashes, roll back or reset, choose a range, scan, execute, write | the chain moves between any two requests; passes are cut by `--limit`, invalid entities, failures, crashes; RPC heads lag | a complete canonical checkpoint certifies the entities; unfinished work is a resumable prefix; history entries certify their own block; the checkpoint reaches the head |
| Chain reader and raw-log feed (`run_chain_reader_scan`, feed functions of `storage.rs`) | `ugraph_feed_subscriptions`, `ugraph_raw_logs`, `ugraph_raw_blocks` | register, probe cursor hashes, roll back, scan, write | several readers, reorgs in the middle of a pass, partial passes, missing hashes | a canonical cursor has exactly its logs; cursors reach the head |
| Log scanning (`ugraph-core/src/scan.rs`) | none | `eth_getLogs` in chunks, splitting and retrying | provider limits, retries, chunk borders | the logs of the range, each once |
| Snapshot storage (`state.rs`, `storage.rs`) | JSON file, or deployment, entity, source, cursor, history and activity tables | load, load current, write with activity | history as deltas with tombstones, reads without a transaction, a file written in place | what was written is what is loaded, at every retained block |
| Indexer lock (`storage.rs`) | a Postgres advisory lock | acquire, release on drop or session end | a lock session that dies before the process | at most one writer per deployment |
| Deployments, users, API keys (`storage.rs`) | deployment metadata, versions, promoted version, keys | record, promote, resolve, create, revoke | several statements per operation, concurrent deploys | an alias resolves to a recorded version; a revoked key opens nothing |
| Server (`server.rs`) | in-flight requests; child processes of a remote deploy | GraphQL, status, metrics, remote deploy | deploys in parallel with queries and with the indexer | a response comes from one snapshot of the resolved deployment |
| Query engine (`query.rs`) | none | filters, order, pagination, relations, block selection | nested relations, historical blocks | the reference semantics of the query |
| Runtime (`ugraph-runtime`) | per-log WASM instance, candidate store, call cache | handlers, host functions, validation | partial writes of a failing handler | a handler commits all or nothing |
| Plan, ABI, schema, manifest (`ugraph-core`) | none | parsing, signatures, decoding, template instantiation | text and bytes | - |
| CLI (`cli/src/main.rs`) | none of its own | copies of the commands above; `deploy` alternates reader and sync passes | races with a running service | deploy ends with a complete checkpoint or fails |

Interactions: the reader and the indexer share the feed tables; the indexer and
the server share the snapshot; `deploy` (CLI or server) runs reader and indexer
passes beside the long-running ones. The RPC is the only source of truth and is
asked piecemeal.

## 2. Modules

| Module | Models | Kind |
|---|---|---|
| `EthLogs` | blocks, logs, `eth_getLogs`, `log_order_key` | pure |
| `Chain` | the chain behind the RPC (external): growth, reorgs, block requests | environment |
| `SyncCore` | the pure decisions of `main.rs`: next log, start and target block, keeping a checkpoint, history (`PushHistorySnapshot`, `SortByToBlock`, `KeepOnly`), rollback; and the reference index `Ideal` | pure |
| `Indexer` | `sync` with RPC logs, one process, durable snapshot | state machine |
| `ChainFeed` | `chain-reader` processes and the feed tables | state machine |
| `FeedSync` | `ugraph deploy` over the feed: reader pass, sync pass, next round | composition of `ChainFeed` and `SyncCore` |
| `Snapshots` | one snapshot and what a sync pass makes of it | pure |
| `SnapshotRegister` | what a snapshot store promises: one value that changes by whole passes, whatever values and passes are | abstract specification |
| `SnapshotStore` | the Postgres tables, indexer lock, statement-wise reads | state machine, refines `SnapshotRegister` |
| `Deployments` | users, keys, metadata, versions, remote and CLI deploys, request routing | state machine |
| `Query` | `query.rs` on one snapshot | pure (recursive, model-checked only) |
| `QuerySession` | a client that pages while the indexer commits and rolls back | composition of `Query` and `SyncCore` |
| `HandlerRuntime` | one pass of handlers: host calls, candidates, validation, caches | state machine |
| `SyncCoreProofs` | lemmas about `SyncCore`: lists, history, log order, and what `Ideal` is without its fold | proofs |
| `IndexerProofs` | `Indexer`: types, the checkpoint, the shape of history | proofs |
| `CertificateProofs` | `Indexer`: what checkpoints, unfinished passes and history entries certify | proofs |
| `ChainFeedProofs` | `ChainFeed` | proofs |
| `FeedSyncProofs` | `FeedSync` | proofs |
| `SnapshotStoreProofs` | `SnapshotStore` | proofs |
| `DeploymentsProofs` | `Deployments` | proofs |
| `HandlerRuntimeProofs` | `HandlerRuntime` | proofs |
| `MC*` | instances for TLC | model values |

`Indexer` and `ChainFeed` each compose with `Chain` by extending it: their next
state relations interleave its `MineBlock` and `ReplaceBlocks` with the steps of
the processes. `FeedSync` extends `ChainFeed`: one of its readers is the reader
inside the deploy command, the others are chain-reader services. `Indexer`,
`FeedSync`, `Snapshots` and `QuerySession` share the decisions of `SyncCore`, so
a rollback or the merge of history is the same definition everywhere.

### The data

* A chain is a sequence of blocks with a unique tag (`fork`, the block hash) and
  a body of events. An event has an index (transaction and log index in one), an
  address, and what its reader distinguishes: for the indexer the templates its
  handler creates and whether its entities validate; for the feed its topic.
* The entity store is the sequence of logs whose handlers were committed. Two
  runs that commit the same logs in the same order build the same entities, so
  equality of sequences is the strongest statement about entities that does not
  look inside a mapping.
* `Ideal(chain, sources, origin, to)` is the index of a range: one fold over the
  chain's logs in order, a template's contract counting from the log that
  creates it. Properties compare stored state with it.

### Indexer

| Code | Action |
|---|---|
| `Command::Sync` starts, arguments | `Launch` |
| `try_load` / `--reset` | `Load` |
| `apply_reorg_policy`, `checkpoint_reorg_mismatch` | `CheckCheckpoint` |
| `rollback_reorg_snapshot`, one retained entry per step | `ProbeHistory` |
| `sync_start_block`, `bounded_sync_to_block`, set-up | `ChooseRange` |
| `scan_static_sources`, scan of known dynamic sources, one source per step | `ScanSource`, `ScansDone` |
| one iteration of the execution loop, with template creation and history | `ExecuteLog` |
| an iteration whose entities do not validate | `RejectLog` |
| the loop ends | `StopExecuting` |
| completeness, target hash, `should_keep_previous_checkpoint`, `merge_history`, `write_with_activity` | `FinishPass` |
| `?` anywhere; the watch loop's retry | `FailPass` |
| death of the process | `Crash` |

Requests made inside one iteration of the execution loop (block metadata, the
scan of a new template) are one step with it; every other request is a step of
its own. `db.origin` is a history variable: the `--from-block` of the pass that
created the snapshot. Policy `reset`, `--reset` and an empty store start a new
one. `--strict-schema` (exit after a pass with validation errors) is an exit
between passes, which `Crash` covers.

### ChainFeed

| Code | Action |
|---|---|
| `register_feed_source_subscription` | `Register` |
| `latest_block_number` or `--to-block` | `ReaderStart` |
| `fetch_block_hash` of the target | `ReaderHash` |
| `list_feed_subscriptions` | `ReaderList`, `ReaderRelist` |
| `feed_reorg_rollback_block`, one cursor per step | `ReaderProbe`, `ReaderClean` |
| `rollback_feed_chain` (one transaction) | `ReaderRollback` |
| the loop over subscriptions | `ReaderSkip`, `ReaderScan`, `ReaderDone` |
| `write_feed_logs` (one transaction) | `ReaderWrite` |
| an error or the death of a reader | `ReaderFail` |

No lock keeps a second reader away, so `Readers` is a set.

### FeedSync

| Code (`cli/src/main.rs`) | Action |
|---|---|
| `Command::Deploy`, the lock, the arguments | `StartDeploy` |
| `run_chain_reader_once`: static subscriptions; one scan; the next RPC candidate | `RegisterStatic`, `ReadFeed` (ChainFeed's reader steps), `RetryRead` |
| `sync_once` up to `run_replay` | `LoadSnapshot` |
| `latest_feed_block`, registration, the statements to come | `ChooseTarget`, `NoTarget` |
| `register_feed_source_subscription`, `load_feed_source_report`, `feed_source_caught_up`: one statement each | `AskFeed` |
| one iteration of the execution loop; an invalid one; the end of the loop | `RunLog`, `RejectLog`, `StopRunning` |
| completeness, `should_keep_previous_checkpoint`, the write, `deploy_should_continue` | `FinishSync` |
| `?` anywhere, death of the process | `DeployFails` |
| a chain-reader service | `ServiceReads` |

`dep.queue` holds the statements a pass still has to send, in the order of the
code: a static source is checked and then loaded, a template's source is
registered, loaded and then checked. That order is what the races are about.
`raced` and `lowered` are history variables: has a service written, and has the
highest cursor of the feed fallen, while a deploy ran.
The chain only grows here (`MaxReorgs = 0`), so `apply_reorg_policy` is the
identity and history, which `Indexer` covers, is never read.

### SnapshotStore and SnapshotRegister

| Code (`storage.rs`) | Action |
|---|---|
| `migrate`, the one-off backfill of the activity tables | `Migrate` |
| `acquire_indexer_lock`, `--reset` | `AcquireIndexerLock` |
| `load`, `load_current`, `status` begin | `StartRead` |
| one `select` of a load | `ReadStatement` |
| the pass and `write_postgres_snapshot` with `write_postgres_activity`, `write_postgres_history` (one transaction) | `WriteSnapshot` |
| the answer of a reader; an indexer exits | `Finish` |
| a failed pass, death of the process | `Fail` |

Entities are a function from keys to data, so that deltas, tombstones and the
`created`/`updated`/`removed` trail are real computations
(`ChangedEntityVersions`, `ApplyVersions`, `BackfilledChanges`). `Init` has a new
database and the three layouts older releases left. The refinement mapping is
`snap <- LoadPostgresSnapshot(db)`: what a load in one instant would return.
Writes of an indexer that read before another one wrote would break it, so the
refinement is about the lock, the deltas and the fallback to the old history
column at once. `SnapshotRegister` takes the initial values and the passes as
constants: `SnapshotStore` substitutes {`NoSnapshot`, `LegacySnapshot`} and its own
`PassOutcomes`.

### Deployments

Nothing here opens a transaction, so `Program(kind)` lists the statements of each
operation and every statement is one action: `VerifyKey`, `Authorize`,
`ClearBundle`, `UploadBundle`, `TakeLock`, `ReadBuild`, `CommitSync`,
`ResolveActor`, `CheckStorage`, `CheckIndexed`, `UpsertVersion`, `UpsertAlias`,
`LoadVersion`, `SetDeploymentVisibility` for deploys and commands;
`ResolveLabel`, `ResolveRow`, `ConfirmLabel`, `ReadAccess`, `CheckQueryKey`,
`LoadSnapshot` for a GraphQL request; `CreateOrUpdateUser`, `CreateApiKey`,
`RevokeApiKey` for administration; `FailRequest` for every `?`.
`named`, `steady`, `late` and `claim` are history variables.

### Query and QuerySession

`Query` follows `query.rs` function by function: `ParseFields` (fragments,
directives), `QueryNeedsHistory`, `SelectSnapshot`, `EntityMatchesWhere`,
`FilterMatches`, `ParseFilterKey`, `RelatedEntities`, `SortEntities`,
`ProjectEntity`, `ExecuteQuery`. Names are sequences of words where the code
looks at suffixes; text is a model value with the orders the code uses (`Lex`,
`Decimal`, `Fold`). `OfferedOps`, `ComparisonKeys`, `RelationKeys` and
`Connectives` are the input fields of `filter_input_type`.

`QuerySession` adds time. `IndexBlocks` and `RollBack` are passes: `CommitFrom`
chooses the target as `sync_start_block` and the head allow, `Executions` what
the handlers did before the pass ended or was cut, `PassEntries` the history
entries of its blocks and its checkpoint, `Pass` the `merge_history`. A pass that
was cut is stored under its target block, and the pass that resumes it commits the
same number and hash again and replaces that block's entry; `forks` gives a block a
new hash when a reorg replaces it. `AskMeta` and `AskPage` are a client's
requests, each of which loads the snapshot afresh with or without history.
`complete`, `versions` and `due` of the client are history variables: whether the
block it was told of was complete, what passes committed for that block from then
on, and which of these each of its pages was due from. Not in the model: a head
that falls behind, an explicit lower `--to-block`, a block whose hash the RPC did
not give (such a block cannot be pinned by hash).

### HandlerRuntime

| Code | Action |
|---|---|
| `execute_matched_log_handler...`: instance, candidates, context | `StartHandler` |
| `handle_host_call`: `store.set`, `store.get` then `store.set`, `store.remove`, `dataSource.create`, `ethereum.call` | `StoreSet`, `StoreGetAndSet`, `StoreRemove`, `DataSourceCreate`, `EthereumCall` |
| validation passes, candidates committed, sources followed | `CommitHandler` |
| validation fails, the pass ends | `RejectHandler` |
| abort, trap, failing host function | `Trap` |
| the pass is written | `EndPass` |
| another upload of the same version | `ReplaceBuild` |

The reference beside the candidate store is `Accounted(ledger, calls)`: the host
calls of an accepted handler, replayed in order on what was committed before.
`pass.given`, `pass.answers` and `host.answers` record what the RPC gave and what
the calls returned, `first` the context a source was first created with.

## 3. What the runs check

Passing runs:

| Run | Bounds | Shows |
|---|---|---|
| `indexer_reorg` | 3 blocks, 2 reorgs of depth <= 2 between passes, 1 failure, one block per pass, 3 history entries, all policies, `--reset`, heads up to one block late | `CheckpointCertifiesStore`, `HistoryCertifiesStore`, `HistoryWellFormed`, `CheckpointRegressesOnlyOnReorg`, `TypeOK` |
| `indexer_resume` | 4 blocks, two per pass, `--limit 1`, invalid entities, 1 failure, history limit 2 | `PartialPassIsPrefix`, `CheckpointCertifiesStore`, `HistoryWellFormed` |
| `indexer_live` | 3 blocks, 1 reorg of depth <= 2 at any moment, 1 failure, policy `reset`, `--watch` | `CatchesUp` |
| `feed_reorg` | 1 reader, 3 blocks, 2 reorgs of the newest block at any moment, 1 failure | `TypeOK`, `FeedCertifiesLogs`, `FeedCatchesUp` |
| `feedsync` | a deploy's reader and a service, a factory and a pool it creates at block 1 or 2, 3 blocks, 2 deploys of 2 passes, `--reset`, 1 failure | `CompleteMeansIndexed` (no service wrote meanwhile), `NoLogExecutedTwice` (the highest cursor did not fall), `DeployCompletes`, `GrowthInv` |
| `store` | 2 indexers, 1 reader, 3 blocks, 2 commits, history limit 2, 4 initial layouts, rollback and `--reset` | `ImplementsRegister`, `PassOverStored`, `TrailReplays`, `TimelineComplete`, `MetaIsLowerBound` |
| `deployments` | 2 users, 2 keys, 2 labels, 2 concurrent requests drawn from 14, 3 in all, 1 admin command | `TypeOK`, `LatestAnswered`, `RevokedKeyPromotesNothing`, `ClaimNeverLost` |
| `query` | 4 blocks, 4 passes of up to 2 blocks, whole, cut or resumed, history limit 3, reorgs, one row per page, plain and fragment queries | `PinnedByHash`, `PinnedByNumber`, `CurrentLoadSuffices`, `OfferedFiltersMeanWhatTheySay`, `RelationsAgree` |
| `runtime` | 3 handlers of up to 2 host calls, 4 kinds of payload, 2 builds, several passes | `StoreIsAcceptedWrites`, `StoreWellTyped`, `CallsAgreeInBlock`, `ContextIsFirst`, `OneBuildPerPass` |

Bounds. Three blocks are the smallest chain in which a checkpoint, a retained
entry below it and a reorg through both exist; four with passes of two allow a
pass that is cut, resumed and followed by another. Two reorgs allow a reorg of
already repaired state. Two subscriptions of one contract that start at different
blocks are the smallest feed with cursors at different heights, two readers the
smallest race. Bodies hold at most three events: a template's log before its
creation, the creation, and one after it. In `feedsync` two passes are one more
than the template contracts (`EnoughPasses`), and a second deploy starts from
what the first one left. In `store` two commits on top of an older layout make a
retained block, its successor and a rollback across them; a second indexer makes
the lock matter. Two requests are the smallest interleaving of statements; a
third lets one begin after another has ended, so that a version is recorded,
replaced and queried. In `query` a page size of one puts a pass or a rollback
between any two rows; four passes with a history of three trim the pinned block
away, or cut it, resume it twice and go on. One of its two stores holds two
accounts whose ids differ in case only; both stores are there after the first pass,
where `OfferedFiltersMeanWhatTheySay` and `RelationsAgree` are looked at. In `runtime` the third handler is the first that can see what the
second left of a rejected first.

The regime of each run is part of the claim. `indexer_reorg` takes one-block
passes (every pass completes, history entries are final checkpoints) and reorgs
between passes; `indexer_resume` and `feedsync` always have `--from-block`;
`feed_reorg` has one reader and one-block reorgs; `store` has one log per block.
Outside those regimes the code does not keep the same promises.

Runs that find a disagreement between the code and what its documentation says
(quotations in `PROJECT.json`, "findings"):

| Run | What happens |
|---|---|
| `feed_deep` | a two-block reorg is rolled back from the cursor only |
| `feedsync_nofrom` | `ugraph deploy` without `--from-block`: the second pass starts at the target block, the backfilled logs of a new template are skipped and the index is reported complete |
| `deployments_owner` | an admin's deploy, or a first deploy that raced, takes the deployment from its first owner, who is then refused |

Other limits of the passing runs, each a few constants away (recorded at their
lines in `PROJECT.json`, "hazards"):

| Change | Fails first | Why |
|---|---|---|
| `indexer_reorg` with `ReorgDuringPass = TRUE` | `CheckpointCertifiesStore` | a reorg between the scan and the hash request certifies orphaned logs |
| `indexer_reorg` with `HashFaults = TRUE` | `CheckpointCertifiesStore` | a missing hash counts as a match |
| `indexer_reorg` with `ToArgs` = {`NoBlock`, 0} | `HistoryWellFormed` | a lower explicit `--to-block` moves a complete checkpoint back over newer entities |
| `indexer_reorg` with `MaxBlocksPerPass = 2`, `Contents <- PlainBodies` | `CheckpointCertifiesStore` | a rollback to an entry written inside a pass restarts that pass without its cursors |
| `indexer_resume` with `MaxHeadLag = 2` | `HistoryWellFormed` | an unfinished pass resumed at a lagging head is completed below its own work |
| `indexer_resume` with `Contents <- EarlyBodies` | `PartialPassIsPrefix` | a resumed pass also runs logs a template's contract emitted before its creation |
| `indexer_resume` with `FromArgs <- NoneOnly` | `CheckpointCertifiesStore` | as `feedsync_nofrom`, from RPC logs |
| `indexer_resume` with `HistoryCertifiesStore` | that property | an unfinished pass enters history under its target block |
| `feedsync` with `CompleteMeansIndexedAlways` | that property | a service writes between the load of a template's logs and the check of its cursor |
| `feedsync` with `NoLogExecutedTwice` without `~lowered`, `MaxHead = 3`, `MaxDeploys = 3` (one subscription) | that property | a slow chain-reader writes its old target over the cursor of a faster one |
| `query` with `client.complete` dropped from `PinnedByHash` or `PinnedByNumber` | that property | a pass cut short is committed under its target block and hash, and again when it is resumed: pages on both sides mix two snapshots; `_meta` does not say that the block was incomplete |
| `query` with `~client.reorged` dropped from `PinnedByNumber` | that property | after a rollback a number names another block |
| `query` with equal ids asked for in `RelationsAgree` (`=` for `IdsMatch`) | that property | two stored ids that differ in case only both list the referrer; the reference finds the first |
| `store` with `ReadKinds = {"full"}` and `RetainedBlocksAreExact` | that property | history and version rows of one load come from different commits |
| `store` with `LogsPerBlock = 2` | `TrailReplays` | a block cut in its middle and resumed loses the changes of its first half |

Fairness. `indexer_live`: weak fairness of the process's own steps, i.e. the
process is scheduled and, when it is down, launched again; the watch loop never
stops by itself and container restarts are the documented deployment. Failures
and reorgs are bounded, not unfair: the property speaks of the time after the
last one. `feed_reorg`: weak fairness of each reader's steps, the same argument.
The other runs check safety only; they may stop (`CHECK_DEADLOCK FALSE`) when the
bounded requests, passes or commits are used up.

Each property of a passing run is also run against a faulty variant of one
definition (the operators commented "Fault:"), which it must reject.

## 4. What is proved

Every theorem is about the specification TLC runs, for every value of the
constants under the assumptions the modules name (`ChainConstants`,
`IndexerConstants`, `BodyConstants`, `FeedConstants`, `DeployConstants`,
`SnapshotConstants`, `StoreConstants`, `DeploymentConstants`,
`RuntimeConstants`): bounds are natural numbers, arguments are of their types,
and the events of a block have distinct indices. TLC evaluates each of them. A
theorem that needs more of a deployment says so in an ASSUME of its own.

| Theorem | States | Hypotheses |
|---|---|---|
| `IndexerProofs!TypeCorrect` | `[]TypeOK` | - |
| `IndexerProofs!CheckpointNeverRegresses` | `CheckpointRegressesOnlyOnReorg` | no `--to-block` |
| `IndexerProofs!HistoryStaysWellFormed` | `[]HistoryWellFormed` | no `--to-block`, heads do not lag |
| `CertificateProofs!CheckpointsCertify` | `[]CheckpointCertifiesStore` | `Regular`, and `Resumable` or `OneBlockPasses` |
| `CertificateProofs!PartialPassesArePrefixes` | `[]PartialPassIsPrefix` | the same |
| `CertificateProofs!HistoryCertifies` | `[]HistoryCertifiesStore` | `Regular`, `OneBlockPasses` |
| `ChainFeedProofs!TypeCorrect` | `[]TypeOK` | - |
| `ChainFeedProofs!GrowthCorrect`, `FeedExact` | `[]GrowthInv`, `[]FeedCertifiesLogs` | `GrowthOnly` |
| `FeedSyncProofs!DeployKeepsFeed` | `[]GrowthInv` of the composition | `GrowthOnly` |
| `FeedSyncProofs!NoLogTwice` | `[]NoLogExecutedTwice` | `GrowthOnly` |
| `FeedSyncProofs!CompleteIsIndexed` | `[]CompleteMeansIndexed` | `GrowthOnly`, `FactoryDeploy` |
| `FeedSyncProofs!EnoughPassesComplete` | `[]DeployCompletes` | `GrowthOnly`, `FactoryDeploy`, `RoomyDeploy` |
| `SnapshotStoreProofs!NoLostUpdate` | `PassOverStored` | - |
| `SnapshotStoreProofs!AnswersAreNotOlder` | `[]MetaIsLowerBound` | - |
| `SnapshotStoreProofs!ImplementsSnapshotRegister` | `ImplementsRegister` | - |
| `SnapshotStoreProofs!TimelineIsComplete` | `[]TimelineComplete` | `NoEmptyRange` |
| `SnapshotStoreProofs!TrailIsReplayed` | `[]TrailReplays` | `WholeBlocks` |
| `DeploymentsProofs!TypeCorrect`, `LatestIsAnswered`, `RevokedKeysStop`, `OwnersStay` | `[]TypeOK`, `[]LatestAnswered`, `[]RevokedKeyPromotesNothing`, `ClaimNeverLost` | - |
| `HandlerRuntimeProofs!OnlyAcceptedWrites`, `StoreIsWellTyped`, `CallsOfBlockAgree`, `ContextsStay`, `OneBuild` | `[]StoreIsAcceptedWrites`, `[]StoreWellTyped`, `[]CallsAgreeInBlock`, `[]ContextIsFirst`, `[]OneBuildPerPass` | - |

Two techniques recur. The provers cannot do induction over data, so where an
argument needs it, a least counterexample takes its place: `LeastElement` (every
non-empty set of naturals has a least element, from the well-foundedness of `<`)
gives the first list, block or call that goes wrong, and its predecessor
contradicts it. And a definition that recurses (`Ideal`, `MergeHistory`,
`LoadPostgresHistory`, `Accounted`) is first characterised without its recursion;
everything else uses the characterisation.

### SyncCoreProofs

* Lists: `InOrderFacts`, `KeepOnlyFacts`, `SortFacts` (order and contents of what
  `KeepOnly` and `SortByToBlock` return), `OrderedPrefix` (an ordered list whose
  elements are a lower part of another's is a prefix of it).
* History: `PushFacts`, `MergeFacts`, `UpToBlockFacts`: pushing and merging keep
  one entry per block in block order, bounded by the limit, from the entries that
  went in, and the newest block stays.
* Logs: `LogOrder`, `EarliestLog`, `AllLogsFacts`: the logs of a chain are finitely
  many, totally ordered by block and index, and the next unprocessed log exists.
* The reference: `IdealFacts` says that `Ideal` is ordered and an *index*
  (`IsIndex`): a log is in it exactly if its contract is a static source that has
  started, or a log of the index before it created that contract. `HoldsIdeal`: an
  ordered store that holds an index is `Ideal`; one that holds a *beginning* of
  the index (`IsBeginning`: what it misses comes after all it has) is a prefix.

### Indexer

`TypeInv` types the locals of a pass by the blocks and logs that ever existed
(`Blocks(forks)`), because orphaned logs stay in the store until a rollback.

`ForwardInv` (checkpoint): a pass whose checkpoint is still canonical has not left
it, starts right behind it, and a pass that starts behind its target has nothing
pending; so `ShouldKeepPrevious` recognises every empty pass.

`LevelInv` (history): a pass reaches at least the checkpoint it continues from;
no entry is beyond the checkpoint and the newest one is the checkpoint. With
lagging heads or an explicit lower `--to-block` it is false, as the table of
limits in section 3 shows.

`CertInv` (certificates) says of every snapshot, stored or loaded, whose
checkpoint block is on the chain, that its store is in chain order, its dynamic
sources are those its logs created, and its logs are the index of the chain up to
its block (complete), or a beginning of it that misses nothing below the start of
the range, with cursors for exactly what it has of the range (unfinished). Of a
pass that scans it says that the pending logs are those of the sources asked so
far; of one that executes, that the unprocessed logs are exactly the logs the
executed ones make it handle and it has not (`WorkOK`), so that running the
earliest of them extends the beginning (`OneMoreHandled`) and running out of them
makes it an index. A reorg cannot falsify it: a block on the chain brings its
ancestors along (`AgreeFacts`). `StoredKept`, `PassKept`: the chain moves;
`ScansDoneCert`, `ExecuteCert`, `WrittenCert`: the pass; `CompleteIsIdeal`,
`CertMeans`: what it says of `Ideal`.

`Regular`, `Resumable` and `OneBlockPasses` are hypotheses about a deployment, not
about the code, and the instances `indexer_resume` (`Regular`, `Resumable`) and
`indexer_reorg` (`Regular`, `OneBlockPasses`) satisfy them. `Regular`:
`--from-block` at or below every start block, no `--to-block`, no `--watch`, RPCs
that have the hash of every block they serve, no reorg while a pass runs.
`Resumable`: heads do not lag, policy `rollback` meets no reorg, no contract logs
in front of its creation in one block. `OneBlockPasses`: one block per pass, a
positive `--limit`, no rejected entity. Dropping a hypothesis gives TLC a
counterexample on one of the two instances:

| Dropped | Fails |
|---|---|
| a start block at or below the sources' | `CheckpointCertifiesStore` |
| `--from-block` | `CheckpointCertifiesStore` and `PartialPassIsPrefix` in passes that are cut, `HistoryCertifiesStore` in passes of one block |
| no `--watch` (which forgets `--from-block`) | the same |
| no `--to-block`; hashes always there (with reorgs); no reorg during a pass | `CheckpointCertifiesStore` |
| `Resumable`: heads do not lag (with rejected entities); no early logs | `CheckpointCertifiesStore`, `PartialPassIsPrefix` |
| `Resumable`: no rollback | `CheckpointCertifiesStore` |
| `OneBlockPasses`: no rejected entity | all three |
| `OneBlockPasses`: a positive limit, one block per pass | `HistoryCertifiesStore` |

### ChainFeed and FeedSync

`GrowthOnly` says what the results about the feed need of a deployment: no
reorgs, no reader with a `--to-block` above the head or a `--from-block` above a
subscription's start, and a subscription key that is always registered with the
same topics. Each of these is necessary: without it the code leaves gaps (see the
hazards).

`FeedCertifiesLogs` is not inductive: it says nothing of the locals of a reader,
which may have been read long before another reader wrote. `GrowthInv` adds
that every row a reader still works from was sound when it was read and stays
so (`RowSound` is monotone in the chain and in the stored logs), that what it is
about to write was emitted by the chain and, with what is stored, covers its
range, and that stored hashes are the chain's. A step only grows chain, logs and
active rows (`Grows`), so everything sound stays sound (`GrowthKept`); a probe of a
sound hash cannot mismatch (`NoMismatch`), so no rollback happens; a scan starts
where the row's coverage ends (`ScanSound`); and `ON CONFLICT DO NOTHING` loses
nothing because an emitted log with the key of a stored one is that log
(`InsertEmitted`). `DeployKeepsFeed`: every step of `FeedSync` is one of
`ChainFeed`'s, an upsert that keeps the cursor (`SubscribeGrowth`), or leaves the
feed alone.

`OnceInv` is the argument for `NoLogTwice`: a snapshot has executed nothing above
its checkpoint; what an unfinished one executed inside its range is in its cursors;
and no pass has a target below the checkpoint it continues from, since the
command's own reader pass brings a source that started at or below it to the head
before `latest_feed_block` is asked. The last part does not hold by itself: a
chain-reader that fixed its target long ago and writes late puts its lower cursor
over that of a faster one (`storage.rs:2230`). `latest_feed_block` then falls, a
pass completes below what an unfinished one executed and drops its cursors, and
the next pass runs those logs again. The first proof attempt ended there and TLC
confirmed it; the property now says `~lowered`, and the hazards list it.

`IndexInv` is the argument for `CompleteIsIndexed`, in five parts.

* Store (`SnapIndexed`). The executed logs are logs of the chain that a static
  source or one of its creations accounts for, those of the static sources a
  beginning of them all (`IndexSound`); every source the snapshot follows starts at the block of an
  executed log that created its contract (`SourcesSound`); nothing is missing below
  the block at which the next pass starts, because it is a `--from-block` or a
  former pass got there (`Reached`).
* Reader (`Listed`). The command's own scan works on the active subscriptions; when
  it ends each of them has reached the feed's highest cursor, which is the target
  the pass is about to choose (`ReadFeedIndexed`, `TargetIndexed`). With a service at
  work this is false, hence `~raced`.
* Queue (`FeedIndexed`). Of a source in the queue the load is still to come, or it has
  been made and, if the source has not reached the target, a check is still to come or
  has set `backfill` (`Loaded`, `Checked`, `Fetched`). So when the queue is empty and
  no backfill is due, the pass has every stored log of every source it follows, which
  `FeedCertifiesLogs` makes every log of the chain. Static sources are loaded from the
  start of the range; a created one only behind the log that created it, or from the
  start of the range in a pass that knew it before (`Fetching`). `SourcePlaces`:
  sorting the sources by rank asks for each of them.
* Run. A pending log is one of the chain, of a static source or of a followed one
  (`Accounted`), and the earliest unprocessed one is next, so no log of a static source
  is passed over. `RunLogIndexed` says that executing one keeps all of this, whether
  the contracts it creates are new, followed already or created by an earlier log of
  the same block.
* End. Out of logs and with `backfill` unset, every log due up to the target has been
  executed (`LoadedPending`, `CompletePass`); with `IdealFacts` these are the logs of
  `Expected`, and what was executed besides is in `EarlyLogs` (`IndexMeans`).

`CountInv` adds the measure for `EnoughPassesComplete`: no template contract is
followed anew that is followed already, and in the `n`-th pass at least `n - 1` of
them are known, since a pass without failed handlers ends incomplete only when it
followed a contract its predecessors had not (`PassCounted`, `RunCounted`); with more
passes than template contracts the last one cannot. `Cardinality(Blocks \X EventIndices)`
bounds the logs a pass can execute (`NoLogTwice` again), so `RoomyDeploy` keeps
`--limit` out of its way.

`FactoryDeploy` and `RoomyDeploy` are hypotheses about a deployment, and TLC
evaluates them on the instance `feedsync` (`FactoryInstance`). The limit of that
instance is never reached; `CompleteMeansIndexed` also holds there with `Limit = 1`.
What dropping a hypothesis does, found by TLC:

| Dropped | Fails |
|---|---|
| `FactoryDeploy`: there is a `--from-block` | `CompleteMeansIndexed` (run `feedsync_nofrom`) |
| a `--from-block` at or below every start block (and in `GrowthOnly`) | `CompleteMeansIndexed`: creations below it are not seen |
| only static contracts create sources | `CompleteMeansIndexed`: a static log at block 3 makes a contract followed from 3, a template's log at block 1 that creates it too is executed only by the next pass, and the contract's logs at 2 are never asked for |
| `RoomyDeploy`: static sources start first, at one block | `DeployCompletes`: a source above the head leaves the deploy incomplete |
| `RoomyDeploy`: `--limit` is not reached (`Limit = 2`) | `DeployCompletes` |

The other parts of `FactoryDeploy` are what the reference presupposes: `Ideal`
executes every event of a followed contract, and a created contract has a
subscription for each block it may be created at.

### SnapshotStore

`LoadInv`: an indexer at work holds the lock, so what a full load has read so far
is what the tables still hold (`ReadSame`); therefore the pass is one over the
stored snapshot (`LoadedIsStored`, `NoLostUpdate`). `ViewInv`: the ghost `during`
ends with what the tables hold, and what a reader has read was in force in the
order of its statements, checkpoint first; with the checkpoint read last it is
false.

`ImplementsSnapshotRegister` is the refinement, in three parts.

* Layout. The rows of one block explain the difference to the block before it
  (`Explains`; `ChangesExplain` for deltas, `FullRowsOf` for the older layout), and
  rows that explain a difference reproduce the entities (`ApplyFacts`): keys without
  a row are carried over, tombstones remove. The rows of a history, sorted by block,
  are its entries in their order (`RowsInOrder`, since a function that increases
  within `1 .. n` is the identity). `LoadSteps` unfolds the load into the sequence of
  its intermediate states, and the least step at which the rebuilt history departs
  from the written one does not exist (`LoadedHistory`).
* Shape. That needs a history with one entry per block in block order whose
  entities are functions. `HeldWell` says so of what the tables hold, and
  `OutcomeWell` shows that a pass keeps it, whether it starts from the snapshot as
  loaded, from one that a reorg rolled back to or from nothing (`RunFacts`,
  `FinishedWell`, and `MergeFacts` of `SyncCoreProofs`).
* Steps. A commit writes a pass over the snapshot in force (`LoadedIsStored`, the
  lock), which is then what the tables hold (`WrittenIsLoaded`); the backfill of the
  activity tables leaves the snapshot alone; nothing else writes (`RegisterStep`).
  The three older layouts hold the same snapshot (`LegacyIsLoaded`).

`PointInv` is the argument for `TimelineIsComplete`: every change row is of a block
whose checkpoint row counts a change (`Counted`), so the block is listed
(`PointCounts`), and its rank among the newer ones falls in one page, with all pages
before it full (`PageOf`, `RankOf`). A write keeps this because both tables drop the
same blocks and a new checkpoint row counts the changes written with it
(`WrittenIsCounted`); the backfill because each version row is of a block that a
stored checkpoint covers (`Covered`, `LegacyIsCovered`), which is where
`NoEmptyRange` is needed.

`TrailInv` is the argument for `TrailIsReplayed`. `TrailReplays` alone is not
inductive: a rollback drops the newest rows, and what is left must then explain the
entities of the retained block that was rolled back to. So the invariant
(`HeldTrail`) says that the rows before the block at which the next pass would begin
*recount* the snapshot (`Recounts`: per key, the newest of them has the stored
value, and in a full trail a key without rows does not exist), that they recount
every retained entry at its block in the same way, and that each row starts from
what the one before it left (`Linked`).

* A pass. It drops the rows from its first block on (`TrailPruned`), which leaves the
  trail at the snapshot it continues from, whether stored, rolled back to or empty
  (`TrailKept`), and adds one row for each key that its block changed
  (`StepRowsFacts`, `RecountsExtends`, `TrailExtends`). Its result, and each entry it
  puts into history, is of that block, or is an older entry below it (`PassOne`,
  `TrailPass`, `TrailWritten`).
* The backfill. Before the migration the invariant is about the rows that it would
  write. The version rows of a database recount each retained block
  (`HistoryRecounted`), whether they are deltas or full rows (`DeltasAreRetold`,
  `FullRowsAreRetold`); therefore the value that the migration takes for the previous
  one is what the block before held (`PreviousIsBefore`), it writes the rows that
  passes would have written (`BackfilledSteps`), and those are linked
  (`HistoryLinked`, `LegacyTrail`). From the layout without rows it writes none; the
  trail is then not full until a `--reset`.

`WholeBlocks` and `NoEmptyRange` are hypotheses about a deployment and about what an
earlier release left; TLC evaluates them on the instance `store` (`TrailInstance`).
What dropping a part does to that run:

| Dropped | Fails |
|---|---|
| `WholeBlocks`: one log per block (`LogsPerBlock = 2`) | `TrailReplays`: a block cut in its middle and resumed loses the changes of its first half |
| one block per pass (`MaxSpan = 2`) | `TrailReplays`: the same for a pass cut between its blocks |
| no policy `reset` | `TrailReplays`: a pass that starts over after a reorg drops all rows but compares with the entities still stored, so what it leaves as it was has no rows any more |
| the older checkpoints are complete | `TrailReplays`: a resumed pass drops the rows of the block it resumes in |
| an older database with all rows of each block removed no entity | `TrailReplays`: no version row says that it is gone |
| no entity of the older database is empty | `TrailReplays`: the backfill takes an empty value for an absent one |
| `NoEmptyRange` | `TimelineComplete`: the backfill writes no checkpoint row for such a block |

### Deployments

`DeployInv` says for each statement of each program what the ones before it have
established (`Prepared`, `LateOK`, `Resolving`), and that the history variables of
a running query are up to date (`Observed`). `Succession` and `Statements` read the
programs: which statement precedes a commit, a version, an answer.

### HandlerRuntime

`HostInv`: the candidate store of a running handler is what its host calls amount
to on the committed one (`CandidateOK`), each of its entities was there or was
written by one of these calls, call caches hold what the RPC gave, and every
handler of the pass ran the cached module of its source. `RunUnique` and
`AccountedMore` characterise `Accounted`.

### Only model-checked

* Liveness: `CatchesUp`, `FeedCatchesUp`.
* The properties of `QuerySession`: `Query` recurses over fragments and filters
  with RECURSIVE operators.
* The feed under reorgs (`feed_reorg` beyond `TypeCorrect`).

## 5. Plan

1. `ChainFeed` under reorgs of one block and a single reader: `FeedCertifiesLogs`
   with the invariant that a cursor above the fork is rolled back before its next scan.
2. `TrailReplays` for passes of several blocks that no `--limit` cuts.

## 6. Not modelled

* ABI decoding, keccak signatures, WASM and manifest or schema parsing: bytes and
  text without state (`endBlock` of a data source is parsed into the plan and
  read by nothing that scans).
* The AssemblyScript heap and the host functions that only compute (big numbers,
  type conversion, JSON, IPFS, `ethereum.hasCode`): no store, no cache.
* The introspection document except its filter keys, and the GraphQL lexer.
* Chunking, splitting and retrying one `eth_getLogs` request.
* The JSON snapshot file (one write in place), the public-signup setting (read by
  nothing else), an indexer that outlives its lock session.
* HTTP parsing, HTML pages, metrics formatting, logging, Chainlist resolution,
  backoff times (a failed pass is retried at some later time) and RPC pacing.
