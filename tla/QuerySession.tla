---------------------------- MODULE QuerySession ----------------------------
(***************************************************************************)
(* A client that reads a list page by page while the indexer moves on: it   *)
(* asks _meta for the block and pins every page to the hash or the number   *)
(* it was told.  Between two pages passes commit, whole or cut short, a     *)
(* later pass resumes what one left, the history is trimmed and reorgs roll *)
(* back.  Every request loads the stored snapshot afresh, with or without   *)
(* its history.                                                             *)
(***************************************************************************)
EXTENDS Query

CONSTANTS
    EntityLists,    \* entity stores the handlers may leave behind
    HistoryLimit,   \* --history-limit
    MaxBlocksPerPass, \* UGRAPH_SYNC_MAX_BLOCKS_PER_PASS
    MaxBlock,       \* bound: highest block indexed
    MaxPasses,      \* bound: passes
    Shapes,         \* how a client writes its query: "plain" or "spread"
    Listing,        \* the root field a client pages through, without block and skip
    PageSize        \* its `first'

ASSUME SessionConstants ==
    /\ \A n \in {HistoryLimit, MaxBlock, MaxPasses} : n \in Nat
    /\ {PageSize, MaxBlocksPerPass} \subseteq Nat \ {0}
    /\ Shapes \subseteq {"plain", "spread"}

VARIABLES
    snap,       \* the stored StoreSnapshot; which logs were processed is left out
    forks,      \* [block -> how often the chain replaced it]
    passes,     \* passes so far
    client      \* the reading client

vars == <<snap, forks, passes, client>>

Blocks == 0 .. MaxBlock

\* A block replaced by a reorg comes back under a hash of its own.
BlockHash(fork, b) == b + (MaxBlock + 1) * fork[b]

Entry(fork, from, b, complete, list) ==
    [ckpt |-> [to |-> b, hash |-> BlockHash(fork, b), complete |-> complete, from |-> from],
     applied |-> list, dyn |-> {}]

\* What is known of a client besides what it keeps itself: whether the block it
\* was told of was complete, what was committed for that block from then on
\* (`versions'), and which of them each of its pages was due from (`due').
NoPin == [by |-> "none"]
Idle == [stage |-> "idle", pin |-> NoPin, rows |-> <<>>,
         complete |-> TRUE, versions |-> <<>>, due |-> <<>>, reorged |-> FALSE]

\* The first pass has stored block 0, or some of it.
Init ==
    /\ forks = [b \in Blocks |-> 0]
    /\ passes = 1
    /\ \E list \in EntityLists, complete \in BOOLEAN :
          LET first == Entry(forks, 0, 0, complete, list)
          IN  snap = [ckpt |-> first.ckpt, applied |-> list, dyn |-> {}, done |-> {},
                      history |-> <<first>>]
    /\ client = Idle

(***************************************************************************)
(* The indexer.                                                             *)
(***************************************************************************)
\* What run_replay executed: the blocks that had logs, and the store behind
\* each.  `within' says that it stopped inside the last of them.
Executions(from, to) ==
    {run \in [stores : UNION {[S -> EntityLists] : S \in SUBSET (from .. to)}, within : BOOLEAN] :
        run.within => run.stores # <<>>}

\* The snapshots a pass hands to merge_history: one for each block it executed
\* to its end, unfinished whatever becomes of the pass, and its own at the
\* target, which is complete only when no log was left over.
PassEntries(prev, fork, to, run, complete) ==
    LET from  == SyncStartBlock(0, TRUE, prev.ckpt)
        ran   == DOMAIN run.stores
        last  == Max(ran)
        ended == IF run.within THEN ran \ {last} ELSE ran
        each  == InOrder(ended, [b \in ended |-> b])
    IN  Append([i \in DOMAIN each |-> Entry(fork, from, each[i], FALSE, run.stores[each[i]])],
               Entry(fork, from, to, complete,
                     IF ran = {} THEN prev.applied ELSE run.stores[last]))

\* sync_once: what is stored, the previous snapshot merged into its history.
Pass(prev, news) ==
    [prev EXCEPT !.ckpt = Last(news).ckpt, !.applied = Last(news).applied,
                 !.history = MergeHistory(prev.history, <<HistoryEntry(prev)>> \o news,
                                          HistoryLimit)]

\* A pass commits for the block a client pinned.
Recommitted(c, news) ==
    LET at(e)  == IF c.pin.by = "hash" THEN e.ckpt.hash ELSE e.ckpt.to
        same   == SelectSeq(news, LAMBDA e : at(e) = c.pin.at)
    IN  IF c.pin = NoPin \/ same = <<>> THEN c
        ELSE [c EXCEPT !.versions = Append(@, Last(same).applied)]

\* A pass from `prev' on a chain with these forks.  The one behind an unfinished
\* pass starts where that did and ends there too, or later if the head has
\* grown; any block of it may have logs left.  --limit, an invalid entity or a
\* feed that is behind may cut it (again).  (A client that has ended only
\* turns idle, so that a pass behind that stands for one before it.)
CommitFrom(prev, fork, c) ==
    LET from == SyncStartBlock(0, TRUE, prev.ckpt)
    IN  /\ passes < MaxPasses
        /\ client.stage \in {"idle", "reading"}
        /\ \E to \in MaxOf(from, prev.ckpt.to) .. from + MaxBlocksPerPass - 1, complete \in BOOLEAN :
              /\ to <= MaxBlock
              /\ \E news \in {PassEntries(prev, fork, to, run, complete) :
                               run \in {r \in Executions(from, to) : r.within => ~complete}} :
                    /\ snap' = Pass(prev, news)
                    /\ client' = Recommitted(c, news)
        /\ forks' = fork
        /\ passes' = passes + 1

IndexBlocks == CommitFrom(snap, forks, client)

\* apply_reorg_policy with `rollback', and the pass behind it: the chain has
\* replaced every block above the newest retained entry the RPC still knows.
RollBack ==
    \E i \in DOMAIN snap.history :
        LET entry == snap.history[i]
        IN  /\ entry.ckpt.to < snap.ckpt.to
            /\ CommitFrom(RollbackToHistoricalSnapshot(snap, entry),
                          [b \in Blocks |-> forks[b] + IF b > entry.ckpt.to THEN 1 ELSE 0],
                          [client EXCEPT !.reorged = TRUE])

(***************************************************************************)
(* The client.                                                              *)
(***************************************************************************)
Field(name, args, selection) ==
    [item |-> "field", response |-> name, name |-> name, args |-> args,
     selection |-> selection, directives |-> {}]

\* One root field, written in the operation or in a fragment it spreads.
Request(shape, field) ==
    [operation |-> "", variables |-> <<>>,
     document |-> [operations |-> <<[name |-> "", selection |->
                      IF shape = "plain" THEN <<field>>
                      ELSE <<[item |-> "spread", name |-> "F", directives |-> {}]>>]>>,
                   fragments |-> [f \in {"F"} |-> <<field>>]]]

WithArgs(field, args) ==
    [field EXCEPT !.args = [a \in DOMAIN @ \cup DOMAIN args |->
                              IF a \in DOMAIN args THEN args[a] ELSE @[a]]]

BlockArg(pin) == IF pin.by = "none" THEN <<>>
                 ELSE [a \in {"block"} |-> [k \in {pin.by} |-> pin.at]]

PageRequest(shape, pin, skip, first) ==
    Request(shape, WithArgs(WithArgs(Listing, BlockArg(pin)),
                            [a \in {"skip", "first"} |-> IF a = "skip" THEN skip ELSE first]))

\* load_snapshot_for_graphql: load_current leaves the history unread.
LoadSnapshotForGraphql(request) ==
    IF QueryNeedsHistory(request) THEN snap ELSE [snap EXCEPT !.history = <<>>]

\* handle_graphql_post.
Answer(request) == ExecuteQuery(LoadSnapshotForGraphql(request), request)

PinTo(by, meta) == [by |-> by, at |-> IF by = "hash" THEN meta.hash ELSE meta.number]

\* Nothing in _meta says whether the block is complete; the client cannot know.
AskMeta ==
    /\ client.stage = "idle"
    /\ \E by \in {"number", "hash"} :
         client' = [Idle EXCEPT
                      !.stage = "reading",
                      !.pin = PinTo(by, Answer(Request("plain", Field(<<"meta">>, <<>>, <<>>)))
                                          .data[<<"meta">>]),
                      !.complete = snap.ckpt.complete, !.versions = <<snap.applied>>]
    /\ UNCHANGED <<snap, forks, passes>>

\* A short page is the last one.
AfterPage(answer) ==
    LET page == answer.data[Listing.response].v
    IN  IF ~answer.ok THEN [client EXCEPT !.stage = "refused"]
        ELSE [client EXCEPT !.rows = @ \o page,
                            !.due = Append(@, Len(client.versions)),
                            !.stage = IF Len(page) < PageSize THEN "read" ELSE @]

AskPage ==
    /\ client.stage = "reading"
    /\ client' = AfterPage(Answer(PageRequest("spread", client.pin, Len(client.rows), PageSize)))
    /\ UNCHANGED <<snap, forks, passes>>

Done ==
    /\ client.stage \in {"read", "refused"}
    /\ client' = Idle
    /\ UNCHANGED <<snap, forks, passes>>

Next == IndexBlocks \/ RollBack \/ AskMeta \/ AskPage \/ Done

Spec == Init /\ [][Next]_vars

(***************************************************************************)
(* Properties.  The last three are about the stored snapshot alone: the     *)
(* first of them is looked at where no client is in the middle of a list,   *)
(* the other two, about the entities alone, behind the first pass, which    *)
(* leaves any of the stores.                                                *)
(***************************************************************************)
\* The whole list in each store: no pages, no pin.
WholeList ==
    [list \in EntityLists |->
        LET s        == [applied |-> list]
            type     == Listing.name[1]
            shown(o) == [i \in DOMAIN o |-> ProjectEntity(s, type, o[i], Listing.selection)]
        IN  shown(SortEntities(s, type, Matching(s, type, OfType(s, type), Listing),
                               Arg(Listing, "orderBy", ById), Arg(Listing, "desc", FALSE)))]

\* The k-th page a client got, and the k-th page of the list it is due from.
PageGot(k) == Page(client.rows, (k - 1) * PageSize, PageSize)
PageDue(k) == Page(WholeList[client.versions[client.due[k]]], (k - 1) * PageSize, PageSize)

\* select_snapshot_for_field by hash, with query_needs_history and paging:
\* whatever passes, trimming and reorgs come between the pages, a page pinned
\* to a hash is that page of what was last committed under the hash, the
\* checkpoint of a pass cut short and what resumed it included; a hash that
\* was complete when the client was told of it is never committed again
\* (sync_start_block), so that all its pages are of one snapshot.
PinnedByHash ==
    client.pin.by = "hash" =>
        /\ \A k \in DOMAIN client.due : PageGot(k) = PageDue(k)
        /\ client.complete => Len(client.versions) = 1

\* select_snapshot_for_field by number: as long as no reorg comes between, the
\* same holds of pages pinned to a number, except that a client whose block
\* has left the retained history is told that the list ends.
PinnedByNumber ==
    client.pin.by = "number" /\ ~client.reorged =>
        LET forgotten == \A i \in DOMAIN snap.history : snap.history[i].ckpt.to > client.pin.at
        IN  /\ \A k \in DOMAIN client.due :
                  \/ PageGot(k) = PageDue(k)
                  \/ forgotten /\ k = Len(client.due) /\ PageGot(k) = <<>>
            /\ client.complete => Len(client.versions) = 1

\* query_needs_history decides from the text of the query alone: whenever it
\* says no, the answer is the same with the history as without it, and
\* whenever a client pins a block, known or not, the history is loaded.
CurrentLoadSuffices ==
    client = Idle =>
    \A shape \in Shapes, by \in {"none", "number", "hash"}, at \in 0 .. MaxBlock + 1 :
        LET pin     == IF by = "none" THEN NoPin ELSE [by |-> by, at |-> at]
            request == PageRequest(shape, pin, 0, PageSize)
        IN  Answer(request) = ExecuteQuery(snap, request)

\* filter_input_type and entity_matches_where: the entities a key offered by
\* introspection lets through are the ones its field and operator describe,
\* for every value, in every store; a relation key asks for a related entity,
\* and / or for all / any of their filters.
OfferedFiltersMeanWhatTheySay ==
    passes = 1 /\ client = Idle =>
    \A type \in DOMAIN Schema : \A x \in Texts :
        LET kept(test(_)) == SelectSeq(OfType(snap, type), test)
            with(key, value) == <<[key |-> key, value |-> value]>>
            passing(where) == kept(LAMBDA e : EntityMatchesWhere(snap, type, e, where))
            isX == with(<<"id">>, Text(x))
        IN  /\ \A k \in ComparisonKeys(type) :
                  LET value == IF Last(k.key) = "in" THEN Array(<<Text(x)>>) ELSE Text(x)
                  IN  passing(with(k.key, value))
                        = kept(LAMBDA e : FilterMatches(FieldValue(e, k.field), k.op, value))
            /\ \A k \in RelationKeys(type) :
                  LET related(e) == RelatedEntities(snap, e, k.field, Schema[type][k.field])
                  IN  passing(with(k.key, Object(isX)))
                        = kept(LAMBDA e : \E i \in DOMAIN related(e) :
                                 ValuesEqual(Text(related(e)[i].id), Text(x)))
            /\ \A key \in Connectives : \A y \in Texts :
                  LET is(e, z) == ValuesEqual(Text(e.id), Text(z))
                      among == List(<<isX, with(<<"id", "not">>, Text(y))>>)
                  IN  passing(with(key, among))
                        = kept(LAMBDA e : IF key = <<"and">> THEN is(e, x) /\ ~is(e, y)
                                          ELSE is(e, x) \/ ~is(e, y))

\* related_entities in both directions.  What an entity refers to lists it as
\* derived, and whatever lists it as derived is what it refers to, or an
\* entity whose id differs from that one's in case only: the reference finds
\* the first of these (find_entity), while each of them lists the referrer.
RelationsAgree ==
    passes = 1 /\ client = Idle =>
    \A type \in DOMAIN Schema : \A name \in DOMAIN Schema[type] :
        LET f == Schema[type][name]
            listing(child) == SelectSeq(OfType(snap, type),
                                LAMBDA e : Contains(RelatedEntities(snap, e, name, f), child))
        IN  f.derived =>
              \A child \in Range(OfType(snap, f.kind)) :
                  LET found == RelatedEntities(snap, child, f.from, Schema[f.kind][f.from])
                      lists == listing(child)
                  IN  /\ Range(found) \subseteq Range(lists)
                      /\ \A i \in DOMAIN lists : \E j \in DOMAIN found :
                            IdsMatch(lists[i].id, found[j].id)
=============================================================================
