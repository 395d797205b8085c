--------------------------- MODULE HandlerRuntime ---------------------------
(***************************************************************************)
(* The WASM runtime as the execution loop of a pass uses it: every log runs *)
(* in a fresh instance over a candidate copy of the entity store and of the *)
(* eth_call cache; its writes are validated against the schema afterwards;  *)
(* then the candidates are committed and the data sources it created are    *)
(* followed, or the pass ends and they are dropped.  A trap loses the pass. *)
(*                                                                          *)
(* A handler is whatever sequence of host calls it makes.  An entity is a   *)
(* function from field names to values [kind, v, items]; `v' is a number or *)
(* an id, `items' the kinds in an array.  One contract function is called.  *)
(***************************************************************************)
EXTENDS Integers, Sequences

CONSTANTS
    Ids,           \* entity ids
    LowerCase,     \* id -> the id in lower case (hex ids differ only in case)
    EntityType,    \* the schema: field -> [kind, required, list, derived]
    Payloads,      \* entity data a handler may store as it is
    Main,          \* the address of the static source
    Pools,         \* addresses of template sources
    Contexts,      \* data source contexts
    Answers,       \* results of the contract function
    Undecodable,   \* those that do not decode as its output types
    MaxCalls,      \* bound: host calls of a handler
    MaxLogs,       \* bound: handlers started
    MaxBuilds      \* bound: uploads of the build directory

ASSUME RuntimeConstants ==
    /\ Ids \subseteq DOMAIN LowerCase
    /\ \A f \in DOMAIN EntityType :
          {EntityType[f].required, EntityType[f].list, EntityType[f].derived} \subseteq BOOLEAN
    /\ Undecodable \subseteq Answers /\ "none" \notin Answers
    /\ {MaxCalls, MaxLogs, MaxBuilds} \subseteq Nat

VARIABLES
    stored,   \* what the last pass persisted
    pass,     \* the locals of the pass: committed store, cache, modules, sources
    host,     \* RuntimeHostState of the handler that runs
    build,    \* the build on disk
    logs      \* handlers started

vars == <<stored, pass, host, build, logs>>

NoEntity == <<>>
NoAnswer == "none"
EmptyStore == [i \in Ids |-> NoEntity]

\* A map after an insertion.
Put(map, key, value) == [k \in DOMAIN map \cup {key} |-> IF k = key THEN value ELSE map[k]]

\* The part of a pass that is persisted; `ref' and `first' are auxiliary: what
\* the accepted host calls add up to, and the first context of each source.
Empty == [store |-> EmptyStore, dyn |-> <<>>, ref |-> EmptyStore, first |-> <<>>]

\* run_replay's locals: the caches start empty with every pass.
PassFrom(s) == [store |-> s.store, dyn |-> s.dyn, ref |-> s.ref,
                first |-> s.first, cache |-> <<>>, modules |-> <<>>, block |-> 0,
                ran |-> {}, answers |-> {}, given |-> {}]

Down == [up |-> FALSE, src |-> Main, block |-> 0, build |-> 0, context |-> NoAnswer,
         store |-> EmptyStore, cache |-> <<>>, ops |-> <<>>, answers |-> {}]

Init ==
    /\ stored = Empty
    /\ pass = PassFrom(Empty)
    /\ host = Down
    /\ build = 1
    /\ logs = 0

(***************************************************************************)
(* Schema validation of what a handler stored.                              *)
(***************************************************************************)
\* scalar_matches: the kinds of values a field of a type accepts.
Accepts(kind) ==
    CASE kind = "ID"        -> {"String", "Bytes"}
      [] kind = "Bytes"     -> {"Bytes"}
      [] kind = "String"    -> {"String"}
      [] kind = "Boolean"   -> {"Boolean"}
      [] kind = "Int"       -> {"Int"}
      [] kind = "Int8"      -> {"Int8", "Int"}
      [] kind = "Timestamp" -> {"Timestamp", "BigInt"}
      [] kind = "BigInt"    -> {"BigInt"}
      [] kind = "BigDecimal" -> {"BigDecimal"}
      [] OTHER              -> {"String", "Bytes"}

\* validate_field_value.
FieldValueOK(field, value) ==
    IF field.list
    THEN value.kind = "Array" /\ value.items \subseteq Accepts(field.kind)
    ELSE value.kind \in Accepts(field.kind)

\* Fault: a required field is only looked at when it is there.
FieldOKIfPresent(name, data) ==
    LET field == EntityType[name]
    IN  \/ field.derived
        \/ name \notin DOMAIN data
        \/ name \in DOMAIN data /\ data[name].kind = "Null" /\ ~field.required
        \/ name \in DOMAIN data /\ data[name].kind # "Null" /\ FieldValueOK(field, data[name])

\* One field of the schema in validate_store_set.
FieldOK(name, data) ==
    LET field == EntityType[name]
    IN  \/ field.derived
        \/ name \notin DOMAIN data /\ ~field.required
        \/ name \in DOMAIN data /\ data[name].kind = "Null" /\ ~field.required
        \/ name \in DOMAIN data /\ data[name].kind # "Null" /\ FieldValueOK(field, data[name])

\* store_value_id: the kinds of values that can be an id.
IdKinds == {"String", "Bytes", "BigInt", "Int", "Int8", "Timestamp"}

\* validate_store_set without errors: only declared fields that are not
\* derived, every field as its type says, and the id of the call.
StoreSetValid(id, data) ==
    /\ \A name \in DOMAIN data : name \in DOMAIN EntityType /\ ~EntityType[name].derived
    /\ \A name \in DOMAIN EntityType : FieldOK(name, data)
    /\ "id" \in DOMAIN data /\ data["id"].kind \in IdKinds =>
          LowerCase[data["id"].v] = LowerCase[id]

\* validate_store_sets: every store.set of the handler, also the overwritten.
ExecutionValid(ops) ==
    \A i \in DOMAIN ops : ops[i].op = "set" => StoreSetValid(ops[i].id, ops[i].data)

(***************************************************************************)
(* One log.                                                                 *)
(***************************************************************************)
\* Fault: the module is read from disk every time.
ModuleForPathUncached(src) == build

\* RuntimeModuleCache: a source's module is compiled once in a pass.
ModuleForPath(src) == IF src \in DOMAIN pass.modules THEN pass.modules[src] ELSE build

\* dynamic_source_contexts: what a template source was created with.
ContextIn(dyn, src) ==
    LET known == {i \in DOMAIN dyn : dyn[i].addr = src}
    IN  IF known = {} THEN NoAnswer ELSE dyn[CHOOSE i \in known : TRUE].ctx

ContextOf(src) == ContextIn(pass.dyn, src)

Followed == {Main} \cup {pass.dyn[i].addr : i \in DOMAIN pass.dyn}

\* The next log in block order: a fresh instance over candidate copies.
StartHandler ==
    /\ ~host.up
    /\ logs < MaxLogs
    /\ \E src \in Followed, b \in {pass.block, pass.block + 1} :
          /\ host' = [Down EXCEPT !.up = TRUE, !.src = src, !.block = b,
                                  !.build = ModuleForPath(src),
                                  !.context = ContextOf(src),
                                  !.store = pass.store, !.cache = pass.cache]
          /\ pass' = [pass EXCEPT !.block = b,
                                  !.modules = Put(@, src, ModuleForPath(src))]
    /\ logs' = logs + 1
    /\ UNCHANGED <<stored, build>>

Calling == host.up /\ Len(host.ops) < MaxCalls

Called(op) == [host EXCEPT !.ops = Append(@, op)]

\* store.set: the whole entity is replaced in the candidate store.
StoreSet ==
    /\ Calling
    /\ \E i \in Ids, data \in Payloads :
          host' = [Called([op |-> "set", id |-> i, data |-> data])
                     EXCEPT !.store[i] = data]
    /\ UNCHANGED <<stored, pass, build, logs>>

\* Fault: store.get looks at the committed store.
StoreGetCommitted(id) == pass.store[id]

\* store.get: the candidate store, the handler's own writes included.
StoreGet(id) == host.store[id]

\* The entity a handler stores that counts: load it or make it, add one.
Counted(id, old) ==
    [id    |-> [kind |-> "String", v |-> id, items |-> {}],
     total |-> [kind |-> "BigInt", items |-> {},
                v |-> IF "total" \in DOMAIN old THEN old["total"].v + 1 ELSE 1]]

StoreGetAndSet ==
    /\ Calling
    /\ \E i \in Ids :
          LET data == Counted(i, StoreGet(i))
          IN  host' = [Called([op |-> "set", id |-> i, data |-> data, counts |-> TRUE])
                         EXCEPT !.store[i] = data]
    /\ UNCHANGED <<stored, pass, build, logs>>

StoreRemove ==
    /\ Calling
    /\ \E i \in Ids :
          host' = [Called([op |-> "remove", id |-> i]) EXCEPT !.store[i] = NoEntity]
    /\ UNCHANGED <<stored, pass, build, logs>>

\* dataSource.create and createWithContext only remember the request.
DataSourceCreate ==
    /\ Calling
    /\ \E a \in Pools, c \in Contexts :
          host' = Called([op |-> "create", addr |-> a, ctx |-> c])
    /\ UNCHANGED <<stored, pass, build, logs>>

\* Fault: the block is missing from the key.
CacheKeyWithoutBlock(b) == 0

\* execute_ethereum_call's cache key (the contract and calldata are fixed).
CacheKey(b) == b

\* ethereum.call at the block of the log: from the cache, or from the first
\* endpoint that answers, and then cached.  A result that does not decode is
\* cached as well; a request that fails everywhere is not, and both look
\* reverted to the mapping.
EthereumCall ==
    /\ Calling
    /\ LET b    == host.block
           key  == CacheKey(b)
           seen == key \in DOMAIN host.cache
       IN \E answer \in IF seen THEN {host.cache[key]} ELSE Answers \cup {NoAnswer} :
             /\ host' = [Called([op |-> "call"]) EXCEPT
                           !.cache = IF answer = NoAnswer THEN @ ELSE Put(@, key, answer),
                           !.answers = IF answer \in Undecodable \cup {NoAnswer} THEN @
                                       ELSE @ \cup {<<b, answer>>}]
             /\ pass' = IF seen \/ answer = NoAnswer THEN pass
                        ELSE [pass EXCEPT !.given = @ \cup {<<b, answer>>}]
    /\ UNCHANGED <<stored, build, logs>>

(***************************************************************************)
(* The end of a log.                                                        *)
(***************************************************************************)
\* Fault: creating a known source again replaces its context.
FollowLatest(dyn, op) ==
    IF op.op # "create" THEN dyn
    ELSE Append(SelectSeq(dyn, LAMBDA d : d.addr # op.addr), [addr |-> op.addr, ctx |-> op.ctx])

\* run_replay's loop over data_source_creates: a key that is known is skipped.
Follow(dyn, op) ==
    IF op.op # "create" \/ \E i \in DOMAIN dyn : dyn[i].addr = op.addr THEN dyn
    ELSE Append(dyn, [addr |-> op.addr, ctx |-> op.ctx])

\* Auxiliary: an accepted host call on the reference store.  A counting write
\* adds one to what is there, whatever the handler read and stored.
Apply(store, op) ==
    IF op.op = "remove" THEN [store EXCEPT ![op.id] = NoEntity]
    ELSE IF op.op # "set" THEN store
    ELSE IF "counts" \in DOMAIN op THEN [store EXCEPT ![op.id] = Counted(op.id, @)]
    ELSE [store EXCEPT ![op.id] = op.data]

FirstContext(first, op) ==
    IF op.op # "create" \/ op.addr \in DOMAIN first THEN first ELSE Put(first, op.addr, op.ctx)

\* What a pass has after the accepted host calls of a handler, one by one.
Ledger(p) == [dyn |-> p.dyn, ref |-> p.ref, first |-> p.first]

Account(e, op) == [dyn   |-> Follow(e.dyn, op),
                   ref   |-> Apply(e.ref, op),
                   first |-> FirstContext(e.first, op)]

Accounted(e, ops) ==
    LET after[n \in 0 .. Len(ops)] == IF n = 0 THEN e ELSE Account(after[n - 1], ops[n])
    IN  after[Len(ops)]

\* The handler returned and its writes validate: candidates become the pass's.
CommitHandler ==
    /\ host.up
    /\ ExecutionValid(host.ops)
    /\ LET e == Accounted(Ledger(pass), host.ops)
       IN  pass' = [pass EXCEPT
                      !.store = host.store, !.cache = host.cache,
                      !.dyn = e.dyn, !.ref = e.ref, !.first = e.first,
                      !.ran = @ \cup {<<host.src, host.build>>},
                      !.answers = @ \cup host.answers]
    /\ host' = Down
    /\ UNCHANGED <<stored, build, logs>>

Persisted(p) == [store |-> p.store, dyn |-> p.dyn, ref |-> p.ref, first |-> p.first]

\* A write does not validate: the candidates are dropped and the pass ends
\* with what was committed before.
RejectHandler ==
    /\ host.up
    /\ ~ExecutionValid(host.ops)
    /\ stored' = Persisted(pass)
    /\ pass' = PassFrom(stored')
    /\ host' = Down
    /\ UNCHANGED <<build, logs>>

\* abort, a trap or a host function that fails: run_replay returns the error
\* and nothing of the pass is written.
Trap ==
    /\ host.up
    /\ pass' = PassFrom(stored)
    /\ host' = Down
    /\ UNCHANGED <<stored, build, logs>>

\* No more logs: the pass is written.
EndPass ==
    /\ ~host.up
    /\ pass.ran # {}
    /\ stored' = Persisted(pass)
    /\ pass' = PassFrom(stored')
    /\ UNCHANGED <<host, build, logs>>

\* Another upload of the same version replaces the build directory.
ReplaceBuild ==
    /\ build < MaxBuilds
    /\ build' = build + 1
    /\ UNCHANGED <<stored, pass, host, logs>>

Next ==
    \/ StartHandler \/ StoreSet \/ StoreGetAndSet \/ StoreRemove
    \/ DataSourceCreate \/ EthereumCall
    \/ CommitHandler \/ RejectHandler \/ Trap \/ EndPass \/ ReplaceBuild

Spec == Init /\ [][Next]_vars

(***************************************************************************)
(* Properties.                                                              *)
(***************************************************************************)
\* The entity store is what the accepted handlers wrote, in log order, each
\* on top of its predecessors and of its own earlier writes: a handler that
\* trapped or failed validation leaves no trace, in the pass and in what a
\* cut pass persists.
StoreIsAcceptedWrites ==
    /\ pass.store = pass.ref
    /\ stored.store = stored.ref

\* The schema gives every entity an id (the parser does not insist on it).
IdDeclared ==
    /\ "id" \in DOMAIN EntityType
    /\ EntityType["id"].required /\ ~EntityType["id"].list /\ ~EntityType["id"].derived
    /\ Accepts(EntityType["id"].kind) \subseteq IdKinds

\* An entity as the schema declares it.
WellTyped(id, data) ==
    /\ DOMAIN data \subseteq {f \in DOMAIN EntityType : ~EntityType[f].derived}
    /\ \A f \in {g \in DOMAIN EntityType : EntityType[g].required /\ ~EntityType[g].derived} :
          f \in DOMAIN data /\ data[f].kind # "Null"
    /\ \A f \in DOMAIN data \cap DOMAIN EntityType :
          \/ data[f].kind = "Null"
          \/ EntityType[f].list /\ data[f].kind = "Array"
             /\ data[f].items \subseteq Accepts(EntityType[f].kind)
          \/ ~EntityType[f].list /\ data[f].kind \in Accepts(EntityType[f].kind)
    /\ IdDeclared => LowerCase[data["id"].v] = LowerCase[id]

\* Whatever handlers store, overwrite, remove and retry, every entity that is
\* committed or persisted is one the schema allows.
StoreWellTyped ==
    \A i \in Ids : \A s \in {pass.store, stored.store} :
        s[i] # NoEntity => WellTyped(i, s[i])

\* Handlers of one block agree on the contract: every call that succeeds in a
\* pass returns the one answer the RPC gave for the block of its log.
CallsAgreeInBlock ==
    /\ pass.answers \cup host.answers \subseteq pass.given
    /\ \A x, y \in pass.answers \cup host.answers : x[1] = y[1] => x[2] = y[2]

\* A template source keeps the context it was first created with, for every
\* handler that runs on its logs, also after a restart.
ContextIsFirst ==
    \A a \in DOMAIN pass.first :
        /\ ContextOf(a) = pass.first[a]
        /\ host.up /\ host.src = a => host.context = pass.first[a]

\* A source whose build is replaced while a pass runs is still handled by one
\* build for the whole pass.
OneBuildPerPass ==
    \A x, y \in pass.ran \cup (IF host.up THEN {<<host.src, host.build>>} ELSE {}) :
        x[1] = y[1] => x[2] = y[2]
=============================================================================
