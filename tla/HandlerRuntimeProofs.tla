------------------------ MODULE HandlerRuntimeProofs ------------------------
(***************************************************************************)
(* Safety of HandlerRuntime for any schema, payloads, sources, contexts,    *)
(* answers and handlers of any length: what is committed and persisted is   *)
(* what accepted handlers wrote, it has the schema's types, contract calls  *)
(* of a block agree, and a source keeps its context and its build.          *)
(***************************************************************************)
EXTENDS HandlerRuntime, TLAPS, WellFoundedInduction

\* Every nonempty set of naturals has a least element: what takes the place of
\* induction here, a counterexample having a least one.
LEMMA LeastElement ==
  ASSUME NEW S \in SUBSET Nat, S # {}
  PROVE  \E n \in S : \A m \in S : n <= m
  <1>1. IsWellFoundedOn(OpToRel(<, Nat), Nat)
    BY NatLessThanWellFounded
  <1>2. PICK n \in S : \A m \in S : ~(<<m, n>> \in OpToRel(<, Nat))
    BY <1>1, WFMin
  <1>3. \A m \in S : ~(m < n)
    BY <1>2 DEF OpToRel
  <1> QED
    BY <1>3

(***************************************************************************)
(* The accepted host calls of a handler, one by one.                        *)
(***************************************************************************)
\* The function that Accounted defines by recursion, on 0 .. n.
Run(g, e, ops, n) ==
    g = [k \in 0 .. n |-> IF k = 0 THEN e ELSE Account(g[k - 1], ops[k])]

\* The recursion defines a function: else there were a least length at which
\* it does not.
LEMMA RunExists ==
  ASSUME NEW e, NEW ops, NEW n \in Nat
  PROVE  \E g : Run(g, e, ops, n)
  <1> DEFINE Missing == {m \in Nat : ~\E g : Run(g, e, ops, m)}
  <1> SUFFICES ASSUME Missing # {} PROVE FALSE
    OBVIOUS
  <1>1. PICK m \in Missing : \A k \in Missing : m <= k
    BY LeastElement
  <1>2. CASE m = 0
    <2> DEFINE g == [k \in 0 .. 0 |-> e]
    <2>1. Run(g, e, ops, 0)
      BY DEF Run
    <2> QED
      BY <1>2, <2>1
  <1>3. CASE m > 0
    <2>1. m - 1 \in Nat /\ m - 1 \notin Missing
      BY <1>1, <1>3
    <2>2. PICK g : Run(g, e, ops, m - 1)
      BY <2>1
    <2> DEFINE h == [k \in 0 .. m |-> IF k = m THEN Account(g[m - 1], ops[m]) ELSE g[k]]
    <2>3. \A k \in 0 .. (m - 1) : h[k] = g[k]
      BY <2>1
    <2>4. \A k \in 0 .. m : h[k] = IF k = 0 THEN e ELSE Account(h[k - 1], ops[k])
      <3> SUFFICES ASSUME NEW k \in 0 .. m
                   PROVE  h[k] = IF k = 0 THEN e ELSE Account(h[k - 1], ops[k])
        OBVIOUS
      <3>1. CASE k = m
        BY <1>3, <2>3, <3>1
      <3>2. CASE k # m
        <4>1. k \in 0 .. (m - 1) /\ (k # 0 => k - 1 \in 0 .. (m - 1))
          BY <3>2
        <4>2. g[k] = IF k = 0 THEN e ELSE Account(g[k - 1], ops[k])
          BY <2>2, <4>1 DEF Run
        <4> QED
          BY <2>3, <4>1, <4>2
      <3> QED
        BY <3>1, <3>2
    <2>5. Run(h, e, ops, m)
      BY <2>4 DEF Run
    <2> QED
      BY <2>5
  <1> QED
    BY <1>1, <1>2, <1>3

\* It defines only one.
LEMMA RunUnique ==
  ASSUME NEW e, NEW ops, NEW ops2, NEW n \in Nat, NEW m \in Nat, NEW g, NEW h,
         Run(g, e, ops, n), Run(h, e, ops2, m), n <= m, \A k \in 1 .. n : ops[k] = ops2[k]
  PROVE  \A k \in 0 .. n : g[k] = h[k]
  <1> DEFINE Differ == {k \in 0 .. n : g[k] # h[k]}
  <1> SUFFICES ASSUME Differ # {} PROVE FALSE
    OBVIOUS
  <1>1. Differ \in SUBSET Nat
    OBVIOUS
  <1>2. PICK k \in Differ : \A j \in Differ : k <= j
    BY <1>1, LeastElement
  <1>3. /\ g[k] = IF k = 0 THEN e ELSE Account(g[k - 1], ops[k])
        /\ h[k] = IF k = 0 THEN e ELSE Account(h[k - 1], ops2[k])
    BY <1>2 DEF Run
  <1>4. CASE k = 0
    BY <1>2, <1>3, <1>4
  <1>5. CASE k # 0
    <2>1. k - 1 \in 0 .. n /\ k - 1 \notin Differ /\ k \in 1 .. n
      BY <1>2, <1>5
    <2> QED
      BY <1>2, <1>3, <1>5, <2>1
  <1> QED
    BY <1>4, <1>5

\* What Accounted says is the last value of that function.
LEMMA AccountedIsRun ==
  ASSUME NEW e, NEW ops, Len(ops) \in Nat
  PROVE  \E g : Run(g, e, ops, Len(ops)) /\ Accounted(e, ops) = g[Len(ops)]
  <1> DEFINE after == CHOOSE g : Run(g, e, ops, Len(ops))
  <1>1. Run(after, e, ops, Len(ops))
    BY RunExists
  <1>2. Accounted(e, ops) = after[Len(ops)]
    BY DEF Accounted, Run
  <1> QED
    BY <1>1, <1>2

\* No call changes nothing.
LEMMA AccountedNone ==
  ASSUME NEW e
  PROVE  Accounted(e, <<>>) = e
  <1>1. PICK g : Run(g, e, <<>>, 0) /\ Accounted(e, <<>>) = g[0]
    BY AccountedIsRun
  <1> QED
    BY <1>1 DEF Run

\* One more call comes on top of those before it.
LEMMA AccountedMore ==
  ASSUME NEW e, NEW S, NEW ops \in Seq(S), NEW op
  PROVE  Accounted(e, Append(ops, op)) = Account(Accounted(e, ops), op)
  <1> DEFINE more == Append(ops, op)
             n == Len(ops)
  <1>1. /\ n \in Nat /\ Len(more) = n + 1 /\ more[n + 1] = op
        /\ \A k \in 1 .. n : ops[k] = more[k]
    <2>1. ops \in Seq(S \cup {op}) /\ op \in S \cup {op}
      OBVIOUS
    <2> QED
      BY <2>1
  <1> HIDE DEF more, n
  <1>2. PICK g : Run(g, e, ops, n) /\ Accounted(e, ops) = g[n]
    BY <1>1, AccountedIsRun DEF n
  <1>3. PICK h : Run(h, e, more, n + 1) /\ Accounted(e, more) = h[n + 1]
    BY <1>1, AccountedIsRun
  <1>4. g[n] = h[n]
    <2>1. n \in Nat /\ n + 1 \in Nat /\ n <= n + 1 /\ n \in 0 .. n
      BY <1>1
    <2>2. \A k \in 1 .. n : ops[k] = more[k]
      BY <1>1
    <2>3. Run(g, e, ops, n) /\ Run(h, e, more, n + 1)
      BY <1>2, <1>3
    <2>4. \A k \in 0 .. n : g[k] = h[k]
      <3> DEFINE m == n + 1
      <3>1. m \in Nat /\ n <= m /\ Run(h, e, more, m)
        BY <2>1, <2>3
      <3> HIDE DEF m
      <3> QED
        BY <2>1, <2>2, <2>3, <3>1, RunUnique
    <2> QED
      BY <2>1, <2>4
  <1>5. h[n + 1] = Account(h[n], op)
    BY <1>1, <1>3 DEF Run
  <1>6. Accounted(e, more) = Account(Accounted(e, ops), op)
    BY <1>2, <1>3, <1>4, <1>5
  <1> QED
    BY <1>6, Zenon DEF more

(***************************************************************************)
(* The invariant.                                                           *)
(***************************************************************************)
PassFields == {"store", "dyn", "ref", "first", "cache", "modules", "block", "ran", "answers",
               "given"}
HostFields == {"up", "src", "block", "build", "context", "store", "cache", "ops", "answers"}
IsSeq(s) == s \in Seq({s[k] : k \in DOMAIN s})
Pairs(f) == {<<k, f[k]>> : k \in DOMAIN f}

\* The sources that were created, and the context each was first created with.
SourcesOK(e) ==
    /\ e.dyn \in Seq([addr : Pools, ctx : Contexts])
    /\ DOMAIN e.first = {e.dyn[i].addr : i \in DOMAIN e.dyn}
    /\ \A i \in DOMAIN e.dyn : e.dyn[i].ctx = e.first[e.dyn[i].addr]

\* A store of entities the schema allows, equal to the reference.
StoreOK(e) ==
    /\ e.store = e.ref
    /\ e.store = [i \in Ids |-> e.store[i]]
    /\ \A i \in Ids : e.store[i] # NoEntity => WellTyped(i, e.store[i])

\* The candidate store is what the calls so far add up to, and each of its
\* entities was committed or stored by one of them.
CandidateOK ==
    /\ IsSeq(host.ops)
    /\ host.store = Accounted(Ledger(pass), host.ops).ref
    /\ SourcesOK(Accounted(Ledger(pass), host.ops))
    /\ host.store = [i \in Ids |-> host.store[i]]
    /\ \A i \in Ids :
         \/ host.store[i] = NoEntity
         \/ host.store[i] = pass.store[i]
         \/ \E k \in DOMAIN host.ops :
               host.ops[k].op = "set" /\ host.ops[k].id = i /\ host.ops[k].data = host.store[i]

\* The cache holds what the RPC gave, once for each block, and so do the calls.
CacheOK ==
    /\ pass.given = Pairs(IF host.up THEN host.cache ELSE pass.cache)
    /\ pass.answers \subseteq pass.given
    /\ host.answers \subseteq pass.given

\* Every handler of the pass ran the module that is cached for its source.
ModulesOK ==
    /\ \A x \in pass.ran : x[1] \in DOMAIN pass.modules /\ x[2] = pass.modules[x[1]]
    /\ host.up => host.src \in DOMAIN pass.modules /\ host.build = pass.modules[host.src]

HostInv ==
    /\ DOMAIN pass = PassFields /\ DOMAIN host = HostFields
    /\ host.up \in BOOLEAN
    /\ StoreOK(pass) /\ SourcesOK(pass)
    /\ StoreOK(stored) /\ SourcesOK(stored)
    /\ host.up => CandidateOK /\ host.context = ContextOf(host.src)
    /\ ~host.up => host = Down
    /\ CacheOK
    /\ ModulesOK

\* Sources are fine if their list and their first contexts are.
LEMMA SameSources ==
  ASSUME NEW e, NEW a, a.dyn = e.dyn, a.first = e.first
  PROVE  SourcesOK(e) => SourcesOK(a)
  BY DEF SourcesOK

\* A store is fine if its entities and its reference are.
LEMMA SameStore ==
  ASSUME NEW e, NEW a, a.store = e.store, a.ref = e.ref
  PROVE  StoreOK(e) => StoreOK(a)
  BY DEF StoreOK

(***************************************************************************)
(* Operators.                                                               *)
(***************************************************************************)
\* A sequence that grows by one.
LEMMA AppendValue ==
  ASSUME NEW S, NEW s \in Seq(S), NEW x \in S
  PROVE  /\ Append(s, x) \in Seq(S) /\ Len(s) \in Nat
         /\ DOMAIN s = 1 .. Len(s) /\ DOMAIN Append(s, x) = 1 .. (Len(s) + 1)
         /\ Append(s, x)[Len(s) + 1] = x
         /\ \A i \in 1 .. Len(s) : Append(s, x)[i] = s[i]
  OBVIOUS

\* The key is new: what was there stays, and one pair is added.
LEMMA PutPairs ==
  ASSUME NEW map, NEW key, NEW value, key \notin DOMAIN map
  PROVE  Pairs(Put(map, key, value)) = Pairs(map) \cup {<<key, value>>}
  <1> DEFINE put == Put(map, key, value)
  <1>1. /\ DOMAIN put = DOMAIN map \cup {key} /\ put[key] = value
        /\ \A k \in DOMAIN map : put[k] = map[k]
    BY DEF Put
  <1> HIDE DEF put
  <1>2. {<<k, put[k]>> : k \in DOMAIN put} = {<<k, map[k]>> : k \in DOMAIN map} \cup {<<key, value>>}
    BY <1>1
  <1> QED
    BY <1>2 DEF Pairs, put

\* Following a created source keeps the first contexts.
LEMMA SourcesKept ==
  ASSUME NEW e, SourcesOK(e), NEW op,
         op.op = "create" => op.addr \in Pools /\ op.ctx \in Contexts
  PROVE  SourcesOK(Account(e, op))
  <1> DEFINE a == Account(e, op)
  <1>1. a.dyn = Follow(e.dyn, op) /\ a.first = FirstContext(e.first, op)
    BY DEF Account
  <1>2. CASE op.op # "create" \/ \E i \in DOMAIN e.dyn : e.dyn[i].addr = op.addr
    <2>1. a.dyn = e.dyn /\ a.first = e.first
      BY <1>1, <1>2 DEF Follow, FirstContext, SourcesOK
    <2> QED
      BY <2>1 DEF SourcesOK
  <1>3. CASE op.op = "create" /\ ~\E i \in DOMAIN e.dyn : e.dyn[i].addr = op.addr
    <2> DEFINE d == [addr |-> op.addr, ctx |-> op.ctx]
               n == Len(e.dyn)
    <2>1. a.dyn = Append(e.dyn, d) /\ a.first = Put(e.first, op.addr, op.ctx)
      BY <1>1, <1>3 DEF Follow, FirstContext, SourcesOK
    <2>2. e.dyn \in Seq([addr : Pools, ctx : Contexts]) /\ d \in [addr : Pools, ctx : Contexts]
      BY <1>3 DEF SourcesOK
    <2>3. /\ a.dyn \in Seq([addr : Pools, ctx : Contexts])
          /\ n \in Nat /\ DOMAIN e.dyn = 1 .. n /\ DOMAIN a.dyn = 1 .. (n + 1)
          /\ a.dyn[n + 1] = d /\ \A i \in 1 .. n : a.dyn[i] = e.dyn[i]
      <3> HIDE DEF a, d
      <3> QED
        BY <2>1, <2>2, AppendValue
    <2>4. /\ DOMAIN a.first = DOMAIN e.first \cup {op.addr} /\ a.first[op.addr] = op.ctx
          /\ \A k \in DOMAIN e.first : k # op.addr => a.first[k] = e.first[k]
      BY <2>1 DEF Put
    <2> HIDE DEF a, n
    <2>5. d.addr = op.addr /\ d.ctx = op.ctx
      OBVIOUS
    <2> HIDE DEF d
    <2>6. DOMAIN a.first = {a.dyn[i].addr : i \in DOMAIN a.dyn}
      <3>1. {a.dyn[i].addr : i \in DOMAIN a.dyn} = {a.dyn[i].addr : i \in DOMAIN e.dyn} \cup {op.addr}
        BY <2>3, <2>5
      <3>2. {a.dyn[i].addr : i \in DOMAIN e.dyn} = {e.dyn[i].addr : i \in DOMAIN e.dyn}
        BY <2>3
      <3> QED
        BY <2>4, <3>1, <3>2 DEF SourcesOK
    <2>7. \A i \in DOMAIN a.dyn : a.dyn[i].ctx = a.first[a.dyn[i].addr]
      <3> SUFFICES ASSUME NEW i \in 1 .. (n + 1) PROVE a.dyn[i].ctx = a.first[a.dyn[i].addr]
        BY <2>3
      <3>1. CASE i = n + 1
        BY <2>3, <2>4, <2>5, <3>1
      <3>2. CASE i # n + 1
        <4>1. i \in DOMAIN e.dyn /\ a.dyn[i] = e.dyn[i] /\ e.dyn[i].addr # op.addr
              /\ e.dyn[i].addr \in DOMAIN e.first
          BY <1>3, <2>3, <3>2 DEF SourcesOK
        <4> QED
          BY <2>4, <4>1 DEF SourcesOK
      <3> QED
        BY <3>1, <3>2
    <2> QED
      BY <2>3, <2>6, <2>7 DEF SourcesOK, a
  <1> QED
    BY <1>2, <1>3

\* What the schema check accepts is what the schema declares.
LEMMA ValidIsWellTyped ==
  ASSUME NEW id, NEW data, StoreSetValid(id, data)
  PROVE  WellTyped(id, data)
  <1>1. DOMAIN data \subseteq {f \in DOMAIN EntityType : ~EntityType[f].derived}
    BY DEF StoreSetValid
  <1>2. ASSUME NEW f \in DOMAIN EntityType, EntityType[f].required, ~EntityType[f].derived
        PROVE  f \in DOMAIN data /\ data[f].kind # "Null"
    BY <1>2 DEF StoreSetValid, FieldOK
  <1>3. ASSUME NEW f \in DOMAIN data \cap DOMAIN EntityType, data[f].kind # "Null"
        PROVE  \/ /\ EntityType[f].list /\ data[f].kind = "Array"
                  /\ data[f].items \subseteq Accepts(EntityType[f].kind)
               \/ ~EntityType[f].list /\ data[f].kind \in Accepts(EntityType[f].kind)
    BY <1>1, <1>3, RuntimeConstants DEF StoreSetValid, FieldOK, FieldValueOK
  <1>4. ASSUME IdDeclared PROVE LowerCase[data["id"].v] = LowerCase[id]
    <2>1. "id" \in DOMAIN data /\ data["id"].kind # "Null"
      BY <1>2, <1>4 DEF IdDeclared
    <2>2. data["id"].kind \in IdKinds
      BY <1>3, <1>4, <2>1 DEF IdDeclared
    <2> QED
      BY <2>1, <2>2 DEF StoreSetValid
  <1> QED
    BY <1>1, <1>2, <1>3, <1>4 DEF WellTyped

(***************************************************************************)
(* Host calls.                                                              *)
(***************************************************************************)
\* One more call: the candidate store is still what the calls add up to.
LEMMA CandidateKept ==
  ASSUME CandidateOK, NEW op,
         op.op = "create" => op.addr \in Pools /\ op.ctx \in Contexts,
         host'.ops = Append(host.ops, op),
         host'.store = Apply(host.store, op),
         host'.store = [i \in Ids |-> host'.store[i]],
         \A i \in Ids : \/ host'.store[i] \in {host.store[i], NoEntity}
                        \/ op.op = "set" /\ op.id = i /\ op.data = host'.store[i],
         pass'.store = pass.store, Ledger(pass') = Ledger(pass)
  PROVE  CandidateOK'
  <1> DEFINE S == {host.ops[k] : k \in DOMAIN host.ops} \cup {op}
             ops == host.ops
             more == host'.ops
             n == Len(ops)
             e == Accounted(Ledger(pass), ops)
             a == Accounted(Ledger(pass), more)
  <1>1. ops \in Seq(S) /\ op \in S
    <2>1. host.ops \in Seq({host.ops[k] : k \in DOMAIN host.ops})
      BY DEF CandidateOK, IsSeq
    <2> QED
      BY <2>1
  <1>2. more = Append(ops, op)
    OBVIOUS
  <1> HIDE DEF S, ops, more
  <1>3. /\ more \in Seq(S) /\ n \in Nat /\ DOMAIN ops = 1 .. n /\ DOMAIN more = 1 .. (n + 1)
        /\ more[n + 1] = op /\ \A i \in 1 .. n : more[i] = ops[i]
    BY <1>1, <1>2, AppendValue
  <1>4. a = Account(e, op)
    BY <1>1, <1>2, AccountedMore
  <1> HIDE DEF a, e
  <1>5. host.store = e.ref /\ SourcesOK(e)
    BY DEF CandidateOK, e, ops
  <1>6. SourcesOK(a)
    BY <1>4, <1>5, SourcesKept
  <1>7. host'.store = a.ref
    BY <1>4, <1>5 DEF Account
  <1>8. IsSeq(more)
    BY <1>3 DEF IsSeq
  <1>9. ASSUME NEW i \in Ids
        PROVE  \/ host'.store[i] = NoEntity
               \/ host'.store[i] = pass'.store[i]
               \/ \E k \in DOMAIN more :
                     more[k].op = "set" /\ more[k].id = i /\ more[k].data = host'.store[i]
    <2>1. CASE host'.store[i] = host.store[i]
      <3>1. CASE \E k \in DOMAIN ops : ops[k].op = "set" /\ ops[k].id = i /\ ops[k].data = host.store[i]
        <4>1. PICK k \in DOMAIN ops : ops[k].op = "set" /\ ops[k].id = i /\ ops[k].data = host.store[i]
          BY <3>1
        <4>2. k \in DOMAIN more /\ more[k] = ops[k]
          BY <1>3
        <4> QED
          BY <2>1, <4>1, <4>2
      <3>2. CASE host.store[i] = NoEntity \/ host.store[i] = pass.store[i]
        BY <2>1, <3>2
      <3> QED
        BY <3>1, <3>2 DEF CandidateOK, ops
    <2>2. CASE op.op = "set" /\ op.id = i /\ op.data = host'.store[i]
      <3>1. n + 1 \in DOMAIN more /\ more[n + 1] = op
        BY <1>3
      <3> QED
        BY <2>2, <3>1
    <2> QED
      BY <2>1, <2>2
  <1> QED
    BY <1>6, <1>7, <1>8, <1>9 DEF CandidateOK, a, more

\* A host call that touches the candidate store or the list of created sources.
LEMMA CallKept ==
  ASSUME HostInv, host.up, CandidateOK', UNCHANGED <<stored, pass>>, DOMAIN host' = HostFields,
         host'.up = TRUE, host'.src = host.src, host'.build = host.build,
         host'.context = host.context, host'.cache = host.cache, host'.answers = host.answers
  PROVE  HostInv'
  <1>1. (ContextOf(host.src))' = ContextOf(host.src)
    BY DEF ContextOf
  <1>2. CacheOK' /\ ModulesOK'
    BY DEF HostInv, CacheOK, ModulesOK
  <1> QED
    BY <1>1, <1>2 DEF HostInv

\* The calls that write the candidate store or create a source.
LEMMA StoreKept ==
  ASSUME HostInv, StoreSet \/ StoreGetAndSet \/ StoreRemove \/ DataSourceCreate
  PROVE  HostInv'
  <1>0. /\ host.up /\ CandidateOK /\ DOMAIN host = HostFields /\ UNCHANGED <<stored, pass>>
        /\ host.store = [i \in Ids |-> host.store[i]]
    BY DEF HostInv, CandidateOK, StoreSet, StoreGetAndSet, StoreRemove, DataSourceCreate, Calling
  <1>1. ASSUME NEW i \in Ids, NEW data, NEW op, op.op = "set" \/ op.op = "remove", op.id = i,
               op.op = "set" => op.data = data,
               op.op = "remove" => data = NoEntity,
               Apply(host.store, op) = [host.store EXCEPT ![i] = data],
               host' = [Called(op) EXCEPT !.store[i] = data]
        PROVE  HostInv'
    <2>1. /\ DOMAIN host' = HostFields /\ host'.ops = Append(host.ops, op)
          /\ host'.store = [host.store EXCEPT ![i] = data]
          /\ host'.up = host.up /\ host'.src = host.src /\ host'.build = host.build
          /\ host'.context = host.context /\ host'.cache = host.cache
          /\ host'.answers = host.answers
      BY <1>0, <1>1 DEF HostFields, Called
    <2>2. /\ host'.store = [j \in Ids |-> host'.store[j]]
          /\ host'.store[i] = data /\ \A j \in Ids : j # i => host'.store[j] = host.store[j]
      BY <1>0, <2>1
    <2>3. CandidateOK'
      BY <1>0, <1>1, <2>1, <2>2, CandidateKept
    <2> QED
      BY <1>0, <2>1, <2>3, CallKept DEF HostInv
  <1>2. CASE StoreSet
    <2>1. PICK i \in Ids, data \in Payloads :
             host' = [Called([op |-> "set", id |-> i, data |-> data]) EXCEPT !.store[i] = data]
      BY <1>2 DEF StoreSet
    <2> DEFINE op == [op |-> "set", id |-> i, data |-> data]
    <2>2. op.op = "set" /\ op.id = i /\ op.data = data /\ "counts" \notin DOMAIN op
      OBVIOUS
    <2> HIDE DEF op
    <2>3. Apply(host.store, op) = [host.store EXCEPT ![i] = data]
      BY <2>2 DEF Apply
    <2> QED
      BY <1>1, <2>1, <2>2, <2>3 DEF op
  <1>3. CASE StoreGetAndSet
    <2>1. PICK i \in Ids :
             LET data == Counted(i, StoreGet(i))
             IN  host' = [Called([op |-> "set", id |-> i, data |-> data, counts |-> TRUE])
                            EXCEPT !.store[i] = data]
      BY <1>3 DEF StoreGetAndSet
    <2> DEFINE data == Counted(i, host.store[i])
               op == [op |-> "set", id |-> i, data |-> data, counts |-> TRUE]
    <2>2. op.op = "set" /\ op.id = i /\ op.data = data /\ "counts" \in DOMAIN op
      OBVIOUS
    <2>3. host' = [Called(op) EXCEPT !.store[i] = data]
      BY <2>1 DEF StoreGet
    <2> HIDE DEF op
    <2>4. Apply(host.store, op) = [host.store EXCEPT ![i] = data]
      BY <2>2 DEF Apply
    <2> HIDE DEF data
    <2> QED
      BY <1>1, <2>2, <2>3, <2>4
  <1>4. CASE StoreRemove
    <2>1. PICK i \in Ids :
             host' = [Called([op |-> "remove", id |-> i]) EXCEPT !.store[i] = NoEntity]
      BY <1>4 DEF StoreRemove
    <2> DEFINE op == [op |-> "remove", id |-> i]
    <2>2. op.op = "remove" /\ op.id = i
      OBVIOUS
    <2>3. Apply(host.store, op) = [host.store EXCEPT ![i] = NoEntity]
      BY <2>2 DEF Apply
    <2> QED
      BY <1>1, <2>1, <2>2, <2>3
  <1>5. CASE DataSourceCreate
    <2>1. PICK a \in Pools, c \in Contexts : host' = Called([op |-> "create", addr |-> a, ctx |-> c])
      BY <1>5 DEF DataSourceCreate
    <2> DEFINE op == [op |-> "create", addr |-> a, ctx |-> c]
    <2>2. op.op = "create" /\ op.addr = a /\ op.ctx = c
      OBVIOUS
    <2> HIDE DEF op
    <2>3. /\ DOMAIN host' = HostFields /\ host'.ops = Append(host.ops, op)
          /\ host'.store = host.store
          /\ host'.up = host.up /\ host'.src = host.src /\ host'.build = host.build
          /\ host'.context = host.context /\ host'.cache = host.cache
          /\ host'.answers = host.answers
      BY <1>0, <2>1 DEF HostFields, Called, op
    <2>4. Apply(host.store, op) = host.store
      BY <2>2 DEF Apply
    <2>5. CandidateOK'
      BY <1>0, <2>2, <2>3, <2>4, CandidateKept
    <2> QED
      BY <1>0, <2>3, <2>5, CallKept DEF HostInv
  <1> QED
    BY <1>2, <1>3, <1>4, <1>5

\* A contract call, from the cache or from the RPC.
LEMMA CallCachedKept ==
  ASSUME HostInv, EthereumCall
  PROVE  HostInv'
  <1> DEFINE b    == host.block
             seen == b \in DOMAIN host.cache
             op   == [op |-> "call"]
  <1>0. /\ host.up /\ CandidateOK /\ DOMAIN host = HostFields /\ DOMAIN pass = PassFields
        /\ UNCHANGED stored /\ host.store = [i \in Ids |-> host.store[i]]
        /\ pass.given = Pairs(host.cache) /\ host.answers \subseteq pass.given
        /\ pass.answers \subseteq pass.given
    BY DEF HostInv, CandidateOK, CacheOK, EthereumCall, Calling
  <1>1. PICK answer \in IF seen THEN {host.cache[b]} ELSE Answers \cup {NoAnswer} :
             /\ host' = [Called(op) EXCEPT
                           !.cache = IF answer = NoAnswer THEN @ ELSE Put(@, b, answer),
                           !.answers = IF answer \in Undecodable \cup {NoAnswer} THEN @
                                       ELSE @ \cup {<<b, answer>>}]
             /\ pass' = IF seen \/ answer = NoAnswer THEN pass
                        ELSE [pass EXCEPT !.given = @ \cup {<<b, answer>>}]
    BY DEF EthereumCall, CacheKey
  <1>2. op.op = "call"
    OBVIOUS
  <1> HIDE DEF op
  <1>3. /\ DOMAIN host' = HostFields /\ host'.ops = Append(host.ops, op)
        /\ host'.store = host.store
        /\ host'.up = host.up /\ host'.src = host.src /\ host'.build = host.build
        /\ host'.context = host.context
        /\ host'.cache = IF answer = NoAnswer THEN host.cache ELSE Put(host.cache, b, answer)
        /\ host'.answers = IF answer \in Undecodable \cup {NoAnswer} THEN host.answers
                           ELSE host.answers \cup {<<b, answer>>}
    BY <1>0, <1>1 DEF HostFields, Called
  <1>4. /\ DOMAIN pass' = PassFields
        /\ pass'.store = pass.store /\ pass'.dyn = pass.dyn /\ pass'.ref = pass.ref
        /\ pass'.first = pass.first /\ pass'.cache = pass.cache /\ pass'.modules = pass.modules
        /\ pass'.ran = pass.ran /\ pass'.answers = pass.answers
        /\ pass'.given = IF seen \/ answer = NoAnswer THEN pass.given
                         ELSE pass.given \cup {<<b, answer>>}
    BY <1>0, <1>1 DEF PassFields
  <1>5. CandidateOK'
    <2>1. Apply(host.store, op) = host.store
      BY <1>2 DEF Apply
    <2>2. Ledger(pass') = Ledger(pass)
      BY <1>4 DEF Ledger
    <2> QED
      BY <1>0, <1>2, <1>3, <1>4, <2>1, <2>2, CandidateKept
  <1>6. CacheOK'
    <2>1. CASE answer = NoAnswer
      BY <1>0, <1>3, <1>4, <2>1 DEF CacheOK
    <2>2. CASE answer # NoAnswer /\ seen
      <3>1. answer = host.cache[b] /\ <<b, answer>> \in pass.given
        BY <1>0, <2>2 DEF Pairs
      <3>2. Pairs(Put(host.cache, b, answer)) = Pairs(host.cache)
        BY <2>2, <3>1 DEF Pairs, Put
      <3> QED
        BY <1>0, <1>3, <1>4, <2>2, <3>1, <3>2 DEF CacheOK
    <2>3. CASE answer # NoAnswer /\ ~seen
      <3>1. Pairs(Put(host.cache, b, answer)) = Pairs(host.cache) \cup {<<b, answer>>}
        BY <2>3, PutPairs
      <3> QED
        BY <1>0, <1>3, <1>4, <2>3, <3>1 DEF CacheOK
    <2> QED
      BY <2>1, <2>2, <2>3
  <1>7. ModulesOK'
    BY <1>3, <1>4 DEF HostInv, ModulesOK
  <1>8. StoreOK(pass') /\ SourcesOK(pass')
    <2>1. StoreOK(pass) /\ SourcesOK(pass)
      BY DEF HostInv
    <2>2. /\ pass'.store = pass.store /\ pass'.dyn = pass.dyn
          /\ pass'.ref = pass.ref /\ pass'.first = pass.first
      BY <1>4
    <2>3. StoreOK(pass')
      BY <2>1, <2>2 DEF StoreOK
    <2>4. SourcesOK(pass')
      BY <2>1, <2>2 DEF SourcesOK
    <2> QED
      BY <2>3, <2>4
  <1>9. host'.context = (ContextOf(host.src))'
    BY <1>0, <1>3, <1>4 DEF HostInv, ContextOf
  <1> QED
    BY <1>0, <1>3, <1>4, <1>5, <1>6, <1>7, <1>8, <1>9 DEF HostInv

(***************************************************************************)
(* The beginning and the end of a handler.                                  *)
(***************************************************************************)
\* No handler runs.
LEMMA DownFacts ==
  DOMAIN Down = HostFields /\ Down.up = FALSE /\ Down.answers = {} /\ Down.ops = <<>>
  BY DEF Down, HostFields

\* No handler runs, and a pass has just begun.
LEMMA RestartKept ==
  ASSUME NEW s, StoreOK(s), SourcesOK(s), host' = Down, stored' = s, pass' = PassFrom(s)
  PROVE  HostInv'
  <1> DEFINE p == PassFrom(s)
  <1>1. /\ DOMAIN p = PassFields /\ p.store = s.store /\ p.dyn = s.dyn /\ p.ref = s.ref
        /\ p.first = s.first /\ p.cache = <<>> /\ p.modules = <<>> /\ p.ran = {}
        /\ p.answers = {} /\ p.given = {}
    BY DEF PassFrom, PassFields
  <1> HIDE DEF p
  <1>2. StoreOK(p) /\ SourcesOK(p)
    BY <1>1, SameSources, SameStore
  <1>3. Pairs(<<>>) = {}
    BY DEF Pairs
  <1>4. pass' = p
    BY DEF p
  <1>5. CacheOK' /\ ModulesOK'
    BY <1>1, <1>3, <1>4, DownFacts DEF CacheOK, ModulesOK
  <1> QED
    BY <1>1, <1>2, <1>4, <1>5, DownFacts DEF HostInv

\* Nothing has been stored yet.
LEMMA InitInv == Init => HostInv
  <1> SUFFICES ASSUME Init PROVE HostInv
    OBVIOUS
  <1>1. StoreOK(Empty) /\ SourcesOK(Empty)
    BY DEF Empty, EmptyStore, StoreOK, SourcesOK
  <1> DEFINE p == PassFrom(Empty)
  <1>2. /\ DOMAIN p = PassFields /\ p.store = Empty.store /\ p.dyn = Empty.dyn
        /\ p.ref = Empty.ref /\ p.first = Empty.first /\ p.cache = <<>> /\ p.modules = <<>>
        /\ p.ran = {} /\ p.answers = {} /\ p.given = {}
    BY DEF PassFrom, PassFields
  <1> HIDE DEF p
  <1>3. StoreOK(p) /\ SourcesOK(p)
    BY <1>1, <1>2, SameSources, SameStore
  <1>4. pass = p /\ stored = Empty /\ host = Down
    BY DEF Init, p
  <1>5. Pairs(<<>>) = {}
    BY DEF Pairs
  <1>6. CacheOK /\ ModulesOK
    BY <1>2, <1>4, <1>5, DownFacts DEF CacheOK, ModulesOK
  <1> QED
    BY <1>1, <1>2, <1>3, <1>4, <1>6, DownFacts DEF HostInv

\* A handler starts over copies of what is committed.
LEMMA StartKept ==
  ASSUME HostInv, StartHandler
  PROVE  HostInv'
  <1>1. PICK src \in Followed, b \in {pass.block, pass.block + 1} :
          /\ host' = [Down EXCEPT !.up = TRUE, !.src = src, !.block = b,
                                  !.build = ModuleForPath(src),
                                  !.context = ContextOf(src),
                                  !.store = pass.store, !.cache = pass.cache]
          /\ pass' = [pass EXCEPT !.block = b,
                                  !.modules = Put(@, src, ModuleForPath(src))]
    BY DEF StartHandler
  <1> DEFINE m == ModuleForPath(src)
  <1>0. ~host.up /\ UNCHANGED stored /\ DOMAIN pass = PassFields
    BY DEF HostInv, StartHandler
  <1>2. /\ DOMAIN host' = HostFields /\ host'.up = TRUE /\ host'.src = src
        /\ host'.build = m /\ host'.context = ContextOf(src)
        /\ host'.store = pass.store /\ host'.cache = pass.cache
        /\ host'.ops = <<>> /\ host'.answers = {}
    BY <1>1 DEF Down, HostFields
  <1>3. /\ DOMAIN pass' = PassFields /\ pass'.modules = Put(pass.modules, src, m)
        /\ pass'.store = pass.store /\ pass'.dyn = pass.dyn /\ pass'.ref = pass.ref
        /\ pass'.first = pass.first /\ pass'.cache = pass.cache /\ pass'.ran = pass.ran
        /\ pass'.answers = pass.answers /\ pass'.given = pass.given
    BY <1>0, <1>1 DEF PassFields
  <1>4. StoreOK(pass') /\ SourcesOK(pass')
    <2>1. SourcesOK(pass')
      BY <1>3, SameSources DEF HostInv
    <2>2. StoreOK(pass) => StoreOK(pass')
      BY <1>3 DEF StoreOK
    <2> QED
      BY <2>1, <2>2 DEF HostInv
  <1>5. CandidateOK'
    <2>1. Accounted(Ledger(pass'), host'.ops) = Ledger(pass')
      BY <1>2, AccountedNone
    <2>2. Ledger(pass').ref = pass'.ref /\ Ledger(pass').dyn = pass'.dyn
          /\ Ledger(pass').first = pass'.first
      BY DEF Ledger
    <2>3. SourcesOK(Ledger(pass'))
      BY <1>4, <2>2 DEF SourcesOK
    <2>4. IsSeq(host'.ops)
      BY <1>2 DEF IsSeq
    <2>5. host'.store = [i \in Ids |-> host'.store[i]] /\ host'.store = pass'.ref
      BY <1>2, <1>3, <1>4 DEF StoreOK
    <2> QED
      BY <1>2, <1>3, <2>1, <2>2, <2>3, <2>4, <2>5 DEF CandidateOK
  <1>6. CacheOK'
    BY <1>0, <1>2, <1>3 DEF HostInv, CacheOK
  <1>7. ModulesOK'
    <2>1. /\ DOMAIN pass'.modules = DOMAIN pass.modules \cup {src} /\ pass'.modules[src] = m
          /\ \A k \in DOMAIN pass.modules : pass'.modules[k] = pass.modules[k]
      BY <1>3 DEF Put, ModuleForPath
    <2> HIDE DEF m
    <2> QED
      BY <1>2, <1>3, <2>1 DEF HostInv, ModulesOK
  <1>8. host'.context = (ContextOf(host.src))'
    BY <1>2, <1>3 DEF ContextOf
  <1> QED
    BY <1>0, <1>2, <1>3, <1>4, <1>5, <1>6, <1>7, <1>8 DEF HostInv

\* An accepted handler: its candidates become the pass's.
LEMMA CommitKept ==
  ASSUME HostInv, CommitHandler
  PROVE  HostInv'
  <1> DEFINE e == Accounted(Ledger(pass), host.ops)
  <1>0. /\ host.up /\ CandidateOK /\ host' = Down /\ UNCHANGED stored /\ DOMAIN pass = PassFields
        /\ ExecutionValid(host.ops)
    BY DEF HostInv, CommitHandler
  <1>1. pass' = [pass EXCEPT
                   !.store = host.store, !.cache = host.cache,
                   !.dyn = e.dyn, !.ref = e.ref, !.first = e.first,
                   !.ran = @ \cup {<<host.src, host.build>>},
                   !.answers = @ \cup host.answers]
    BY DEF CommitHandler
  <1>2. host.store = e.ref /\ SourcesOK(e)
    BY <1>0 DEF CandidateOK
  <1> HIDE DEF e
  <1>3. /\ DOMAIN pass' = PassFields /\ pass'.store = host.store /\ pass'.cache = host.cache
        /\ pass'.dyn = e.dyn /\ pass'.ref = e.ref /\ pass'.first = e.first
        /\ pass'.ran = pass.ran \cup {<<host.src, host.build>>}
        /\ pass'.answers = pass.answers \cup host.answers
        /\ pass'.modules = pass.modules /\ pass'.given = pass.given
    BY <1>0, <1>1 DEF PassFields
  <1>4. ASSUME NEW i \in Ids, host.store[i] # NoEntity
        PROVE  WellTyped(i, host.store[i])
    <2>1. CASE host.store[i] = pass.store[i]
      BY <1>4, <2>1 DEF HostInv, StoreOK
    <2>2. CASE \E k \in DOMAIN host.ops :
                 host.ops[k].op = "set" /\ host.ops[k].id = i /\ host.ops[k].data = host.store[i]
      <3>1. StoreSetValid(i, host.store[i])
        BY <1>0, <2>2 DEF ExecutionValid
      <3> QED
        BY <3>1, ValidIsWellTyped
    <2> QED
      BY <1>0, <1>4, <2>1, <2>2 DEF CandidateOK
  <1>5. StoreOK(pass')
    BY <1>0, <1>2, <1>3, <1>4 DEF StoreOK, CandidateOK
  <1>6. SourcesOK(pass')
    BY <1>2, <1>3 DEF SourcesOK
  <1>7. CacheOK'
    BY <1>0, <1>3, DownFacts DEF HostInv, CacheOK
  <1>8. ModulesOK'
    <2>1. ASSUME NEW x \in pass'.ran
          PROVE  x[1] \in DOMAIN pass.modules /\ x[2] = pass.modules[x[1]]
      <3>1. CASE x \in pass.ran
        BY <3>1 DEF HostInv, ModulesOK
      <3>2. CASE x = <<host.src, host.build>>
        BY <1>0, <3>2 DEF HostInv, ModulesOK
      <3> QED
        BY <1>3, <2>1, <3>1, <3>2
    <2> QED
      BY <1>0, <1>3, <2>1, DownFacts DEF ModulesOK
  <1> QED
    BY <1>0, <1>3, <1>5, <1>6, <1>7, <1>8, DownFacts DEF HostInv

\* A rejected handler, a trap and the end of a pass.
LEMMA EndKept ==
  ASSUME HostInv, RejectHandler \/ Trap \/ EndPass
  PROVE  HostInv'
  <1>1. CASE Trap
    BY <1>1, RestartKept DEF Trap, HostInv
  <1>2. CASE RejectHandler \/ EndPass
    <2> DEFINE s == Persisted(pass)
    <2>1. s.store = pass.store /\ s.dyn = pass.dyn /\ s.ref = pass.ref /\ s.first = pass.first
      BY DEF Persisted
    <2>2. stored' = s /\ pass' = PassFrom(stored') /\ host' = Down
      BY <1>2 DEF RejectHandler, EndPass, HostInv
    <2> HIDE DEF s
    <2>3. StoreOK(s) /\ SourcesOK(s)
      BY <2>1 DEF HostInv, StoreOK, SourcesOK
    <2> QED
      BY <2>2, <2>3, RestartKept
  <1> QED
    BY <1>1, <1>2

\* Every step keeps the invariant.
LEMMA NextInv == HostInv /\ [Next]_vars => HostInv'
  <1> SUFFICES ASSUME HostInv, [Next]_vars PROVE HostInv'
    OBVIOUS
  <1>1. CASE ReplaceBuild \/ UNCHANGED vars
    <2>1. UNCHANGED <<stored, pass, host>>
      BY <1>1 DEF ReplaceBuild, vars
    <2>2. CacheOK' /\ ModulesOK' /\ (CandidateOK => CandidateOK')
          /\ (ContextOf(host.src))' = ContextOf(host.src)
      BY <2>1 DEF HostInv, CacheOK, ModulesOK, CandidateOK, ContextOf
    <2> QED
      BY <2>1, <2>2 DEF HostInv
  <1> QED
    BY <1>1, StartKept, StoreKept, CallCachedKept, CommitKept, EndKept DEF Next

\* The invariant holds in every reachable state.
LEMMA InvAlways == Spec => []HostInv
  <1> QED
    BY InitInv, NextInv, PTL DEF Spec

(***************************************************************************)
(* The theorems.                                                            *)
(***************************************************************************)
\* The committed and the persisted entity store are what the accepted handlers
\* wrote, each on top of its predecessors and of its own earlier writes.
THEOREM OnlyAcceptedWrites == Spec => []StoreIsAcceptedWrites
  <1>1. HostInv => StoreIsAcceptedWrites
    BY DEF HostInv, StoreOK, StoreIsAcceptedWrites
  <1> QED
    BY <1>1, InvAlways, PTL

\* Every entity that is committed or persisted is one the schema allows.
THEOREM StoreIsWellTyped == Spec => []StoreWellTyped
  <1>1. HostInv => StoreWellTyped
    BY DEF HostInv, StoreOK, StoreWellTyped
  <1> QED
    BY <1>1, InvAlways, PTL

\* Handlers of one block see one answer of the contract, the one the RPC gave.
THEOREM CallsOfBlockAgree == Spec => []CallsAgreeInBlock
  <1>1. HostInv => CallsAgreeInBlock
    <2> SUFFICES ASSUME HostInv PROVE CallsAgreeInBlock
      OBVIOUS
    <2>1. pass.answers \cup host.answers \subseteq pass.given
      BY DEF HostInv, CacheOK
    <2>2. \A x, y \in pass.given : x[1] = y[1] => x[2] = y[2]
      BY DEF HostInv, CacheOK, Pairs
    <2> QED
      BY <2>1, <2>2 DEF CallsAgreeInBlock
  <1> QED
    BY <1>1, InvAlways, PTL

\* A template source keeps the context it was first created with.
THEOREM ContextsStay == Spec => []ContextIsFirst
  <1>1. HostInv => ContextIsFirst
    <2> SUFFICES ASSUME HostInv, NEW a \in DOMAIN pass.first
                 PROVE  ContextOf(a) = pass.first[a]
      BY DEF HostInv, ContextIsFirst
    <2> DEFINE known == {i \in DOMAIN pass.dyn : pass.dyn[i].addr = a}
    <2>1. known # {}
      BY DEF HostInv, SourcesOK
    <2>2. (CHOOSE i \in known : TRUE) \in known
      BY <2>1
    <2>3. ContextOf(a) = pass.dyn[CHOOSE i \in known : TRUE].ctx
      BY <2>1 DEF ContextOf, ContextIn
    <2> QED
      BY <2>2, <2>3 DEF HostInv, SourcesOK
  <1> QED
    BY <1>1, InvAlways, PTL

\* The handlers of a source all run one build of it in a pass.
THEOREM OneBuild == Spec => []OneBuildPerPass
  <1>1. HostInv => OneBuildPerPass
    <2> SUFFICES ASSUME HostInv PROVE OneBuildPerPass
      OBVIOUS
    <2> DEFINE all == pass.ran \cup (IF host.up THEN {<<host.src, host.build>>} ELSE {})
    <2>1. \A x \in all : x[2] = pass.modules[x[1]]
      BY DEF HostInv, ModulesOK
    <2> QED
      BY <2>1 DEF OneBuildPerPass
  <1> QED
    BY <1>1, InvAlways, PTL
=============================================================================
