-------------------------- MODULE DeploymentsProofs --------------------------
(***************************************************************************)
(* Safety of Deployments for any users, keys, labels and requests: types,   *)
(* the answers of GraphQL requests under concurrent deploys and promotions, *)
(* revoked keys, and the ownership of the deployment.                       *)
(***************************************************************************)
EXTENDS Deployments, TLAPS

(***************************************************************************)
(* The invariant, request by request.                                       *)
(***************************************************************************)
\* The request is at the given statement.
AtStep(q, step) == q.status = "running" /\ Program(q.kind)[q.pc] = step

\* Requests other than queries: what the statements so far have established.
Prepared(q, st) ==
    /\ q.kind # "query" => q.version # Latest
    /\ q.kind \in {"remote", "upload", "register_version", "promote"} => q.version \in Versions
    /\ q.kind \in {"deploy", "register"} => q.storage = Served
    /\ AtStep(q, "commit") => q.files # {}
    /\ AtStep(q, "version") => q.version \in Versions /\ st[q.storage] # {}

\* A request whose key was revoked before its sync ended.
LateOK(q, ks) == q.late => AtStep(q, "actor") /\ q.key \in Keys /\ ks[q.key].revoked

\* What a running query has found so far is what some label it could mean
\* named meanwhile; while `latest' names a recorded version, that is a version
\* with data.
Resolving(q, vs, st) ==
    /\ q.pc \in {1, 2, 3} => q.storage = Served
    /\ q.pc \in {2, 3} => q.label \in q.labels
    /\ q.pc = 2 /\ q.version = Latest /\ q.steady => q.label \in DOMAIN vs
    /\ q.pc = 3 => Served \in q.named /\ ~(q.version = Latest /\ q.steady)
    /\ q.pc \in {4, 5, 6} => /\ q.storage \in q.named
                             /\ q.version = Latest /\ q.steady => st[q.storage] # {}

QueryAnswered(q) ==
    /\ q.status = "ok" => q.storage \in q.named
    /\ q.version = Latest /\ q.steady => q.status \notin {"not_found", "unavailable"}

RequestOK(q, vs, st, ks) ==
    /\ q \in RequestStates
    /\ q.status = "running" => q.kind \in Kinds /\ q.pc \in 1 .. Len(Program(q.kind))
    /\ Prepared(q, st)
    /\ LateOK(q, ks)
    /\ q.kind = "query" /\ q.status = "running" => Resolving(q, vs, st)
    /\ q.kind = "query" => QueryAnswered(q)

\* The history variables of a running query are up to date.
Observed(q, md, vs) ==
    q.kind = "query" /\ q.status = "running" =>
        /\ IF q.version = Latest THEN md.label \in q.labels ELSE q.version \in q.labels
        /\ \A l \in q.labels : IF l \in DOMAIN vs THEN vs[l].storage \in q.named
                               ELSE Served \in q.named
        /\ q.steady => md.label \in DOMAIN vs

TablesOK(md, vs, st) ==
    /\ ~md.found => md.label = NoLabel
    /\ \A v \in DOMAIN vs : st[vs[v].storage] # {}

DeployInv ==
    /\ TypeOK
    /\ TablesOK(metadata, versions, stored)
    /\ \A r \in Requests : /\ RequestOK(req[r], versions, stored, keys)
                           /\ Observed(req[r], metadata, versions)

(***************************************************************************)
(* The programs.                                                            *)
(***************************************************************************)
\* Which statement comes before a commit, before a version is recorded and
\* after a commit.
LEMMA Succession ==
    ASSUME NEW k \in Kinds, NEW i \in 1 .. (Len(Program(k)) - 1)
    PROVE  /\ Program(k)[i + 1] = "commit" => Program(k)[i] = "build"
           /\ Program(k)[i + 1] = "version" => Program(k)[i] \in {"exists", "indexed"}
           /\ Program(k)[i] = "commit" => Program(k)[i + 1] = "actor"
  <1>1. CASE k = "remote"
    BY <1>1 DEF Program
  <1>2. CASE k = "upload"
    BY <1>2 DEF Program
  <1>3. CASE k = "deploy"
    BY <1>3 DEF Program
  <1>4. CASE k = "register"
    BY <1>4 DEF Program
  <1>5. CASE k = "register_version"
    BY <1>5 DEF Program
  <1>6. CASE k = "promote"
    BY <1>6 DEF Program
  <1>7. CASE k = "visibility"
    BY <1>7 DEF Program
  <1>8. CASE k = "query"
    BY <1>8 DEF Program
  <1> QED
    BY <1>1, <1>2, <1>3, <1>4, <1>5, <1>6, <1>7, <1>8 DEF Kinds

\* Where the statements of a query are, that no other request has them, and
\* which requests look at a storage before they record a version for it.
LEMMA Statements ==
    ASSUME NEW k \in Kinds, NEW i \in 1 .. Len(Program(k))
    PROVE  /\ k = "query" => Len(Program(k)) = 6
           /\ Program(k)[i] = "label" <=> k = "query" /\ i = 1
           /\ Program(k)[i] = "row" <=> k = "query" /\ i = 2
           /\ Program(k)[i] = "confirm" <=> k = "query" /\ i = 3
           /\ Program(k)[i] = "access" <=> k = "query" /\ i = 4
           /\ Program(k)[i] = "key" <=> k = "query" /\ i = 5
           /\ Program(k)[i] = "load" <=> k = "query" /\ i = 6
           /\ Program(k)[i] = "exists" => k \in {"remote", "register_version"}
           /\ Program(k)[i] = "indexed" => k \in {"deploy", "register"}
  <1>1. CASE k = "remote"
    BY <1>1 DEF Program
  <1>2. CASE k = "upload"
    BY <1>2 DEF Program
  <1>3. CASE k = "deploy"
    BY <1>3 DEF Program
  <1>4. CASE k = "register"
    BY <1>4 DEF Program
  <1>5. CASE k = "register_version"
    BY <1>5 DEF Program
  <1>6. CASE k = "promote"
    BY <1>6 DEF Program
  <1>7. CASE k = "visibility"
    BY <1>7 DEF Program
  <1>8. CASE k = "query"
    BY <1>8 DEF Program
  <1> QED
    BY <1>1, <1>2, <1>3, <1>4, <1>5, <1>6, <1>7, <1>8 DEF Kinds

\* No request begins with a commit or the record of a version.
LEMMA Beginnings ==
  ASSUME NEW k \in Kinds
  PROVE  1 \in 1 .. Len(Program(k)) /\ Program(k)[1] \notin {"commit", "version"}
  <1>1. CASE k = "remote"
    BY <1>1 DEF Program
  <1>2. CASE k = "upload"
    BY <1>2 DEF Program
  <1>3. CASE k = "deploy"
    BY <1>3 DEF Program
  <1>4. CASE k = "register"
    BY <1>4 DEF Program
  <1>5. CASE k = "register_version"
    BY <1>5 DEF Program
  <1>6. CASE k = "promote"
    BY <1>6 DEF Program
  <1>7. CASE k = "visibility"
    BY <1>7 DEF Program
  <1>8. CASE k = "query"
    BY <1>8 DEF Program
  <1> QED
    BY <1>1, <1>2, <1>3, <1>4, <1>5, <1>6, <1>7, <1>8 DEF Kinds

(***************************************************************************)
(* Requests.                                                                *)
(***************************************************************************)
\* A request that is over and that no property asks about is fine.
LEMMA IdleOK ==
    ASSUME NEW vs, NEW st, NEW ks
    PROVE  /\ RequestOK(Idle, vs, st, ks)
           /\ \A md : Observed(Idle, md, vs)
  BY DeploymentConstants
  DEF RequestOK, Idle, RequestStates, Prepared, LateOK, AtStep, QueryAnswered, Kinds, Labels,
      Visibilities, Storages, Observed

\* An answer that a query may give, or the end of another request.
LEMMA AnsweredOK ==
    ASSUME NEW vs, NEW st, NEW ks, NEW q, RequestOK(q, vs, st, ks),
           NEW status \in {"ok", "denied", "error", "not_found", "unavailable"},
           q.late => status # "ok",
           q.kind = "query" => QueryAnswered([q EXCEPT !.status = status])
    PROVE  RequestOK(Answered(q, status), vs, st, ks)
  <1>1. CASE q.kind = "query"
    <2> DEFINE a == [q EXCEPT !.status = status]
    <2>1. Answered(q, status) = a
      BY <1>1 DEF Answered
    <2>2. ~q.late
      BY <1>1, Statements DEF RequestOK, LateOK, AtStep, Kinds
    <2>3. a \in RequestStates /\ a.status = status /\ a.kind = "query" /\ a.late = q.late /\ a.version = q.version
      BY <1>1 DEF RequestOK, RequestStates
    <2> QED
      BY <1>1, <2>1, <2>2, <2>3 DEF RequestOK, Prepared, LateOK, AtStep
  <1>2. CASE q.kind # "query"
    <2> Answered(q, status) = Idle
      BY <1>2 DEF Answered
    <2> QED
      BY IdleOK
  <1> QED
    BY <1>1, <1>2

\* The request after its statement succeeded, as Goes has it.
Advanced(q) == IF q.pc = Len(Program(q.kind)) THEN Answered(q, "ok") ELSE [q EXCEPT !.pc = @ + 1]

\* A request other than a query that moves on with what its next statement needs.
LEMMA AdvancedOK ==
  ASSUME NEW vs, NEW st, NEW ks, NEW q \in RequestStates,
         q.status = "running", q.kind \in Kinds \ {"query"}, q.pc \in 1 .. Len(Program(q.kind)),
         q.version # Latest,
         q.kind \in {"remote", "upload", "register_version", "promote"} => q.version \in Versions,
         q.kind \in {"deploy", "register"} => q.storage = Served,
         Program(q.kind)[q.pc] = "build" => q.files # {},
         Program(q.kind)[q.pc] \in {"exists", "indexed"} =>
            q.version \in Versions /\ st[q.storage] # {},
         q.late => Program(q.kind)[q.pc] = "commit" /\ q.key \in Keys /\ ks[q.key].revoked
  PROVE  RequestOK(Advanced(q), vs, st, ks)
  <1>1. CASE q.pc = Len(Program(q.kind))
    <2>1. Program(q.kind)[Len(Program(q.kind))] # "commit"
      BY DEF Program, Kinds
    <2>2. Advanced(q) = Idle
      BY <1>1, <2>1 DEF Advanced, Answered
    <2> QED
      BY <2>2, IdleOK
  <1>2. CASE q.pc # Len(Program(q.kind))
    <2> DEFINE a == [q EXCEPT !.pc = @ + 1]
    <2>0. Len(Program(q.kind)) \in Nat
      BY DEF Program, Kinds
    <2>1. q.pc \in 1 .. (Len(Program(q.kind)) - 1)
      BY <1>2, <2>0
    <2>2. /\ a \in RequestStates /\ a.pc = q.pc + 1 /\ a.pc \in 1 .. Len(Program(q.kind))
          /\ a.kind = q.kind /\ a.status = "running" /\ a.version = q.version
          /\ a.storage = q.storage /\ a.files = q.files /\ a.late = q.late /\ a.key = q.key
      BY <2>0, <2>1 DEF RequestStates
    <2>3. Advanced(q) = a
      BY <1>2 DEF Advanced
    <2>4. /\ Program(q.kind)[a.pc] = "commit" => q.files # {}
          /\ Program(q.kind)[a.pc] = "version" => q.version \in Versions /\ st[q.storage] # {}
          /\ q.late => Program(q.kind)[a.pc] = "actor"
      BY <2>1, <2>2, Succession
    <2> HIDE DEF a
    <2>5. Prepared(a, st)
      BY <2>2, <2>4 DEF Prepared, AtStep
    <2>6. LateOK(a, ks)
      BY <2>2, <2>4 DEF LateOK, AtStep
    <2> QED
      BY <2>2, <2>3, <2>5, <2>6 DEF RequestOK
  <1> QED
    BY <1>1, <1>2

\* What is true of a request stays true as versions and data are added and keys
\* revoked.
LEMMA GrowthKeepsRequest ==
  ASSUME NEW vs, NEW st, NEW ks, NEW vs2, NEW st2, NEW ks2, NEW q, RequestOK(q, vs, st, ks),
         DOMAIN vs \subseteq DOMAIN vs2,
         \A s \in Storages : st[s] # {} => st2[s] # {},
         \A k \in Keys : ks[k].revoked => ks2[k].revoked
  PROVE  RequestOK(q, vs2, st2, ks2)
  <1>1. q.storage \in Storages
    BY DEF RequestOK, RequestStates
  <1>2. Prepared(q, st2) /\ LateOK(q, ks2)
    BY <1>1 DEF RequestOK, Prepared, LateOK
  <1>3. Resolving(q, vs, st) => Resolving(q, vs2, st2)
    BY <1>1 DEF Resolving
  <1> QED
    BY <1>2, <1>3 DEF RequestOK

\* Observing brings the history of a query up to date and changes nothing else.
LEMMA ObserveOK ==
  ASSUME NEW vs, NEW st, NEW ks, NEW q, RequestOK(q, vs, st, ks),
         NEW md \in MetadataRows,
         DOMAIN vs \subseteq Versions, vs \in [DOMAIN vs -> VersionRows]
  PROVE  RequestOK(Observe(q, md, vs), vs, st, ks) /\ Observed(Observe(q, md, vs), md, vs)
  <1>1. CASE q.kind # "query" \/ q.status # "running"
    BY <1>1 DEF Observe, Observed
  <1>2. CASE q.kind = "query" /\ q.status = "running"
    <2> DEFINE labels == q.labels \cup (IF q.version = Latest THEN {md.label} ELSE {q.version})
               named  == q.named \cup {IF l \in DOMAIN vs THEN vs[l].storage ELSE Served : l \in labels}
               steady == q.steady /\ md.label \in DOMAIN vs
               a      == [q EXCEPT !.labels = labels, !.steady = steady, !.named = named]
    <2>0. q \in RequestStates
      BY DEF RequestOK
    <2>1. Observe(q, md, vs) = a
      BY <1>2, <2>0 DEF Observe, RequestStates
    <2>2. labels \in SUBSET Labels
      BY <2>0 DEF RequestStates, MetadataRows, Labels
    <2>3. named \in SUBSET Storages
      <3>1. \A l \in DOMAIN vs : vs[l].storage \in Storages
        BY DEF VersionRows
      <3> QED
        BY <2>0, <3>1 DEF RequestStates, Storages
    <2>4. steady \in BOOLEAN
      BY <2>0 DEF RequestStates
    <2> HIDE DEF labels, named, steady
    <2>5. a \in RequestStates
      BY <2>0, <2>2, <2>3, <2>4 DEF RequestStates
    <2>6. /\ a.kind = q.kind /\ a.status = q.status /\ a.pc = q.pc /\ a.version = q.version
          /\ a.storage = q.storage /\ a.files = q.files /\ a.late = q.late /\ a.key = q.key
          /\ a.label = q.label /\ a.labels = labels /\ a.named = named /\ a.steady = steady
      BY <2>0 DEF RequestStates
    <2> HIDE DEF a
    <2>7. q.labels \subseteq labels /\ q.named \subseteq named /\ (steady => q.steady)
      BY DEF labels, named, steady
    <2>8. Prepared(a, st) /\ LateOK(a, ks)
      BY <2>6 DEF RequestOK, Prepared, LateOK, AtStep
    <2>9. Resolving(a, vs, st)
      BY <1>2, <2>6, <2>7 DEF RequestOK, Resolving
    <2>10. QueryAnswered(a)
      BY <1>2, <2>6 DEF QueryAnswered
    <2>11. Observed(a, md, vs)
      BY <2>6 DEF Observed, labels, named, steady
    <2> QED
      BY <1>2, <2>1, <2>5, <2>6, <2>8, <2>9, <2>10, <2>11 DEF RequestOK
  <1> QED
    BY <1>1, <1>2

(***************************************************************************)
(* Steps.                                                                   *)
(***************************************************************************)
\* Everything of TypeOK but the requests.
TablesTyped ==
    /\ users \in [Users -> Roles]
    /\ keys \in [Keys -> KeyRows]
    /\ metadata \in MetadataRows
    /\ DOMAIN versions \subseteq Versions /\ versions \in [DOMAIN versions -> VersionRows]
    /\ stored \in [Storages -> SUBSET Requests]
    /\ bundles \in [Versions -> SUBSET Requests]
    /\ claim \in Users \cup {NoOne}
    /\ starts \in Nat /\ admin \in Nat

\* The tables lose no version and no data, and no key comes back.
TablesGrow ==
    /\ DOMAIN versions \subseteq DOMAIN versions'
    /\ \A s \in Storages : stored[s] # {} => stored'[s] # {}
    /\ \A k \in Keys : keys[k].revoked => keys'[k].revoked

\* The invariant as the steps use it: the tables, then one request at a time.
LEMMA InvParts ==
  DeployInv <=> /\ TablesTyped /\ TablesOK(metadata, versions, stored)
                /\ req \in [Requests -> RequestStates]
                /\ \A r \in Requests : /\ RequestOK(req[r], versions, stored, keys)
                                       /\ Observed(req[r], metadata, versions)
  BY DEF DeployInv, TypeOK, TablesTyped, RequestOK, Running

\* A step of request r: what it leaves of r is fine in the new tables, so the
\* whole state is.
LEMMA StepKept ==
  ASSUME DeployInv, NEW r \in Requests, NEW q, SetReq(r, q),
         TablesTyped', TablesOK(metadata', versions', stored'), TablesGrow,
         RequestOK(q, versions', stored', keys')
  PROVE  DeployInv'
  <1>1. ASSUME NEW x \in Requests
        PROVE  /\ RequestOK(req'[x], versions', stored', keys')
               /\ Observed(req'[x], metadata', versions')
    <2> DEFINE p == IF x = r THEN q ELSE req[x]
    <2>1. RequestOK(p, versions', stored', keys')
      BY InvParts, GrowthKeepsRequest DEF TablesGrow
    <2>2. req'[x] = Observe(p, metadata', versions')
      BY DEF SetReq
    <2>3. metadata' \in MetadataRows /\ DOMAIN versions' \subseteq Versions
          /\ versions' \in [DOMAIN versions' -> VersionRows]
      BY DEF TablesTyped
    <2> QED
      BY <2>1, <2>2, <2>3, ObserveOK
  <1>2. req' \in [Requests -> RequestStates]
    <2>1. req' = [x \in Requests |-> req'[x]]
      BY DEF SetReq
    <2>2. \A x \in Requests : req'[x] \in RequestStates
      BY <1>1 DEF RequestOK
    <2> QED
      BY <2>1, <2>2
  <1> QED
    BY <1>1, <1>2 DEF DeployInv, TypeOK, TablesTyped, RequestOK, Running

\* The same for a step that leaves the tables alone.
LEMMA QuietStep ==
  ASSUME DeployInv, NEW r \in Requests, NEW q, SetReq(r, q), UNCHANGED <<tables, admin>>,
         starts' \in Nat, RequestOK(q, versions, stored, keys)
  PROVE  DeployInv'
  <1>1. TablesTyped' /\ TablesOK(metadata', versions', stored') /\ TablesGrow
    BY InvParts DEF tables, TablesTyped, TablesGrow
  <1> QED
    BY <1>1, StepKept DEF tables

\* A request ends with an answer that is not ok and that no query may object to.
LEMMA FailureKept ==
  ASSUME DeployInv, NEW r \in Requests, Running(r), UNCHANGED <<tables, counters>>,
         NEW status \in {"denied", "error", "not_found", "unavailable"}, Ends(r, status),
         req[r].kind = "query" => \/ status \in {"denied", "error"}
                                \/ ~(req[r].version = Latest /\ req[r].steady)
  PROVE  DeployInv'
  <1>1. RequestOK(req[r], versions, stored, keys)
    BY InvParts
  <1>2. req[r].kind = "query" => QueryAnswered([req[r] EXCEPT !.status = status])
    BY <1>1 DEF QueryAnswered, RequestOK, RequestStates
  <1>3. RequestOK(Answered(req[r], status), versions, stored, keys)
    BY <1>1, <1>2, AnsweredOK
  <1> QED
    BY <1>3, QuietStep, InvParts DEF Ends, counters, TablesTyped

\* What the invariant says of a request that is at a statement of its program.
LEMMA AtFacts ==
  ASSUME DeployInv, NEW r \in Requests, NEW step, At(r, step)
  PROVE  /\ req[r] \in RequestStates /\ Running(r) /\ req[r].status = "running"
         /\ req[r].kind \in Kinds /\ req[r].pc \in 1 .. Len(Program(req[r].kind))
         /\ Program(req[r].kind)[req[r].pc] = step
         /\ req[r].kind # "query" => req[r].version # Latest
         /\ req[r].kind \in {"remote", "upload", "register_version", "promote"}
               => req[r].version \in Versions
         /\ req[r].kind \in {"deploy", "register"} => req[r].storage = Served
         /\ step = "commit" => req[r].files # {}
         /\ step = "version" => req[r].version \in Versions /\ stored[req[r].storage] # {}
         /\ step # "actor" => ~req[r].late
         /\ req[r].kind = "query" => /\ Resolving(req[r], versions, stored)
                                    /\ Observed(req[r], metadata, versions)
         /\ RequestOK(req[r], versions, stored, keys)
  BY InvParts DEF At, Running, RequestOK, Prepared, LateOK, AtStep

\* What no statement of a program changes.
SameRequest(q, p) ==
    /\ q \in RequestStates
    /\ q.status = p.status /\ q.kind = p.kind /\ q.pc = p.pc /\ q.version = p.version
    /\ q.storage = p.storage /\ q.key = p.key

\* A statement of a request other than a query succeeds.
LEMMA GoesKept ==
  ASSUME DeployInv, NEW r \in Requests, NEW step, At(r, step), req[r].kind # "query",
         NEW q, SameRequest(q, req[r]), Goes(r, q),
         TablesTyped', TablesOK(metadata', versions', stored'), TablesGrow,
         step = "build" => q.files # {},
         step \in {"exists", "indexed"} => q.version \in Versions /\ stored'[q.storage] # {},
         q.late => step = "commit" /\ q.key \in Keys /\ keys'[q.key].revoked
  PROVE  DeployInv'
  <1>1. SetReq(r, Advanced(q))
    BY DEF Goes, Last, Advanced, SameRequest
  <1>2. RequestOK(Advanced(q), versions', stored', keys')
    BY AtFacts, AdvancedOK DEF SameRequest
  <1> QED
    BY <1>1, <1>2, StepKept

\* The same for a statement that leaves the tables alone.
LEMMA QuietGoes ==
  ASSUME DeployInv, NEW r \in Requests, NEW step, At(r, step), req[r].kind # "query",
         NEW q, SameRequest(q, req[r]), Goes(r, q), UNCHANGED <<tables, counters>>,
         step = "build" => q.files # {},
         step \in {"exists", "indexed"} => q.version \in Versions /\ stored[q.storage] # {},
         ~q.late
  PROVE  DeployInv'
  <1>1. TablesTyped' /\ TablesOK(metadata', versions', stored') /\ TablesGrow /\ stored' = stored
    BY InvParts DEF tables, counters, TablesTyped, TablesGrow
  <1> QED
    BY <1>1, GoesKept

\* The same for a statement that is the last one the request needs.
LEMMA DoneKept ==
  ASSUME DeployInv, NEW r \in Requests, NEW step, At(r, step), step # "actor",
         req[r].kind # "query", Ends(r, "ok"),
         TablesTyped', TablesOK(metadata', versions', stored'), TablesGrow
  PROVE  DeployInv'
  <1>1. Answered(req[r], "ok") = Idle
    BY AtFacts DEF Answered
  <1> QED
    BY <1>1, IdleOK, StepKept DEF Ends

(***************************************************************************)
(* One lemma for each group of actions.                                     *)
(***************************************************************************)
\* The tables start well typed and every request idle.
LEMMA InitInv == Init => DeployInv
  <1> SUFFICES ASSUME Init PROVE DeployInv
    OBVIOUS
  <1>1. metadata \in MetadataRows
    BY DEF Init, NoMetadata, MetadataRows, Visibilities
  <1>2. TablesTyped
    BY <1>1, DeploymentConstants DEF Init, TablesTyped
  <1>3. TablesOK(metadata, versions, stored)
    BY DEF Init, TablesOK, NoMetadata
  <1>4. \A r \in Requests : /\ RequestOK(req[r], versions, stored, keys)
                            /\ Observed(req[r], metadata, versions)
    BY IdleOK DEF Init
  <1>5. req \in [Requests -> RequestStates]
    BY IdleOK DEF Init, RequestOK
  <1> QED
    BY <1>2, <1>3, <1>4, <1>5, InvParts

\* The operator's commands on users and keys.
LEMMA AdminKept ==
  ASSUME DeployInv, CreateOrUpdateUser \/ CreateApiKey \/ RevokeApiKey
  PROVE  DeployInv'
  <1>1. UNCHANGED <<metadata, versions, stored, bundles, claim, req, starts>> /\ admin' = admin + 1
    BY DEF CreateOrUpdateUser, CreateApiKey, RevokeApiKey
  <1>2. users' \in [Users -> Roles]
    BY InvParts DEF TablesTyped, Roles, CreateOrUpdateUser, CreateApiKey, RevokeApiKey
  <1>3. keys' \in [Keys -> KeyRows] /\ \A k \in Keys : keys[k].revoked => keys'[k].revoked
    <2>1. CASE CreateOrUpdateUser
      BY <2>1, InvParts DEF TablesTyped, CreateOrUpdateUser
    <2>2. CASE CreateApiKey
      BY <2>2, InvParts DEF TablesTyped, CreateApiKey, KeyRows, NoKey
    <2>3. CASE RevokeApiKey
      BY <2>3, InvParts DEF TablesTyped, RevokeApiKey, KeyRows
    <2> QED
      BY <2>1, <2>2, <2>3
  <1>4. TablesTyped' /\ TablesOK(metadata', versions', stored')
    BY <1>1, <1>2, <1>3, InvParts DEF TablesTyped
  <1>5. \A r \in Requests : RequestOK(req'[r], versions', stored', keys')
    BY <1>1, <1>3, InvParts, GrowthKeepsRequest
  <1>6. \A r \in Requests : Observed(req'[r], metadata', versions')
    BY <1>1, InvParts
  <1>7. req' \in [Requests -> RequestStates]
    BY <1>1, InvParts
  <1> QED
    BY <1>4, <1>5, <1>6, <1>7 DEF DeployInv, TypeOK, TablesTyped, RequestOK, Running

\* A request starts: it has established nothing and nothing is asked of it.
LEMMA StartKept ==
  ASSUME DeployInv, NEW r \in Requests, Start(r)
  PROVE  DeployInv'
  <1> DEFINE Begun(i) == [Idle EXCEPT
                       !.kind = i.kind, !.key = i.key, !.version = i.version,
                       !.visibility = i.visibility, !.promote = i.promote,
                       !.storage = i.storage, !.email = i.email,
                       !.steady = i.kind = "query", !.status = "running"]
  <1>1. PICK i \in Inputs : SetReq(r, Begun(i))
    BY DEF Start
  <1>2. Acceptable(i)
    BY DeploymentConstants
  <1> DEFINE q == Begun(i)
  <1>3. /\ q.kind = i.kind /\ q.version = i.version /\ q.storage = i.storage /\ q.pc = 1
        /\ q.status = "running" /\ q.late = FALSE
    BY DEF Idle
  <1>4. q \in RequestStates
    <2> DEFINE steady == i.kind = "query"
    <2>1. steady \in BOOLEAN
      OBVIOUS
    <2>2. /\ i.kind \in Kinds /\ i.key \in Keys \cup {NoOne, Bootstrap}
          /\ i.version \in Labels /\ i.visibility \in Visibilities /\ i.promote \in BOOLEAN
          /\ i.storage \in Storages /\ i.email \in Users \cup {NoOne}
      BY <1>2 DEF Acceptable, Labels, Kinds
    <2>3. Idle \in RequestStates
      BY IdleOK DEF RequestOK
    <2> HIDE DEF steady
    <2>4. [Idle EXCEPT !.kind = i.kind, !.key = i.key, !.version = i.version,
                       !.visibility = i.visibility, !.promote = i.promote,
                       !.storage = i.storage, !.email = i.email,
                       !.steady = steady, !.status = "running"] \in RequestStates
      BY <2>1, <2>2, <2>3 DEF RequestStates
    <2> QED
      BY <2>4 DEF steady
  <1> HIDE DEF q
  <1>5. 1 \in 1 .. Len(Program(i.kind)) /\ Program(i.kind)[1] \notin {"commit", "version"}
    <2>1. i.kind \in Kinds
      BY <1>2 DEF Acceptable
    <2> QED
      BY <2>1, Beginnings
  <1>6. Prepared(q, stored) /\ LateOK(q, keys)
    BY <1>2, <1>3, <1>5, DeploymentConstants DEF Prepared, LateOK, AtStep, Acceptable, Kinds
  <1>7. q.kind = "query" => Resolving(q, versions, stored) /\ QueryAnswered(q)
    BY <1>2, <1>3 DEF Resolving, QueryAnswered, Acceptable
  <1>8. RequestOK(q, versions, stored, keys)
    BY <1>2, <1>3, <1>4, <1>5, <1>6, <1>7 DEF RequestOK, Acceptable
  <1>9. starts' \in Nat /\ UNCHANGED <<tables, admin>>
    BY InvParts DEF Start, TablesTyped
  <1> QED
    BY <1>1, <1>8, <1>9, QuietStep DEF q

\* The statements of a deploy up to the end of its sync.
LEMMA DeployKept ==
  ASSUME DeployInv, NEW r \in Requests,
         \/ VerifyKey(r) \/ Authorize(r) \/ ClearBundle(r) \/ UploadBundle(r)
         \/ TakeLock(r) \/ ReadBuild(r) \/ CommitSync(r)
  PROVE  DeployInv'
  <1>0. \A s \in {"verify", "authorize", "clear", "upload", "lock", "build", "commit"} :
          At(r, s) => req[r].kind # "query" /\ req[r].kind \in Kinds
    BY AtFacts DEF Program
  <1>1. CASE VerifyKey(r)
    <2>1. At(r, "verify") /\ UNCHANGED <<tables, counters>>
      BY <1>1 DEF VerifyKey
    <2>2. CASE Ends(r, "denied")
      BY <2>1, <2>2, FailureKept, AtFacts
    <2>3. CASE Goes(r, req[r])
      BY <2>1, <2>3, <1>0, QuietGoes, AtFacts DEF SameRequest
    <2>4. CASE req[r].key \in Keys /\ Goes(r, [req[r] EXCEPT !.user = keys[req[r].key].user])
      <3> DEFINE q == [req[r] EXCEPT !.user = keys[req[r].key].user]
      <3>1. keys[req[r].key].user \in Users \cup {NoOne}
        BY <2>4, InvParts DEF TablesTyped, KeyRows
      <3>2. SameRequest(q, req[r]) /\ ~q.late
        BY <2>1, <3>1, AtFacts DEF SameRequest, RequestStates
      <3> HIDE DEF q
      <3>3. Goes(r, q)
        BY <2>4 DEF q
      <3> QED
        BY <2>1, <3>2, <3>3, <1>0, QuietGoes
    <2> QED
      BY <1>1, <2>2, <2>3, <2>4 DEF VerifyKey, Verifies
  <1>2. CASE Authorize(r)
    <2>1. At(r, "authorize") /\ UNCHANGED <<tables, counters>>
      BY <1>2 DEF Authorize
    <2>2. CASE Ends(r, "denied")
      BY <2>1, <2>2, FailureKept, AtFacts
    <2>3. CASE Goes(r, req[r])
      BY <2>1, <2>3, <1>0, QuietGoes, AtFacts DEF SameRequest
    <2> QED
      BY <1>2, <2>2, <2>3 DEF Authorize
  <1>3. CASE ClearBundle(r) \/ UploadBundle(r)
    <2>1. PICK step \in {"clear", "upload"} : At(r, step)
      BY <1>3 DEF ClearBundle, UploadBundle
    <2>2. Goes(r, req[r]) /\ UNCHANGED <<users, keys, metadata, versions, stored, claim, counters>>
      BY <1>3 DEF ClearBundle, UploadBundle
    <2>3. bundles' \in [Versions -> SUBSET Requests]
      <3>1. bundles \in [Versions -> SUBSET Requests]
        BY InvParts DEF TablesTyped
      <3>2. CASE ClearBundle(r)
        BY <3>1, <3>2 DEF ClearBundle
      <3>3. CASE UploadBundle(r)
        <4>1. PICK others \in {{}, bundles[req[r].version]} :
                 bundles' = [bundles EXCEPT ![req[r].version] = others \cup {r}]
          BY <3>3 DEF UploadBundle
        <4> QED
          BY <3>1, <4>1
      <3> QED
        BY <1>3, <3>2, <3>3
    <2>4. TablesTyped' /\ TablesOK(metadata', versions', stored') /\ TablesGrow
      BY <2>2, <2>3, InvParts DEF TablesTyped, TablesGrow, counters
    <2> QED
      BY <2>1, <2>2, <2>4, <1>0, GoesKept, AtFacts DEF SameRequest
  <1>4. CASE TakeLock(r)
    <2>1. At(r, "lock") /\ UNCHANGED <<tables, counters>>
      BY <1>4 DEF TakeLock
    <2>2. CASE Ends(r, "error")
      BY <2>1, <2>2, FailureKept, AtFacts
    <2>3. CASE Goes(r, req[r])
      BY <2>1, <2>3, <1>0, QuietGoes, AtFacts DEF SameRequest
    <2> QED
      BY <1>4, <2>2, <2>3 DEF TakeLock
  <1>5. CASE ReadBuild(r)
    <2> DEFINE files == IF req[r].kind = "deploy" THEN {r} ELSE bundles[req[r].version]
               q == [req[r] EXCEPT !.files = files]
    <2>1. At(r, "build") /\ UNCHANGED <<tables, counters>>
      BY <1>5 DEF ReadBuild
    <2>2. CASE Ends(r, "error")
      BY <2>1, <2>2, FailureKept, AtFacts
    <2>3. CASE files # {} /\ Goes(r, q)
      <3>1. req[r].kind = "remote" \/ req[r].kind = "deploy"
        BY <2>1, AtFacts DEF Program, Kinds
      <3>2. files \in SUBSET Requests
        BY <2>1, <3>1, AtFacts, InvParts DEF TablesTyped
      <3> HIDE DEF files
      <3>3. SameRequest(q, req[r]) /\ ~q.late /\ q.files = files
        BY <2>1, <3>2, AtFacts DEF SameRequest, RequestStates
      <3> HIDE DEF q
      <3> QED
        BY <2>1, <2>3, <3>3, <1>0, QuietGoes
    <2> QED
      BY <1>5, <2>2, <2>3 DEF ReadBuild
  <1>6. CASE CommitSync(r)
    <2> DEFINE late == req[r].key \in Keys /\ keys[req[r].key].revoked
               q == [req[r] EXCEPT !.late = late]
    <2>1. At(r, "commit") /\ UNCHANGED <<users, keys, metadata, versions, bundles, claim, counters>>
      BY <1>6 DEF CommitSync
    <2>2. PICK kept \in {{}, stored[req[r].storage]} :
             stored' = [stored EXCEPT ![req[r].storage] = kept \cup req[r].files]
      BY <1>6 DEF CommitSync
    <2>3. /\ stored \in [Storages -> SUBSET Requests] /\ req[r].storage \in Storages
          /\ req[r].files \in SUBSET Requests /\ req[r].files # {}
      BY <2>1, AtFacts, InvParts DEF TablesTyped, RequestStates
    <2>4. stored' \in [Storages -> SUBSET Requests] /\ \A s \in Storages : stored[s] # {} => stored'[s] # {}
      BY <2>2, <2>3
    <2>5. TablesTyped' /\ TablesGrow
      BY <2>1, <2>4, InvParts DEF TablesTyped, TablesGrow, counters
    <2>6. TablesOK(metadata', versions', stored')
      BY <2>1, <2>4, InvParts DEF TablesOK, TablesTyped, VersionRows
    <2>7. late \in BOOLEAN /\ (late => req[r].key \in Keys /\ keys'[req[r].key].revoked)
      BY <2>1, InvParts DEF TablesTyped, KeyRows
    <2>8. SameRequest(q, req[r]) /\ (q.late => q.key \in Keys /\ keys'[q.key].revoked)
      <3> HIDE DEF late
      <3> QED
        BY <2>1, <2>7, AtFacts DEF SameRequest, RequestStates
    <2>9. Goes(r, q)
      BY <1>6 DEF CommitSync
    <2> HIDE DEF q
    <2> QED
      BY <2>1, <2>5, <2>6, <2>8, <2>9, <1>0, GoesKept
  <1> QED
    BY <1>1, <1>2, <1>3, <1>4, <1>5, <1>6

\* Who asks, and the checks before a version is recorded.
LEMMA CheckKept ==
  ASSUME DeployInv, NEW r \in Requests,
         ResolveActor(r) \/ CheckStorage(r) \/ CheckIndexed(r) \/ LoadVersion(r)
  PROVE  DeployInv'
  <1>0. \A s \in {"actor", "exists", "indexed", "load_version"} :
          At(r, s) => req[r].kind # "query" /\ req[r].kind \in Kinds
    BY AtFacts DEF Program
  <1>1. CASE ResolveActor(r)
    <2> DEFINE u == IF req[r].key \in Keys THEN keys[req[r].key].user ELSE NoOne
               q == [req[r] EXCEPT !.owner = Coalesce(req[r].email, u)]
    <2>1. At(r, "actor") /\ UNCHANGED <<tables, counters>>
      BY <1>1 DEF ResolveActor
    <2>2. CASE Ends(r, "error")
      BY <2>1, <2>2, FailureKept, AtFacts
    <2>3. CASE ~(req[r].key \in Keys /\ keys[req[r].key].revoked) /\ Goes(r, q)
      <3>1. Coalesce(req[r].email, u) \in Users \cup {NoOne}
        BY <2>1, AtFacts, InvParts DEF Coalesce, TablesTyped, KeyRows, RequestStates
      <3>2. ~req[r].late
        BY <2>3, InvParts DEF RequestOK, LateOK
      <3> HIDE DEF u
      <3>3. SameRequest(q, req[r]) /\ ~q.late
        BY <2>1, <3>1, <3>2, AtFacts DEF SameRequest, RequestStates
      <3> HIDE DEF q
      <3> QED
        BY <2>1, <2>3, <3>3, <1>0, QuietGoes
    <2> QED
      BY <1>1, <2>2, <2>3 DEF ResolveActor
  <1>2. CASE CheckStorage(r)
    <2>1. At(r, "exists") /\ UNCHANGED <<tables, counters>>
      BY <1>2 DEF CheckStorage
    <2>2. CASE Ends(r, "error")
      BY <2>1, <2>2, FailureKept, AtFacts
    <2>3. CASE stored[req[r].storage] # {} /\ Goes(r, req[r])
      <3>1. req[r].version \in Versions
        BY <2>1, AtFacts, Statements
      <3> QED
        BY <2>1, <2>3, <3>1, <1>0, QuietGoes, AtFacts DEF SameRequest
    <2> QED
      BY <1>2, <2>2, <2>3 DEF CheckStorage
  <1>3. CASE CheckIndexed(r)
    <2>1. At(r, "indexed") /\ UNCHANGED <<tables, counters>>
      BY <1>3 DEF CheckIndexed
    <2>2. CASE Ends(r, "ok")
      <3>1. TablesTyped' /\ TablesOK(metadata', versions', stored') /\ TablesGrow
        BY <2>1, InvParts DEF tables, counters, TablesTyped, TablesGrow
      <3> QED
        BY <2>1, <2>2, <3>1, <1>0, DoneKept
    <2>3. CASE req[r].version # NoLabel /\ stored[Served] # {} /\ Goes(r, req[r])
      <3>1. req[r].kind \in {"deploy", "register"}
        BY <2>1, AtFacts, Statements
      <3>2. req[r].version \in Versions /\ req[r].storage = Served
        BY <2>1, <2>3, <3>1, AtFacts DEF RequestStates, Labels
      <3> QED
        BY <2>1, <2>3, <3>2, <1>0, QuietGoes, AtFacts DEF SameRequest
    <2> QED
      BY <1>3, <2>2, <2>3 DEF CheckIndexed
  <1>4. CASE LoadVersion(r)
    <2> DEFINE visibility == versions[req[r].version].visibility
               owner == versions[req[r].version].owner
               seen == [req[r] EXCEPT !.visibility = visibility]
               q == [seen EXCEPT !.owner = owner]
    <2>1. At(r, "load_version") /\ UNCHANGED <<tables, counters>>
      BY <1>4 DEF LoadVersion
    <2>2. CASE Ends(r, "error")
      BY <2>1, <2>2, FailureKept, AtFacts
    <2>3. CASE req[r].version \in DOMAIN versions /\ Goes(r, q)
      <3>1. visibility \in Visibilities /\ owner \in Users \cup {NoOne}
        BY <2>3, InvParts DEF TablesTyped, VersionRows
      <3> HIDE DEF visibility, owner
      <3>a. SameRequest(seen, req[r]) /\ ~seen.late
        BY <2>1, <3>1, AtFacts DEF SameRequest, RequestStates
      <3> HIDE DEF seen
      <3>2. SameRequest(q, req[r]) /\ ~q.late
        BY <3>1, <3>a DEF SameRequest, RequestStates
      <3> HIDE DEF q
      <3> QED
        BY <2>1, <2>3, <3>2, <1>0, QuietGoes
    <2> QED
      BY <1>4, <2>2, <2>3 DEF LoadVersion
  <1> QED
    BY <1>1, <1>2, <1>3, <1>4

\* The statements that write the version and metadata rows.
LEMMA RecordKept ==
  ASSUME DeployInv, NEW r \in Requests,
         UpsertVersion(r) \/ UpsertAlias(r) \/ SetDeploymentVisibility(r)
  PROVE  DeployInv'
  <1>0. \A s \in {"version", "alias", "set_visibility"} :
          At(r, s) => req[r].kind # "query" /\ req[r].kind \in Kinds
    BY AtFacts DEF Program
  <1>1. CASE UpsertVersion(r)
    <2> DEFINE v   == req[r].version
               row == [storage |-> req[r].storage, visibility |-> req[r].visibility,
                       owner |-> Coalesce(req[r].owner, OwnerOf(v))]
    <2>1. At(r, "version") /\ UNCHANGED <<users, keys, stored, bundles, claim, counters>>
      BY <1>1 DEF UpsertVersion
    <2>2. CASE UNCHANGED <<metadata, versions>> /\ Ends(r, "error")
      BY <2>1, <2>2, FailureKept, AtFacts DEF tables
    <2>3. CASE /\ versions' = [w \in DOMAIN versions \cup {v} |-> IF w = v THEN row ELSE versions[w]]
               /\ UNCHANGED metadata
               /\ IF req[r].promote THEN Goes(r, req[r]) ELSE Ends(r, "ok")
      <3>1. row \in VersionRows
        <4>1. OwnerOf(v) \in Users \cup {NoOne}
          BY InvParts DEF OwnerOf, TablesTyped, VersionRows
        <4> QED
          BY <2>1, <4>1, AtFacts DEF VersionRows, RequestStates, Coalesce
      <3>2. row.storage = req[r].storage /\ v \in Versions /\ stored[req[r].storage] # {}
        BY <2>1, AtFacts
      <3> HIDE DEF row, v
      <3>3. /\ DOMAIN versions' = DOMAIN versions \cup {v}
            /\ \A w \in DOMAIN versions' : versions'[w] = IF w = v THEN row ELSE versions[w]
        BY <2>3
      <3>4. DOMAIN versions' \subseteq Versions /\ versions' \in [DOMAIN versions' -> VersionRows]
        BY <2>3, <3>1, <3>2, <3>3, InvParts DEF TablesTyped
      <3>5. TablesTyped' /\ TablesGrow
        BY <2>1, <2>3, <3>3, <3>4, InvParts DEF TablesTyped, TablesGrow, counters
      <3>6. TablesOK(metadata', versions', stored')
        BY <2>1, <2>3, <3>2, <3>3, InvParts DEF TablesOK
      <3>7. CASE Goes(r, req[r])
        BY <2>1, <3>5, <3>6, <3>7, <1>0, GoesKept, AtFacts DEF SameRequest
      <3>8. CASE Ends(r, "ok")
        BY <2>1, <3>5, <3>6, <3>8, <1>0, DoneKept
      <3> QED
        BY <2>3, <3>7, <3>8
    <2> QED
      BY <1>1, <2>2, <2>3 DEF UpsertVersion
  <1>2. CASE UpsertAlias(r)
    <2>1. At(r, "alias") /\ Goes(r, req[r])
          /\ UNCHANGED <<users, keys, versions, stored, bundles, counters>>
      BY <1>2 DEF UpsertAlias
    <2>2. /\ req[r] \in RequestStates /\ req[r].version # Latest
      BY <2>1, <1>0, AtFacts
    <2>3. metadata' \in MetadataRows /\ metadata'.found
      BY <1>2, <2>2, InvParts
      DEF UpsertAlias, MetadataRows, RequestStates, Labels, Coalesce, TablesTyped
    <2>4. claim' \in Users \cup {NoOne}
      BY <1>2, <2>2, InvParts DEF UpsertAlias, RequestStates, Coalesce, TablesTyped
    <2>5. TablesTyped' /\ TablesGrow /\ TablesOK(metadata', versions', stored')
      BY <2>1, <2>3, <2>4, InvParts DEF TablesTyped, TablesGrow, TablesOK, counters
    <2> QED
      BY <2>1, <2>5, <1>0, GoesKept, AtFacts DEF SameRequest
  <1>3. CASE SetDeploymentVisibility(r)
    <2>1. At(r, "set_visibility") /\ Goes(r, req[r])
          /\ UNCHANGED <<users, keys, versions, stored, bundles, claim, counters>>
      BY <1>3 DEF SetDeploymentVisibility
    <2>2. req[r].visibility \in Visibilities
      BY <2>1, AtFacts DEF RequestStates
    <2>3. metadata' \in MetadataRows /\ metadata'.found
      BY <1>3, <2>2, InvParts DEF SetDeploymentVisibility, MetadataRows, TablesTyped
    <2>4. TablesTyped' /\ TablesGrow /\ TablesOK(metadata', versions', stored')
      BY <2>1, <2>3, InvParts DEF TablesTyped, TablesGrow, TablesOK, counters
    <2> QED
      BY <2>1, <2>4, <1>0, GoesKept, AtFacts DEF SameRequest
  <1> QED
    BY <1>1, <1>2, <1>3

(***************************************************************************)
(* Queries.                                                                 *)
(***************************************************************************)
\* Where a query goes that skips statements.
LEMMA JumpTarget ==
  ASSUME NEW r, NEW q
  PROVE  /\ Jump(r, q, "access") <=> SetReq(r, [q EXCEPT !.pc = 4])
         /\ Jump(r, q, "load") <=> SetReq(r, [q EXCEPT !.pc = 6])
  <1>1. (CHOOSE i \in DOMAIN Program("query") : Program("query")[i] = "access") = 4
    BY DEF Program
  <1>2. (CHOOSE i \in DOMAIN Program("query") : Program("query")[i] = "load") = 6
    BY DEF Program
  <1> QED
    BY <1>1, <1>2 DEF Jump

\* A running query that is moved to a statement, with what it must know there.
LEMMA QueryMoved ==
  ASSUME DeployInv, NEW r \in Requests, NEW step, At(r, step), req[r].kind = "query",
         NEW q \in RequestStates, q.kind = "query", q.status = "running", q.pc \in 1 .. 6,
         ~q.late, Resolving(q, versions, stored), SetReq(r, q), UNCHANGED <<tables, counters>>
  PROVE  DeployInv'
  <1>1. q.kind \in Kinds /\ q.pc \in 1 .. Len(Program(q.kind))
    BY DEF Kinds, Program
  <1>2. Program(q.kind)[q.pc] \notin {"commit", "version"}
    BY DEF Program
  <1>3. RequestOK(q, versions, stored, keys)
    BY <1>1, <1>2 DEF RequestOK, Prepared, LateOK, AtStep, QueryAnswered
  <1>4. starts' \in Nat /\ UNCHANGED <<tables, admin>>
    BY InvParts DEF TablesTyped, counters
  <1> QED
    BY <1>3, <1>4, QuietStep

\* The statements of a query.
LEMMA QueryKept ==
  ASSUME DeployInv, NEW r \in Requests,
         \/ ResolveLabel(r) \/ ResolveRow(r) \/ ConfirmLabel(r) \/ ReadAccess(r)
         \/ CheckQueryKey(r) \/ LoadSnapshot(r)
  PROVE  DeployInv'
  <1> DEFINE p == req[r]
             Moved(pc) == [p EXCEPT !.pc = pc]
  <1>0. PICK step \in {"label", "row", "confirm", "access", "key", "load"} :
           At(r, step) /\ UNCHANGED <<tables, counters>>
    BY DEF ResolveLabel, ResolveRow, ConfirmLabel, ReadAccess, CheckQueryKey, LoadSnapshot
  <1>1. /\ p \in RequestStates /\ p.status = "running" /\ p.kind = "query" /\ p.kind \in Kinds
        /\ p.pc \in 1 .. 6 /\ ~p.late /\ Len(Program(p.kind)) = 6
        /\ Resolving(p, versions, stored) /\ Observed(p, metadata, versions)
        /\ RequestOK(p, versions, stored, keys)
    BY <1>0, AtFacts, Statements
  <1>2. /\ At(r, "label") => p.pc = 1
        /\ At(r, "row") => p.pc = 2
        /\ At(r, "confirm") => p.pc = 3
        /\ At(r, "access") => p.pc = 4
        /\ At(r, "key") => p.pc = 5
        /\ At(r, "load") => p.pc = 6
    BY <1>1, AtFacts, Statements
  <1>3. ASSUME NEW q, Goes(r, q), p.pc # 6
        PROVE  SetReq(r, [q EXCEPT !.pc = @ + 1])
    BY <1>1, <1>3 DEF Goes, Last
  <1>4. ASSUME NEW pc \in 1 .. 6, SetReq(r, Moved(pc)), Resolving(Moved(pc), versions, stored)
        PROVE  DeployInv'
    <2>1. /\ Moved(pc) \in RequestStates /\ Moved(pc).kind = "query" /\ Moved(pc).pc = pc
          /\ Moved(pc).status = "running" /\ ~Moved(pc).late
      BY <1>1 DEF RequestStates
    <2> QED
      BY <1>0, <1>1, <1>4, <2>1, QueryMoved
  <1>5. CASE ResolveLabel(r)
    <2> DEFINE v     == p.version
               label == IF v = Latest /\ metadata.found THEN metadata.label ELSE v
               named == [p EXCEPT !.label = label]
               q     == [named EXCEPT !.pc = @ + 1]
    <2>1. p.pc = 1 /\ p.storage = Served
      BY <1>1, <1>2, <1>5 DEF ResolveLabel, Resolving
    <2>2. CASE label \in {NoLabel, Latest} /\ Jump(r, p, "access")
      <3>1. label = NoLabel \/ (v = Latest /\ ~metadata.found)
        BY <2>2, InvParts, DeploymentConstants DEF TablesTyped, MetadataRows
      <3>2. NoLabel \notin DOMAIN versions
        BY InvParts, DeploymentConstants DEF TablesTyped
      <3>3. Served \in p.named /\ ~(v = Latest /\ p.steady)
        BY <1>1, <3>1, <3>2, InvParts DEF Observed, TablesOK
      <3>4. SetReq(r, Moved(4))
        BY <2>2, JumpTarget
      <3>5. Resolving(Moved(4), versions, stored)
        BY <1>1, <2>1, <3>3 DEF Resolving, RequestStates
      <3> QED
        BY <3>4, <3>5, <1>4
    <2>3. CASE label \notin {NoLabel, Latest} /\ Goes(r, [p EXCEPT !.label = label])
      <3>1. label \in Labels /\ label \in p.labels
        BY <1>1, <2>3, InvParts DEF Observed, TablesTyped, MetadataRows, RequestStates, Labels
      <3>2. v = Latest /\ p.steady => label \in DOMAIN versions
        BY <1>1, <2>3 DEF Observed
      <3>a. Goes(r, named)
        BY <2>3
      <3> HIDE DEF label
      <3>b. /\ named \in RequestStates /\ named.kind = "query" /\ named.status = "running"
            /\ named.pc = 1 /\ ~named.late /\ named.storage = p.storage /\ named.label = label
            /\ named.labels = p.labels /\ named.version = v /\ named.steady = p.steady
        BY <1>1, <2>1, <3>1 DEF RequestStates
      <3> HIDE DEF named
      <3>3. SetReq(r, q)
        BY <1>3, <2>1, <3>a
      <3>4. /\ q \in RequestStates /\ q.kind = "query" /\ q.status = "running" /\ q.pc = 2 /\ ~q.late
            /\ q.storage = p.storage /\ q.label = label /\ q.labels = p.labels
            /\ q.version = v /\ q.steady = p.steady
        BY <3>b DEF RequestStates
      <3> HIDE DEF q
      <3>5. Resolving(q, versions, stored)
        BY <2>1, <3>1, <3>2, <3>4 DEF Resolving
      <3> QED
        BY <1>0, <1>1, <3>3, <3>4, <3>5, QueryMoved
    <2> QED
      BY <1>5, <2>2, <2>3 DEF ResolveLabel
  <1>6. CASE ResolveRow(r)
    <2> DEFINE l == p.label
               q == [p EXCEPT !.storage = versions[l].storage, !.pc = 4]
    <2>1. p.pc = 2 /\ p.storage = Served /\ l \in p.labels
          /\ (p.version = Latest /\ p.steady => l \in DOMAIN versions)
      BY <1>1, <1>2, <1>6 DEF ResolveRow, Resolving
    <2>2. CASE l \in DOMAIN versions /\ Jump(r, [p EXCEPT !.storage = versions[l].storage], "access")
      <3>1. versions[l].storage \in Storages /\ stored[versions[l].storage] # {}
            /\ versions[l].storage \in p.named
        BY <1>1, <2>1, <2>2, InvParts DEF TablesTyped, VersionRows, TablesOK, Observed
      <3>2. SetReq(r, q)
        BY <2>2, JumpTarget
      <3>3. /\ q \in RequestStates /\ q.kind = "query" /\ q.status = "running" /\ q.pc = 4 /\ ~q.late
            /\ q.storage = versions[l].storage /\ q.named = p.named
        BY <1>1, <3>1 DEF RequestStates
      <3> HIDE DEF q
      <3>4. Resolving(q, versions, stored)
        BY <3>1, <3>3 DEF Resolving
      <3> QED
        BY <1>0, <1>1, <3>2, <3>3, <3>4, QueryMoved
    <2>3. CASE l \notin DOMAIN versions /\ Goes(r, p)
      <3>1. SetReq(r, Moved(3))
        BY <1>1, <1>3, <2>1, <2>3 DEF RequestStates
      <3>2. Served \in p.named
        BY <1>1, <2>1, <2>3 DEF Observed
      <3>3. Resolving(Moved(3), versions, stored)
        BY <1>1, <2>1, <2>3, <3>2 DEF Resolving, RequestStates
      <3> QED
        BY <3>1, <3>3, <1>4
    <2> QED
      BY <1>6, <2>2, <2>3 DEF ResolveRow
  <1>7. CASE ConfirmLabel(r)
    <2>1. p.pc = 3 /\ p.storage = Served /\ Served \in p.named /\ ~(p.version = Latest /\ p.steady)
          /\ At(r, "confirm")
      BY <1>1, <1>2, <1>7 DEF ConfirmLabel, Resolving
    <2>2. CASE Goes(r, p)
      <3>1. SetReq(r, Moved(4))
        BY <1>1, <1>3, <2>1, <2>2 DEF RequestStates
      <3>2. Resolving(Moved(4), versions, stored)
        BY <1>1, <2>1 DEF Resolving, RequestStates
      <3> QED
        BY <3>1, <3>2, <1>4
    <2>3. CASE Ends(r, "not_found")
      BY <1>0, <2>1, <2>3, FailureKept, AtFacts
    <2> QED
      BY <1>7, <2>2, <2>3 DEF ConfirmLabel
  <1>8. CASE ReadAccess(r)
    <2> DEFINE row == IF p.version \in DOMAIN versions THEN versions[p.version] ELSE metadata
               owner == row.owner
               owned == [p EXCEPT !.owner = owner]
               q     == [owned EXCEPT !.pc = @ + 1]
    <2>1. p.pc = 4 /\ p.storage \in p.named
          /\ (p.version = Latest /\ p.steady => stored[p.storage] # {})
      BY <1>1, <1>2, <1>8 DEF ReadAccess, Resolving
    <2>2. CASE Jump(r, p, "load")
      <3>1. SetReq(r, Moved(6))
        BY <2>2, JumpTarget
      <3>2. Resolving(Moved(6), versions, stored)
        BY <1>1, <2>1 DEF Resolving, RequestStates
      <3> QED
        BY <3>1, <3>2, <1>4
    <2>3. CASE Goes(r, [p EXCEPT !.owner = row.owner])
      <3>1. owner \in Users \cup {NoOne}
        BY InvParts DEF TablesTyped, VersionRows, MetadataRows
      <3>a. Goes(r, owned)
        BY <2>3
      <3> HIDE DEF owner
      <3>b. /\ owned \in RequestStates /\ owned.kind = "query" /\ owned.status = "running"
            /\ owned.pc = 4 /\ ~owned.late /\ owned.storage = p.storage /\ owned.named = p.named
            /\ owned.version = p.version /\ owned.steady = p.steady
        BY <1>1, <2>1, <3>1 DEF RequestStates
      <3> HIDE DEF owned
      <3>2. SetReq(r, q)
        BY <1>3, <2>1, <3>a
      <3>3. /\ q \in RequestStates /\ q.kind = "query" /\ q.status = "running" /\ q.pc = 5 /\ ~q.late
            /\ q.storage = p.storage /\ q.named = p.named /\ q.version = p.version
            /\ q.steady = p.steady
        BY <3>b DEF RequestStates
      <3> HIDE DEF q
      <3>4. Resolving(q, versions, stored)
        BY <2>1, <3>3 DEF Resolving
      <3> QED
        BY <1>0, <1>1, <3>2, <3>3, <3>4, QueryMoved
    <2> QED
      BY <1>8, <2>2, <2>3 DEF ReadAccess
  <1>9. CASE CheckQueryKey(r)
    <2>1. p.pc = 5 /\ p.storage \in p.named /\ At(r, "key")
          /\ (p.version = Latest /\ p.steady => stored[p.storage] # {})
      BY <1>1, <1>2, <1>9 DEF CheckQueryKey, Resolving
    <2>2. CASE Goes(r, p)
      <3>1. SetReq(r, Moved(6))
        BY <1>1, <1>3, <2>1, <2>2 DEF RequestStates
      <3>2. Resolving(Moved(6), versions, stored)
        BY <1>1, <2>1 DEF Resolving, RequestStates
      <3> QED
        BY <3>1, <3>2, <1>4
    <2>3. CASE Ends(r, "denied")
      BY <1>0, <2>1, <2>3, FailureKept, AtFacts
    <2> QED
      BY <1>9, <2>2, <2>3 DEF CheckQueryKey
  <1>10. CASE LoadSnapshot(r)
    <2>1. p.pc = 6 /\ p.storage \in p.named /\ At(r, "load")
          /\ (p.version = Latest /\ p.steady => stored[p.storage] # {})
      BY <1>1, <1>2, <1>10 DEF LoadSnapshot, Resolving
    <2>2. CASE Goes(r, p)
      <3>1. SetReq(r, Answered(p, "ok"))
        BY <1>1, <2>1, <2>2 DEF Goes, Last
      <3>2. QueryAnswered([p EXCEPT !.status = "ok"])
        BY <1>1, <2>1 DEF QueryAnswered, RequestStates
      <3>3. RequestOK(Answered(p, "ok"), versions, stored, keys)
        BY <1>1, <3>2, AnsweredOK
      <3>4. starts' \in Nat /\ UNCHANGED <<tables, admin>>
        BY <1>0, InvParts DEF TablesTyped, counters
      <3> QED
        BY <3>1, <3>3, <3>4, QuietStep
    <2>3. CASE stored[p.storage] = {} /\ Ends(r, "unavailable")
      BY <1>0, <2>1, <2>3, FailureKept, AtFacts
    <2> QED
      BY <1>10, <2>2, <2>3 DEF LoadSnapshot
  <1> QED
    BY <1>5, <1>6, <1>7, <1>8, <1>9, <1>10

(***************************************************************************)
(* The theorems.                                                            *)
(***************************************************************************)
\* Every step keeps the invariant.
LEMMA NextInv == DeployInv /\ [Next]_vars => DeployInv'
  <1> SUFFICES ASSUME DeployInv, [Next]_vars PROVE DeployInv'
    OBVIOUS
  <1>1. CASE CreateOrUpdateUser \/ CreateApiKey \/ RevokeApiKey
    BY <1>1, AdminKept
  <1>2. ASSUME NEW r \in Requests, FailRequest(r) PROVE DeployInv'
    <2>1. Running(r) /\ Ends(r, "error") /\ UNCHANGED <<tables, counters>>
      BY <1>2 DEF FailRequest, tables
    <2> QED
      BY <2>1, FailureKept
  <1>3. CASE UNCHANGED vars
    BY <1>3, InvParts
    DEF vars, DeployInv, TypeOK, Running
  <1> QED
    BY <1>1, <1>2, <1>3, StartKept, DeployKept, CheckKept, RecordKept, QueryKept DEF Next

\* The invariant holds in every reachable state.
LEMMA InvAlways == Spec => []DeployInv
  <1> QED
    BY InitInv, NextInv, PTL DEF Spec

\* The tables keep rows of their columns' types, a version is recorded only under
\* a label, and a request never leaves its program.
THEOREM TypeCorrect == Spec => []TypeOK
  <1>1. DeployInv => TypeOK
    BY DEF DeployInv
  <1> QED
    BY <1>1, InvAlways, PTL

\* However deploys, registrations and promotions interleave with a GraphQL
\* request's statements, it answers from a storage that its version named
\* meanwhile, and `latest' is never not found while it names a recorded version.
THEOREM LatestIsAnswered == Spec => []LatestAnswered
  <1>1. DeployInv => LatestAnswered
    BY DEF DeployInv, RequestOK, QueryAnswered, LatestAnswered
  <1> QED
    BY <1>1, InvAlways, PTL

\* A deploy whose key was revoked during its sync stops before it records or
\* promotes anything.
THEOREM RevokedKeysStop == Spec => []RevokedKeyPromotesNothing
  <1>1. DeployInv => RevokedKeyPromotesNothing
    BY DEF DeployInv, RequestOK, LateOK, AtStep, RevokedKeyPromotesNothing, At, Running
  <1> QED
    BY <1>1, InvAlways, PTL

\* No command takes a deployment's owner away without naming another.
THEOREM OwnersStay == Spec => ClaimNeverLost
  <1> DEFINE Kept == metadata.owner # NoOne => metadata'.owner # NoOne
  <1>1. ASSUME DeployInv, [Next]_vars PROVE [Kept]_vars
    <2>1. CASE UNCHANGED metadata
      BY <2>1
    <2>2. ASSUME NEW r \in Requests, UpsertAlias(r) PROVE Kept
      BY <2>2 DEF UpsertAlias, Coalesce
    <2>3. ASSUME NEW r \in Requests, SetDeploymentVisibility(r) PROVE Kept
      BY <2>3, InvParts DEF SetDeploymentVisibility, TablesTyped, MetadataRows
    <2> HIDE DEF Kept
    <2>4. UNCHANGED metadata \/ \E r \in Requests : UpsertAlias(r) \/ SetDeploymentVisibility(r)
      <3>1. CASE CreateOrUpdateUser \/ CreateApiKey \/ RevokeApiKey
        BY <3>1 DEF CreateOrUpdateUser, CreateApiKey, RevokeApiKey
      <3>2. ASSUME NEW r \in Requests,
                   \/ Start(r) \/ VerifyKey(r) \/ Authorize(r) \/ ClearBundle(r)
                   \/ UploadBundle(r) \/ TakeLock(r) \/ ReadBuild(r) \/ CommitSync(r)
                   \/ ResolveActor(r) \/ CheckStorage(r) \/ CheckIndexed(r)
            PROVE  UNCHANGED metadata
        BY <3>2 DEF Start, VerifyKey, Authorize, ClearBundle, UploadBundle, TakeLock, ReadBuild,
                    CommitSync, ResolveActor, CheckStorage, CheckIndexed, tables
      <3>3. ASSUME NEW r \in Requests,
                   \/ UpsertVersion(r) \/ LoadVersion(r) \/ ResolveLabel(r) \/ ResolveRow(r)
                   \/ ConfirmLabel(r) \/ ReadAccess(r) \/ CheckQueryKey(r)
                   \/ LoadSnapshot(r) \/ FailRequest(r)
            PROVE  UNCHANGED metadata
        BY <3>3 DEF UpsertVersion, LoadVersion, ResolveLabel, ResolveRow, ConfirmLabel,
                    ReadAccess, CheckQueryKey, LoadSnapshot, FailRequest, tables
      <3>4. CASE UNCHANGED vars
        BY <3>4 DEF vars
      <3> QED
        BY <1>1, <3>1, <3>2, <3>3, <3>4 DEF Next
    <2> QED
      BY <2>1, <2>2, <2>3, <2>4 DEF Kept
  <1> QED
    BY <1>1, InvAlways, PTL DEF Spec, ClaimNeverLost
=============================================================================
