----------------------------- MODULE Deployments -----------------------------
(***************************************************************************)
(* The control plane of one served deployment: users and API keys, the      *)
(* metadata row behind `latest', the recorded versions, remote deploys that *)
(* upload a bundle, index it and promote it, the CLI's deploy and           *)
(* deployments commands, and GraphQL requests that resolve a version,       *)
(* authorise themselves and load its storage.                               *)
(*                                                                          *)
(* The server runs one thread per connection and every CLI command is its   *)
(* own process.  None of them opens a transaction here: each statement      *)
(* commits by itself, so a request is a sequence of steps (Program) and the *)
(* steps of different requests interleave.                                  *)
(***************************************************************************)
EXTENDS Naturals, Sequences, FiniteSets

CONSTANTS
    Users, Keys, Versions,     \* Versions: labels other than `latest'
    Requests,                  \* connections and command invocations
    Inputs,                    \* what clients and operators may ask for
    InitialRoles,              \* the users table: [Users -> Roles or "none"]
    InitialKeys,               \* the keys table: [Keys -> key row]
    DeployAuthMode,            \* UGRAPH_DEPLOY_AUTH_MODE: "owner" or "open"
    NoOne, NoLabel,
    MaxStarts, MaxAdmin        \* bounds: requests and admin commands

Served == "served"             \* the deployment's own storage
Latest == "latest"
Bootstrap == "bootstrap"       \* UGRAPH_BOOTSTRAP_API_KEY
NoKey == [user |-> NoOne, scopes |-> {}, revoked |-> FALSE]

\* Storage `v' of a label stands for `<deployment>@v'.
Storages == {Served} \cup Versions
Visibilities == {"private", "public"}
Roles == {"none", "member", "admin"}
Scopes == {"deploy", "query"}
KeyRows == [user : Users \cup {NoOne}, scopes : SUBSET Scopes, revoked : BOOLEAN]
Kinds == {"remote", "upload", "deploy", "register", "register_version", "promote",
          "visibility", "query"}

\* The arguments each command line and handler can be given.  The server knows
\* one deployment and refuses every other, so it is not an argument.  A CLI key
\* and --owner-email are optional; `email' is NoOne without it.
Acceptable(i) ==
    /\ i.kind \in Kinds /\ i.storage \in Storages
    /\ i.key \in Keys \cup {NoOne, Bootstrap} /\ i.email \in Users \cup {NoOne}
    /\ i.visibility \in Visibilities /\ i.promote \in BOOLEAN
    /\ CASE i.kind \in {"remote", "upload"} ->
              i.version \in Versions /\ i.storage = i.version /\ i.email = NoOne /\ i.promote
         [] i.kind \in {"deploy", "register"} ->
              i.version \in Versions \cup {NoLabel} /\ i.storage = Served /\ i.promote
         [] i.kind = "register_version" -> i.version \in Versions /\ i.storage \in Storages
         [] i.kind = "promote" -> i.version \in Versions /\ i.key = NoOne
         [] i.kind = "visibility" -> i.version = NoLabel /\ i.key = NoOne
         [] i.kind = "query" ->
              i.version \in Versions \cup {Latest, NoLabel} /\ i.storage = Served

ASSUME DeploymentConstants ==
    /\ InitialRoles \in [Users -> Roles]
    /\ InitialKeys \in [Keys -> KeyRows]
    /\ \A i \in Inputs : Acceptable(i)
    /\ DeployAuthMode \in {"owner", "open"}
    /\ {MaxStarts, MaxAdmin} \subseteq Nat
    /\ {Served, Latest, NoLabel} \cap Versions = {}
    /\ Latest # NoLabel

VARIABLES
    users,      \* ugraph_users: the role of each user
    keys,       \* ugraph_api_keys
    metadata,   \* the deployment's row of ugraph_deployment_metadata
    versions,   \* its rows of ugraph_deployment_versions, by label
    stored,     \* ugraph_deployments: the uploads each storage was indexed from
    bundles,    \* UGRAPH_REMOTE_DEPLOY_DIR/<deployment>/<version>: whose files
    req,        \* the requests under way and their locals
    claim,      \* history: the first owner the metadata named
    starts, admin   \* requests and user or key commands so far

vars == <<users, keys, metadata, versions, stored, bundles, req, claim,
          starts, admin>>
tables == <<users, keys, metadata, versions, stored, bundles, claim>>
counters == <<starts, admin>>

NoMetadata == [found |-> FALSE, label |-> NoLabel, visibility |-> "private",
               owner |-> NoOne]

\* `steady' and `named' are history: whether `latest' has named a recorded
\* version ever since the request began, and every storage that a label it
\* could mean has named meanwhile.
Idle == [kind |-> "none", pc |-> 1, key |-> NoOne, version |-> NoLabel,
         visibility |-> "private", promote |-> FALSE, storage |-> Served,
         user |-> NoOne, email |-> NoOne, owner |-> NoOne, label |-> NoLabel,
         files |-> {}, status |-> "idle", steady |-> FALSE,
         labels |-> {}, named |-> {}, late |-> FALSE]

(***************************************************************************)
(* The statements of each operation, in the order of the code.              *)
(***************************************************************************)
Program(kind) ==
    CASE kind = "remote" -> <<"verify", "authorize", "clear", "upload", "lock", "build",
                              "commit", "actor", "exists", "version", "alias">>
      [] kind = "upload" -> <<"verify", "authorize", "clear", "upload">>
      [] kind = "deploy" -> <<"verify", "lock", "build", "commit", "actor", "alias",
                              "indexed", "version", "alias">>
      [] kind = "register" -> <<"verify", "actor", "alias", "indexed", "version", "alias">>
      [] kind = "register_version" -> <<"verify", "actor", "exists", "version", "alias">>
      [] kind = "promote" -> <<"load_version", "alias">>
      [] kind = "visibility" -> <<"set_visibility">>
      [] kind = "query" -> <<"label", "row", "confirm", "access", "key", "load">>
      [] OTHER -> <<>>

Init ==
    /\ users = InitialRoles
    /\ keys = InitialKeys
    /\ metadata = NoMetadata
    /\ versions = [v \in {} |-> NoLabel]
    /\ stored = [s \in Storages |-> {}]
    /\ bundles = [v \in Versions |-> {}]
    /\ req = [r \in Requests |-> Idle]
    /\ claim = NoOne
    /\ starts = 0 /\ admin = 0

Running(r) == req[r].status = "running"
At(r, step) == Running(r) /\ Program(req[r].kind)[req[r].pc] = step
\* Who holds the indexer lock of a storage: a remote deploy's child until it has
\* committed, the CLI's deploy until it exits.
HoldsLock(r, storage) ==
    /\ Running(r) /\ req[r].storage = storage
    /\ \/ At(r, "build") \/ At(r, "commit")
       \/ req[r].kind = "deploy" /\ req[r].pc > 2

Last(r) == req[r].pc = Len(Program(req[r].kind))

\* The labels and storages a query could still mean, after a step of anyone.
Observe(q, md, vs) ==
    IF q.kind # "query" \/ q.status # "running" THEN q
    ELSE LET labels == q.labels \cup
                       (IF q.version = Latest THEN {md.label} ELSE {q.version})
         IN  [q EXCEPT !.labels = labels,
                       !.steady = @ /\ md.label \in DOMAIN vs,
                       !.named = @ \cup {IF l \in DOMAIN vs THEN vs[l].storage ELSE Served :
                                           l \in labels}]

SetReq(r, q) ==
    req' = [x \in Requests |-> Observe(IF x = r THEN q ELSE req[x], metadata', versions')]

\* What is left of a request that was answered: nothing, unless a property
\* still asks about it.
Answered(q, status) ==
    IF q.kind = "query" \/ (q.late /\ status = "ok") THEN [q EXCEPT !.status = status]
    ELSE Idle

\* The step succeeds: on to the next statement, or the answer.
Goes(r, q) == SetReq(r, IF Last(r) THEN Answered(q, "ok") ELSE [q EXCEPT !.pc = @ + 1])

Ends(r, status) == SetReq(r, Answered(req[r], status))

(***************************************************************************)
(* Users and keys.                                                          *)
(***************************************************************************)
CreateOrUpdateUser ==
    /\ admin < MaxAdmin /\ admin' = admin + 1
    /\ \E u \in Users, role \in {"member", "admin"} :
          users[u] # role /\ users' = [users EXCEPT ![u] = role]
    /\ UNCHANGED <<keys, metadata, versions, stored, bundles, claim, req, starts>>

CreateApiKey ==
    /\ admin < MaxAdmin /\ admin' = admin + 1
    /\ \E k \in Keys, u \in Users, scopes \in (SUBSET Scopes) \ {{}} :
          /\ keys[k] = NoKey /\ users[u] # "none"
          /\ keys' = [keys EXCEPT ![k] = [user |-> u, scopes |-> scopes, revoked |-> FALSE]]
    /\ UNCHANGED <<users, metadata, versions, stored, bundles, claim, req, starts>>

RevokeApiKey ==
    /\ admin < MaxAdmin /\ admin' = admin + 1
    /\ \E k \in Keys :
          /\ keys[k] # NoKey /\ ~keys[k].revoked
          /\ keys' = [keys EXCEPT ![k].revoked = TRUE]
    /\ UNCHANGED <<users, metadata, versions, stored, bundles, claim, req, starts>>

\* verify_api_key_scope: who the key stands for, if it may do this.
Verifies(key, scope) ==
    key \in Keys /\ keys[key] # NoKey /\ ~keys[key].revoked /\ scope \in keys[key].scopes

\* actor_can_access_owner: a bootstrap key has no user and is nobody's owner.
CanAccessOwner(user, owner) ==
    owner = NoOne \/ user = owner \/ (user # NoOne /\ users[user] = "admin")

\* A connection is accepted or a command starts.
Start(r) ==
    /\ req[r].status # "running"
    /\ starts < MaxStarts /\ starts' = starts + 1
    /\ UNCHANGED <<tables, admin>>
    /\ \E i \in Inputs :
          SetReq(r, [Idle EXCEPT
                       !.kind = i.kind, !.key = i.key, !.version = i.version,
                       !.visibility = i.visibility, !.promote = i.promote,
                       !.storage = i.storage, !.email = i.email,
                       !.steady = i.kind = "query", !.status = "running"])

\* verify_deploy_key, and the CLI's optional --api-key.
VerifyKey(r) ==
    /\ At(r, "verify")
    /\ UNCHANGED <<tables, counters>>
    /\ LET k == req[r].key
       IN \/ /\ Verifies(k, "deploy")
             /\ Goes(r, [req[r] EXCEPT !.user = keys[k].user])
          \/ /\ k = Bootstrap \/ (k = NoOne /\ req[r].kind \notin {"remote", "upload"})
             /\ Goes(r, req[r])
          \/ /\ k \in Keys /\ ~Verifies(k, "deploy")
             /\ Ends(r, "denied")
          \/ /\ k = NoOne /\ req[r].kind \in {"remote", "upload"}
             /\ Ends(r, "denied")

\* authorize_remote_deploy.
Authorize(r) ==
    /\ At(r, "authorize")
    /\ UNCHANGED <<tables, counters>>
    /\ IF DeployAuthMode = "open" \/ ~metadata.found
          \/ CanAccessOwner(req[r].user, metadata.owner)
       THEN Goes(r, req[r])
       ELSE Ends(r, "denied")

(***************************************************************************)
(* The bundle and its sync.                                                 *)
(***************************************************************************)
\* remove_dir_all and create_dir_all: whatever another upload put there goes.
ClearBundle(r) ==
    /\ At(r, "clear")
    /\ bundles' = [bundles EXCEPT ![req[r].version] = {}]
    /\ UNCHANGED <<users, keys, metadata, versions, stored, claim>>
    /\ Goes(r, req[r])
    /\ UNCHANGED counters

\* write_remote_bundle_file for every file: over files of the same name, next
\* to others.
UploadBundle(r) ==
    /\ At(r, "upload")
    /\ \E others \in {{}, bundles[req[r].version]} :
          bundles' = [bundles EXCEPT ![req[r].version] = others \cup {r}]
    /\ UNCHANGED <<users, keys, metadata, versions, stored, claim>>
    /\ Goes(r, req[r])
    /\ UNCHANGED counters

\* The sync (a child process, or the CLI itself) takes the storage's lock.
TakeLock(r) ==
    /\ At(r, "lock")
    /\ UNCHANGED <<tables, counters>>
    /\ IF \E x \in Requests : HoldsLock(x, req[r].storage) THEN Ends(r, "error")
       ELSE Goes(r, req[r])

\* It reads manifest, ABIs and WASM; a CLI deploy reads the caller's files.
ReadBuild(r) ==
    /\ At(r, "build")
    /\ UNCHANGED <<tables, counters>>
    /\ LET files == IF req[r].kind = "deploy" THEN {r} ELSE bundles[req[r].version]
       IN  IF files = {} THEN Ends(r, "error") ELSE Goes(r, [req[r] EXCEPT !.files = files])

\* The sync ends: the snapshot is written, on top of the old one or, with
\* --reset, instead of it.
CommitSync(r) ==
    /\ At(r, "commit")
    /\ \E kept \in {{}, stored[req[r].storage]} :
          stored' = [stored EXCEPT ![req[r].storage] = kept \cup req[r].files]
    /\ UNCHANGED <<users, keys, metadata, versions, bundles, claim>>
    /\ Goes(r, [req[r] EXCEPT !.late = req[r].key \in Keys /\ keys[req[r].key].revoked])
    /\ UNCHANGED counters

(***************************************************************************)
(* Recording and promoting versions.                                        *)
(***************************************************************************)
Coalesce(new, old) == IF new # NoOne THEN new ELSE old

\* Fault: the key is looked up without revoked_at is null.
ResolveActorAnyKey(r) ==
    /\ At(r, "actor")
    /\ UNCHANGED <<tables, counters>>
    /\ LET u == IF req[r].key \in Keys THEN keys[req[r].key].user ELSE NoOne
       IN  Goes(r, [req[r] EXCEPT !.owner = Coalesce(req[r].email, u)])

\* resolve_metadata_actor: --owner-email, else the key's user.  The key is
\* looked up once more; one revoked since it was verified fails the command.
ResolveActor(r) ==
    /\ At(r, "actor")
    /\ UNCHANGED <<tables, counters>>
    /\ LET k == req[r].key
           u == IF k \in Keys THEN keys[k].user ELSE NoOne
       IN  IF (req[r].email \in Users /\ users[req[r].email] = "none")
              \/ (k \in Keys /\ keys[k].revoked)
           THEN Ends(r, "error")
           ELSE Goes(r, [req[r] EXCEPT !.owner = Coalesce(req[r].email, u)])

\* Fault: the storage of a version is not looked up.
CheckStorageSkipped(r) ==
    /\ At(r, "exists")
    /\ UNCHANGED <<tables, counters>>
    /\ Goes(r, req[r])

\* record_deployment_version: the storage must have been indexed.
CheckStorage(r) ==
    /\ At(r, "exists")
    /\ UNCHANGED <<tables, counters>>
    /\ IF stored[req[r].storage] # {} THEN Goes(r, req[r]) ELSE Ends(r, "error")

\* Fault: a deploy without a version records one all the same.
CheckIndexedAnyLabel(r) ==
    /\ At(r, "indexed")
    /\ UNCHANGED <<tables, counters>>
    /\ IF stored[Served] = {} THEN Ends(r, "ok") ELSE Goes(r, req[r])

\* record_deployment_metadata: without a version, or with nothing indexed under
\* the deployment's own name, no version is recorded.
CheckIndexed(r) ==
    /\ At(r, "indexed")
    /\ UNCHANGED <<tables, counters>>
    /\ IF req[r].version = NoLabel \/ stored[Served] = {} THEN Ends(r, "ok")
       ELSE Goes(r, req[r])

OwnerOf(label) == IF label \in DOMAIN versions THEN versions[label].owner ELSE NoOne

\* The upsert into ugraph_deployment_versions, whose unique key
\* (deployment, storage_deployment) lets no two labels share a storage.
UpsertVersion(r) ==
    /\ At(r, "version")
    /\ LET v   == req[r].version
           row == [storage |-> req[r].storage, visibility |-> req[r].visibility,
                   owner |-> Coalesce(req[r].owner, OwnerOf(v))]
       IN  IF \E w \in DOMAIN versions : w # v /\ versions[w].storage = req[r].storage
           THEN UNCHANGED <<metadata, versions>> /\ Ends(r, "error")
           ELSE /\ versions' = [w \in DOMAIN versions \cup {v} |->
                                  IF w = v THEN row ELSE versions[w]]
                /\ UNCHANGED metadata
                /\ IF req[r].promote THEN Goes(r, req[r]) ELSE Ends(r, "ok")
    /\ UNCHANGED <<users, keys, stored, bundles, claim, counters>>

\* promote_deployment_version: the row as it is now decides what the alias will
\* say (promoted_at is set in between and read by nothing here).
LoadVersion(r) ==
    /\ At(r, "load_version")
    /\ UNCHANGED <<tables, counters>>
    /\ LET v == req[r].version
       IN  IF v \in DOMAIN versions
           THEN Goes(r, [req[r] EXCEPT !.visibility = versions[v].visibility,
                                       !.owner = versions[v].owner])
           ELSE Ends(r, "error")

\* Fault: the upsert overwrites the owner with what the command brought.
UpsertAliasOverwrites(r) ==
    /\ At(r, "alias")
    /\ metadata' = [found |-> TRUE, label |-> req[r].version,
                    visibility |-> req[r].visibility, owner |-> req[r].owner]
    /\ claim' = Coalesce(claim, req[r].owner)
    /\ UNCHANGED <<users, keys, versions, stored, bundles>>
    /\ Goes(r, req[r])
    /\ UNCHANGED counters

\* The upsert into ugraph_deployment_metadata, the same in every command.
UpsertAlias(r) ==
    /\ At(r, "alias")
    /\ metadata' = [found |-> TRUE, label |-> req[r].version,
                    visibility |-> req[r].visibility,
                    owner |-> Coalesce(req[r].owner, metadata.owner)]
    /\ claim' = Coalesce(claim, req[r].owner)
    /\ UNCHANGED <<users, keys, versions, stored, bundles>>
    /\ Goes(r, req[r])
    /\ UNCHANGED counters

SetDeploymentVisibility(r) ==
    /\ At(r, "set_visibility")
    /\ metadata' = [metadata EXCEPT !.found = TRUE, !.visibility = req[r].visibility]
    /\ UNCHANGED <<users, keys, versions, stored, bundles, claim>>
    /\ Goes(r, req[r])
    /\ UNCHANGED counters

(***************************************************************************)
(* A GraphQL request.                                                       *)
(***************************************************************************)
Jump(r, q, step) ==
    SetReq(r, [q EXCEPT !.pc = CHOOSE i \in DOMAIN Program("query") :
                                  Program("query")[i] = step])

\* resolve_graphql_store and resolve_deployment_storage: the plain endpoint and
\* a deployment without a label mean the deployment's own storage.
ResolveLabel(r) ==
    /\ At(r, "label")
    /\ UNCHANGED <<tables, counters>>
    /\ LET v     == req[r].version
           label == IF v = Latest /\ metadata.found THEN metadata.label ELSE v
       IN  IF label \in {NoLabel, Latest}
           THEN Jump(r, req[r], "access")
           ELSE Goes(r, [req[r] EXCEPT !.label = label])

ResolveRow(r) ==
    /\ At(r, "row")
    /\ UNCHANGED <<tables, counters>>
    /\ LET l == req[r].label
       IN  IF l \in DOMAIN versions
           THEN Jump(r, [req[r] EXCEPT !.storage = versions[l].storage], "access")
           ELSE Goes(r, req[r])

\* A label without a row is good if the metadata still has it.
ConfirmLabel(r) ==
    /\ At(r, "confirm")
    /\ UNCHANGED <<tables, counters>>
    /\ IF metadata.found /\ metadata.label = req[r].label THEN Goes(r, req[r])
       ELSE Ends(r, "not_found")

\* graphql_deployment_access: the version's row for an explicit version, the
\* metadata otherwise, and public without either.
ReadAccess(r) ==
    /\ At(r, "access")
    /\ UNCHANGED <<tables, counters>>
    /\ LET row == IF req[r].version \in DOMAIN versions THEN versions[req[r].version]
                  ELSE metadata
       IN  IF row.visibility = "public" \/ row = NoMetadata
           THEN Jump(r, req[r], "load")
           ELSE Goes(r, [req[r] EXCEPT !.owner = row.owner])

\* graphql_authorized: a private deployment needs a query key of its owner, or
\* of an admin.
CheckQueryKey(r) ==
    /\ At(r, "key")
    /\ UNCHANGED <<tables, counters>>
    /\ IF Verifies(req[r].key, "query") /\ CanAccessOwner(keys[req[r].key].user, req[r].owner)
       THEN Goes(r, req[r])
       ELSE Ends(r, "denied")

\* load_snapshot_for_graphql, healthz and metrics: a storage that was never
\* indexed is 503.
LoadSnapshot(r) ==
    /\ At(r, "load")
    /\ UNCHANGED <<tables, counters>>
    /\ IF stored[req[r].storage] # {} THEN Goes(r, req[r]) ELSE Ends(r, "unavailable")

\* Any ? of the path: a lost connection, a failed statement, a child that exits
\* with an error, a process that dies.
FailRequest(r) ==
    /\ Running(r)
    /\ UNCHANGED <<users, keys, metadata, versions, stored, bundles, claim, counters>>
    /\ Ends(r, "error")

Next ==
    \/ CreateOrUpdateUser \/ CreateApiKey \/ RevokeApiKey
    \/ \E r \in Requests :
         \/ Start(r) \/ VerifyKey(r) \/ Authorize(r) \/ ClearBundle(r) \/ UploadBundle(r)
         \/ TakeLock(r) \/ ReadBuild(r) \/ CommitSync(r) \/ ResolveActor(r)
         \/ CheckStorage(r) \/ CheckIndexed(r) \/ UpsertVersion(r) \/ LoadVersion(r)
         \/ UpsertAlias(r) \/ SetDeploymentVisibility(r) \/ ResolveLabel(r)
         \/ ResolveRow(r) \/ ConfirmLabel(r) \/ ReadAccess(r) \/ CheckQueryKey(r)
         \/ LoadSnapshot(r) \/ FailRequest(r)

Spec == Init /\ [][Next]_vars

(***************************************************************************)
(* Properties.                                                              *)
(***************************************************************************)
MetadataRows == [found : BOOLEAN, label : Versions \cup {NoLabel},
                 visibility : Visibilities, owner : Users \cup {NoOne}]
VersionRows == [storage : Storages, visibility : Visibilities, owner : Users \cup {NoOne}]
Labels == Versions \cup {Latest, NoLabel}
RequestStates ==
    [kind : Kinds \cup {"none"}, pc : Nat, key : Keys \cup {NoOne, Bootstrap},
     version : Labels, visibility : Visibilities, promote : BOOLEAN, storage : Storages,
     user : Users \cup {NoOne}, email : Users \cup {NoOne}, owner : Users \cup {NoOne},
     label : Labels, files : SUBSET Requests,
     status : {"idle", "running", "ok", "denied", "error", "not_found", "unavailable"},
     steady : BOOLEAN, labels : SUBSET Labels, named : SUBSET Storages, late : BOOLEAN]

\* The tables hold rows of their columns' types (no version row without a label,
\* although a deploy may come without one), and a running request is inside its
\* program.
TypeOK ==
    /\ users \in [Users -> Roles]
    /\ keys \in [Keys -> KeyRows]
    /\ metadata \in MetadataRows
    /\ DOMAIN versions \subseteq Versions /\ versions \in [DOMAIN versions -> VersionRows]
    /\ stored \in [Storages -> SUBSET Requests]
    /\ bundles \in [Versions -> SUBSET Requests]
    /\ req \in [Requests -> RequestStates]
    /\ \A r \in Requests : Running(r) => req[r].pc \in 1 .. Len(Program(req[r].kind))
    /\ claim \in Users \cup {NoOne}
    /\ starts \in Nat /\ admin \in Nat

\* The answer to a GraphQL request is the data of a storage that the version it
\* asked for named while it ran; and as long as `latest' names a recorded
\* version, a request for it is never told that there is no such version or no
\* data, however deploys and promotions interleave with its statements.
LatestAnswered ==
    \A r \in Requests :
        req[r].kind = "query" =>
            /\ req[r].status = "ok" => req[r].storage \in req[r].named
            /\ req[r].version = Latest /\ req[r].steady
                 => req[r].status \notin {"not_found", "unavailable"}

\* A key that was revoked before its deploy's sync ended records and promotes
\* nothing, although it was valid when the deploy began.
RevokedKeyPromotesNothing ==
    \A r \in Requests : req[r].late => At(r, "actor")

\* Once a deployment has an owner no command leaves it without one.
ClaimNeverLost == [][metadata.owner # NoOne => metadata'.owner # NoOne]_vars

\* Under UGRAPH_DEPLOY_AUTH_MODE=owner whoever first claimed the deployment may
\* go on deploying it.
FirstOwnerMayDeploy ==
    DeployAuthMode = "owner" /\ claim # NoOne => CanAccessOwner(claim, metadata.owner)
=============================================================================
