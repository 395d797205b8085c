---------------------------- MODULE MCDeployments ----------------------------
EXTENDS Deployments, TLC
CONSTANTS u1, u2, k1, k2, r1, r2

MCRoles == [u \in Users |-> IF u = u1 THEN "member" ELSE "admin"]
OneKey  == [k \in Keys |-> IF k = k1 THEN [user |-> u1, scopes |-> Scopes, revoked |-> FALSE]
                           ELSE NoKey]
TwoKeys == [k \in Keys |-> [user |-> IF k = k1 THEN u1 ELSE u2, scopes |-> Scopes,
                            revoked |-> FALSE]]

Input(kind, key, version, storage) ==
    [kind |-> kind, key |-> key, version |-> version, storage |-> storage,
     visibility |-> "private", promote |-> TRUE, email |-> NoOne]
Query(key, version) == Input("query", key, version, Served)
Public(i) == [i EXCEPT !.visibility = "public"]

\* One or two representatives of every command.
MCInputs ==
    {Input("remote", k1, "v1", "v1"), Input("remote", Bootstrap, "v2", "v2"),
     Input("upload", NoOne, "v1", "v1"),
     Input("deploy", NoOne, "v1", Served), Input("deploy", k1, NoLabel, Served),
     Public(Input("register", NoOne, "v1", Served)),
     Input("register_version", NoOne, "v1", "v2"),
     [Input("register_version", k1, "v2", Served) EXCEPT !.promote = FALSE, !.email = u2],
     Input("promote", NoOne, "v1", Served), Input("promote", NoOne, "v2", Served),
     Public(Input("visibility", NoOne, NoLabel, Served)),
     Query(k1, Latest), Query(k1, "v1"), Query(NoOne, NoLabel)}

\* Only remote deploys, by a member and by an admin.
RemoteInputs == {Input("remote", k, v, v) : k \in Keys, v \in Versions}
RequestSymmetry == Permutations(Requests)
=============================================================================
