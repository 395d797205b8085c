------------------------------- MODULE MCQuery -------------------------------
(***************************************************************************)
(* Accounts and the tokens that point to them: two tokens tie on the amount *)
(* they are ordered by, one spells its owner in another case, amounts need  *)
(* numeric comparison, one has none, and one is filtered out.  In one store *)
(* two accounts differ in the case of their ids only.                       *)
(***************************************************************************)
EXTENDS QuerySession

MCTexts == {"0xA", "0xa", "10", "2", "t1", "t2", "t3"}
MCLex == [x \in MCTexts |-> CASE x = "0xA" -> 1 [] x = "0xa" -> 2 [] x = "10" -> 3
                              [] x = "2" -> 4 [] x = "t1" -> 5 [] x = "t2" -> 6 [] x = "t3" -> 7]
MCDecimal == [x \in {"10", "2"} |-> IF x = "10" THEN 10 ELSE 2]
MCFold == [x \in MCTexts |-> IF x = "0xA" THEN "0xa" ELSE x]
MCHexish == {"0xA", "0xa"}
MCInside == {<<x, x>> : x \in MCTexts}

Scalar(kind) == [kind |-> kind, list |-> FALSE, derived |-> FALSE, from |-> <<>>]
MCSchema ==
    [t \in {"Account", "Token"} |->
       IF t = "Account"
       THEN [n \in {<<"id">>, <<"tokens">>} |->
               IF n = <<"id">> THEN Scalar("ID")
               ELSE [kind |-> "Token", list |-> TRUE, derived |-> TRUE, from |-> <<"owner">>]]
       ELSE [n \in {<<"id">>, <<"amount">>, <<"owner">>} |->
               CASE n = <<"id">> -> Scalar("ID") [] n = <<"amount">> -> Scalar("BigInt")
                 [] OTHER -> Scalar("Account")]]

Account(id) == [type |-> "Account", id |-> id, data |-> [n \in {<<"id">>} |-> Text(id)]]
Token(id, amount, owner) ==
    [type |-> "Token", id |-> id,
     data |-> [n \in {<<"id">>, <<"owner">>} \cup (IF amount = "" THEN {} ELSE {<<"amount">>}) |->
                 CASE n = <<"id">> -> Text(id) [] n = <<"owner">> -> Text(owner)
                   [] OTHER -> Text(amount)]]

MCEntityLists ==
    { <<Account("0xA"), Account("0xa"), Token("t1", "2", "0xA"), Token("t2", "10", "0xa"), Token("t3", "2", "t1")>>,
      <<Account("0xa"), Account("t1"), Token("t2", "2", "t1"), Token("t3", "", "0xA")>> }

\* tokens(orderBy: amount, orderDirection: desc, where: {or: [{owner_not: t2}, {owner_: {id: 0xa}}]})
\*   { id owner { id tokens(first: 1) } }
MCListing ==
    Field(<<"Token", "all">>,
          [a \in {"orderBy", "desc", "where"} |->
             CASE a = "orderBy" -> [relations |-> <<>>, field |-> <<"amount">>]
               [] a = "desc" -> TRUE
               [] OTHER -> <<[key |-> <<"or">>, value |-> List(<<
                      <<[key |-> <<"amount", "gte">>, value |-> Text("2")]>>,
                      <<[key |-> <<"owner", "">>,
                         value |-> Object(<<[key |-> <<"id">>, value |-> Text("0xa")]>>)]>> >>)]>>],
          <<Field(<<"id">>, <<>>, <<>>),
            Field(<<"owner">>, <<>>,
                  <<Field(<<"id">>, <<>>, <<>>),
                    Field(<<"tokens">>, [a \in {"first"} |-> 1], <<>>)>>)>>)
=============================================================================
