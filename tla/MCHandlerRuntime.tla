-------------------------- MODULE MCHandlerRuntime --------------------------
(***************************************************************************)
(* An instance of HandlerRuntime: one entity type with a counter, an        *)
(* optional list and a derived field, and handlers of up to two host calls. *)
(***************************************************************************)
EXTENDS HandlerRuntime, TLC

CONSTANTS main, pool, c1, c2

MCIds == {"0xa"}
MCLower == [i \in {"0xa", "0xA", "0xb"} |-> IF i = "0xA" THEN "0xa" ELSE i]

Field(kind, required, list, derived) ==
    [kind |-> kind, required |-> required, list |-> list, derived |-> derived]

MCEntityType ==
    ("id" :> Field("ID", TRUE, FALSE, FALSE)) @@ ("total" :> Field("BigInt", TRUE, FALSE, FALSE))
    @@ ("tags" :> Field("String", FALSE, TRUE, FALSE)) @@ ("swaps" :> Field("Swap", TRUE, TRUE, TRUE))

Value(kind, v, items) == [kind |-> kind, v |-> v, items |-> items]
Whole == ("id" :> Value("Bytes", "0xA", {})) @@ ("total" :> Value("BigInt", 0, {}))
         @@ ("tags" :> Value("Array", 0, {"String"}))
Partial == "id" :> Value("String", "0xa", {})
Holes   == ("tags" :> Value("Array", 0, {"String", "Null"})) @@ Whole
Foreign == ("id" :> Value("String", "0xb", {})) @@ ("swaps" :> Value("Array", 0, {}))
           @@ Whole

MCPayloads == {Whole, Partial, Holes, Foreign}
=============================================================================
