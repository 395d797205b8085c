-------------------------------- MODULE Query --------------------------------
(***************************************************************************)
(* The GraphQL engine of ugraph-service: how a document becomes root        *)
(* fields, which snapshot a field reads, and how entities are filtered,     *)
(* ordered, paged, related and projected.                                   *)
(*                                                                          *)
(* A text (an id, a number, any string) is a member of Texts and is known   *)
(* by what the engine can tell of it: its place in the order of strings,    *)
(* the integer it spells, its case-folded form and what it contains.  A     *)
(* name is the sequence of its parts between underscores, so that the       *)
(* filter suffixes are what they are in the code.  A document is its parse  *)
(* tree with fragments, variables and directives still in it.               *)
(***************************************************************************)
EXTENDS SyncCore

CONSTANTS
    Texts,
    Lex,          \* [Texts -> Nat]: the order of strings
    Decimal,      \* the value of every text that is_decimal
    Fold,         \* [Texts -> Texts]: to_ascii_lowercase
    Hexish,       \* texts that start with 0x
    Inside,       \* <<part, whole>>: contains, starts_with and ends_with alike
    Schema        \* [type -> [field name -> [kind, list, derived, from]]]

ASSUME QueryConstants ==
    /\ \A x, y \in Texts : Lex[x] = Lex[y] => x = y
    /\ DOMAIN Decimal \subseteq Texts
    /\ \A x \in Texts : Fold[x] \in Texts /\ Fold[Fold[x]] = Fold[x]
    /\ Hexish \subseteq Texts /\ Inside \subseteq Texts \X Texts

\* JSON values, and a field that is not there.
Text(x) == [t |-> "text", v |-> x]
Array(s) == [t |-> "array", v |-> s]
Null == [t |-> "null"]
Missing == [t |-> "missing"]
Object(where) == [t |-> "object", v |-> where]
List(wheres) == [t |-> "list", v |-> wheres]

(***************************************************************************)
(* Documents: parse_fields over fragments, variables and directives.        *)
(***************************************************************************)
\* A directive argument is a literal or a variable.
Condition(d, variables) == IF d.var = "" THEN d.value
                           ELSE IF d.var \in DOMAIN variables THEN variables[d.var]
                           ELSE "null"

\* directives_include: @skip(if: true) and @include(if: false) leave it out.
DirectivesInclude(directives, variables) ==
    \A d \in directives :
        ~ \/ d.name = "skip" /\ Condition(d, variables) = "true"
          \/ d.name = "include" /\ Condition(d, variables) = "false"

RECURSIVE ParseFields(_, _, _)

\* The fields of a selection: spreads and inline fragments are replaced by
\* their fields, whatever their type condition says.
ParseFields(selection, variables, fragments) ==
    IF selection = <<>> THEN <<>>
    ELSE LET item == Head(selection)
             keep == DirectivesInclude(item.directives, variables)
             here == CASE ~keep -> <<>>
                       [] item.item = "spread" -> ParseFields(fragments[item.name], variables, fragments)
                       [] item.item = "inline" -> ParseFields(item.selection, variables, fragments)
                       [] OTHER -> <<[response |-> item.response, name |-> item.name,
                                      args |-> item.args,
                                      selection |-> ParseFields(item.selection, variables, fragments)]>>
         IN  here \o ParseFields(Tail(selection), variables, fragments)

RECURSIVE Parses(_, _, _)

\* parse_fields' one error on a well-formed document: a spread of a fragment
\* that is not there, in what is not left out.
Parses(selection, variables, fragments) ==
    \A i \in DOMAIN selection :
        LET item == selection[i]
            keep == DirectivesInclude(item.directives, variables)
        IN  CASE item.item = "spread" ->
                    /\ item.name \in DOMAIN fragments
                    /\ keep => Parses(fragments[item.name], variables, fragments)
              [] item.item = "inline" -> keep => Parses(item.selection, variables, fragments)
              [] OTHER -> Parses(item.selection, variables, fragments)

\* operation_body: the named operation, else the first one.
Operations(request) ==
    {i \in DOMAIN request.document.operations :
        request.operation \in {"", request.document.operations[i].name}}
OperationBody(request) ==
    request.document.operations[CHOOSE i \in Operations(request) :
                                   \A j \in Operations(request) : i <= j].selection

\* What both query_needs_history and execute_query begin with.
Understood(request) ==
    /\ Operations(request) # {}
    /\ Parses(OperationBody(request), request.variables, request.document.fragments)

RootFields(request) ==
    ParseFields(OperationBody(request), request.variables, request.document.fragments)

RECURSIVE FieldsHaveBlockArg(_)

\* Fault: only the fields written in the operation itself are looked at.
QueryNeedsHistoryUnexpanded(request) ==
    LET body == OperationBody(request)
    IN  \E i \in DOMAIN body : body[i].item = "field" /\ "block" \in DOMAIN body[i].args

FieldsHaveBlockArg(fields) ==
    \E i \in DOMAIN fields : \/ "block" \in DOMAIN fields[i].args
                             \/ FieldsHaveBlockArg(fields[i].selection)

\* query_needs_history: whether load_snapshot_for_graphql loads the history.
QueryNeedsHistory(request) == Understood(request) /\ FieldsHaveBlockArg(RootFields(request))

(***************************************************************************)
(* Which snapshot a root field reads.                                       *)
(***************************************************************************)
EmptySnapshotAt(snapshot, block) ==
    [snapshot EXCEPT !.ckpt.to = block, !.ckpt.hash = NoHash, !.applied = <<>>]

\* materialize_historical_snapshot.
Materialize(snapshot, entry) ==
    [snapshot EXCEPT !.ckpt = entry.ckpt, !.applied = entry.applied]

Failed == [failed |-> TRUE]     \* select_snapshot_for_field's Err

\* Fault: the history is searched from its oldest entry.
SelectByNumberOldest(snapshot, number) ==
    LET found == {i \in DOMAIN snapshot.history : snapshot.history[i].ckpt.to <= number}
    IN  IF number > snapshot.ckpt.to THEN Failed
        ELSE IF snapshot.ckpt.to <= number THEN [snapshot EXCEPT !.ckpt.hash = NoHash]
        ELSE IF found = {} THEN EmptySnapshotAt(snapshot, number)
        ELSE [Materialize(snapshot, snapshot.history[CHOOSE i \in found : \A j \in found : i <= j])
                EXCEPT !.ckpt.hash = NoHash]

\* block: {number}: the current snapshot at its own block, else the newest
\* retained entry at or before it, else nothing at all.
SelectByNumber(snapshot, number) ==
    LET found == {i \in DOMAIN snapshot.history : snapshot.history[i].ckpt.to <= number}
    IN  IF number > snapshot.ckpt.to THEN Failed
        ELSE IF snapshot.ckpt.to <= number THEN [snapshot EXCEPT !.ckpt.hash = NoHash]
        ELSE IF found = {} THEN EmptySnapshotAt(snapshot, number)
        ELSE [Materialize(snapshot, snapshot.history[CHOOSE i \in found : \A j \in found : j <= i])
                EXCEPT !.ckpt.hash = NoHash]

\* Fault: an unknown hash falls back to the current snapshot.
SelectByHashLenient(snapshot, hash) ==
    LET found == {i \in DOMAIN snapshot.history : snapshot.history[i].ckpt.hash = hash}
    IN  IF snapshot.ckpt.hash = hash \/ found = {} THEN snapshot
        ELSE Materialize(snapshot, snapshot.history[CHOOSE i \in found : TRUE])

\* block: {hash}: exactly that block, or an error.
SelectByHash(snapshot, hash) ==
    LET found == {i \in DOMAIN snapshot.history : snapshot.history[i].ckpt.hash = hash}
    IN  IF snapshot.ckpt.hash = hash THEN snapshot
        ELSE IF found = {} THEN Failed
        ELSE Materialize(snapshot, snapshot.history[CHOOSE i \in found : \A j \in found : i <= j])

SelectSnapshot(snapshot, field) ==
    IF "block" \notin DOMAIN field.args THEN snapshot
    ELSE LET block == field.args["block"]
         IN  IF "number" \in DOMAIN block THEN SelectByNumber(snapshot, block.number)
             ELSE SelectByHash(snapshot, block.hash)

(***************************************************************************)
(* Values.                                                                  *)
(***************************************************************************)
IdsMatch(x, y) == Fold[x] = Fold[y]

ValuesEqual(a, b) ==
    \/ a.t = "null" /\ b.t = "null"
    \/ a.t = "text" /\ b.t = "text" /\ (a.v = b.v \/ ({a.v, b.v} \subseteq Hexish /\ IdsMatch(a.v, b.v)))

\* compare_json_values: two decimals by value, anything else as strings;
\* null and arrays compare with nothing.  -1, 0, 1, or 2 for None.
CompareJson(a, b) ==
    IF a.t # "text" \/ b.t # "text" THEN 2
    ELSE LET numbers == {a.v, b.v} \subseteq DOMAIN Decimal
             l == IF numbers THEN Decimal[a.v] ELSE Lex[a.v]
             r == IF numbers THEN Decimal[b.v] ELSE Lex[b.v]
         IN  IF l < r THEN -1 ELSE IF l > r THEN 1 ELSE 0

\* Rust's sort_by needs a total order.  compare_json_values is one only as long
\* as no text that is not a number stands between two numbers that strings
\* and integers order differently ("2" < "10" < "1a" < "2").
ASSUME TotalOrder ==
    \A x, y, z \in Texts : CompareJson(Text(x), Text(y)) <= 0 /\ CompareJson(Text(y), Text(z)) <= 0
                             => CompareJson(Text(x), Text(z)) <= 0

FieldValue(entity, name) ==
    IF name = <<"id">> THEN Text(entity.id)
    ELSE IF name \in DOMAIN entity.data THEN entity.data[name] ELSE Missing

StringPredicate(actual, expected, nocase) ==
    /\ actual.t = "text" /\ expected.t = "text"
    /\ (IF nocase THEN <<Fold[expected.v], Fold[actual.v]>> ELSE <<expected.v, actual.v>>) \in Inside

ContainsValue(actual, expected, nocase) ==
    IF actual.t # "array" THEN StringPredicate(actual, expected, nocase)
    ELSE LET has(x) == \E i \in DOMAIN actual.v : ValuesEqual(actual.v[i], x)
         IN  IF expected.t = "array" THEN \A i \in DOMAIN expected.v : has(expected.v[i])
             ELSE has(expected)

(***************************************************************************)
(* Filters.                                                                 *)
(***************************************************************************)
\* parse_filter_key's suffixes, in the order it tries them.
FilterSuffixes == << <<"not", "contains", "nocase">>, <<"contains", "nocase">>,
               <<"starts", "with", "nocase">>, <<"ends", "with", "nocase">>,
               <<"not", "contains">>, <<"contains">>, <<"starts", "with">>,
               <<"ends", "with">>, <<"not", "in">>, <<"gte">>, <<"lte">>,
               <<"gt">>, <<"lt">>, <<"not">>, <<"in">> >>

FittingSuffixes(key) ==
    {i \in DOMAIN FilterSuffixes :
        Len(key) > Len(FilterSuffixes[i]) /\ IsSuffix(FilterSuffixes[i], key)}

SplitAt(key, s) == [field |-> SubSeq(key, 1, Len(key) - Len(s)), op |-> s]

\* Fault: the shorter suffixes are tried first.
ParseFilterKeyShortest(key) ==
    IF FittingSuffixes(key) = {} THEN SplitAt(key, <<>>)
    ELSE SplitAt(key, FilterSuffixes[CHOOSE i \in FittingSuffixes(key) :
                                        \A j \in FittingSuffixes(key) : i >= j])

ParseFilterKey(key) ==
    IF FittingSuffixes(key) = {} THEN SplitAt(key, <<>>)
    ELSE SplitAt(key, FilterSuffixes[CHOOSE i \in FittingSuffixes(key) :
                                        \A j \in FittingSuffixes(key) : i <= j])

\* filter_input_type: the keys introspection offers for a type.  A field that
\* is not a list can be compared; one that leads to an entity has a key, ending
\* in an underscore, for a filter on that entity.
OfferedOps ==
    {<<>>, <<"not">>, <<"in">>, <<"not", "in">>, <<"gt">>, <<"gte">>, <<"lt">>, <<"lte">>,
     <<"contains">>, <<"not", "contains">>, <<"contains", "nocase">>, <<"not", "contains", "nocase">>,
     <<"starts", "with">>, <<"starts", "with", "nocase">>,
     <<"ends", "with">>, <<"ends", "with", "nocase">>}
FilterFields(type) == {f \in DOMAIN Schema[type] : ~Schema[type][f].list}
ComparisonKeys(type) ==
    {[field |-> f, op |-> op, key |-> f \o op] : f \in FilterFields(type), op \in OfferedOps}
RelationKeys(type) ==
    {[field |-> f, key |-> Append(f, "")] :
        f \in {g \in FilterFields(type) : Schema[type][g].kind \in DOMAIN Schema \/ Schema[type][g].derived}}
Connectives == {<<"and">>, <<"or">>}

FilterMatches(actual, op, expected) ==
    LET equals  == ValuesEqual(actual, expected)
        listed  == expected.t = "array" /\ \E i \in DOMAIN expected.v : ValuesEqual(actual, expected.v[i])
        order   == CompareJson(actual, expected)
    IN  CASE op = <<>> -> equals
          [] op = <<"not">> -> ~equals
          [] op = <<"in">> -> listed
          [] op = <<"not", "in">> -> ~listed
          [] op = <<"gt">> -> order = 1
          [] op = <<"gte">> -> order \in {0, 1}
          [] op = <<"lt">> -> order = -1
          [] op = <<"lte">> -> order \in {-1, 0}
          [] op = <<"contains">> -> ContainsValue(actual, expected, FALSE)
          [] op = <<"contains", "nocase">> -> ContainsValue(actual, expected, TRUE)
          [] op = <<"not", "contains">> -> ~ContainsValue(actual, expected, FALSE)
          [] op = <<"not", "contains", "nocase">> -> ~ContainsValue(actual, expected, TRUE)
          [] OTHER -> StringPredicate(actual, expected, Last(op) = "nocase")

(***************************************************************************)
(* Relations.                                                               *)
(***************************************************************************)
OfType(snapshot, type) == SelectSeq(snapshot.applied, LAMBDA e : e.type = type)

IdsOf(value) == CASE value.t = "text" -> <<value.v>>
                  [] value.t = "array" -> [i \in DOMAIN value.v |-> value.v[i].v]
                  [] OTHER -> <<>>

\* Iterator::skip(skip).take(first).
Page(s, skip, first) ==
    SubSeq(s, skip + 1, IF skip + first < Len(s) THEN skip + first ELSE Len(s))

\* Fault: the id has to be spelled as it is stored.
FindEntityExact(snapshot, type, id) ==
    SelectSeq(OfType(snapshot, type), LAMBDA e : e.id = id)

\* find_entity: the first of that type whose id matches, in any case.
FindEntity(snapshot, type, id) ==
    Page(SelectSeq(OfType(snapshot, type), LAMBDA e : IdsMatch(e.id, id)), 0, 1)

\* related_entities: a derived field asks who points here, any other follows
\* its ids in order, dropping the ones that are not stored.
RelatedEntities(snapshot, entity, name, f) ==
    LET follow(ids) == FlattenSeq([i \in DOMAIN ids |-> FindEntity(snapshot, f.kind, ids[i])])
        among(ids)  == \E i \in DOMAIN ids : IdsMatch(ids[i], entity.id)
    IN  IF f.derived
        THEN SelectSeq(OfType(snapshot, f.kind), LAMBDA c : among(IdsOf(FieldValue(c, f.from))))
        ELSE follow(IdsOf(FieldValue(entity, name)))

RECURSIVE EntityMatchesWhere(_, _, _, _)

\* entity_matches_where: every entry of the filter object.
EntityMatchesWhere(snapshot, type, entity, where) ==
    \A i \in DOMAIN where :
        LET key == where[i].key
            x   == where[i].value
            all(w) == EntityMatchesWhere(snapshot, type, entity, w)
            parts == IF x.t = "list" THEN x.v ELSE <<x.v>>
        IN  CASE key = <<"and">> -> \A j \in DOMAIN parts : all(parts[j])
              [] key = <<"or">> -> \E j \in DOMAIN parts : all(parts[j])
              [] Last(key) = "" ->
                    LET name == SubSeq(key, 1, Len(key) - 1)
                    IN  /\ name \in DOMAIN Schema[type]
                        /\ LET f == Schema[type][name]
                               related == RelatedEntities(snapshot, entity, name, f)
                           IN  \E j \in DOMAIN related :
                                  EntityMatchesWhere(snapshot, f.kind, related[j], x.v)
              [] OTHER ->
                    LET parsed == ParseFilterKey(key)
                    IN  FilterMatches(FieldValue(entity, parsed.field), parsed.op, x)

(***************************************************************************)
(* Order and pages.                                                         *)
(***************************************************************************)
Arg(field, name, default) == IF name \in DOMAIN field.args THEN field.args[name] ELSE default

RECURSIVE OrderValue(_, _, _, _)

\* nested_order_value: each relation of `relation__field' is followed to its
\* first related entity.
OrderValue(snapshot, type, entity, by) ==
    IF by.relations = <<>> THEN FieldValue(entity, by.field)
    ELSE LET name == Head(by.relations)
             related == RelatedEntities(snapshot, entity, name, Schema[type][name])
         IN  IF name \notin DOMAIN Schema[type] \/ related = <<>> THEN Missing
             ELSE OrderValue(snapshot, Schema[type][name].kind, related[1],
                             [by EXCEPT !.relations = Tail(@)])

\* compare_entity_order on the values two entities are ordered by: a missing
\* one sorts first; what cannot be compared is equal.
CompareEntityOrder(l, r) ==
    CASE l.t = "missing" /\ r.t = "missing" -> 0
      [] l.t = "missing" -> -1
      [] r.t = "missing" -> 1
      [] OTHER -> IF CompareJson(l, r) = 2 THEN 0 ELSE CompareJson(l, r)

\* A stable sort: ties stay in the order of the store, descending or not.
SortByValues(entities, values, desc) ==
    LET cmp(i, j)  == (IF desc THEN -1 ELSE 1) * CompareEntityOrder(values[i], values[j])
        before(i)  == {j \in DOMAIN entities : cmp(j, i) = -1 \/ (cmp(j, i) = 0 /\ j < i)}
    IN  [k \in DOMAIN entities |-> entities[CHOOSE i \in DOMAIN entities : Cardinality(before(i)) = k - 1]]

SortEntities(snapshot, type, entities, by, desc) ==
    SortByValues(entities,
                 [i \in DOMAIN entities |-> OrderValue(snapshot, type, entities[i], by)], desc)

ById == [relations |-> <<>>, field |-> <<"id">>]

ApplyEntityArgs(snapshot, type, entities, field) ==
    Page(SortEntities(snapshot, type, entities, Arg(field, "orderBy", ById), Arg(field, "desc", FALSE)),
         Arg(field, "skip", 0), Arg(field, "first", 100))

Matching(snapshot, type, entities, field) ==
    SelectSeq(entities, LAMBDA e : EntityMatchesWhere(snapshot, type, e, Arg(field, "where", <<>>)))

(***************************************************************************)
(* Projection and execution.                                                *)
(***************************************************************************)
\* Map::insert under the response name: the last field of a name stays.
ByResponse(fields) ==
    [n \in {fields[i].response : i \in DOMAIN fields} |->
        fields[CHOOSE i \in DOMAIN fields :
                 /\ fields[i].response = n
                 /\ \A j \in DOMAIN fields : fields[j].response = n => j <= i]]

RECURSIVE ProjectEntity(_, _, _, _)

\* project_entity with project_entity_field and project_relation_field: a list
\* of related entities is ordered and paged first, and filtered after.  No
\* selection stands for one of every stored key, relations included.
ProjectEntity(snapshot, type, entity, selection) ==
    LET stored(x) == IF x = Missing THEN Null ELSE x
        value(field) ==
            LET f       == Schema[type][field.name]
                related == RelatedEntities(snapshot, entity, field.name, f)
                paged   == IF f.list THEN ApplyEntityArgs(snapshot, f.kind, related, field) ELSE related
                shown(s) == [i \in DOMAIN s |-> ProjectEntity(snapshot, f.kind, s[i], field.selection)]
                one(s)   == IF s = <<>> THEN Null ELSE s[1]
                listed(s) == IF f.list THEN Array(s) ELSE one(s)
            IN  IF field.name \notin DOMAIN Schema[type] \/ (~f.derived /\ f.kind \notin DOMAIN Schema)
                THEN stored(FieldValue(entity, field.name))
                ELSE listed(shown(Matching(snapshot, f.kind, paged, field)))
        whole(name) == [name |-> name, args |-> <<>>, selection |-> <<>>]
        asked == IF selection = <<>> THEN [name \in DOMAIN entity.data |-> whole(name)]
                 ELSE ByResponse(selection)
    IN  [n \in DOMAIN asked |-> value(asked[n])]

\* query_entities: filtered, then ordered and paged.
QueryEntities(snapshot, type, field) ==
    LET shown(s) == [i \in DOMAIN s |-> ProjectEntity(snapshot, type, s[i], field.selection)]
    IN  shown(ApplyEntityArgs(snapshot, type,
                              Matching(snapshot, type, OfType(snapshot, type), field), field))

\* query_entity: by id, and then by where.
QueryEntity(snapshot, type, field) ==
    LET shown(hits) == IF hits = <<>> THEN Null
                       ELSE ProjectEntity(snapshot, type, hits[1], field.selection)
    IN  shown(Matching(snapshot, type, FindEntity(snapshot, type, Arg(field, "id", "")), field))

\* meta_value; the hash is null on a snapshot chosen by number.
MetaValue(snapshot) == [number |-> snapshot.ckpt.to, hash |-> snapshot.ckpt.hash]

RECURSIVE ValidEntityFields(_, _)

\* validate_entity_fields: known names; selections only on entities.
ValidEntityFields(type, fields) ==
    \A i \in DOMAIN fields :
        /\ fields[i].name \in DOMAIN Schema[type]
        /\ IF Schema[type][fields[i].name].kind \in DOMAIN Schema
           THEN ValidEntityFields(Schema[type][fields[i].name].kind, fields[i].selection)
           ELSE fields[i].selection = <<>>

\* entity_name_for_query and is_plural_query: a root field names a type, one
\* of its entities or all of them.
RootName(type, plural) == <<type, IF plural THEN "all" ELSE "one">>
ValidRoot(field) ==
    \/ field.name = <<"meta">>
    \/ \E type \in DOMAIN Schema, p \in BOOLEAN :
          field.name = RootName(type, p) /\ ValidEntityFields(type, field.selection)

ExecuteRootField(snapshot, field) ==
    LET selected == SelectSnapshot(snapshot, field)
    IN  IF field.name = <<"meta">> THEN MetaValue(selected)
        ELSE LET type == field.name[1]
             IN  IF field.name[2] = "all" THEN Array(QueryEntities(selected, type, field))
                 ELSE QueryEntity(selected, type, field)

\* execute_query: one field that is unknown or fails, fails the response.
ExecuteQuery(snapshot, request) ==
    LET fields == RootFields(request)
        asked  == ByResponse(fields)
        ok == /\ Understood(request)
              /\ \A i \in DOMAIN fields : ValidRoot(fields[i])
              /\ \A i \in DOMAIN fields : SelectSnapshot(snapshot, fields[i]) # Failed
    IN  [ok |-> ok,
         data |-> IF ok THEN [n \in DOMAIN asked |-> ExecuteRootField(snapshot, asked[n])] ELSE <<>>]
=============================================================================
