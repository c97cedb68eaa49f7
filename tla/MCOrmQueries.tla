--------------------------- MODULE MCOrmQueries ----------------------------
(***************************************************************************)
(* The values of the constants of OrmQueries for model checking: feeds and *)
(* their agencies, with NULLs, a feed without an agency and an agency      *)
(* without feeds.                                                          *)
(***************************************************************************)
EXTENDS OrmQueries

Big(v) == Typed("Int64", v)
Text(v) == Typed("Str", v)

MCColumns ==
    [feed |-> [feed_id |-> "Int64", agency_id |-> "Int64", note |-> "Str"],
     agency |-> [agency_id |-> "Int64", name |-> "Str"]]

MCKey == [feed |-> "feed_id", agency |-> "agency_id"]

FeedRow(i, a, n) == [feed_id |-> Big(i), agency_id |-> Big(a), note |-> Text(n)]

MCTables ==
    [feed |-> {FeedRow(1, 1, Null), FeedRow(2, 1, 2), FeedRow(3, Null, 1)},
     agency |-> {[agency_id |-> Big(1), name |-> Text(1)],
                 [agency_id |-> Big(2), name |-> Text(Null)]}]

(* The entity feed, with a note of any type. *)
FeedOf(type) ==
    [table |-> "feed", joins |-> <<>>, specs |-> {},
     fields |-> <<Field("feed_id", "i64", FALSE), Field("agency_id", "i64", TRUE),
                  Field("note", type, TRUE)>>]

Feed == FeedOf("string")

OnAgency(kind, alias) ==
    [table |-> "agency", alias |-> alias, kind |-> kind,
     on |-> ColEq(Qualified("feed", "agency_id"),
                  Qualified(IF alias = "" THEN "agency" ELSE alias, "agency_id"))]

FeedWithAgency ==
    [table |-> "feed", joins |-> <<OnAgency("left", "")>>,
     specs |-> {[field |-> "agency_name", table |-> "agency", column |-> "name"]},
     fields |-> <<Field("feed_id", "i64", FALSE),
                  Field("agency_name", "string", TRUE)>>]

(* A condition on a column of the joined table, and one that is not a
   comparison of columns. *)
NamedAgency ==
    [table |-> "agency", alias |-> "a", kind |-> "inner",
     on |-> All(<<ColEq(Qualified("feed", "agency_id"), Qualified("a", "agency_id")),
                  Some(<<InTable(Test("null", "name", <<>>, TRUE), "a"),
                         Test("null", "note", <<>>, FALSE)>>)>>)]

MCReads == {Feed, FeedWithAgency}
MCWrites == {Feed}
MCJoins == {OnAgency(k, "a") : k \in {"inner", "right", "full"}} \cup {NamedAgency}

MCObjects ==
    {[entity |-> FeedOf(t),
      object |-> [feed_id |-> i, agency_id |-> Null, note |-> n]] :
       t \in FieldType, i \in {2, 4}, n \in {Null, 1}}

Num(v) == Typed("BigInt", v)

IdIs(v) == Test("=", "agency_id", <<Num(v)>>, FALSE)
IdIn(s) == Test("in", "agency_id", s, TRUE)
IdUnder == Test("between", "agency_id", <<Num(0), Num(1)>>, TRUE)
IdOver == Test(">=", "agency_id", <<Num(2)>>, FALSE)
IdNull == Test("null", "agency_id", <<>>, FALSE)
IdLike == Test("like", "agency_id", <<Typed("String", 0)>>, TRUE)
IdJson == Test("!=", "agency_id", <<Typed("Json", 1)>>, FALSE)

MCFilters ==
    {IdIs(1), IdIs(Null), IdIn(<<>>), IdIn(<<Num(2), Num(Null)>>), IdJson, IdLike,
     All(<<>>), Some(<<>>), Not(IdUnder),
     All(<<Some(<<IdOver, IdNull>>), Not(IdIs(2))>>),
     Some(<<All(<<IdIs(1), Not(IdNull)>>), IdNull, IdUnder>>),
     Not(Some(<<IdIs(1), All(<<IdOver, IdNull>>)>>))}

MCValues ==
    {[column |-> "feed_id", value |-> Num(v)] : v \in {2, 5}}
      \cup {[column |-> "agency_id", value |-> Num(2)]}
      \cup {[column |-> "note", value |-> Typed("String", v)] : v \in {1, Null}}
      \cup {[column |-> "note", value |-> Typed("Json", 1)]}

MCTargets == {<<"feed_id">>, <<"note">>, <<"agency_id", "note">>, <<>>}

MCMaxCalls == [select |-> 3, insert |-> 4, update |-> 3, delete |-> 3]

=============================================================================
