------------------------------ MODULE SqlHost ------------------------------
(***************************************************************************)
(* The database behind the ORM, as Postgres and SQLite run the statements  *)
(* crates/orm renders: conditions in three-valued logic, joins, and the    *)
(* effect of INSERT with its conflict clause, UPDATE and DELETE.           *)
(***************************************************************************)
EXTENDS OrmEntity, FiniteSetsExt, Functions, TLC

CONSTANTS
    Columns,  \* per table: its columns and their data types
    Key       \* per table: the column that is its primary key

False == 0  Unknown == 1  True == 2

Truth(b) == IF b THEN True ELSE False

(***************************************************************************)
(* A row of a query is a function from the tables, or their aliases, to    *)
(* rows; an operand is a column of one or a bound value.                   *)
(***************************************************************************)
ValueOf(x, env) == IF "column" \in DOMAIN x THEN env[x.table][x.column].v ELSE x.v

Compares(op, x, y) ==
    CASE op = "="  -> x = y   [] op = "!=" -> x # y
      [] op = "<"  -> x < y   [] op = "<=" -> x <= y
      [] op = ">"  -> x > y   [] op = ">=" -> x >= y

Comparison(op, x, y) ==
    IF Null \in {x, y} THEN Unknown ELSE Truth(Compares(op, x, y))

(* A predicate; the negated forms are its negation.  Of the LIKE patterns, 0
   matches every text and another one matches itself. *)
Predicate(p, env) ==
    LET x == ValueOf(p.left, env)
        arg(i) == ValueOf(p.args[i], env)
        truth ==
          CASE p.op = "value" -> Truth(p.left.v)
            [] p.op = "null" -> Truth(x = Null)
            [] p.op = "in" ->
                 Max({False} \cup {Comparison("=", x, arg(i)) : i \in DOMAIN p.args})
            [] p.op = "like" ->
                 IF x = Null THEN Unknown ELSE Truth(arg(1) \in {0, x})
            [] p.op = "between" ->
                 Min({Comparison(">=", x, arg(1)), Comparison("<=", x, arg(2))})
            [] OTHER -> Comparison(p.op, x, arg(1))
    IN  IF p.neg THEN True - truth ELSE truth

(* A condition is a sequence of tokens; SQL splits it at OR before AND, and
   at AND before NOT. *)
Depth(s, i) ==
    Quantify(1 .. i, LAMBDA j : s[j].k = "(")
      - Quantify(1 .. i, LAMBDA j : s[j].k = ")")

Splits(s, op) == {i \in DOMAIN s : s[i].k = op /\ Depth(s, i) = 0}

Condition(s, env) ==
    LET truth[t \in {u \in Seq(Range(s)) : Len(u) <= Len(s)}] ==
          LET sides(op) == LET i == Max(Splits(t, op))
                           IN  {truth[SubSeq(t, 1, i - 1)],
                                truth[SubSeq(t, i + 1, Len(t))]}
          IN  IF t = <<>> THEN Unknown
              ELSE IF Splits(t, "OR") # {} THEN Max(sides("OR"))
              ELSE IF Splits(t, "AND") # {} THEN Min(sides("AND"))
              ELSE IF t[1].k = "NOT" THEN True - truth[Tail(t)]
              ELSE IF t[1].k = "(" THEN truth[SubSeq(t, 2, Len(t) - 1)]
              ELSE Predicate(t[1], env)
    IN  truth[s]

Satisfies(where, env) == where = <<>> \/ Condition(where, env) = True

-----------------------------------------------------------------------------
NullRow(table) ==
    [c \in DOMAIN Columns[table] |-> Typed(Columns[table][c], Null)]

Alone(name, row) == [n \in {name} |-> row]

(* One join: the pairs the condition holds for, and the rows an outer join
   keeps although they have no partner. *)
JoinRows(envs, join, rows, nulls) ==
    LET meets(e, r) == Satisfies(join.on, e @@ Alone(join.source, r))
    IN  {p[1] @@ Alone(join.source, p[2]) :
            p \in {q \in envs \X rows : meets(q[1], q[2])}}
        \cup {e @@ Alone(join.source, NullRow(join.table)) :
            e \in {x \in envs : /\ join.kind \in {"left", "full"}
                                /\ \A r \in rows : ~meets(x, r)}}
        \cup {nulls @@ Alone(join.source, r) :
            r \in {x \in rows : /\ join.kind \in {"right", "full"}
                                /\ \A e \in envs : ~meets(e, x)}}

(* The rows of FROM and its joins, from left to right. *)
Joined(db, s) ==
    LET upto[i \in 0 .. Len(s.joins)] ==
          IF i = 0 THEN [envs |-> {Alone(s.table, r) : r \in db[s.table]},
                         nulls |-> Alone(s.table, NullRow(s.table))]
          ELSE LET j == s.joins[i]
                   acc == upto[i - 1]
               IN  [envs |-> JoinRows(acc.envs, j, db[j.table], acc.nulls),
                    nulls |-> acc.nulls @@ Alone(j.source, NullRow(j.table))]
    IN  upto[Len(s.joins)].envs

(* ORDER BY: the first column that differs decides; NULL comes first, as in
   SQLite. *)
Rank(v) == IF v \in Nat THEN v ELSE -1

Before(order, x, y) ==
    LET rank(env, o) == Rank(ValueOf(o.by, env))
    IN  \E i \in DOMAIN order :
          /\ \A j \in 1 .. i - 1 : rank(x, order[j]) = rank(y, order[j])
          /\ IF order[i].desc THEN rank(x, order[i]) > rank(y, order[i])
                              ELSE rank(x, order[i]) < rank(y, order[i])

(* SELECT: the rows WHERE holds for, in order, cut to LIMIT and OFFSET.  Rows
   the order does not tell apart come in any one order. *)
Selected(db, s) == {e \in Joined(db, s) : Satisfies(s.where, e)}

First(rows, n, order) ==
    CHOOSE first \in kSubset(n, rows) :
      \A x \in first, y \in rows \ first : ~Before(order, y, x)

Cut(rows, s) ==
    LET last == IF s.limit = Null THEN Cardinality(rows)
                ELSE Min({Cardinality(rows), s.offset + s.limit})
        upto == First(rows, last, s.order)
    IN  upto \ First(upto, Min({last, s.offset}), s.order)

Page(db, s) == Cut(Selected(db, s), s)

Projected(columns, env) ==
    [name \in {c.as : c \in columns} |->
       LET c == CHOOSE x \in columns : x.as = name IN env[c.table][c.column]]

-----------------------------------------------------------------------------
(***************************************************************************)
(* The statements that write: they fail as a whole, or return the tables   *)
(* as they leave them and the rows they return.                            *)
(***************************************************************************)
Done(db, rows) == [ok |-> TRUE, db |-> db, rows |-> rows]

Refused(db) == [ok |-> FALSE, db |-> db, rows |-> {}]

KeysDiffer(table, rows) ==
    /\ \A r \in rows : r[Key[table]].v # Null
    /\ \A r, q \in rows : r[Key[table]].v = q[Key[table]].v => r = q

Assigned(row, pairs) ==
    [c \in DOMAIN row |->
       LET set == {p \in pairs : p.column = c}
       IN  IF set = {} THEN row[c] ELSE (CHOOSE p \in set : TRUE).value]

(* A column is assigned once, as Postgres demands, and the table has it. *)
Assigns(table, pairs) ==
    /\ IsInjective([i \in DOMAIN pairs |-> pairs[i].column])
    /\ \A i \in DOMAIN pairs : pairs[i].column \in DOMAIN Columns[table]

(* ON CONFLICT names the key, and DO UPDATE at least one column. *)
ConflictClause(s) ==
    s.conflict # <<>> =>
      /\ s.conflict[1].target = <<Key[s.table]>>
      /\ s.conflict[1].update => s.conflict[1].columns # {}

Insert(db, s) ==
    LET key == Key[s.table]
        new == Assigned(NullRow(s.table), Range(s.values))
        old == {r \in db[s.table] : r[key].v = new[key].v}
        updates == s.conflict # <<>> /\ s.conflict[1].update
        merged == {[c \in DOMAIN r |-> IF c \in s.conflict[1].columns
                                         THEN new[c] ELSE r[c]] : r \in old}
        put(rows) == [db EXCEPT ![s.table] = (@ \ old) \cup rows]
    IN  IF ~Assigns(s.table, s.values) \/ ~ConflictClause(s) \/ new[key].v = Null
          THEN Refused(db)
        ELSE IF old = {} THEN Done(put({new}), {})
        ELSE IF s.conflict = <<>> THEN Refused(db)
        ELSE IF updates THEN Done(put(merged), {})
        ELSE Done(db, {})

(* RETURNING: the rows touched, cut to the columns asked for. *)
Returned(s, rows) == {Restrict(r, s.returning) : r \in rows}

Matching(db, s) ==
    {r \in db[s.table] : Satisfies(s.where, Alone(s.table, r))}

Update(db, s) ==
    LET hit == Matching(db, s)
        rows == {Assigned(r, Range(s.values)) : r \in hit}
        table == (db[s.table] \ hit) \cup rows
    IN  IF /\ Assigns(s.table, s.values)
           /\ KeysDiffer(s.table, table)
           /\ Cardinality(table) = Cardinality(db[s.table])
          THEN Done([db EXCEPT ![s.table] = table], Returned(s, rows))
          ELSE Refused(db)

Delete(db, s) ==
    Done([db EXCEPT ![s.table] = @ \ Matching(db, s)],
         Returned(s, Matching(db, s)))

=============================================================================
