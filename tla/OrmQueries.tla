---------------------------- MODULE OrmQueries -----------------------------
(***************************************************************************)
(* The builders of crates/orm: select, insert, update and delete, call by  *)
(* call, the statement that build makes of the calls, and its effect on    *)
(* the database.  A behaviour builds one statement.                        *)
(***************************************************************************)
EXTENDS OrmFilter

CONSTANTS
    Tables,       \* what the database holds at first
    Reads,        \* the entities selected
    Writes,       \* the entities inserted, updated and deleted
    Objects,      \* instances of Writes, for from_entity
    Filters,      \* the filters given to where
    Joins,        \* the joins given to join
    Values,       \* the columns and values given to set
    Targets,      \* the conflict targets, and the columns of do_update
    MaxCalls      \* bound: per kind of statement, calls before build

(* The tables: finite, the rows told apart by a key of the column's type. *)
IsKey(table, x) == x = Typed(Columns[table][Key[table]], x.v)

IsTable(t, rows) ==
    /\ IsFiniteSet(rows) /\ KeysDiffer(t, rows)
    /\ Key[t] \in DOMAIN Columns[t]
    /\ \A r \in rows : DOMAIN r = DOMAIN Columns[t] /\ IsKey(t, r[Key[t]])

(* A pair to set: a column and a value; the keys are of that type too, as the
   database demands. *)
Settable(table, pairs) ==
    \A p \in pairs :
      /\ DOMAIN p = {"column", "value"}
      /\ p.column = Key[table] => IsKey(table, ToWasiParam(p.value))

IsJoin(join) == join.table \in DOMAIN Tables /\ IsFilter(join.on)

(* An object of an entity whose fields are columns of its own table; only an
   optional field is None. *)
IsObject(entity, object) ==
    LET names == {f.name : f \in Range(entity.fields)}
    IN  /\ entity.specs = {} /\ entity.fields \in Seq(Range(entity.fields))
        /\ object = [n \in names |-> object[n]]
        /\ \A f \in Range(entity.fields) :
             f.type \in FieldType /\ (object[f.name] = Null => f.optional)

ASSUME OrmAssumption ==
    /\ Null \notin Int
    /\ Tables = [t \in DOMAIN Columns |-> Tables[t]] /\ NoTable \notin DOMAIN Tables
    /\ \A t \in DOMAIN Tables : IsTable(t, Tables[t])
    /\ \A f \in Filters : IsFilter(f)
    /\ \A j \in Joins : IsJoin(j)
    /\ \A e \in Reads : /\ e.table \in DOMAIN Tables
                       /\ e.joins \in Seq(Range(e.joins))
                       /\ \A j \in Range(e.joins) : IsJoin(j)
    /\ \A e \in Writes : e.table \in DOMAIN Tables /\ Settable(e.table, Values)
    /\ \A o \in Objects :
         LET pairs == Range(ToValues(o.entity, o.object))
         IN  /\ o.entity.table \in DOMAIN Tables
             /\ IsObject(o.entity, o.object)
             /\ Settable(o.entity.table, Values \cup pairs)

VARIABLES
    db,        \* the tables
    builder,   \* the builder, or None before it is made
    asked,     \* history: filters and joins as the caller wrote them, and whether
               \* do_update_all is the last call that matters
    outcome    \* what build and the host made of it

vars == <<db, builder, asked, outcome>>

NewBuilder(kind, entity) ==
    [kind |-> kind, entity |-> entity, values |-> <<>>, filters |-> <<>>,
     conflict |-> <<>>, joins |-> <<>>, order |-> <<>>, limit |-> Null,
     offset |-> 0, returning |-> {}, calls |-> 0]

NoBuilder == NewBuilder("none", [table |-> NoTable, fields |-> <<>>])

Nothing == [kind |-> "none", before |-> Tables, rows |-> {}]

Init ==
    /\ db = Tables
    /\ builder = NoBuilder
    /\ asked = [filters |-> <<>>, on |-> <<>>, updateAll |-> FALSE]
    /\ outcome = Nothing

(* A join: its table, the name its columns go by, its condition. *)
IntoJoinSpec(join, default) ==
    [table |-> join.table, kind |-> join.kind,
     source |-> IF join.alias = NoTable THEN join.table ELSE join.alias,
     on |-> IntoExpr(join.on, default).tokens]

New(kind, entity) ==
    /\ builder.kind = "none"
    /\ builder' =
         [NewBuilder(kind, entity) EXCEPT
            !.joins = IF kind # "select" THEN <<>> ELSE
              [i \in DOMAIN entity.joins |->
                 IntoJoinSpec(entity.joins[i], entity.table)]]
    /\ asked' = [asked EXCEPT !.on = IF kind = "select" THEN entity.joins ELSE <<>>]
    /\ UNCHANGED <<db, outcome>>

FromEntity(entity, object) ==
    /\ builder.kind = "none"
    /\ builder' = [NewBuilder("insert", entity) EXCEPT
                     !.values = ToValues(entity, object)]
    /\ UNCHANGED <<db, asked, outcome>>

-----------------------------------------------------------------------------
(* One more call on a builder of one of these kinds. *)
Calls(kinds, b, a) ==
    /\ builder.kind \in kinds /\ outcome.kind = "none"
    /\ builder.calls < MaxCalls[builder.kind]
    /\ builder' = [b EXCEPT !.calls = @ + 1]
    /\ asked' = a
    /\ UNCHANGED <<db, outcome>>

Set(pair) ==
    Calls({"insert", "update"}, [builder EXCEPT !.values = Append(@, pair)],
          [asked EXCEPT !.updateAll = FALSE])

(* where; "in" is the table of in_table, or NoTable. *)
WhereCall(f, in) ==
    LET filter == IF in = NoTable THEN f ELSE InTable(f, in)
    IN  Calls({"select", "update", "delete"},
              [builder EXCEPT !.filters =
                 Append(@, IntoExpr(filter, builder.entity.table))],
              [asked EXCEPT !.filters = Append(@, <<f, in>>)])

Join(join) ==
    Calls({"select"},
          [builder EXCEPT !.joins =
             Append(@, IntoJoinSpec(join, builder.entity.table))],
          [asked EXCEPT !.on = Append(@, join)])

OrderBy(column, desc) ==
    Calls({"select"},
          [builder EXCEPT !.order =
             Append(@, [by |-> Qualified(builder.entity.table, column),
                        desc |-> desc])],
          asked)

Limit(n) == Calls({"select"}, [builder EXCEPT !.limit = n], asked)

Offset(n) == Calls({"select"}, [builder EXCEPT !.offset = n], asked)

Returning(column) ==
    Calls({"update", "delete"}, [builder EXCEPT !.returning = @ \cup {column}],
          asked)

(* The typestate of an insert: a target is set once, before any action. *)
OnConflict(target) ==
    /\ builder.conflict = <<>>
    /\ Calls({"insert"},
             [builder EXCEPT !.conflict =
                <<[target |-> target, update |-> FALSE, columns |-> {}]>>],
             asked)

Act(update, columns, all) ==
    /\ builder.conflict # <<>>
    /\ Calls({"insert"},
             [builder EXCEPT !.conflict[1] =
                [@ EXCEPT !.update = update, !.columns = columns]],
             [asked EXCEPT !.updateAll = all])

DoNothing == Act(FALSE, {}, FALSE)

DoUpdate(columns) == Act(TRUE, Range(columns), FALSE)

(* Mutant: the target is updated, and nothing else. *)
TargetColumns(b) ==
    {v.column : v \in Range(b.values)} \cap Range(b.conflict[1].target)

UpdateColumns(b) ==
    {v.column : v \in Range(b.values)} \ Range(b.conflict[1].target)

DoUpdateAll ==
    /\ builder.conflict # <<>>
    /\ Act(TRUE, UpdateColumns(builder), TRUE)

-----------------------------------------------------------------------------
(* The projection: a field with a column spec is read from it, under the
   field's name; every other one from the entity's table. *)
Projection(entity) ==
    {LET specs == {s \in entity.specs : s.field = f.name}
     IN  IF specs = {} THEN [table |-> entity.table, column |-> f.name, as |-> f.name]
         ELSE LET s == CHOOSE x \in specs : TRUE
              IN  [table |-> s.table, column |-> s.column, as |-> f.name] :
     f \in Range(entity.fields)}

Refuses(b) ==
    \/ b.kind \in {"insert", "update"} /\ b.values = <<>>
    \/ b.kind \in {"update", "delete"} /\ b.filters = <<>>
    \/ ~Convertible({v.value.type : v \in Range(b.values)}
                      \cup Bound(Where(b.filters))
                      \cup UNION {Bound(j.on) : j \in Range(b.joins)})

Statement(b) ==
    [table |-> b.entity.table, joins |-> b.joins, where |-> Where(b.filters),
     values |-> [i \in DOMAIN b.values |->
                   [b.values[i] EXCEPT !.value = ToWasiParam(@)]],
     conflict |-> b.conflict, order |-> b.order, limit |-> b.limit,
     offset |-> b.offset, returning |-> b.returning]

Run(b) ==
    CASE b.kind = "insert" -> Insert(db, Statement(b))
      [] b.kind = "update" -> Update(db, Statement(b))
      [] b.kind = "delete" -> Delete(db, Statement(b))
      [] b.kind = "select" -> Done(db, Page(db, Statement(b)))

(* What the host makes of a statement that was built. *)
Effect(run) ==
    /\ db' = run.db
    /\ outcome' = [kind |-> IF run.ok THEN "done" ELSE "failed",
                   before |-> db, rows |-> run.rows]

Build ==
    /\ builder.kind # "none" /\ outcome.kind = "none"
    /\ \/ /\ Refuses(builder)
          /\ outcome' = [Nothing EXCEPT !.kind = "refused"]
          /\ UNCHANGED db
       \/ ~Refuses(builder) /\ Effect(Run(builder))
    /\ UNCHANGED <<builder, asked>>

ColumnsOf(entity) == {f.name : f \in Range(entity.fields)}

Next ==
    \/ \E e \in Reads : New("select", e)
    \/ \E e \in Writes, k \in {"insert", "update", "delete"} : New(k, e)
    \/ \E o \in Objects : FromEntity(o.entity, o.object)
    \/ \E p \in Values : Set(p)
    \/ \E f \in Filters, in \in {NoTable} \cup {j.source : j \in Range(builder.joins)} :
         WhereCall(f, in)
    \/ \E j \in Joins : Join(j)
    \/ \E desc \in BOOLEAN : OrderBy(Key[builder.entity.table], desc)
    \/ Limit(1) \/ Offset(1)
    \/ \E c \in ColumnsOf(builder.entity) : Returning(c)
    \/ \E t \in Targets : OnConflict(t) \/ DoUpdate(t)
    \/ DoNothing \/ DoUpdateAll
    \/ Build

Spec == Init /\ [][Next]_vars

-----------------------------------------------------------------------------
Ran(kind) == outcome.kind = "done" /\ builder.kind = kind

(* The caller's filters, all of them, hold for a row. *)
Asked(env) ==
    \A i \in DOMAIN asked.filters :
      Means(asked.filters[i][1], asked.filters[i][2], builder.entity.table, env)
        = True

(* A statement touches the rows its filters mean, taken as the caller wrote
   them, and no others: whatever table each column is filled in with, however
   the filters nest, and with parentheses left out of the SQL.  An UPDATE
   changes in those rows just the columns set.  A query returns of those rows
   as many as its limit and offset leave. *)
OnlyMatching ==
    LET table == builder.entity.table
        hit == {r \in outcome.before[table] : Asked(Alone(table, r))}
        joined == Joined(outcome.before, Statement(builder))
        asks == {e \in joined : Asked(e)}
        left == Max({0, Cardinality(asks) - builder.offset})
        updated == {Assigned(r, Range(Statement(builder).values)) : r \in hit}
        returned(rows) == {Restrict(r, builder.returning) : r \in rows}
    IN  /\ Ran("delete") =>
             /\ db[table] = outcome.before[table] \ hit
             /\ outcome.rows = returned(hit)
        /\ Ran("update") =>
             /\ db[table] = (outcome.before[table] \ hit) \cup updated
             /\ outcome.rows = returned(updated)
        /\ Ran("select") =>
             /\ outcome.rows \subseteq asks
             /\ Cardinality(outcome.rows) =
                  IF builder.limit = Null THEN left ELSE Min({left, builder.limit})

(* A join pairs two rows just when its condition means so, whichever table
   the query starts from. *)
JoinsAsMeant ==
    Ran("select") =>
      \A i \in DOMAIN asked.on :
        LET s == builder.joins[i]
        IN  \A e \in Joined(outcome.before,
                            [Statement(builder) EXCEPT
                               !.joins = SubSeq(@, 1, i - 1)]),
               r \in outcome.before[s.table] :
              LET env == e @@ Alone(s.source, r)
              IN  Satisfies(s.on, env) <=>
                    Means(asked.on[i].on, NoTable, builder.entity.table, env) = True

(* After an upsert with do_update_all and nothing set since, the row of the
   key has the values that were set and keeps its other columns; every other
   row stays as it is. *)
UpsertAll ==
    LET table == builder.entity.table
        values == Range(Statement(builder).values)
        isKey(p) == p.column = Key[table]
        keys == {p.value.v : p \in {q \in values : isKey(q)}}
        old == {r \in outcome.before[table] : r[Key[table]].v \in keys}
    IN  Ran("insert") /\ asked.updateAll /\ old # {} =>
          db[table] = (outcome.before[table] \ old) \cup
                        {Assigned(r, values) : r \in old}

(* An entity that was inserted reads back, through the projection of a SELECT
   and from_row, as the object it was: for every type a field can have, with
   NULL as None. *)
ReadsBack ==
    \A o \in Objects :
      LET key == Key[o.entity.table]
          byKey == IntoExpr(Test("=", key, <<Typed("BigInt", o.object[key])>>, FALSE),
                            o.entity.table)
          select == [NewBuilder("select", o.entity) EXCEPT !.filters = <<byKey>>]
      IN  /\ Ran("insert") /\ builder.calls = 0
          /\ builder.entity = o.entity /\ builder.values = ToValues(o.entity, o.object)
          => {FromRow(o.entity, Projected(Projection(o.entity), e)) :
                e \in Page(db, Statement(select))} = {o.object}

=============================================================================
