----------------------------- MODULE OrmFilter -----------------------------
(***************************************************************************)
(* The filters of crates/orm: the tree a caller builds, in_table,          *)
(* into_expr, and how the expression is rendered for the host, where the   *)
(* deciders of QueryBuilder say which parentheses may be left out.         *)
(***************************************************************************)
EXTENDS SqlHost

(* ColRef: a column without a table is one of the entity's, filled in by
   resolve. *)
NoTable == ""

Unqualified(column) == [table |-> NoTable, column |-> column]

Qualified(table, column) == [table |-> table, column |-> column]

Resolve(x, default) ==
    IF "table" \in DOMAIN x /\ x.table = NoTable THEN [x EXCEPT !.table = default] ELSE x

(***************************************************************************)
(* A filter is a tree, as a function from the paths of its nodes: the root *)
(* is at <<>>, the i-th filter of the combinator at p is at p \o <<i>>.     *)
(***************************************************************************)
Combinators == {"and", "or", "not"}

Leaf(kind, left, args, neg) ==
    [p \in {<<>>} |-> [kind |-> kind, left |-> left, args |-> args, neg |-> neg]]

Combined(kind, filters) ==
    LET below == UNION {{<<i>> \o p : p \in DOMAIN filters[i]} : i \in DOMAIN filters}
    IN  [p \in {<<>>} \cup below |->
           IF p = <<>> THEN [kind |-> kind, size |-> Len(filters)]
                       ELSE filters[Head(p)][Tail(p)]]

(* The constructors; op is that of Compare, or "in", "null", "like" or
   "between". *)
Test(op, column, args, neg) == Leaf(op, Unqualified(column), args, neg)

ColEq(left, right) == Leaf("columns", left, <<right>>, FALSE)

All(filters) == Combined("and", filters)

Some(filters) == Combined("or", filters)

Not(filter) == Combined("not", <<filter>>)

(* What they build: every combinator has its filters, a NOT just one, and the
   columns that are compared to have their tables. *)
IsFilter(f) ==
    /\ IsFiniteSet(DOMAIN f) /\ <<>> \in DOMAIN f
    /\ \A p \in DOMAIN f :
         LET node == f[p]
         IN  /\ p \in Seq(Nat)
             /\ node.kind # "value"
             /\ node.kind \in Combinators =>
                  /\ node.size \in Nat /\ (node.kind = "not" => node.size = 1)
                  /\ \A i \in 1 .. node.size : p \o <<i>> \in DOMAIN f
             /\ node.kind \notin Combinators =>
                  /\ DOMAIN node = {"kind", "left", "args", "neg"}
                  /\ DOMAIN node.left = {"table", "column"}
                  /\ node.args \in Seq(Range(node.args))
                  /\ \A i \in DOMAIN node.args :
                       "table" \in DOMAIN node.args[i] => node.args[i].table # NoTable

(* Mutant: only the outermost predicate is qualified. *)
InTableOutermost(f, table) ==
    IF f[<<>>].kind \in Combinators \cup {"columns"} THEN f
    ELSE [f EXCEPT ![<<>>].left.table = table]

InTable(f, table) ==
    [p \in DOMAIN f |->
       IF f[p].kind \in Combinators \cup {"columns"} THEN f[p]
       ELSE [f[p] EXCEPT !.left.table = table]]

-----------------------------------------------------------------------------
(***************************************************************************)
(* Expressions: an operator, or "leaf" for a predicate, and the tokens     *)
(* SeaQuery writes for the expression.                                     *)
(***************************************************************************)
Token(k) == <<[k |-> k]>>

Expression(leaf) == [k |-> "leaf", tokens |-> <<leaf>>]

(* well_known_left_associative, of the operators a filter has;
   inner_expr_well_known_greater_precedence, which is never sure. *)
LeftAssociative(op) == op \in {"AND", "OR"}

(* Mutant: AND and OR are taken to bind as the caller meant them. *)
AlwaysGreater(inner, outer) == inner.k # "leaf"

GreaterPrecedence(inner, outer) == FALSE

(* One side of an operator, in parentheses unless it may be bare. *)
Side(x, bare) ==
    IF bare THEN x.tokens ELSE Token("(") \o x.tokens \o Token(")")

Negation(x) ==
    [k |-> "NOT", tokens |-> Token("NOT") \o Side(x, GreaterPrecedence(x, "NOT"))]

Op(k, left, right) ==
    LET bareLeft == \/ GreaterPrecedence(left, k)
                    \/ left.k = k /\ LeftAssociative(k)
    IN  [k |-> k,
         tokens |-> Side(left, bareLeft) \o Token(k)
                      \o Side(right, GreaterPrecedence(right, k))]

Constant(b) ==
    Expression([k |-> "leaf", op |-> "value", left |-> Typed("Boolean", b),
                args |-> <<>>, neg |-> FALSE])

(* The fold of And and Or over their expressions. *)
Chain(k, exprs, empty) ==
    LET chain[i \in 1 .. Len(exprs)] ==
          IF i = 1 THEN exprs[1] ELSE Op(k, chain[i - 1], exprs[i])
    IN  IF exprs = <<>> THEN Constant(empty) ELSE chain[Len(exprs)]

Predicated(node, default) ==
    Expression([k |-> "leaf", op |-> IF node.kind = "columns" THEN "=" ELSE node.kind,
                left |-> Resolve(node.left, default), neg |-> node.neg,
                args |-> [i \in DOMAIN node.args |-> Resolve(node.args[i], default)]])

IntoExpr(f, default) ==
    LET expr[p \in DOMAIN f] ==
          LET each == [i \in 1 .. f[p].size |-> expr[p \o <<i>>]]
          IN  CASE f[p].kind = "and" -> Chain("AND", each, TRUE)
                [] f[p].kind = "or"  -> Chain("OR", each, FALSE)
                [] f[p].kind = "not" -> Negation(each[1])
                [] OTHER -> Predicated(f[p], default)
    IN  expr[<<>>]

(* and_where, once for each filter. *)
Where(exprs) == IF exprs = <<>> THEN <<>> ELSE Chain("AND", exprs, TRUE).tokens

(* The types of the values bound by what is written. *)
Bound(tokens) ==
    LET args == UNION {Range(t.args) : t \in {u \in Range(tokens) : u.k = "leaf"}}
    IN  {a.type : a \in {x \in args : "type" \in DOMAIN x}}

-----------------------------------------------------------------------------
(***************************************************************************)
(* The reference: what a filter means for a row, by the docs of Filter.    *)
(* "Empty list evaluates to true" for and, "to false" for or.  A test is   *)
(* about the table given to in_table, else about its own, else about the   *)
(* default.  No tables are filled in and nothing is rendered.              *)
(***************************************************************************)
Home(node, in, default) ==
    IF in # NoTable /\ node.kind # "columns" THEN in
    ELSE IF node.left.table # NoTable THEN node.left.table ELSE default

Means(f, in, default, env) ==
    LET holds[p \in DOMAIN f] ==
          LET each == {holds[p \o <<i>>] : i \in 1 .. f[p].size}
              left == env[Home(f[p], in, default)][f[p].left.column]
          IN  CASE f[p].kind = "and" -> Min({True} \cup each)
                [] f[p].kind = "or" -> Max({False} \cup each)
                [] f[p].kind = "not" -> True - holds[p \o <<1>>]
                [] OTHER ->
                     Predicate([op |-> IF f[p].kind = "columns" THEN "=" ELSE f[p].kind,
                                left |-> [v |-> left.v], args |-> f[p].args,
                                neg |-> f[p].neg], env)
    IN  holds[<<>>]

=============================================================================
