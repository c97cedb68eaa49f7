---------------------------- MODULE MCOrmExample ---------------------------
(***************************************************************************)
(* The values of the constants of OrmExample for model checking.           *)
(***************************************************************************)
EXTENDS OrmExample, TLC

CONSTANTS t1, t2, t3, a1, a2, f1, f2, x, y, none

Ask(op, a, f, n, u, z) ==
    [op |-> op, agency |-> a, feed |-> f, name |-> n, url |-> u, timezone |-> z]

MCRequests ==
    {Ask("list_agencies", a1, f1, none, none, none),
     Ask("list_all_feeds", a1, f1, none, none, none),
     Ask("create_agency", a1, f1, x, x, x),
     Ask("update_agency", a1, f1, y, none, y),
     Ask("update_agency", a2, f1, y, none, y),
     Ask("delete_feed", a1, f1, none, none, none)}
      \cup {Ask("create_feed", a, f, x, none, none) :
              <<a, f>> \in {<<a1, f1>>, <<a2, f1>>, <<a1, f2>>}}

TaskSymmetry == Permutations({t1, t2, t3})

=============================================================================
