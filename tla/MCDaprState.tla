---------------------------- MODULE MCDaprState ----------------------------
(***************************************************************************)
(* The values of the constants of DaprState for model checking.  An i64    *)
(* is a number of -1 .. 2 or -1 .. 4, so that an increment can overflow;   *)
(* "raw" is a value that is not 8 bytes long.                              *)
(***************************************************************************)
EXTENDS DaprRefines, TLC

CONSTANTS t1, t2, t3, i1, i2, raw

Get == [op |-> "get", expected |-> None, value |-> None, ttl |-> None,
        delta |-> 0]

Set(v, ttl) == [Get EXCEPT !.op = "set", !.value = v, !.ttl = ttl]

Delete == [Get EXCEPT !.op = "delete"]

CasOf(e, v) == [Get EXCEPT !.op = "cas", !.expected = e, !.value = v]

Increment(d) == [Get EXCEPT !.op = "increment", !.delta = d]

MinusOne == -1

MCValue == Int64 \cup {raw}

(* t1 and t2 hold clones of one provider, t3 one of another. *)
OneInstance == [t \in Task |-> i1]
TwoInstances == [t \in Task |-> IF t = t3 THEN i2 ELSE i1]

(* Clones of one provider may change places. *)
CloneSymmetry == Permutations({t1, t2})

MixedCalls ==
    {Get, Set(raw, 1), Set(2, None), Delete, CasOf(None, 1), CasOf(2, 0),
     Increment(1)}
IncrementCalls == {Increment(1)}
TtlCalls == {Get, Set(1, 1), Set(0, None), Delete, CasOf(1, 0), CasOf(None, 1),
             Increment(1)}
RaceCalls == {Set(1, 1), Set(0, None), Increment(1)}

=============================================================================
