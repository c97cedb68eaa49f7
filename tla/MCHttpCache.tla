---------------------------- MODULE MCHttpCache ----------------------------
(***************************************************************************)
(* Requests for model checking: of each resource, a read with a short and  *)
(* one with a long max-age, a forced refresh with a second condition, a    *)
(* revalidation with no-cache alone, a no-store, a conditional request     *)
(* that passes through and one with headers the parser refuses.            *)
(***************************************************************************)
EXTENDS HttpCache, TLC

CONSTANTS t1, t2, e1, e2

Controlled(e, control) ==
    [kind |-> "control", res |-> e, conditions |-> {"If-None-Match"},
     control |-> control]

Dated(r) == [r EXCEPT !.conditions = @ \cup {"If-Modified-Since"}]

Keyed(e, secs) == [NoControl EXCEPT !.maxAge = secs, !.etag = e]

RequestsFor(e) ==
    {Controlled(e, Keyed(e, 1)),
     Dated(Controlled(e, [Keyed(e, 2) EXCEPT !.noCache = TRUE])),
     Controlled(e, [Keyed(e, 0) EXCEPT !.noCache = TRUE]),
     Controlled(e, [NoControl EXCEPT !.noStore = TRUE]),
     [NoRequest EXCEPT !.res = e, !.conditions = {"If-None-Match"}],
     [NoRequest EXCEPT !.res = e, !.kind = "refused"]}

(* All of them for one resource, a read for the other. *)
MCRequests == RequestsFor(e1) \cup {Controlled(e2, Keyed(e2, 1))}

(* No task differs from another, in the model or in the invariants. *)
TaskSymmetry == Permutations(Task)

(* Two callers of one resource, who ask for different ages. *)
MCAges == {Controlled(e, Keyed(e, secs)) : e \in Etag, secs \in {1, 3}}

=============================================================================
