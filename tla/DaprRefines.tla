---------------------------- MODULE DaprRefines -----------------------------
(***************************************************************************)
(* The StateStore of DaprState implements AtomicStore.  A call takes       *)
(* effect when the sidecar serves its write; a get, a cas that finds       *)
(* another value and an increment that cannot count are decided when the   *)
(* sidecar serves their last read.                                         *)
(***************************************************************************)
EXTENDS DaprState

Ok(value) == [kind |-> "ok", value |-> value]

(* What a conflict, and what a value that was read, makes of the call of task
   t; None if the call goes on. *)
Lost(t, value) ==
    IF call[t].op = "cas" THEN [kind |-> "conflict", value |-> value]
    ELSE IF tries[t] + 1 >= MaxRetries THEN [kind |-> "exhausted", value |-> None]
    ELSE None

Learnt(t, value) ==
    CASE pc[t] = "get" /\ call[t].op = "get" -> Ok(value)
      [] pc[t] = "get" /\ call[t].op # "get" ->
           IF Countable(value, call[t].delta) THEN None
           ELSE [kind |-> "rejected", value |-> None]
      [] pc[t] = "casGet" ->
           IF value = cas[t].expected THEN None ELSE Lost(t, value)
      [] OTHER -> Lost(t, value)

(* What the reply in the hands of task t decides. *)
Decided(t) ==
    CASE resp[t].kind = "failed" -> [kind |-> "failed", value |-> None]
      [] resp[t].kind = "done" ->
           Ok(IF pc[t] = "casPost" THEN cas[t].value ELSE None)
      [] resp[t].kind = "item" -> Learnt(t, resp[t].value)
      [] OTHER -> None

(* What AtomicStore keeps of a call. *)
AsAsked(op, id, expected, value, ttl, delta) ==
    [id |-> id, op |-> op,
     expected |-> IF op = "cas" THEN expected ELSE None,
     value |-> IF op \in {"set", "cas"} THEN value ELSE None,
     ttl |-> IF op = "set" THEN ttl ELSE None,
     delta |-> IF op = "increment" THEN delta ELSE 0]

AskedType ==
    [id : Nat, op : Op, expected : OptValue, value : OptValue, ttl : OptNat,
     delta : Int]

(* The absent value is no call and no answer: AtomicStore tells them apart. *)
ASSUME RefinesAssumption == None \notin AskedType /\ None \notin Result

Running(t) ==
    IF pc[t] = "idle" THEN None
    ELSE AsAsked(call[t].op, call[t].id, call[t].expected, call[t].value,
                 call[t].ttl, call[t].delta)

Abs == INSTANCE AtomicStore WITH
    store <- Live.value,
    running <- [t \in Task |-> Running(t)],
    answer <- [t \in Task |-> Decided(t)],
    result <- result,
    touched <- {t \in Task : pc[t] # "idle" /\ churn > call[t].since},
    orphans <- {AsAsked(r.by.op, r.by.id, r.by.expects, r.value, r.ttl,
                        r.by.delta) : r \in stray},
    count <- calls

(* To its callers the key is one atomic register: every step of the round
   trips of concurrent calls, retried, refused, lost or late, is one step of
   AtomicStore or none. *)
IsAtomicStore == Abs!Spec

=============================================================================
