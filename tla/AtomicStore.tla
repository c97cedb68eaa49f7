----------------------------- MODULE AtomicStore ----------------------------
(***************************************************************************)
(* What the StateStore promises the callers of one key, with no sidecar,   *)
(* no ETag and no retry in sight: each call takes effect, or is refused,   *)
(* at one moment between its begin and its return.  A call that fails may  *)
(* have taken effect, may yet do so once, or may not.  A weak spot is left *)
(* in, as the trait leaves it: a cas may be refused, and an increment give *)
(* up, although the value is the expected one, if the key was written to   *)
(* since the call began.                                                   *)
(***************************************************************************)
EXTENDS Integers

CONSTANTS
    Task, Value, None,
    Calls,          \* the calls that can be made
    MinInt, MaxInt  \* the range of an i64

VARIABLES
    store,     \* the value of the key, or None
    running,   \* per task: the call it is making, or None
    answer,    \* per task: what that call is to return, None while undecided
    result,    \* per task: what its last call returned
    touched,   \* the tasks whose key was written to since they began
    orphans,   \* writes of failed calls that may still take effect
    count      \* calls begun

vars == <<store, running, answer, result, touched, orphans, count>>

Answer(kind, value) == [kind |-> kind, value |-> value]

(* What matters of a call. *)
Asked(c, id) ==
    [id |-> id, op |-> c.op,
     expected |-> IF c.op = "cas" THEN c.expected ELSE None,
     value |-> IF c.op \in {"set", "cas"} THEN c.value ELSE None,
     ttl |-> IF c.op = "set" THEN c.ttl ELSE None,
     delta |-> IF c.op = "increment" THEN c.delta ELSE 0]

Int64 == MinInt .. MaxInt

Base(value) == IF value = None THEN 0 ELSE value

Countable(value, delta) ==
    value \in Int64 \cup {None} /\ Base(value) + delta \in Int64

-----------------------------------------------------------------------------
(* A write that can take effect now, what the key holds then, and what its
   caller is told. *)
Applies(c) ==
    \/ c.op \in {"set", "delete"}
    \/ c.op = "cas" /\ store = c.expected
    \/ c.op = "increment" /\ Countable(store, c.delta)

After(c) ==
    CASE c.op = "set" -> IF c.ttl = 0 THEN None ELSE c.value
      [] c.op = "delete" -> None
      [] c.op = "cas" -> c.value
      [] c.op = "increment" -> Base(store) + c.delta

Told(c) == Answer("ok", IF c.op \in {"cas", "increment"} THEN After(c) ELSE None)

Put(c) ==
    /\ Applies(c)
    /\ store' = After(c)
    /\ touched' = IF c.op = "delete" /\ store = None THEN touched
                  ELSE {t \in Task : running[t] # None}

Init ==
    /\ store = None
    /\ running = [t \in Task |-> None]
    /\ answer = [t \in Task |-> None]
    /\ result = [t \in Task |-> Answer("none", None)]
    /\ touched = {} /\ orphans = {} /\ count = 0

Begin(t, c) ==
    /\ running[t] = None
    /\ count' = count + 1
    /\ running' = [running EXCEPT ![t] = Asked(c, count + 1)]
    /\ UNCHANGED <<store, answer, result, touched, orphans>>

Undecided(t) == running[t] # None /\ answer[t] = None

Decide(t, a) ==
    /\ answer' = [answer EXCEPT ![t] = a]
    /\ UNCHANGED <<running, result, orphans, count>>

Read(t) ==
    /\ Undecided(t) /\ running[t].op = "get"
    /\ Decide(t, Answer("ok", store))
    /\ UNCHANGED <<store, touched>>

Write(t) ==
    /\ Undecided(t) /\ running[t].op # "get"
    /\ Put(running[t])
    /\ Decide(t, Told(running[t]))

Refuse(t) ==
    /\ Undecided(t)
    /\ \/ /\ running[t].op = "cas"
          /\ store # running[t].expected \/ t \in touched
          /\ Decide(t, Answer("conflict", store))
       \/ /\ running[t].op = "increment"
          /\ ~Countable(store, running[t].delta)
          /\ Decide(t, Answer("rejected", None))
       \/ /\ running[t].op = "increment" /\ t \in touched
          /\ Decide(t, Answer("exhausted", None))
    /\ UNCHANGED <<store, touched>>

(* The caller is told of a failure: of a write that was done, will be done
   or never will. *)
Fail(t) ==
    /\ running[t] # None
    /\ answer' = [answer EXCEPT ![t] = Answer("failed", None)]
    /\ \/ UNCHANGED orphans
       \/ Undecided(t) /\ running[t].op # "get"
          /\ orphans' = orphans \cup {running[t]}
    /\ UNCHANGED <<store, running, result, touched, count>>

Return(t) ==
    /\ answer[t] # None
    /\ result' = [result EXCEPT ![t] = answer[t]]
    /\ running' = [running EXCEPT ![t] = None]
    /\ answer' = [answer EXCEPT ![t] = None]
    /\ touched' = touched \ {t}
    /\ UNCHANGED <<store, orphans, count>>

Orphan(c) ==
    /\ orphans' = orphans \ {c}
    /\ \/ Put(c)
       \/ UNCHANGED <<store, touched>>
    /\ UNCHANGED <<running, answer, result, count>>

Expire ==
    /\ store # None /\ store' = None
    /\ touched' = {t \in Task : running[t] # None}
    /\ UNCHANGED <<running, answer, result, orphans, count>>

Next ==
    \/ \E t \in Task :
         \/ \E c \in Calls : Begin(t, c)
         \/ Read(t) \/ Write(t) \/ Refuse(t) \/ Fail(t) \/ Return(t)
    \/ \E c \in orphans : Orphan(c)
    \/ Expire

Spec == Init /\ [][Next]_vars

=============================================================================
