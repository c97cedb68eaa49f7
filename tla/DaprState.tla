----------------------------- MODULE DaprState -----------------------------
(***************************************************************************)
(* The StateStore of crates/dapr/src/lib.rs: tasks that call get, set,     *)
(* delete, cas and increment on clones of one or more Dapr providers, the  *)
(* HTTP requests they await, and the TTL map every clone of a provider     *)
(* shares.  A call is cut into steps where the code awaits a reply, and    *)
(* where it lets go of the mutex of the TTL map.                           *)
(***************************************************************************)
EXTENDS Sidecar, FiniteSets, FiniteSetsExt

CONSTANTS
    Task,          \* the callers
    Instance,      \* the providers made by new or from_env
    InstanceOf,    \* the provider a task holds a clone of
    Calls,         \* the calls a task may make
    MinInt, MaxInt,\* the range of an i64
    MaxRetries,    \* MAX_INCREMENT_RETRIES
    MaxCalls,      \* bound: calls made in a behaviour
    MaxFaults,     \* bound: requests or replies lost or late
    MaxClock       \* bound: the last tick

Int64 == MinInt .. MaxInt

Op == {"get", "set", "delete", "cas", "increment"}

CallType ==
    [op : Op, expected : OptValue, value : OptValue, ttl : OptNat, delta : Int]

ASSUME DaprAssumption ==
    /\ InstanceOf \in [Task -> Instance]
    /\ MinInt \in Int /\ MaxInt \in Int
    /\ 0 \in Int64
    /\ Value \cap Int = Int64
    /\ MaxRetries \in Nat \ {0}
    /\ MaxCalls \in Nat /\ MaxFaults \in Nat /\ MaxClock \in Nat
    /\ Calls \subseteq CallType
    /\ \A c \in Calls : c.op = "increment" => c.delta \in Int64
    /\ \A c \in Calls : c.op \in {"set", "cas"} => c.value \in Value

VARIABLES
    ttls,     \* per provider: the deadline in its TTL map, or None
    pc,       \* per task: the await it is suspended at
    call,     \* per task: the call it is making
    cas,      \* per task: the arguments of the running cas, and the ETag read
    tries,    \* per task: failed attempts of the running increment
    result,   \* per task: what its last call returned
    req,      \* per task: the request the sidecar has not served yet
    resp,     \* per task: the reply the task has not seen yet
    stray,    \* writes nobody waits for any more, still to be served
    calls,    \* calls made so far
    faults,   \* requests and replies lost so far
    applied,  \* history: the writes that took effect
    churn,    \* history: how often the live item has changed
    due       \* history: the expiry the last set asked for

taskVars  == <<pc, call, cas, tries, result>>
netVars   == <<req, resp, stray>>
ghostVars == <<applied, churn, due>>
vars == <<sidecarVars, ttls, taskVars, netVars, calls, faults, ghostVars>>

-----------------------------------------------------------------------------
(***************************************************************************)
(* Records.  A request carries, for the properties only, "by": the call it *)
(* belongs to and the value that call believes the key to hold.            *)
(***************************************************************************)
By == [id : Nat, op : Op, delta : Int, expects : OptValue]

Request ==
    [kind : {"none", "get", "post", "delete"}, value : OptValue,
     ttl : OptNat, etag : Nat, first : BOOLEAN, by : By]

Response ==
    [kind : {"none", "failed", "item", "done", "conflict"},
     value : OptValue, etag : Nat]

Result ==
    [kind : {"none", "ok", "conflict", "failed", "rejected", "exhausted"},
     value : OptValue]

Nobody == [id |-> 0, op |-> "get", delta |-> 0, expects |-> None]

NoReq ==
    [kind |-> "none", value |-> None, ttl |-> None, etag |-> 0,
     first |-> FALSE, by |-> Nobody]

NoResp == [kind |-> "none", value |-> None, etag |-> 0]

NoCas == [expected |-> None, value |-> None, etag |-> 0]

NoCall ==
    [op |-> "get", expected |-> None, value |-> None, ttl |-> None,
     delta |-> 0, id |-> 0, since |-> 0]

CallRecord ==
    [op : Op, expected : OptValue, value : OptValue, ttl : OptNat,
     delta : Int, id : Nat, since : Nat]

CasRecord == [expected : OptValue, value : OptValue, etag : Nat]

Busy == {"get", "set", "delete", "casGet", "casPost", "casReread"}

Init ==
    /\ SidecarInit
    /\ ttls = [i \in Instance |-> None]
    /\ pc = [t \in Task |-> "idle"]
    /\ call = [t \in Task |-> NoCall]
    /\ cas = [t \in Task |-> NoCas]
    /\ tries = [t \in Task |-> 0]
    /\ result = [t \in Task |-> [kind |-> "none", value |-> None]]
    /\ req = [t \in Task |-> NoReq]
    /\ resp = [t \in Task |-> NoResp]
    /\ stray = {}
    /\ calls = 0 /\ faults = 0
    /\ applied = {} /\ churn = 0 /\ due = None

-----------------------------------------------------------------------------
(***************************************************************************)
(* The requests of crates/dapr/src/protocol.rs.                            *)
(***************************************************************************)
ByOf(c, expects) ==
    [id |-> c.id, op |-> c.op, delta |-> c.delta, expects |-> expects]

StateGetRequest(c) == [NoReq EXCEPT !.kind = "get", !.by = ByOf(c, None)]

StateSetRequest(c) ==
    [kind |-> "post", value |-> c.value, ttl |-> c.ttl, etag |-> 0,
     first |-> FALSE, by |-> ByOf(c, None)]

(* Mutants of the conditional write: without its concurrency option, and
   without the ETag that was read. *)
LastWriteCasRequest(c, k, ttl) ==
    [kind |-> "post", value |-> k.value, ttl |-> ttl, etag |-> k.etag,
     first |-> FALSE, by |-> ByOf(c, k.expected)]

EtagFreeCasRequest(c, k, ttl) ==
    [kind |-> "post", value |-> k.value, ttl |-> ttl, etag |-> 0,
     first |-> TRUE, by |-> ByOf(c, k.expected)]

StateCasRequest(c, k, ttl) ==
    [kind |-> "post", value |-> k.value, ttl |-> ttl, etag |-> k.etag,
     first |-> TRUE, by |-> ByOf(c, k.expected)]

StateDeleteRequest(c) == [NoReq EXCEPT !.kind = "delete", !.by = ByOf(c, None)]

(***************************************************************************)
(* Send a request and suspend at await point p; return to the caller.      *)
(***************************************************************************)
Await(t, p, r) ==
    /\ pc' = [pc EXCEPT ![t] = p]
    /\ req' = [req EXCEPT ![t] = r]
    /\ resp' = [resp EXCEPT ![t] = NoResp]
    /\ UNCHANGED stray

Return(t, kind, value) ==
    /\ pc' = [pc EXCEPT ![t] = "idle"]
    /\ result' = [result EXCEPT ![t] = [kind |-> kind, value |-> value]]
    /\ cas' = [cas EXCEPT ![t] = NoCas]
    /\ tries' = [tries EXCEPT ![t] = 0]
    /\ resp' = [resp EXCEPT ![t] = NoResp]
    /\ UNCHANGED <<call, req, stray>>

(***************************************************************************)
(* The TTL map.  record_ttl sets or removes the deadline of the key;       *)
(* tracked_ttl_secs rounds what is left of it up to seconds and removes a  *)
(* deadline that has passed.                                               *)
(***************************************************************************)
RecordTtl(t, ttl) == ttls' = [ttls EXCEPT ![InstanceOf[t]] = Expiry(ttl)]

(* Mutant: the deadline of a key found absent stays in the map. *)
NeverForget(t, value) == UNCHANGED ttls

ForgetIfAbsent(t, value) ==
    IF value = None THEN RecordTtl(t, None) ELSE UNCHANGED ttls

Passed(deadline) == deadline # None /\ deadline <= now

(* Mutant: the rest of a second is cut off. *)
FloorSecs(ticks) == ticks \div TicksPerSec

CeilSecs(ticks) == (ticks + TicksPerSec - 1) \div TicksPerSec

TrackedTtlSecs(deadline) ==
    IF deadline = None \/ Passed(deadline) THEN None
    ELSE CeilSecs(deadline - now)

-----------------------------------------------------------------------------
(***************************************************************************)
(* The handlers.  Await(Call), On(reply).  Every request that fails ends   *)
(* the call with an error and changes nothing else.                        *)
(***************************************************************************)
Call(t, c) ==
    LET n == [op |-> c.op, expected |-> c.expected, value |-> c.value,
              ttl |-> c.ttl, delta |-> c.delta,
              id |-> calls + 1, since |-> churn]
    IN  /\ pc[t] = "idle"
        /\ calls < MaxCalls
        /\ calls' = calls + 1
        /\ call' = [call EXCEPT ![t] = n]
        /\ \/ c.op \in {"get", "increment"} /\ Await(t, "get", StateGetRequest(n))
           \/ c.op = "set" /\ Await(t, "set", StateSetRequest(n))
           \/ c.op = "delete" /\ Await(t, "delete", StateDeleteRequest(n))
           \/ c.op = "cas" /\ Await(t, "casGet", StateGetRequest(n))
        /\ cas' = [cas EXCEPT ![t] =
                     [NoCas EXCEPT !.expected = c.expected, !.value = c.value]]
        /\ UNCHANGED <<sidecarVars, ttls, tries, result, faults, ghostVars>>

Got(t, p, kind) == pc[t] = p /\ resp[t].kind = kind

Quiet == UNCHANGED <<sidecarVars, calls, faults, ghostVars>>

OnGet(t) ==
    /\ Got(t, "get", "item") /\ call[t].op = "get"
    /\ ForgetIfAbsent(t, resp[t].value)
    /\ Return(t, "ok", resp[t].value)
    /\ Quiet

OnSet(t) ==
    /\ Got(t, "set", "done")
    /\ RecordTtl(t, call[t].ttl)
    /\ Return(t, "ok", None)
    /\ Quiet

OnDelete(t) ==
    /\ Got(t, "delete", "done")
    /\ RecordTtl(t, None)
    /\ Return(t, "ok", None)
    /\ Quiet

(***************************************************************************)
(* increment: read, add with an overflow check, then cas on what was read. *)
(***************************************************************************)
(* Mutant: no overflow check. *)
CountableUnchecked(value, delta) == value = None \/ value \in Int64

Countable(value, delta) ==
    \/ value = None /\ delta \in Int64
    \/ value \in Int64 /\ value + delta \in Int64

Base(value) == IF value = None THEN 0 ELSE value

OnIncrementGet(t) ==
    LET value == resp[t].value
        delta == call[t].delta
    IN  /\ Got(t, "get", "item") /\ call[t].op = "increment"
        /\ ForgetIfAbsent(t, value)
        /\ \/ /\ ~Countable(value, delta)
              /\ Return(t, "rejected", None)
           \/ /\ Countable(value, delta)
              /\ cas' = [cas EXCEPT ![t] =
                           [expected |-> value, value |-> Base(value) + delta,
                            etag |-> 0]]
              /\ Await(t, "casGet", StateGetRequest(call[t]))
              /\ UNCHANGED <<call, tries, result>>
        /\ Quiet

(***************************************************************************)
(* A cas that lost: the caller of cas gets the value that won, an          *)
(* increment tries again from its get, MaxRetries times in all.            *)
(***************************************************************************)
(* Mutant: an increment that lost repeats the cas it lost. *)
RepeatCas(t, value) ==
    \/ call[t].op = "cas" /\ Return(t, "conflict", value)
    \/ /\ call[t].op = "increment"
       /\ Await(t, "casGet", StateGetRequest(call[t]))
       /\ UNCHANGED <<call, cas, tries, result>>

CasConflict(t, value) ==
    \/ call[t].op = "cas" /\ Return(t, "conflict", value)
    \/ /\ call[t].op = "increment" /\ tries[t] + 1 >= MaxRetries
       /\ Return(t, "exhausted", None)
    \/ /\ call[t].op = "increment" /\ tries[t] + 1 < MaxRetries
       /\ tries' = [tries EXCEPT ![t] = @ + 1]
       /\ cas' = [cas EXCEPT ![t] = NoCas]
       /\ Await(t, "get", StateGetRequest(call[t]))
       /\ UNCHANGED <<call, result>>

(* Mutant: an increment that meets an error tries again, as after a conflict. *)
OnFailureRetried(t) ==
    /\ pc[t] \in Busy /\ resp[t].kind = "failed"
    /\ IF call[t].op = "increment" THEN CasConflict(t, None)
       ELSE Return(t, "failed", None)
    /\ UNCHANGED ttls /\ Quiet

(* `?` on a request that failed, at any await: CasError::Store in a cas. *)
OnFailure(t) ==
    /\ pc[t] \in Busy /\ resp[t].kind = "failed"
    /\ Return(t, "failed", None)
    /\ UNCHANGED ttls /\ Quiet

(* Mutant: the value read is not compared with the expected one. *)
OnCasGetUncompared(t) ==
    /\ Got(t, "casGet", "item")
    /\ ForgetIfAbsent(t, resp[t].value)
    /\ pc' = [pc EXCEPT ![t] = "casSample"]
    /\ cas' = [cas EXCEPT ![t].etag = resp[t].etag]
    /\ resp' = [resp EXCEPT ![t] = NoResp]
    /\ UNCHANGED <<call, tries, result, req, stray>>
    /\ Quiet

OnCasGet(t) ==
    LET value == resp[t].value
    IN  /\ Got(t, "casGet", "item")
        /\ ForgetIfAbsent(t, value)
        /\ \/ value # cas[t].expected /\ CasConflict(t, value)
           \/ /\ value = cas[t].expected
              /\ pc' = [pc EXCEPT ![t] = "casSample"]
              /\ cas' = [cas EXCEPT ![t].etag = resp[t].etag]
              /\ resp' = [resp EXCEPT ![t] = NoResp]
              /\ UNCHANGED <<call, tries, result, req, stray>>
        /\ Quiet

CasSample(t) ==
    LET deadline == ttls[InstanceOf[t]]
    IN  /\ pc[t] = "casSample"
        /\ ttls' = IF Passed(deadline)
                     THEN [ttls EXCEPT ![InstanceOf[t]] = None] ELSE ttls
        /\ Await(t, "casPost",
                 StateCasRequest(call[t], cas[t], TrackedTtlSecs(deadline)))
        /\ UNCHANGED <<call, cas, tries, result>>
        /\ Quiet

OnCasDone(t) ==
    /\ Got(t, "casPost", "done")
    /\ Return(t, "ok", cas[t].value)
    /\ UNCHANGED ttls /\ Quiet

(* Mutant: a conflict status is taken for a commit. *)
ConflictCommits(t) ==
    /\ Got(t, "casPost", "conflict")
    /\ Return(t, "ok", cas[t].value)
    /\ UNCHANGED ttls /\ Quiet

OnCasRefused(t) ==
    /\ Got(t, "casPost", "conflict")
    /\ Await(t, "casReread", StateGetRequest(call[t]))
    /\ UNCHANGED <<call, cas, tries, result, ttls>> /\ Quiet

OnCasReread(t) ==
    /\ Got(t, "casReread", "item")
    /\ CasConflict(t, resp[t].value)
    /\ UNCHANGED ttls /\ Quiet

Resume(t) ==
    \/ OnFailure(t) \/ OnGet(t) \/ OnSet(t) \/ OnDelete(t)
    \/ OnIncrementGet(t) \/ OnCasGet(t) \/ CasSample(t)
    \/ OnCasDone(t) \/ OnCasRefused(t) \/ OnCasReread(t)

-----------------------------------------------------------------------------
(***************************************************************************)
(* The sidecar serves one request, atomically.                             *)
(***************************************************************************)
TakesEffect(r) == r.kind = "delete" \/ (r.kind = "post" /\ Accepts(r))

Handle(r) ==
    \/ r.kind = "get" /\ StateGet
    \/ r.kind = "post" /\ StatePost(r)
    \/ r.kind = "delete" /\ StateDelete

Reply(r) ==
    CASE r.kind = "get"    -> [kind |-> "item", value |-> Live.value,
                               etag |-> Live.etag]
      [] r.kind = "delete" -> [NoResp EXCEPT !.kind = "done"]
      [] OTHER             -> [NoResp EXCEPT
                                 !.kind = IF Accepts(r) THEN "done"
                                          ELSE "conflict"]

(* What a call asked for: a plain write its TTL, a cas that creates the key
   none, a cas of a live value the TTL it has. *)
Due(r) ==
    IF TakesEffect(r) /\ r.kind = "post" /\ ~r.first THEN Expiry(r.ttl)
    ELSE IF Live # Gone /\ r.kind # "delete" THEN due
    ELSE None

Record(r) ==
    /\ applied' = IF TakesEffect(r) THEN applied \cup {r.by} ELSE applied
    /\ churn' = IF TakesEffect(r) /\ (r.kind = "post" \/ Live # Gone)
                  THEN churn + 1 ELSE churn
    /\ due' = Due(r)

Serve(t) ==
    /\ req[t].kind # "none"
    /\ Handle(req[t])
    /\ resp' = [resp EXCEPT ![t] = Reply(req[t])]
    /\ req' = [req EXCEPT ![t] = NoReq]
    /\ Record(req[t])
    /\ UNCHANGED <<now, ttls, taskVars, stray, calls, faults>>

ServeStray(r) ==
    /\ Handle(r)
    /\ stray' = stray \ {r}
    /\ Record(r)
    /\ UNCHANGED <<now, ttls, taskVars, req, resp, calls, faults>>

(***************************************************************************)
(* The transport fails: the task sees an error, or is cancelled, which     *)
(* changes as little.  The write it was waiting for may have been served,  *)
(* may be served later, or never.                                          *)
(***************************************************************************)
Timeout(t) ==
    /\ pc[t] \in Busy /\ resp[t].kind # "failed"
    /\ faults < MaxFaults
    /\ faults' = faults + 1
    /\ resp' = [resp EXCEPT ![t] = [NoResp EXCEPT !.kind = "failed"]]
    /\ req' = [req EXCEPT ![t] = NoReq]
    /\ stray' = IF req[t].kind \in {"post", "delete"}
                  THEN stray \cup {req[t]} ELSE stray
    /\ UNCHANGED <<sidecarVars, ttls, taskVars, calls, ghostVars>>

Tick ==
    /\ now < MaxClock
    /\ now' = now + 1
    /\ churn' = IF item.expires = now + 1 THEN churn + 1 ELSE churn
    /\ UNCHANGED <<item, nextEtag, ttls, taskVars, netVars, calls, faults,
                   applied, due>>

Next ==
    \/ \E t \in Task : \/ \E c \in Calls : Call(t, c)
                       \/ Resume(t) \/ Serve(t) \/ Timeout(t)
    \/ \E r \in stray : ServeStray(r)
    \/ Tick

Spec == Init /\ [][Next]_vars

(* A reply is delivered and a task that can run is polled. *)
Fairness == \A t \in Task : WF_vars(Resume(t)) /\ WF_vars(Serve(t))

FairSpec == Spec /\ Fairness

(* The await points of a read.  A caller whose writes are all answered: what
   fails are its reads, those within a cas or an increment included. *)
Reading == {"get", "casGet", "casReread"}

OnlyReadsFail == \A t \in Task : Timeout(t) => pc[t] \in Reading

ReadFaultSpec == Init /\ [][Next /\ OnlyReadsFail]_vars

-----------------------------------------------------------------------------
(* The variables keep their types; in particular no increment stores or
   returns a number outside the range of an i64 (the checked_add). *)
TypeOK ==
    /\ now \in Nat /\ item \in Item /\ nextEtag \in Nat
    /\ ttls \in [Instance -> OptNat]
    /\ pc \in [Task -> Busy \cup {"idle", "casSample"}]
    /\ call \in [Task -> CallRecord]
    /\ cas \in [Task -> CasRecord]
    /\ tries \in [Task -> 0 .. MaxRetries - 1]
    /\ result \in [Task -> Result]
    /\ req \in [Task -> Request]
    /\ resp \in [Task -> Response]
    /\ stray \subseteq Request
    /\ calls \in 0 .. MaxCalls /\ faults \in 0 .. MaxFaults
    /\ applied \subseteq By /\ churn \in Nat /\ due \in OptNat

(* The writes that may still reach the sidecar. *)
InFlight == {r \in {req[t] : t \in Task} \cup stray : r.kind # "none"}

Conditional(r) == r.kind = "post" /\ r.by.op \in {"cas", "increment"}

(* Whenever the sidecar would accept the write of a cas or of an increment,
   however late it arrives, the key holds the very value the cas compared,
   so that compare and swap are one atomic step. *)
CasAtomic ==
    \A r \in InFlight :
        Conditional(r) /\ Accepts(r) => r.by.expects = Live.value

(* What makes CasAtomic inductive: an ETag names one value for ever.  A reply
   on its way, the ETag a cas goes on with and the ETag of a conditional
   write, however old, belong to the value they were read with. *)
Names(etag, value) ==
    /\ etag <= nextEtag
    /\ etag = 0 <=> value = None
    /\ etag # 0 /\ item.etag = etag => item.value = value

EtagNamesValue ==
    /\ Names(item.etag, item.value)
    /\ \A t \in Task :
         /\ resp[t].kind = "item" => Names(resp[t].etag, resp[t].value)
         /\ pc[t] = "casSample" => Names(cas[t].etag, cas[t].expected)
         /\ pc[t] \in {"casGet", "casSample"} => cas[t].value \in Value
    /\ \A r \in InFlight :
         /\ r.kind = "post" => r.value \in Value
         /\ Conditional(r) => r.first /\ Names(r.etag, r.by.expects)

(* What a call tells its caller is what it did: a call that returned Ok took
   effect, one that returned a conflict, an overflow or too many retries did
   not and never will, and no call takes effect twice. *)
Wrote(t) == \E b \in applied : b.id = call[t].id

MayWrite(t) ==
    \E r \in InFlight : r.kind \in {"post", "delete"} /\ r.by.id = call[t].id

AckMatchesEffect ==
    \A t \in Task :
        /\ pc[t] = "idle" /\ call[t].op # "get" =>
             /\ result[t].kind = "ok" => Wrote(t)
             /\ result[t].kind \in {"conflict", "rejected", "exhausted"} =>
                  ~Wrote(t) /\ ~MayWrite(t)
        /\ ~(Wrote(t) /\ MayWrite(t))

(* When only increments write, the counter is the sum of the increments that
   took effect: none is lost, none counts twice. *)
NoLostUpdate ==
    Base(item.value) = MapThenSumSet(LAMBDA b : b.delta, applied)

(* A cas or an increment fails only for a reason: every retry was paid for by
   a change of the item while the call ran, a give-up by MaxRetries of them,
   and a conflict that reports the expected value by at least one. *)
ConflictsHaveCause ==
    \A t \in Task :
        LET changes == churn - call[t].since
        IN  /\ tries[t] <= changes
            /\ pc[t] = "idle" /\ result[t].kind = "exhausted" =>
                 changes >= MaxRetries
            /\ /\ pc[t] = "idle" /\ result[t].kind = "conflict"
               /\ result[t].value = call[t].expected
               => changes > 0

(* The three promises on the time to live of a key, where "due" is the expiry
   its last set, or the cas that created it, asked for.  A value that was
   written to stay is never given an expiry, *)
PermanentKept == due = None => item.expires = None

(* a value that is to expire does not expire before it is due, *)
NotCutShort ==
    due # None /\ item.expires # None => item.expires >= due

(* and a cas of a value that is to expire leaves it an expiry (lib.rs: the
   "conditional first-write POST preserving TTL"). *)
TtlSurvivesCas == due # None => item.expires # None

(* Every call returns, when the sidecar answers and tasks are polled. *)
EveryCallReturns == \A t \in Task : pc[t] # "idle" ~> pc[t] = "idle"

=============================================================================
