-------------------------- MODULE DaprStateProofs --------------------------
(***************************************************************************)
(* Theorems about DaprState, for every set of tasks, providers, calls and  *)
(* values, and every bound: a version names one value, a provider that     *)
(* keeps no ETags compares values, what a call tells its caller is what it *)
(* did, a conflict has a cause, and a counter is the sum of what was added *)
(* to it; and, for a caller that is alone, a time to live is neither given *)
(* to a value that is to stay nor cut short.                               *)
(*                                                                         *)
(* The invariant has parts, proved one after the other.  Of the item and   *)
(* its versions first.  Then, of the calls: Protocol says what a task at   *)
(* an await is waiting for, and with which arguments; it speaks of one     *)
(* task at a time.  Deeds relates the calls to the writes that were done   *)
(* or may still be.  Causes relates what a call has read to the changes of *)
(* the item since it began.  The counter rests on sums over the calls, and *)
(* on a property of calls with no time to live.                            *)
(***************************************************************************)
EXTENDS DaprState, FiniteSetTheorems, WellFoundedInduction, TLAPS

-----------------------------------------------------------------------------
(***************************************************************************)
(* The helpers keep to their types.                                        *)
(***************************************************************************)

(* A TTL in whole seconds makes an expiry a number of ticks. *)
LEMMA ExpiryType ==
    ASSUME now \in Nat, NEW ttl \in OptNat
    PROVE  Expiry(ttl) \in OptNat
<1>1. CASE ttl = None
  BY <1>1 DEF Expiry, OptNat
<1>2. CASE ttl # None
  <2>1. ttl \in Nat /\ TicksPerSec \in Nat
    BY <1>2, SidecarAssumption DEF OptNat
  <2>2. ttl * TicksPerSec \in Nat
    BY <2>1
  <2> QED
    BY <1>2, <2>2 DEF Expiry, OptNat
<1> QED
  BY <1>1, <1>2

(* What tracked_ttl_secs returns is no TTL or a number of seconds. *)
LEMMA TrackedType ==
    ASSUME now \in Nat, NEW deadline \in OptNat
    PROVE  TrackedTtlSecs(deadline) \in OptNat
<1>1. CASE deadline = None \/ Passed(deadline)
  BY <1>1 DEF TrackedTtlSecs, OptNat
<1>2. CASE ~(deadline = None \/ Passed(deadline))
  <2>1. deadline - now \in Nat
    BY <1>2 DEF Passed, OptNat
  <2>2. TicksPerSec \in Nat \ {0}
    BY SidecarAssumption
  <2>3. (deadline - now) + TicksPerSec - 1 \in Nat
    BY <2>1, <2>2
  <2>4. \A a, b \in Nat : b # 0 => a \div b \in Nat
    OBVIOUS
  <2>5. CeilSecs(deadline - now) \in Nat
    BY <2>2, <2>3, <2>4 DEF CeilSecs
  <2> QED
    BY <1>2, <2>5 DEF TrackedTtlSecs, OptNat
<1> QED
  BY <1>1, <1>2

(* Every request a task builds is well typed. *)
LEMMA RequestTypes ==
    ASSUME NEW c \in CallRecord, NEW k \in CasRecord, NEW ttl \in OptNat
    PROVE  /\ StateGetRequest(c) \in Request
           /\ StateSetRequest(c) \in Request
           /\ StateDeleteRequest(c) \in Request
           /\ StateCasRequest(c, k, ttl) \in Request
<1> USE DEF CallRecord, CasRecord, Request, By, ByOf, OptNat, OptValue
<1>1. StateGetRequest(c) \in Request
  BY DEF StateGetRequest, NoReq, Nobody
<1>2. StateSetRequest(c) \in Request
  BY DEF StateSetRequest
<1>3. StateDeleteRequest(c) \in Request
  BY DEF StateDeleteRequest, NoReq, Nobody
<1>4. StateCasRequest(c, k, ttl) \in Request
  BY DEF StateCasRequest
<1> QED
  BY <1>1, <1>2, <1>3, <1>4

(* The records that stand for "nothing" are well typed. *)
LEMMA NothingTypes ==
    /\ Gone \in Item /\ NoReq \in Request /\ NoResp \in Response
    /\ NoCas \in CasRecord /\ NoCall \in CallRecord
    /\ None \in OptNat /\ None \in OptValue
BY DEF Gone, Item, NoReq, Request, NoResp, Response, NoCas, CasRecord, NoCall,
       CallRecord, OptNat, OptValue, By, Nobody, Op

(* The live item is the stored one or none. *)
LEMMA LiveType ==
    ASSUME item \in Item
    PROVE  Live \in Item
BY NothingTypes DEF Live

(* An integer that an increment may add to leaves an i64, hence a value. *)
LEMMA CountableType ==
    ASSUME NEW value \in OptValue, NEW delta, Countable(value, delta)
    PROVE  Base(value) + delta \in Value
<1>1. CASE value = None
  <2>1. delta \in Int64
    BY <1>1, DaprAssumption, SidecarAssumption DEF Countable
  <2>2. 0 + delta = delta
    BY <2>1, DaprAssumption DEF Int64
  <2> QED
    BY <1>1, <2>1, <2>2, DaprAssumption DEF Base
<1>2. CASE value # None
  BY <1>2, DaprAssumption DEF Countable, Base
<1> QED
  BY <1>1, <1>2

-----------------------------------------------------------------------------
(***************************************************************************)
(* Type correctness.                                                       *)
(***************************************************************************)

(* The two ways a handler ends keep the types. *)
LEMMA AwaitType ==
    ASSUME TypeOK, NEW t \in Task, NEW r \in Request,
           NEW p \in Busy \cup {"idle", "casSample"}, Await(t, p, r)
    PROVE  /\ pc' \in [Task -> Busy \cup {"idle", "casSample"}]
           /\ req' \in [Task -> Request]
           /\ resp' \in [Task -> Response]
           /\ stray' \subseteq Request
BY NothingTypes DEF TypeOK, Await

LEMMA ReturnType ==
    ASSUME TypeOK, NEW t \in Task, NEW value \in OptValue,
           NEW kind \in {"ok", "conflict", "failed", "rejected", "exhausted"},
           Return(t, kind, value)
    PROVE  /\ pc' \in [Task -> Busy \cup {"idle", "casSample"}]
           /\ result' \in [Task -> Result]
           /\ cas' \in [Task -> CasRecord]
           /\ tries' \in [Task -> 0 .. MaxRetries - 1]
           /\ req' \in [Task -> Request]
           /\ resp' \in [Task -> Response]
           /\ call' \in [Task -> CallRecord]
           /\ stray' \subseteq Request
<1>1. [kind |-> kind, value |-> value] \in Result
  BY DEF Result
<1>2. 0 \in 0 .. MaxRetries - 1
  BY DaprAssumption
<1> QED
  BY <1>1, <1>2, NothingTypes DEF TypeOK, Return

LEMMA RecordTtlType ==
    ASSUME TypeOK, NEW t \in Task, NEW ttl \in OptNat, RecordTtl(t, ttl)
    PROVE  ttls' \in [Instance -> OptNat]
<1>1. Expiry(ttl) \in OptNat
  BY ExpiryType DEF TypeOK
<1> QED
  BY <1>1 DEF TypeOK, RecordTtl

LEMMA ForgetType ==
    ASSUME TypeOK, NEW t \in Task, NEW value, ForgetIfAbsent(t, value)
    PROVE  ttls' \in [Instance -> OptNat]
BY RecordTtlType, NothingTypes DEF TypeOK, ForgetIfAbsent

LEMMA ConflictType ==
    ASSUME TypeOK, NEW t \in Task, NEW value \in OptValue, CasConflict(t, value)
    PROVE  /\ pc' \in [Task -> Busy \cup {"idle", "casSample"}]
           /\ result' \in [Task -> Result]
           /\ cas' \in [Task -> CasRecord]
           /\ tries' \in [Task -> 0 .. MaxRetries - 1]
           /\ req' \in [Task -> Request]
           /\ resp' \in [Task -> Response]
           /\ call' \in [Task -> CallRecord]
           /\ stray' \subseteq Request
<1>1. CASE Return(t, "conflict", value)
  BY <1>1, ReturnType
<1>2. CASE Return(t, "exhausted", None)
  BY <1>2, ReturnType, NothingTypes
<1>3. CASE /\ tries[t] + 1 < MaxRetries
           /\ tries' = [tries EXCEPT ![t] = @ + 1]
           /\ cas' = [cas EXCEPT ![t] = NoCas]
           /\ Await(t, "get", StateGetRequest(call[t]))
           /\ UNCHANGED <<call, result>>
  <2>1. StateGetRequest(call[t]) \in Request
    BY RequestTypes, NothingTypes DEF TypeOK
  <2>2. /\ pc' \in [Task -> Busy \cup {"idle", "casSample"}]
        /\ req' \in [Task -> Request]
        /\ resp' \in [Task -> Response]
        /\ stray' \subseteq Request
    BY <1>3, <2>1, AwaitType DEF Busy
  <2>3. tries[t] + 1 \in 0 .. MaxRetries - 1
    BY <1>3, DaprAssumption DEF TypeOK
  <2> QED
    BY <1>3, <2>2, <2>3, NothingTypes DEF TypeOK
<1> QED
  BY <1>1, <1>2, <1>3 DEF CasConflict

(* Everything a handler leaves to the sidecar and to the histories. *)
LEMMA QuietType ==
    ASSUME TypeOK, Quiet
    PROVE  /\ now' \in Nat /\ item' \in Item /\ nextEtag' \in Nat
           /\ calls' \in 0 .. MaxCalls /\ faults' \in 0 .. MaxFaults
           /\ applied' \subseteq By /\ churn' \in Nat /\ due' \in OptNat
BY DEF TypeOK, Quiet, sidecarVars, ghostVars

(* A call starts with a well-typed request. *)
LEMMA CallStepType ==
    ASSUME TypeOK, NEW t \in Task, NEW c \in Calls, Call(t, c)
    PROVE  TypeOK'
<1> DEFINE n == [op |-> c.op, expected |-> c.expected, value |-> c.value,
                 ttl |-> c.ttl, delta |-> c.delta,
                 id |-> calls + 1, since |-> churn]
<1>1. c \in CallType
  BY DaprAssumption
<1>2. n \in CallRecord /\ calls + 1 \in 0 .. MaxCalls
  BY <1>1, DaprAssumption DEF CallType, CallRecord, TypeOK, Call
<1>3. /\ StateGetRequest(n) \in Request
      /\ StateSetRequest(n) \in Request
      /\ StateDeleteRequest(n) \in Request
  BY <1>2, RequestTypes, NothingTypes
<1>4. /\ pc' \in [Task -> Busy \cup {"idle", "casSample"}]
      /\ req' \in [Task -> Request]
      /\ resp' \in [Task -> Response]
      /\ stray' \subseteq Request
  <2>1. PICK r \in Request, p \in Busy : Await(t, p, r)
    BY <1>3 DEF Call, Busy
  <2> QED
    BY <2>1, AwaitType
<1>5. cas' \in [Task -> CasRecord]
  <2>1. [NoCas EXCEPT !.expected = c.expected, !.value = c.value] \in CasRecord
    BY <1>1, NothingTypes DEF CasRecord, CallType
  <2> QED
    BY <2>1 DEF TypeOK, Call
<1> QED
  BY <1>2, <1>4, <1>5 DEF TypeOK, Call, sidecarVars, ghostVars

(* A task that goes on keeps the types. *)
LEMMA ResumeType ==
    ASSUME TypeOK, NEW t \in Task, Resume(t)
    PROVE  TypeOK'
<1> USE DEF TypeOK
<1>0. resp[t].value \in OptValue /\ resp[t].etag \in Nat
  BY DEF Response
<1>1. CASE OnFailure(t)
  BY <1>1, QuietType, ReturnType, NothingTypes DEF OnFailure
<1>2. CASE OnGet(t)
  BY <1>0, <1>2, QuietType, ReturnType, ForgetType DEF OnGet
<1>3. CASE OnSet(t)
  <2>1. call[t].ttl \in OptNat
    BY DEF CallRecord
  <2> QED
    BY <1>3, <2>1, QuietType, ReturnType, RecordTtlType, NothingTypes DEF OnSet
<1>4. CASE OnDelete(t)
  BY <1>4, QuietType, ReturnType, RecordTtlType, NothingTypes DEF OnDelete
<1>5. CASE OnIncrementGet(t)
  <2>1. ttls' \in [Instance -> OptNat]
    BY <1>5, ForgetType DEF OnIncrementGet
  <2>2. CASE Return(t, "rejected", None)
    BY <1>5, <2>1, <2>2, QuietType, ReturnType, NothingTypes DEF OnIncrementGet
  <2>3. CASE
          /\ Countable(resp[t].value, call[t].delta)
          /\ cas' = [cas EXCEPT ![t] =
                       [expected |-> resp[t].value,
                        value |-> Base(resp[t].value) + call[t].delta,
                        etag |-> 0]]
          /\ Await(t, "casGet", StateGetRequest(call[t]))
          /\ UNCHANGED <<call, tries, result>>
    <3>1. Base(resp[t].value) + call[t].delta \in Value
      BY <1>0, <2>3, CountableType
    <3>2. cas' \in [Task -> CasRecord]
      BY <1>0, <2>3, <3>1 DEF CasRecord, OptValue
    <3>3. StateGetRequest(call[t]) \in Request
      BY RequestTypes, NothingTypes
    <3>4. /\ pc' \in [Task -> Busy \cup {"idle", "casSample"}]
          /\ req' \in [Task -> Request]
          /\ resp' \in [Task -> Response]
          /\ stray' \subseteq Request
      BY <2>3, <3>3, AwaitType DEF Busy
    <3> QED
      BY <1>5, <2>1, <2>3, <3>2, <3>4, QuietType DEF OnIncrementGet
  <2> QED
    BY <1>5, <2>2, <2>3 DEF OnIncrementGet
<1>6. CASE OnCasGet(t)
  <2>1. ttls' \in [Instance -> OptNat]
    BY <1>6, ForgetType DEF OnCasGet
  <2>2. CASE CasConflict(t, resp[t].value)
    BY <1>0, <1>6, <2>1, <2>2, QuietType, ConflictType DEF OnCasGet
  <2>3. CASE
          /\ pc' = [pc EXCEPT ![t] = "casSample"]
          /\ cas' = [cas EXCEPT ![t].etag = resp[t].etag]
          /\ resp' = [resp EXCEPT ![t] = NoResp]
          /\ UNCHANGED <<call, tries, result, req, stray>>
    <3>1. cas' \in [Task -> CasRecord]
      BY <1>0, <2>3 DEF CasRecord
    <3> QED
      BY <1>6, <2>1, <2>3, <3>1, QuietType, NothingTypes DEF OnCasGet
  <2> QED
    BY <1>6, <2>2, <2>3 DEF OnCasGet
<1>7. CASE CasSample(t)
  <2>1. InstanceOf[t] \in Instance
    BY DaprAssumption
  <2>2. TrackedTtlSecs(ttls[InstanceOf[t]]) \in OptNat
    BY <2>1, TrackedType
  <2>3. StateCasRequest(call[t], cas[t], TrackedTtlSecs(ttls[InstanceOf[t]]))
          \in Request
    BY <2>2, RequestTypes
  <2>4. ttls' \in [Instance -> OptNat]
    BY <1>7, NothingTypes DEF CasSample
  <2>5. /\ pc' \in [Task -> Busy \cup {"idle", "casSample"}]
        /\ req' \in [Task -> Request]
        /\ resp' \in [Task -> Response]
        /\ stray' \subseteq Request
    BY <1>7, <2>3, AwaitType DEF CasSample, Busy
  <2> QED
    BY <1>7, <2>4, <2>5, QuietType DEF CasSample
<1>8. CASE OnCasDone(t)
  <2>1. cas[t].value \in OptValue
    BY DEF CasRecord
  <2> QED
    BY <1>8, <2>1, QuietType, ReturnType DEF OnCasDone
<1>9. CASE OnCasRefused(t)
  <2>1. StateGetRequest(call[t]) \in Request
    BY RequestTypes, NothingTypes
  <2>2. /\ pc' \in [Task -> Busy \cup {"idle", "casSample"}]
        /\ req' \in [Task -> Request]
        /\ resp' \in [Task -> Response]
        /\ stray' \subseteq Request
    BY <1>9, <2>1, AwaitType DEF OnCasRefused, Busy
  <2> QED
    BY <1>9, <2>2, QuietType DEF OnCasRefused
<1>10. CASE OnCasReread(t)
  BY <1>0, <1>10, QuietType, ConflictType DEF OnCasReread
<1> QED
  BY <1>1, <1>2, <1>3, <1>4, <1>5, <1>6, <1>7, <1>8, <1>9, <1>10 DEF Resume

(* Serving a request keeps the types of what the sidecar and the histories
   hold, and replies with a typed response. *)
LEMMA HandleType ==
    ASSUME TypeOK, NEW r \in Request, Handle(r), Record(r)
    PROVE  /\ item' \in Item /\ nextEtag' \in Nat
           /\ applied' \subseteq By /\ churn' \in Nat /\ due' \in OptNat
           /\ Reply(r) \in Response
<1>1. Live \in Item
  BY LiveType DEF TypeOK
<1>2. r.ttl \in OptNat /\ r.by \in By /\ r.value \in OptValue
  BY DEF Request
<1>3. Expiry(r.ttl) \in OptNat
  BY <1>2, ExpiryType DEF TypeOK
<1>4. item' \in Item /\ nextEtag' \in Nat
  BY <1>1, <1>2, <1>3, NothingTypes
     DEF TypeOK, Handle, StateGet, StatePost, StateDelete, Stored, Item
<1>5. due' \in OptNat
  BY <1>3, NothingTypes DEF TypeOK, Record, Due
<1>6. Reply(r) \in Response
  BY <1>1 DEF Reply, Response, NoResp, Item, OptValue
<1> QED
  BY <1>2, <1>4, <1>5, <1>6 DEF TypeOK, Record

(* The sidecar, the transport and the clock keep the types. *)
LEMMA EnvironmentType ==
    ASSUME TypeOK,
           \/ \E t \in Task : Serve(t) \/ Timeout(t)
           \/ \E r \in stray : ServeStray(r)
           \/ Tick
    PROVE  TypeOK'
<1> USE DEF TypeOK
<1>1. ASSUME NEW t \in Task, Serve(t) PROVE TypeOK'
  <2>1. req[t] \in Request
    OBVIOUS
  <2>2. /\ item' \in Item /\ nextEtag' \in Nat
        /\ applied' \subseteq By /\ churn' \in Nat /\ due' \in OptNat
        /\ Reply(req[t]) \in Response
    BY <1>1, <2>1, HandleType DEF Serve
  <2> QED
    BY <1>1, <2>2, NothingTypes DEF Serve, taskVars
<1>2. ASSUME NEW t \in Task, Timeout(t) PROVE TypeOK'
  <2>1. [NoResp EXCEPT !.kind = "failed"] \in Response
    BY DEF NoResp, Response, OptValue
  <2>2. faults' \in 0 .. MaxFaults
    BY <1>2, DaprAssumption DEF Timeout
  <2>3. stray' \subseteq Request
    BY <1>2 DEF Timeout
  <2> QED
    BY <1>2, <2>1, <2>2, <2>3, NothingTypes
       DEF Timeout, sidecarVars, taskVars, ghostVars
<1>3. ASSUME NEW r \in stray, ServeStray(r) PROVE TypeOK'
  <2>1. r \in Request
    OBVIOUS
  <2>2. /\ item' \in Item /\ nextEtag' \in Nat
        /\ applied' \subseteq By /\ churn' \in Nat /\ due' \in OptNat
    BY <1>3, <2>1, HandleType DEF ServeStray
  <2> QED
    BY <1>3, <2>2 DEF ServeStray, taskVars
<1>4. ASSUME Tick PROVE TypeOK'
  BY <1>4 DEF Tick, taskVars, netVars
<1> QED
  BY <1>1, <1>2, <1>3, <1>4

LEMMA TypeInit == Init => TypeOK
<1> SUFFICES ASSUME Init PROVE TypeOK
  OBVIOUS
<1>1. [kind |-> "none", value |-> None] \in Result
  BY DEF Result, OptValue
<1>2. 0 \in 0 .. MaxRetries - 1 /\ 0 \in 0 .. MaxCalls /\ 0 \in 0 .. MaxFaults
  BY DaprAssumption
<1>3. stray = {} /\ applied = {}
  BY DEF Init
<1> QED
  BY <1>1, <1>2, <1>3, NothingTypes DEF Init, SidecarInit, TypeOK

LEMMA TypeStep == TypeOK /\ [Next]_vars => TypeOK'
<1> SUFFICES ASSUME TypeOK, [Next]_vars PROVE TypeOK'
  OBVIOUS
<1>1. ASSUME NEW t \in Task, NEW c \in Calls, Call(t, c) PROVE TypeOK'
  BY <1>1, CallStepType
<1>2. ASSUME NEW t \in Task, Resume(t) PROVE TypeOK'
  BY <1>2, ResumeType
<1>3. CASE \/ \E t \in Task : Serve(t) \/ Timeout(t)
           \/ \E r \in stray : ServeStray(r)
           \/ Tick
  BY <1>3, EnvironmentType
<1>4. CASE UNCHANGED vars
  BY <1>4 DEF TypeOK, vars, sidecarVars, taskVars, netVars, ghostVars
<1> QED
  BY <1>1, <1>2, <1>3, <1>4 DEF Next

(* Every variable always has its type: in particular a counter never leaves
   the range of an i64, whatever is added to it by whom. *)
THEOREM TypeCorrect == Spec => []TypeOK
BY TypeInit, TypeStep, PTL DEF Spec

-----------------------------------------------------------------------------
(***************************************************************************)
(* Compare and swap is atomic.  CasAtomic alone is not inductive: nothing  *)
(* in it says where the ETag of a pending write came from.  EtagNamesValue *)
(* does; the proofs below use it task by task and request by request.      *)
(***************************************************************************)
ReplyNames(t) == resp[t].kind = "item" => Names(resp[t].etag, resp[t].value)

CasNames(t) ==
    /\ pc[t] = "casSample" => Names(cas[t].etag, cas[t].expected)
    /\ pc[t] \in {"casGet", "casSample"} => cas[t].value \in Value

WriteNames(r) ==
    r.kind = "post" =>
        /\ r.value \in Value
        /\ Conditional(r) => r.first /\ Names(r.etag, r.by.expects)

EtagParts ==
    /\ Names(item.etag, item.value)
    /\ \A t \in Task : ReplyNames(t) /\ CasNames(t) /\ WriteNames(req[t])
    /\ \A r \in stray : WriteNames(r)

LEMMA PartsOfEtag == EtagParts <=> EtagNamesValue
BY DEF EtagParts, EtagNamesValue, InFlight, ReplyNames, CasNames, WriteNames,
       Conditional

(* What the invariant says in the next state. *)
LEMMA PartsNext == EtagParts' <=> EtagNamesValue'
BY DEF EtagParts, EtagNamesValue, InFlight, ReplyNames, CasNames, WriteNames,
       Conditional

(* The live item is named by its ETag like the stored one. *)
LEMMA LiveNamed ==
    ASSUME Names(item.etag, item.value), nextEtag \in Nat
    PROVE  Names(Live.etag, Live.value)
BY DEF Names, Live, Gone

(* An ETag keeps its meaning while a request is served: a write that takes
   effect gets an ETag nobody has seen. *)
LEMMA NamesKept ==
    ASSUME TypeOK, Names(item.etag, item.value),
           NEW r \in Request, WriteNames(r), Handle(r),
           NEW etag \in Nat, NEW value, Names(etag, value)
    PROVE  Names(etag, value)'
<1>1. CASE StateGet
  BY <1>1 DEF StateGet, Names, Live, Gone
<1>2. CASE StateDelete
  BY <1>2 DEF StateDelete, Names, Gone
<1>3. CASE r.kind = "post" /\ StatePost(r)
  <2>1. CASE Accepts(r) /\ item' = Stored(r) /\ nextEtag' = nextEtag + 1
    BY <2>1 DEF TypeOK, Stored, Names
  <2>2. CASE item' = Live /\ nextEtag' = nextEtag
    BY <2>2 DEF Names, Live, Gone
  <2> QED
    BY <1>3, <2>1, <2>2 DEF StatePost
<1> QED
  BY <1>1, <1>2, <1>3 DEF Handle

LEMMA ItemNamed ==
    ASSUME TypeOK, Names(item.etag, item.value),
           NEW r \in Request, WriteNames(r), Handle(r)
    PROVE  Names(item.etag, item.value)'
<1>1. CASE StateGet
  BY <1>1 DEF TypeOK, StateGet, Names, Live, Gone
<1>2. CASE StateDelete
  BY <1>2 DEF TypeOK, StateDelete, Names, Gone
<1>3. CASE r.kind = "post" /\ StatePost(r)
  <2>1. CASE Accepts(r) /\ item' = Stored(r) /\ nextEtag' = nextEtag + 1
    <3>1. r.value # None
      BY <1>3, SidecarAssumption DEF WriteNames
    <3> QED
      BY <2>1, <3>1 DEF TypeOK, Stored, Names
  <2>2. CASE item' = Live /\ nextEtag' = nextEtag
    BY <2>2 DEF TypeOK, Names, Live, Gone
  <2> QED
    BY <1>3, <2>1, <2>2 DEF StatePost
<1> QED
  BY <1>1, <1>2, <1>3 DEF Handle

(* A task that moves without touching the sidecar: the invariant holds again
   if it holds of what that task now waits for. *)
LEMMA TaskStep ==
    ASSUME TypeOK, EtagParts, NEW t \in Task,
           UNCHANGED <<item, nextEtag, stray>>,
           \A u \in Task \ {t} :
               /\ resp'[u] = resp[u] /\ pc'[u] = pc[u]
               /\ cas'[u] = cas[u] /\ req'[u] = req[u],
           ReplyNames(t)', CasNames(t)', WriteNames(req[t])'
    PROVE  EtagParts'
<1>1. Names(item.etag, item.value)'
  BY DEF EtagParts, Names
<1>2. ASSUME NEW u \in Task PROVE (ReplyNames(u) /\ CasNames(u))'
  BY DEF EtagParts, ReplyNames, CasNames, Names
<1>3. ASSUME NEW u \in Task PROVE WriteNames(req[u])'
  BY DEF EtagParts, WriteNames, Names, Conditional
<1>4. ASSUME NEW r \in stray' PROVE WriteNames(r)'
  BY DEF EtagParts, WriteNames, Names, Conditional
<1> QED
  BY <1>1, <1>2, <1>3, <1>4 DEF EtagParts

(* Waiting for the answer to a read or a delete, or for that to a plain
   write of a value. *)
LEMMA AwaitKeeps ==
    ASSUME TypeOK, EtagParts, NEW t \in Task, NEW r \in Request, NEW p,
           Await(t, p, r), UNCHANGED <<item, nextEtag>>,
           cas' \in [Task -> CasRecord],
           \A u \in Task \ {t} : cas'[u] = cas[u],
           WriteNames(r),
           p # "casSample", p = "casGet" => cas'[t].value \in Value
    PROVE  EtagParts'
<1>1. ReplyNames(t)' /\ CasNames(t)'
  BY DEF TypeOK, Await, ReplyNames, CasNames, NoResp
<1>2. WriteNames(req[t])'
  BY DEF TypeOK, Await, WriteNames, Conditional, Names
<1>3. /\ UNCHANGED <<item, nextEtag, stray>>
      /\ \A u \in Task \ {t} :
           /\ resp'[u] = resp[u] /\ pc'[u] = pc[u]
           /\ cas'[u] = cas[u] /\ req'[u] = req[u]
  BY DEF TypeOK, Await
<1> QED
  BY <1>1, <1>2, <1>3, TaskStep

LEMMA ReturnKeeps ==
    ASSUME TypeOK, EtagParts, NEW t \in Task, NEW kind, NEW value,
           Return(t, kind, value), UNCHANGED <<item, nextEtag>>
    PROVE  EtagParts'
<1>1. ReplyNames(t)' /\ CasNames(t)'
  BY DEF TypeOK, Return, ReplyNames, CasNames, NoResp
<1>2. WriteNames(req[t])'
  BY DEF TypeOK, EtagParts, Return, WriteNames, Conditional, Names
<1>3. /\ UNCHANGED <<item, nextEtag, stray>>
      /\ \A u \in Task \ {t} :
           /\ resp'[u] = resp[u] /\ pc'[u] = pc[u]
           /\ cas'[u] = cas[u] /\ req'[u] = req[u]
  BY DEF TypeOK, Return
<1> QED
  BY <1>1, <1>2, <1>3, TaskStep

LEMMA ReadsAreNoWrites ==
    ASSUME NEW c
    PROVE  WriteNames(StateGetRequest(c)) /\ WriteNames(StateDeleteRequest(c))
BY DEF WriteNames, StateGetRequest, StateDeleteRequest, NoReq

LEMMA ConflictKeeps ==
    ASSUME TypeOK, EtagParts, NEW t \in Task, NEW value,
           CasConflict(t, value), UNCHANGED <<item, nextEtag>>
    PROVE  EtagParts'
<1>1. CASE Return(t, "conflict", value)
  BY <1>1, ReturnKeeps
<1>2. CASE Return(t, "exhausted", None)
  BY <1>2, ReturnKeeps
<1>3. CASE /\ cas' = [cas EXCEPT ![t] = NoCas]
           /\ Await(t, "get", StateGetRequest(call[t]))
  <2>1. StateGetRequest(call[t]) \in Request
    BY RequestTypes, NothingTypes DEF TypeOK
  <2>2. cas' \in [Task -> CasRecord] /\ \A u \in Task \ {t} : cas'[u] = cas[u]
    BY <1>3, NothingTypes DEF TypeOK
  <2>3. WriteNames(StateGetRequest(call[t]))
    BY ReadsAreNoWrites
  <2> QED
    BY <1>3, <2>1, <2>2, <2>3, AwaitKeeps
<1> QED
  BY <1>1, <1>2, <1>3 DEF CasConflict

LEMMA CallKeeps ==
    ASSUME TypeOK, EtagParts, NEW t \in Task, NEW c \in Calls, Call(t, c)
    PROVE  EtagParts'
<1> DEFINE n == [op |-> c.op, expected |-> c.expected, value |-> c.value,
                 ttl |-> c.ttl, delta |-> c.delta,
                 id |-> calls + 1, since |-> churn]
<1>1. n \in CallRecord
  BY DaprAssumption DEF CallType, CallRecord, TypeOK
<1>2. /\ StateGetRequest(n) \in Request
      /\ StateSetRequest(n) \in Request
      /\ StateDeleteRequest(n) \in Request
  BY <1>1, RequestTypes, NothingTypes
<1>3. WriteNames(StateGetRequest(n)) /\ WriteNames(StateDeleteRequest(n))
  BY ReadsAreNoWrites
<1>4. c.op = "set" => WriteNames(StateSetRequest(n))
  BY DaprAssumption DEF WriteNames, StateSetRequest, Conditional, ByOf
<1>5. /\ cas' \in [Task -> CasRecord]
      /\ \A u \in Task \ {t} : cas'[u] = cas[u]
      /\ cas'[t].value = c.value
  BY DaprAssumption DEF TypeOK, Call, NoCas, CasRecord, CallType
<1>6. PICK r \in Request, p \in {"get", "set", "delete", "casGet"} :
        /\ Await(t, p, r) /\ WriteNames(r)
        /\ p = "casGet" => c.op = "cas"
  BY <1>2, <1>3, <1>4 DEF Call
<1>7. UNCHANGED <<item, nextEtag>>
  BY DEF Call, sidecarVars
<1>8. p = "casGet" => cas'[t].value \in Value
  BY <1>5, <1>6, DaprAssumption
<1> QED
  BY <1>5, <1>6, <1>7, <1>8, AwaitKeeps

LEMMA ResumeKeeps ==
    ASSUME TypeOK, EtagParts, NEW t \in Task, Resume(t)
    PROVE  EtagParts'
<1>0. UNCHANGED <<item, nextEtag>>
  BY DEF Resume, OnFailure, OnGet, OnSet, OnDelete, OnIncrementGet, OnCasGet,
         CasSample, OnCasDone, OnCasRefused, OnCasReread, Quiet, sidecarVars
<1>1. CASE OnFailure(t) \/ OnGet(t) \/ OnSet(t) \/ OnDelete(t) \/ OnCasDone(t)
  <2>1. PICK kind, value : Return(t, kind, value)
    BY <1>1 DEF OnFailure, OnGet, OnSet, OnDelete, OnCasDone
  <2> QED
    BY <1>0, <2>1, ReturnKeeps
<1>2. CASE OnIncrementGet(t)
  <2>1. CASE Return(t, "rejected", None)
    BY <1>0, <2>1, ReturnKeeps
  <2>2. CASE
          /\ Countable(resp[t].value, call[t].delta)
          /\ cas' = [cas EXCEPT ![t] =
                       [expected |-> resp[t].value,
                        value |-> Base(resp[t].value) + call[t].delta,
                        etag |-> 0]]
          /\ Await(t, "casGet", StateGetRequest(call[t]))
    <3>1. resp[t].value \in OptValue
      BY DEF TypeOK, Response
    <3>2. Base(resp[t].value) + call[t].delta \in Value
      BY <2>2, <3>1, CountableType
    <3>3. /\ cas' \in [Task -> CasRecord]
          /\ \A u \in Task \ {t} : cas'[u] = cas[u]
          /\ cas'[t].value \in Value
      BY <2>2, <3>1, <3>2 DEF TypeOK, CasRecord, OptValue
    <3>4. StateGetRequest(call[t]) \in Request
      BY RequestTypes, NothingTypes DEF TypeOK
    <3>5. WriteNames(StateGetRequest(call[t]))
      BY ReadsAreNoWrites
    <3> QED
      BY <1>0, <2>2, <3>3, <3>4, <3>5, AwaitKeeps
  <2> QED
    BY <1>2, <2>1, <2>2 DEF OnIncrementGet
<1>3. CASE OnCasGet(t)
  <2>1. CASE CasConflict(t, resp[t].value)
    BY <1>0, <2>1, ConflictKeeps
  <2>2. CASE
          /\ resp[t].value = cas[t].expected
          /\ pc' = [pc EXCEPT ![t] = "casSample"]
          /\ cas' = [cas EXCEPT ![t].etag = resp[t].etag]
          /\ resp' = [resp EXCEPT ![t] = NoResp]
          /\ UNCHANGED <<call, tries, result, req, stray>>
    <3>1. Names(resp[t].etag, resp[t].value) /\ cas[t].value \in Value
      BY <1>3 DEF OnCasGet, Got, EtagParts, ReplyNames, CasNames
    <3>2. Names(cas[t].etag, cas[t].expected)'
      BY <1>0, <2>2, <3>1 DEF TypeOK, Names, CasRecord
    <3>3. (cas[t].value \in Value)'
      BY <2>2, <3>1 DEF TypeOK, CasRecord
    <3>4. CasNames(t)'
      BY <3>2, <3>3 DEF CasNames
    <3>5. ReplyNames(t)'
      BY <2>2 DEF TypeOK, ReplyNames, NoResp
    <3>6. WriteNames(req[t])'
      BY <1>0, <2>2 DEF EtagParts, WriteNames, Conditional, Names
    <3> QED
      BY <1>0, <2>2, <3>4, <3>5, <3>6, TaskStep DEF TypeOK
  <2> QED
    BY <1>3, <2>1, <2>2 DEF OnCasGet
<1>4. CASE CasSample(t)
  <2> DEFINE ttl == TrackedTtlSecs(ttls[InstanceOf[t]])
             r == StateCasRequest(call[t], cas[t], ttl)
  <2>1. ttl \in OptNat
    BY DaprAssumption, TrackedType DEF TypeOK
  <2>2. r \in Request
    BY <2>1, RequestTypes DEF TypeOK
  <2>3. WriteNames(r)
    BY <1>4 DEF CasSample, EtagParts, CasNames, WriteNames, StateCasRequest, ByOf
  <2>4. /\ Await(t, "casPost", r)
        /\ cas' \in [Task -> CasRecord]
        /\ \A u \in Task \ {t} : cas'[u] = cas[u]
    BY <1>4 DEF CasSample, TypeOK
  <2> QED
    BY <1>0, <2>2, <2>3, <2>4, AwaitKeeps
<1>5. CASE OnCasRefused(t)
  <2>1. StateGetRequest(call[t]) \in Request
    BY RequestTypes, NothingTypes DEF TypeOK
  <2>2. WriteNames(StateGetRequest(call[t]))
    BY ReadsAreNoWrites
  <2>3. /\ Await(t, "casReread", StateGetRequest(call[t]))
        /\ cas' \in [Task -> CasRecord]
        /\ \A u \in Task \ {t} : cas'[u] = cas[u]
    BY <1>5 DEF OnCasRefused, TypeOK
  <2> QED
    BY <1>0, <2>1, <2>2, <2>3, AwaitKeeps
<1>6. CASE OnCasReread(t)
  BY <1>0, <1>6, ConflictKeeps DEF OnCasReread
<1> QED
  BY <1>1, <1>2, <1>3, <1>4, <1>5, <1>6 DEF Resume

(* A served request, whoever sent it, leaves every ETag its meaning. *)
LEMMA HandleKeeps ==
    ASSUME TypeOK, EtagParts, NEW r \in Request, WriteNames(r), Handle(r),
           UNCHANGED <<pc, cas>>
    PROVE  /\ Names(item.etag, item.value)'
           /\ \A t \in Task :
                 /\ CasNames(t)'
                 /\ resp'[t] = resp[t] => ReplyNames(t)'
           /\ \A w \in Request : WriteNames(w) => WriteNames(w)'
<1>1. Names(item.etag, item.value)
  BY DEF EtagParts
<1>2. Names(item.etag, item.value)'
  BY <1>1, ItemNamed
<1>3. ASSUME NEW t \in Task PROVE CasNames(t)'
  <2>1. cas[t].etag \in Nat
    BY DEF TypeOK, CasRecord
  <2>2. Names(cas[t].etag, cas[t].expected) =>
          Names(cas[t].etag, cas[t].expected)'
    BY <1>1, <2>1, NamesKept DEF Names
  <2> QED
    BY <2>2 DEF EtagParts, CasNames
<1>4. ASSUME NEW t \in Task, resp'[t] = resp[t] PROVE ReplyNames(t)'
  <2>1. resp[t].etag \in Nat
    BY DEF TypeOK, Response
  <2>2. Names(resp[t].etag, resp[t].value) =>
          Names(resp[t].etag, resp[t].value)'
    BY <1>1, <1>4, <2>1, NamesKept DEF Names
  <2> QED
    BY <1>4, <2>2 DEF EtagParts, ReplyNames
<1>5. ASSUME NEW w \in Request, WriteNames(w) PROVE WriteNames(w)'
  <2>1. w.etag \in Nat
    BY DEF Request
  <2>2. Names(w.etag, w.by.expects) => Names(w.etag, w.by.expects)'
    BY <1>1, <2>1, NamesKept
  <2> QED
    BY <1>5, <2>2 DEF WriteNames, Conditional
<1> QED
  BY <1>2, <1>3, <1>4, <1>5

LEMMA ServeKeeps ==
    ASSUME TypeOK, EtagParts, NEW t \in Task, Serve(t)
    PROVE  EtagParts'
<1>1. req[t] \in Request /\ WriteNames(req[t]) /\ Handle(req[t])
  BY DEF TypeOK, EtagParts, Serve
<1>2. UNCHANGED <<pc, cas, stray>>
  BY DEF Serve, taskVars
<1>3. /\ Names(item.etag, item.value)'
      /\ \A u \in Task :
            /\ CasNames(u)'
            /\ resp'[u] = resp[u] => ReplyNames(u)'
      /\ \A w \in Request : WriteNames(w) => WriteNames(w)'
  BY <1>1, <1>2, HandleKeeps
<1>4. ReplyNames(t)'
  <2>1. resp'[t] = Reply(req[t])
    BY DEF TypeOK, Serve
  <2>2. CASE req[t].kind = "get"
    <3>1. Names(Live.etag, Live.value)
      BY LiveNamed DEF TypeOK, EtagParts
    <3>2. item' = Live /\ nextEtag' = nextEtag
      BY <1>1, <2>2 DEF Handle, StateGet
    <3>3. resp'[t].etag = Live.etag /\ resp'[t].value = Live.value
      BY <2>1, <2>2 DEF Reply
    <3> QED
      BY <3>1, <3>2, <3>3 DEF Names, ReplyNames
  <2>3. CASE req[t].kind # "get"
    BY <2>1, <2>3 DEF Reply, NoResp, ReplyNames
  <2> QED
    BY <2>2, <2>3
<1>5. ASSUME NEW u \in Task PROVE ReplyNames(u)' /\ CasNames(u)'
  <2>1. u # t => resp'[u] = resp[u]
    BY DEF TypeOK, Serve
  <2> QED
    BY <1>3, <1>4, <2>1
<1>6. ASSUME NEW u \in Task PROVE WriteNames(req[u])'
  <2>1. req'[u] = req[u] \/ req'[u] = NoReq
    BY DEF TypeOK, Serve
  <2>2. WriteNames(req[u]) => (req'[u] = req[u] => WriteNames(req[u])')
    BY <1>3 DEF TypeOK, WriteNames, Conditional, Names
  <2>3. req'[u] = NoReq => WriteNames(req[u])'
    BY DEF WriteNames, NoReq
  <2> QED
    BY <2>1, <2>2, <2>3 DEF EtagParts
<1>7. ASSUME NEW r \in stray' PROVE WriteNames(r)'
  <2>1. r \in stray /\ r \in Request /\ WriteNames(r)
    BY <1>2, <1>7 DEF TypeOK, EtagParts, WriteNames, Conditional
  <2> QED
    BY <1>3, <2>1 DEF WriteNames, Conditional, Names
<1> QED
  BY <1>3, <1>5, <1>6, <1>7 DEF EtagParts

LEMMA ServeStrayKeeps ==
    ASSUME TypeOK, EtagParts, NEW r \in stray, ServeStray(r)
    PROVE  EtagParts'
<1>1. r \in Request /\ WriteNames(r) /\ Handle(r)
  BY DEF TypeOK, EtagParts, ServeStray
<1>2. UNCHANGED <<pc, cas, req, resp>> /\ stray' \subseteq stray
  BY DEF ServeStray, taskVars
<1>3. /\ Names(item.etag, item.value)'
      /\ \A u \in Task : ReplyNames(u)' /\ CasNames(u)'
      /\ \A w \in Request : WriteNames(w) => WriteNames(w)'
  BY <1>1, <1>2, HandleKeeps
<1>4. ASSUME NEW u \in Task PROVE WriteNames(req[u])'
  BY <1>2, <1>3 DEF TypeOK, EtagParts, WriteNames, Conditional, Names
<1>5. ASSUME NEW w \in stray' PROVE WriteNames(w)'
  BY <1>2, <1>3, <1>5 DEF TypeOK, EtagParts
<1> QED
  BY <1>3, <1>4, <1>5 DEF EtagParts

LEMMA TimeoutKeeps ==
    ASSUME TypeOK, EtagParts, NEW t \in Task, Timeout(t)
    PROVE  EtagParts'
<1>1. UNCHANGED <<item, nextEtag, pc, cas>>
  BY DEF Timeout, sidecarVars, taskVars
<1>2. Names(item.etag, item.value)'
  BY <1>1 DEF EtagParts, Names
<1>3. ASSUME NEW u \in Task PROVE ReplyNames(u)' /\ CasNames(u)'
  BY <1>1 DEF TypeOK, Timeout, EtagParts, ReplyNames, CasNames, Names, NoResp
<1>4. ASSUME NEW r, WriteNames(r) PROVE WriteNames(r)'
  BY <1>1, <1>4 DEF WriteNames, Conditional, Names
<1>5. ASSUME NEW u \in Task PROVE WriteNames(req[u])'
  <2>1. req'[u] = req[u] \/ req'[u] = NoReq
    BY DEF TypeOK, Timeout
  <2> QED
    BY <1>1, <2>1 DEF EtagParts, WriteNames, Conditional, Names, NoReq
<1>6. ASSUME NEW r \in stray' PROVE WriteNames(r)'
  <2>1. WriteNames(r)
    BY <1>6, <1>1 DEF Timeout, EtagParts, WriteNames, Conditional
  <2> QED
    BY <2>1, <1>4
<1> QED
  BY <1>2, <1>3, <1>5, <1>6 DEF EtagParts

LEMMA EtagInit == Init => EtagParts
<1> SUFFICES ASSUME Init PROVE EtagParts
  OBVIOUS
<1>1. Names(item.etag, item.value)
  BY DEF Init, SidecarInit, Gone, Names
<1> QED
  BY <1>1 DEF Init, EtagParts, ReplyNames, CasNames, WriteNames, NoReq, NoResp

LEMMA EtagStep == TypeOK /\ EtagParts /\ [Next]_vars => EtagParts'
<1> SUFFICES ASSUME TypeOK, EtagParts, [Next]_vars PROVE EtagParts'
  OBVIOUS
<1>1. ASSUME NEW t \in Task, NEW c \in Calls, Call(t, c) PROVE EtagParts'
  BY <1>1, CallKeeps
<1>2. ASSUME NEW t \in Task, Resume(t) PROVE EtagParts'
  BY <1>2, ResumeKeeps
<1>3. ASSUME NEW t \in Task, Serve(t) PROVE EtagParts'
  BY <1>3, ServeKeeps
<1>4. ASSUME NEW t \in Task, Timeout(t) PROVE EtagParts'
  BY <1>4, TimeoutKeeps
<1>5. ASSUME NEW r \in stray, ServeStray(r) PROVE EtagParts'
  BY <1>5, ServeStrayKeeps
<1>6. CASE Tick \/ UNCHANGED vars
  <2>1. UNCHANGED <<item, nextEtag, pc, cas, req, resp, stray>>
    BY <1>6 DEF Tick, vars, sidecarVars, taskVars, netVars
  <2> QED
    BY <2>1 DEF EtagParts, ReplyNames, CasNames, WriteNames, Conditional, Names
<1> QED
  BY <1>1, <1>2, <1>3, <1>4, <1>5, <1>6 DEF Next

(* An ETag names one value for ever, for everyone who still holds it. *)
THEOREM EtagsAreNames == Spec => []EtagNamesValue
<1>1. Init => TypeOK /\ EtagParts
  BY TypeInit, EtagInit
<1>2. TypeOK /\ EtagParts /\ [Next]_vars => (TypeOK /\ EtagParts)'
  BY TypeStep, EtagStep
<1>3. EtagParts => EtagNamesValue
  BY PartsOfEtag
<1> QED
  BY <1>1, <1>2, <1>3, PTL DEF Spec

LEMMA EtagImpliesAtomic == EtagNamesValue => CasAtomic
<1> SUFFICES ASSUME EtagNamesValue, NEW r \in InFlight,
                    Conditional(r), Accepts(r)
             PROVE  r.by.expects = Live.value
  BY DEF CasAtomic
<1>1. r.first /\ Names(r.etag, r.by.expects) /\ Names(item.etag, item.value)
  BY DEF EtagNamesValue
<1>2. r.etag = Live.etag
  BY <1>1 DEF Accepts
<1>3. CASE r.etag = 0
  BY <1>1, <1>2, <1>3 DEF Names, Live, Gone
<1>4. CASE r.etag # 0
  BY <1>1, <1>2, <1>4 DEF Names, Live, Gone
<1> QED
  BY <1>3, <1>4

(* Compare and swap is one atomic step of the key: no write of a cas or of an
   increment, however late, is accepted unless the key then holds the value
   that was compared.  So no increment is lost, however many tasks contend. *)
THEOREM CasIsAtomic == Spec => []CasAtomic
<1>1. EtagNamesValue => CasAtomic
  BY EtagImpliesAtomic
<1> QED
  BY <1>1, EtagsAreNames, PTL

-----------------------------------------------------------------------------
(***************************************************************************)
(* The calls: what a task at an await is doing.                            *)
(***************************************************************************)
(* The await points of a cas. *)
Comparing == {"casGet", "casSample", "casPost", "casReread"}

-----------------------------------------------------------------------------
(* The request a task waits for, and the replies it may hear. *)
Asks(t) ==
    \/ pc[t] \in Reading /\ req[t] = StateGetRequest(call[t])
    \/ pc[t] = "set" /\ req[t] = StateSetRequest(call[t])
    \/ pc[t] = "delete" /\ req[t] = StateDeleteRequest(call[t])
    \/ /\ pc[t] = "casPost"
       /\ req[t].ttl \in OptNat \ {0}
       /\ req[t] = StateCasRequest(call[t], cas[t], req[t].ttl)

Hears(t) ==
    CASE pc[t] \in Reading            -> {"item", "failed"}
      [] pc[t] \in {"set", "delete"}  -> {"done", "failed"}
      [] pc[t] = "casPost"            -> {"done", "conflict", "failed"}
      [] OTHER                        -> {}

Waiting(t) ==
    \/ pc[t] \notin Busy /\ req[t] = NoReq /\ resp[t] = NoResp
    \/ pc[t] \in Busy /\ Asks(t) /\ resp[t] = NoResp
    \/ pc[t] \in Busy /\ req[t] = NoReq /\ resp[t].kind \in Hears(t)

(* What a call can have been made with, and where it can be. *)
Fits(t) ==
    /\ pc[t] = "get" => call[t].op \in {"get", "increment"}
    /\ pc[t] \in {"set", "delete"} => call[t].op = pc[t]
    /\ pc[t] \in Comparing => call[t].op \in {"cas", "increment"}
    /\ call[t].op = "set" => call[t].value \in Value
    /\ pc[t] = "idle" => tries[t] = 0

(* The arguments of the running cas are those of the call, or those that an
   increment made of the value it read. *)
CasFits(op, delta, expected, value) ==
    /\ value \in Value
    /\ op = "increment" =>
         Countable(expected, delta) /\ value = Base(expected) + delta

Swaps(t) ==
    pc[t] \in Comparing =>
      /\ CasFits(call[t].op, call[t].delta, cas[t].expected, cas[t].value)
      /\ call[t].op = "cas" =>
           cas[t].expected = call[t].expected /\ cas[t].value = call[t].value

(* A write nobody waits for any more still carries the call it was made for. *)
Stray(r) ==
    \/ r.kind = "delete" /\ r.by.op = "delete"
    \/ /\ r.kind = "post" /\ r.by.op = "set" /\ ~r.first /\ r.value \in Value
    \/ /\ r.kind = "post" /\ r.by.op \in {"cas", "increment"} /\ r.first
       /\ r.ttl # 0 /\ CasFits(r.by.op, r.by.delta, r.by.expects, r.value)

InStep(t) == Waiting(t) /\ Fits(t) /\ Swaps(t)

Protocol ==
    /\ \A t \in Task : InStep(t)
    /\ \A r \in stray : Stray(r)

-----------------------------------------------------------------------------
(* No write of call number id was done, nor can one be done that nobody waits
   for. *)
Clean(id) ==
    /\ \A b \in applied : b.id # id
    /\ \A r \in stray : r.by.id # id

(* Calls have numbers of their own. *)
Numbered ==
    /\ \A t \in Task : /\ call[t].id \in 0 .. calls
                       /\ call[t].id = 0 => pc[t] = "idle" /\ call[t].op = "get"
    /\ \A t, u \in Task : t # u /\ call[t].id = call[u].id => call[t].id = 0
    /\ \A b \in applied : b.id \in 1 .. calls
    /\ \A r \in stray : r.by.id \in 1 .. calls

(* A stray write is the only one of its call, and was not done. *)
Once ==
    /\ \A r \in stray, b \in applied : b.id # r.by.id
    /\ \A r, s \in stray : r.by.id = s.by.id => r = s

(* A call that only read so far did nothing, a write that is out was not done
   before; a write that was answered was done, or refused. *)
Did(t) ==
    /\ pc[t] \in Reading \cup {"casSample"} => Clean(call[t].id)
    /\ req[t].kind # "none" => Clean(call[t].id)
    /\ resp[t].kind = "conflict" => Clean(call[t].id)
    /\ resp[t].kind = "done" => Wrote(t)
    /\ pc[t] = "idle" /\ call[t].op # "get" =>
         /\ result[t].kind = "ok" => Wrote(t)
         /\ result[t].kind \in {"conflict", "rejected", "exhausted"} =>
              Clean(call[t].id)

Deeds == Numbered /\ Once /\ \A t \in Task : Did(t)

-----------------------------------------------------------------------------
(* As long as nothing but what its lost attempts have paid for has changed
   since a call began, what it holds is the live item's. *)
Paid(t) == call[t].since + tries[t]

Current(t) ==
    /\ resp[t].kind = "item" =>
         resp[t].value = Live.value /\ resp[t].etag = Live.etag
    /\ call[t].op = "increment" /\ pc[t] = "casGet" => cas[t].expected = Live.value
    /\ pc[t] = "casSample" => cas[t].etag = Live.etag
    /\ req[t].kind = "post" /\ req[t].first => req[t].etag = Live.etag
    /\ resp[t].kind # "conflict" /\ pc[t] # "casReread"

Caused(t) ==
    /\ Paid(t) <= churn
    /\ pc[t] # "idle" /\ Paid(t) = churn => Current(t)
    /\ pc[t] = "idle" /\ result[t].kind = "exhausted" =>
         churn - call[t].since >= MaxRetries
    /\ pc[t] = "idle" /\ result[t].kind = "conflict"
       /\ result[t].value = call[t].expected => churn > call[t].since

Causes == \A t \in Task : Caused(t)

-----------------------------------------------------------------------------
(***************************************************************************)
(* What a step does to the task that takes it, and to the others.          *)
(***************************************************************************)
Same(u) ==
    /\ pc'[u] = pc[u] /\ call'[u] = call[u] /\ cas'[u] = cas[u]
    /\ tries'[u] = tries[u] /\ result'[u] = result[u]
    /\ req'[u] = req[u] /\ resp'[u] = resp[u]

(* A reply that tells the running cas that it lost. *)
Beaten(t) ==
    /\ pc[t] \in {"casGet", "casReread"} /\ resp[t].kind = "item"
    /\ pc[t] = "casGet" => resp[t].value # cas[t].expected

(* The ways a call returns. *)
Says(t, kind, value) ==
    \/ kind = "failed" /\ resp[t].kind = "failed" /\ value = None
    \/ /\ kind = "ok" /\ pc[t] = "get" /\ resp[t].kind = "item"
       /\ call[t].op = "get" /\ value = resp[t].value
    \/ /\ kind = "ok" /\ resp[t].kind = "done"
       /\ pc[t] \in {"set", "delete", "casPost"}
       /\ value = IF pc[t] = "casPost" THEN cas[t].value ELSE None
    \/ /\ kind = "rejected" /\ pc[t] = "get" /\ resp[t].kind = "item"
       /\ call[t].op = "increment" /\ value = None
       /\ ~Countable(resp[t].value, call[t].delta)
    \/ /\ kind = "conflict" /\ Beaten(t) /\ call[t].op = "cas"
       /\ value = resp[t].value
    \/ /\ kind = "exhausted" /\ Beaten(t) /\ call[t].op = "increment"
       /\ tries[t] + 1 >= MaxRetries /\ value = None

(* The ways it goes on. *)
Again(t) ==
    /\ Beaten(t) /\ call[t].op = "increment" /\ tries[t] + 1 < MaxRetries
    /\ tries' = [tries EXCEPT ![t] = @ + 1]
    /\ cas' = [cas EXCEPT ![t] = NoCas]
    /\ Await(t, "get", StateGetRequest(call[t]))
    /\ UNCHANGED <<call, result>>

Counts(t) ==
    /\ Got(t, "get", "item") /\ call[t].op = "increment"
    /\ Countable(resp[t].value, call[t].delta)
    /\ cas' = [cas EXCEPT ![t] =
                 [expected |-> resp[t].value,
                  value |-> Base(resp[t].value) + call[t].delta, etag |-> 0]]
    /\ Await(t, "casGet", StateGetRequest(call[t]))
    /\ UNCHANGED <<call, tries, result>>

Matches(t) ==
    /\ Got(t, "casGet", "item")
    /\ resp[t].value = cas[t].expected
    /\ pc' = [pc EXCEPT ![t] = "casSample"]
    /\ cas' = [cas EXCEPT ![t].etag = resp[t].etag]
    /\ resp' = [resp EXCEPT ![t] = NoResp]
    /\ UNCHANGED <<call, tries, result, req, stray>>

Posts(t) ==
    /\ pc[t] = "casSample"
    /\ \E ttl \in OptNat \ {0} :
         Await(t, "casPost", StateCasRequest(call[t], cas[t], ttl))
    /\ UNCHANGED <<call, cas, tries, result>>

Rereads(t) ==
    /\ Got(t, "casPost", "conflict")
    /\ Await(t, "casReread", StateGetRequest(call[t]))
    /\ UNCHANGED <<call, cas, tries, result>>

Moves(t) ==
    \/ \E kind, value : Says(t, kind, value) /\ Return(t, kind, value)
    \/ Again(t) \/ Counts(t) \/ Matches(t) \/ Posts(t) \/ Rereads(t)

(* Rounding up leaves no tracked deadline a TTL of zero, which would delete. *)
LEMMA TrackedIsNotZero ==
    ASSUME now \in Nat, NEW deadline \in OptNat
    PROVE  TrackedTtlSecs(deadline) \in OptNat \ {0}
<1>1. TrackedTtlSecs(deadline) \in OptNat
  BY TrackedType
<1>2. CASE deadline = None \/ Passed(deadline)
  BY <1>1, <1>2, SidecarAssumption DEF TrackedTtlSecs
<1>3. CASE ~(deadline = None \/ Passed(deadline))
  <2>1. deadline \in Nat /\ deadline > now
    BY <1>3 DEF Passed, OptNat
  <2>2. TicksPerSec \in Nat \ {0}
    BY SidecarAssumption
  <2>3. \A a, b \in Nat \ {0} : (a + b - 1) \div b # 0
    OBVIOUS
  <2>4. CeilSecs(deadline - now) # 0
    BY <2>1, <2>2, <2>3 DEF CeilSecs
  <2> QED
    BY <1>1, <1>3, <2>4 DEF TrackedTtlSecs
<1> QED
  BY <1>2, <1>3

LEMMA ConflictMoves ==
    ASSUME NEW t \in Task, Beaten(t), CasConflict(t, resp[t].value)
    PROVE  Moves(t)
BY DEF CasConflict, Moves, Says, Again

LEMMA ResumeMoves ==
    ASSUME TypeOK, NEW t \in Task, Resume(t)
    PROVE  Moves(t) /\ Quiet
<1>1. CASE OnFailure(t) \/ OnGet(t) \/ OnSet(t) \/ OnDelete(t) \/ OnCasDone(t)
  BY <1>1 DEF OnFailure, OnGet, OnSet, OnDelete, OnCasDone, Moves, Says, Got
<1>2. CASE OnIncrementGet(t)
  BY <1>2 DEF OnIncrementGet, Moves, Says, Counts, Got
<1>3. CASE OnCasGet(t)
  <2>1. CASE resp[t].value # cas[t].expected /\ CasConflict(t, resp[t].value)
    BY <1>3, <2>1, ConflictMoves DEF OnCasGet, Got, Beaten
  <2>2. CASE ~(resp[t].value # cas[t].expected /\ CasConflict(t, resp[t].value))
    BY <1>3, <2>2 DEF OnCasGet, Moves, Matches
  <2> QED
    BY <2>1, <2>2
<1>4. CASE CasSample(t)
  <2>1. TrackedTtlSecs(ttls[InstanceOf[t]]) \in OptNat \ {0}
    BY DaprAssumption, TrackedIsNotZero DEF TypeOK
  <2> QED
    BY <1>4, <2>1 DEF CasSample, Moves, Posts
<1>5. CASE OnCasRefused(t)
  BY <1>5 DEF OnCasRefused, Moves, Rereads
<1>6. CASE OnCasReread(t)
  BY <1>6, ConflictMoves DEF OnCasReread, Got, Beaten
<1> QED
  BY <1>1, <1>2, <1>3, <1>4, <1>5, <1>6 DEF Resume

LEMMA AwaitIs ==
    ASSUME TypeOK, NEW t \in Task, NEW p, NEW r, Await(t, p, r)
    PROVE  /\ pc'[t] = p /\ req'[t] = r /\ resp'[t] = NoResp /\ stray' = stray
           /\ \A u \in Task \ {t} :
                pc'[u] = pc[u] /\ req'[u] = req[u] /\ resp'[u] = resp[u]
BY DEF TypeOK, Await

LEMMA ReturnIs ==
    ASSUME TypeOK, NEW t \in Task, NEW kind, NEW value, Return(t, kind, value)
    PROVE  /\ pc'[t] = "idle" /\ req'[t] = req[t] /\ resp'[t] = NoResp
           /\ call'[t] = call[t] /\ cas'[t] = NoCas /\ tries'[t] = 0
           /\ result'[t] = [kind |-> kind, value |-> value]
           /\ stray' = stray
           /\ \A u \in Task \ {t} : Same(u)
BY DEF TypeOK, Return, Same

LEMMA AgainIs ==
    ASSUME TypeOK, NEW t \in Task, Again(t)
    PROVE  /\ pc'[t] = "get" /\ req'[t] = StateGetRequest(call[t])
           /\ resp'[t] = NoResp /\ call'[t] = call[t] /\ cas'[t] = NoCas
           /\ tries'[t] = tries[t] + 1 /\ result'[t] = result[t]
           /\ stray' = stray
           /\ \A u \in Task \ {t} : Same(u)
BY AwaitIs DEF TypeOK, Again, Same

LEMMA CountsIs ==
    ASSUME TypeOK, NEW t \in Task, Counts(t)
    PROVE  /\ pc'[t] = "casGet" /\ req'[t] = StateGetRequest(call[t])
           /\ resp'[t] = NoResp /\ call'[t] = call[t]
           /\ cas'[t].expected = resp[t].value
           /\ cas'[t].value = Base(resp[t].value) + call[t].delta
           /\ tries'[t] = tries[t] /\ result'[t] = result[t]
           /\ stray' = stray
           /\ \A u \in Task \ {t} : Same(u)
BY AwaitIs DEF TypeOK, Counts, Same

LEMMA MatchesIs ==
    ASSUME TypeOK, NEW t \in Task, Matches(t)
    PROVE  /\ pc'[t] = "casSample" /\ req'[t] = req[t]
           /\ resp'[t] = NoResp /\ call'[t] = call[t]
           /\ cas'[t].expected = cas[t].expected
           /\ cas'[t].value = cas[t].value
           /\ cas'[t].etag = resp[t].etag
           /\ tries'[t] = tries[t] /\ result'[t] = result[t]
           /\ stray' = stray
           /\ \A u \in Task \ {t} : Same(u)
BY DEF TypeOK, Matches, Same, CasRecord

LEMMA PostsIs ==
    ASSUME TypeOK, NEW t \in Task, Posts(t)
    PROVE  /\ pc'[t] = "casPost"
           /\ \E ttl \in OptNat \ {0} :
                req'[t] = StateCasRequest(call[t], cas[t], ttl)
           /\ resp'[t] = NoResp /\ call'[t] = call[t] /\ cas'[t] = cas[t]
           /\ tries'[t] = tries[t] /\ result'[t] = result[t]
           /\ stray' = stray
           /\ \A u \in Task \ {t} : Same(u)
BY AwaitIs DEF Posts, Same

LEMMA RereadsIs ==
    ASSUME TypeOK, NEW t \in Task, Rereads(t)
    PROVE  /\ pc'[t] = "casReread" /\ req'[t] = StateGetRequest(call[t])
           /\ resp'[t] = NoResp /\ call'[t] = call[t] /\ cas'[t] = cas[t]
           /\ tries'[t] = tries[t] /\ result'[t] = result[t]
           /\ stray' = stray
           /\ \A u \in Task \ {t} : Same(u)
BY AwaitIs DEF Rereads, Same

LEMMA MovesItself ==
    ASSUME TypeOK, NEW t \in Task, Moves(t)
    PROVE  stray' = stray /\ \A u \in Task \ {t} : Same(u)
BY ReturnIs, AgainIs, CountsIs, MatchesIs, PostsIs, RereadsIs DEF Moves

(* The call a task begins. *)
Begun(c) ==
    [op |-> c.op, expected |-> c.expected, value |-> c.value, ttl |-> c.ttl,
     delta |-> c.delta, id |-> calls + 1, since |-> churn]

LEMMA CallIs ==
    ASSUME TypeOK, NEW t \in Task, NEW c \in Calls, Call(t, c)
    PROVE  /\ call'[t] = Begun(c) /\ Begun(c) \in CallRecord
           /\ pc[t] = "idle" /\ resp'[t] = NoResp
           /\ cas'[t].expected = c.expected /\ cas'[t].value = c.value
           /\ tries'[t] = tries[t] /\ result'[t] = result[t]
           /\ \/ /\ c.op \in {"get", "increment"} /\ pc'[t] = "get"
                 /\ req'[t] = StateGetRequest(Begun(c))
              \/ /\ c.op = "set" /\ pc'[t] = "set"
                 /\ req'[t] = StateSetRequest(Begun(c))
              \/ /\ c.op = "delete" /\ pc'[t] = "delete"
                 /\ req'[t] = StateDeleteRequest(Begun(c))
              \/ /\ c.op = "cas" /\ pc'[t] = "casGet"
                 /\ req'[t] = StateGetRequest(Begun(c))
           /\ calls' = calls + 1 /\ stray' = stray
           /\ UNCHANGED <<sidecarVars, ghostVars>>
           /\ \A u \in Task \ {t} : Same(u)
<1>1. c \in CallType
  BY DaprAssumption
<1>2. Begun(c) \in CallRecord
  BY <1>1, DaprAssumption DEF CallType, CallRecord, TypeOK, Begun
<1>3. /\ pc[t] = "idle" /\ calls' = calls + 1
      /\ call' = [call EXCEPT ![t] = Begun(c)]
      /\ UNCHANGED <<sidecarVars, ghostVars, tries, result>>
  BY DEF Call, Begun
<1>4. \/ c.op \in {"get", "increment"} /\ Await(t, "get", StateGetRequest(Begun(c)))
      \/ c.op = "set" /\ Await(t, "set", StateSetRequest(Begun(c)))
      \/ c.op = "delete" /\ Await(t, "delete", StateDeleteRequest(Begun(c)))
      \/ c.op = "cas" /\ Await(t, "casGet", StateGetRequest(Begun(c)))
  BY DEF Call, Begun
<1>5. /\ cas'[t].expected = c.expected /\ cas'[t].value = c.value
      /\ \A u \in Task \ {t} : cas'[u] = cas[u]
  BY DEF Call, TypeOK, NoCas
<1>6. call'[t] = Begun(c) /\ \A u \in Task \ {t} : call'[u] = call[u]
  BY <1>3 DEF TypeOK
<1>7. resp'[t] = NoResp /\ stray' = stray
      /\ \A u \in Task \ {t} :
            pc'[u] = pc[u] /\ req'[u] = req[u] /\ resp'[u] = resp[u]
  BY <1>4, AwaitIs
<1>8. \A u \in Task \ {t} : Same(u)
  BY <1>3, <1>5, <1>6, <1>7 DEF Same
<1> QED
  BY <1>2, <1>3, <1>4, <1>5, <1>6, <1>7, <1>8, AwaitIs

LEMMA ServeIs ==
    ASSUME TypeOK, NEW t \in Task, Serve(t)
    PROVE  /\ resp'[t] = Reply(req[t]) /\ req'[t] = NoReq
           /\ pc' = pc /\ call' = call /\ cas' = cas /\ tries' = tries
           /\ result' = result /\ stray' = stray /\ calls' = calls
           /\ now' = now /\ req[t].kind # "none"
           /\ \A u \in Task \ {t} : Same(u)
BY DEF TypeOK, Serve, Same, taskVars

LEMMA TimeoutIs ==
    ASSUME TypeOK, NEW t \in Task, Timeout(t)
    PROVE  /\ resp'[t] = [NoResp EXCEPT !.kind = "failed"] /\ req'[t] = NoReq
           /\ stray' = IF req[t].kind \in {"post", "delete"}
                         THEN stray \cup {req[t]} ELSE stray
           /\ pc' = pc /\ call' = call /\ cas' = cas /\ tries' = tries
           /\ result' = result /\ calls' = calls
           /\ UNCHANGED <<sidecarVars, ghostVars>>
           /\ \A u \in Task \ {t} : Same(u)
BY DEF TypeOK, Timeout, Same, taskVars

-----------------------------------------------------------------------------
(***************************************************************************)
(* Protocol.                                                               *)
(***************************************************************************)
LEMMA SameInStep ==
    ASSUME NEW u \in Task, Same(u), InStep(u)
    PROVE  InStep(u)'
<1>1. Waiting(u)'
  BY DEF Same, InStep, Waiting, Asks, Hears
<1>2. Fits(u)'
  BY DEF Same, InStep, Fits
<1>3. Swaps(u)'
  BY DEF Same, InStep, Swaps, CasFits
<1> QED
  BY <1>1, <1>2, <1>3 DEF InStep

(* A task that heard a reply waits for no other. *)
LEMMA HeardNotAsking ==
    ASSUME NEW t \in Task, InStep(t), resp[t].kind # "none"
    PROVE  pc[t] \in Busy /\ req[t] = NoReq /\ resp[t].kind \in Hears(t)
BY DEF InStep, Waiting, NoResp

LEMMA NothingAsked ==
    /\ NoReq.kind = "none" /\ NoResp.kind = "none"
    /\ NoResp.value = None /\ NoResp.etag = 0
    /\ NoCas.expected = None /\ NoCas.value = None /\ NoCas.etag = 0
BY DEF NoReq, NoResp, NoCas

LEMMA ReturnInStep ==
    ASSUME TypeOK, NEW t \in Task, InStep(t),
           NEW kind, NEW value, Says(t, kind, value), Return(t, kind, value)
    PROVE  InStep(t)'
<1>1. req[t] = NoReq
  BY HeardNotAsking DEF Says, Beaten
<1>2. /\ pc'[t] = "idle" /\ req'[t] = NoReq /\ resp'[t] = NoResp
      /\ call'[t] = call[t] /\ tries'[t] = 0
  BY <1>1, ReturnIs
<1>3. Waiting(t)'
  BY <1>2 DEF Waiting, Busy
<1>4. Fits(t)'
  BY <1>2 DEF InStep, Fits, Reading, Comparing
<1>5. Swaps(t)'
  BY <1>2 DEF Swaps, Comparing
<1> QED
  BY <1>3, <1>4, <1>5 DEF InStep

LEMMA GoesOnInStep ==
    ASSUME TypeOK, NEW t \in Task, InStep(t),
           Again(t) \/ Counts(t) \/ Matches(t) \/ Posts(t) \/ Rereads(t)
    PROVE  InStep(t)'
<1> USE DEF InStep
<1>1. CASE Again(t)
  <2>1. call[t].op = "increment"
    BY <1>1 DEF Again
  <2>2. Waiting(t)' /\ Fits(t)' /\ Swaps(t)'
    BY <1>1, <2>1, AgainIs
       DEF Waiting, Asks, Reading, Busy, Fits, Comparing, Swaps
  <2> QED
    BY <2>2
<1>2. CASE Counts(t)
  <2>1. /\ call[t].op = "increment"
        /\ Countable(resp[t].value, call[t].delta)
    BY <1>2 DEF Counts
  <2>2. Base(resp[t].value) + call[t].delta \in Value
    BY <2>1, CountableType DEF TypeOK, Response
  <2>3. CasFits(call[t].op, call[t].delta, cas[t].expected, cas[t].value)'
    BY <1>2, <2>1, <2>2, CountsIs DEF CasFits
  <2>4. Waiting(t)' /\ Fits(t)' /\ Swaps(t)'
    BY <1>2, <2>1, <2>3, CountsIs
       DEF Waiting, Asks, Reading, Busy, Fits, Comparing, Swaps
  <2> QED
    BY <2>4
<1>3. CASE Matches(t)
  <2>1. pc[t] = "casGet" /\ req[t] = NoReq
    BY <1>3, HeardNotAsking DEF Matches, Got
  <2>2. CasFits(call[t].op, call[t].delta, cas[t].expected, cas[t].value)'
    BY <1>3, <2>1, MatchesIs DEF Swaps, Comparing, CasFits
  <2>3. Waiting(t)' /\ Fits(t)' /\ Swaps(t)'
    BY <1>3, <2>1, <2>2, MatchesIs
       DEF Waiting, Busy, Reading, Fits, Comparing, Swaps
  <2> QED
    BY <2>3
<1>4. CASE Posts(t)
  <2>1. pc[t] = "casSample"
    BY <1>4 DEF Posts
  <2>2. CasFits(call[t].op, call[t].delta, cas[t].expected, cas[t].value)'
    BY <1>4, <2>1, PostsIs DEF Swaps, Comparing, CasFits
  <2>3. Asks(t)'
    <3>1. PICK ttl \in OptNat \ {0} :
                 req'[t] = StateCasRequest(call[t], cas[t], ttl)
      BY <1>4, PostsIs
    <3>2. StateCasRequest(call[t], cas[t], ttl).ttl = ttl
      BY DEF StateCasRequest
    <3> QED
      BY <1>4, <3>1, <3>2, PostsIs DEF Asks
  <2>4. Waiting(t)' /\ Fits(t)' /\ Swaps(t)'
    BY <1>4, <2>1, <2>2, <2>3, PostsIs
       DEF Waiting, Busy, Reading, Fits, Comparing, Swaps
  <2> QED
    BY <2>4
<1>5. CASE Rereads(t)
  <2>1. pc[t] = "casPost"
    BY <1>5 DEF Rereads, Got
  <2>2. CasFits(call[t].op, call[t].delta, cas[t].expected, cas[t].value)'
    BY <1>5, <2>1, RereadsIs DEF Swaps, Comparing, CasFits
  <2>3. Waiting(t)' /\ Fits(t)' /\ Swaps(t)'
    BY <1>5, <2>1, <2>2, RereadsIs
       DEF Waiting, Asks, Busy, Reading, Fits, Comparing, Swaps
  <2> QED
    BY <2>3
<1> QED
  BY <1>1, <1>2, <1>3, <1>4, <1>5

LEMMA CallInStep ==
    ASSUME TypeOK, NEW t \in Task, NEW c \in Calls, InStep(t), Call(t, c)
    PROVE  InStep(t)'
<1>1. /\ call'[t].op = c.op /\ call'[t].value = c.value
      /\ call'[t].expected = c.expected
  <2>1. call'[t] = Begun(c)
    BY CallIs
  <2> QED
    BY <2>1 DEF Begun
<1>2. c.op \in {"set", "cas"} => c.value \in Value
  BY DaprAssumption
<1>3. Waiting(t)'
  BY CallIs DEF Waiting, Asks, Busy, Reading
<1>4. Fits(t)'
  BY <1>1, <1>2, CallIs DEF Fits, Reading, Comparing
<1>5. Swaps(t)'
  BY <1>1, <1>2, CallIs DEF Swaps, CasFits, Comparing
<1> QED
  BY <1>3, <1>4, <1>5 DEF InStep

(* What the requests are made of. *)
LEMMA ReadsAre ==
    ASSUME NEW c
    PROVE  StateGetRequest(c).kind = "get" /\ StateGetRequest(c).first = FALSE
BY DEF StateGetRequest, NoReq

LEMMA SetsAre ==
    ASSUME NEW c
    PROVE  /\ StateSetRequest(c).kind = "post"
           /\ StateSetRequest(c).first = FALSE
           /\ StateSetRequest(c).value = c.value
           /\ StateSetRequest(c).ttl = c.ttl
           /\ StateSetRequest(c).by = ByOf(c, None)
BY DEF StateSetRequest

LEMMA DeletesAre ==
    ASSUME NEW c
    PROVE  /\ StateDeleteRequest(c).kind = "delete"
           /\ StateDeleteRequest(c).first = FALSE
           /\ StateDeleteRequest(c).value = None
           /\ StateDeleteRequest(c).ttl = None
           /\ StateDeleteRequest(c).by = ByOf(c, None)
BY DEF StateDeleteRequest, NoReq

(* Who asks: a request tells the await it belongs to. *)
LEMMA AskedAt ==
    ASSUME NEW t \in Task, InStep(t), req[t].kind # "none"
    PROVE  /\ pc[t] \in Busy /\ resp[t] = NoResp
           /\ \/ pc[t] \in Reading /\ req[t].kind = "get" /\ req[t].first = FALSE
              \/ /\ pc[t] = "set" /\ req[t].kind = "post" /\ req[t].first = FALSE
                 /\ req[t].value = call[t].value /\ req[t].ttl = call[t].ttl
                 /\ req[t].by = ByOf(call[t], None)
              \/ /\ pc[t] = "delete" /\ req[t].kind = "delete" /\ req[t].first = FALSE
                 /\ req[t].value = None /\ req[t].ttl = None
                 /\ req[t].by = ByOf(call[t], None)
              \/ /\ pc[t] = "casPost" /\ req[t].kind = "post" /\ req[t].first = TRUE
                 /\ req[t].value = cas[t].value /\ req[t].etag = cas[t].etag
                 /\ req[t].ttl \in OptNat \ {0}
                 /\ req[t].by = ByOf(call[t], cas[t].expected)
<1>1. pc[t] \in Busy /\ Asks(t) /\ resp[t] = NoResp
  BY NothingAsked DEF InStep, Waiting
<1>2. CASE pc[t] \in Reading /\ req[t] = StateGetRequest(call[t])
  BY <1>1, <1>2, ReadsAre
<1>3. CASE pc[t] = "set" /\ req[t] = StateSetRequest(call[t])
  BY <1>1, <1>3, SetsAre
<1>4. CASE pc[t] = "delete" /\ req[t] = StateDeleteRequest(call[t])
  BY <1>1, <1>4, DeletesAre
<1>5. CASE /\ pc[t] = "casPost"
           /\ req[t].ttl \in OptNat \ {0}
           /\ req[t] = StateCasRequest(call[t], cas[t], req[t].ttl)
  <2>1. PICK ttl \in OptNat \ {0} :
               req[t] = StateCasRequest(call[t], cas[t], ttl)
    BY <1>5
  <2>2. /\ req[t].kind = "post" /\ req[t].first = TRUE
        /\ req[t].value = cas[t].value /\ req[t].etag = cas[t].etag
        /\ req[t].by = ByOf(call[t], cas[t].expected)
    BY <2>1 DEF StateCasRequest
  <2> QED
    BY <1>1, <1>5, <2>2
<1> QED
  BY <1>1, <1>2, <1>3, <1>4, <1>5 DEF Asks

(* A reply is one the request asked for. *)
LEMMA ServeInStep ==
    ASSUME TypeOK, NEW t \in Task, InStep(t), Serve(t)
    PROVE  InStep(t)'
<1>1. pc[t] \in Busy
  BY AskedAt, ServeIs
<1>2. resp'[t].kind \in Hears(t)
  <2>1. /\ req[t].kind # "none" /\ resp'[t] = Reply(req[t])
    BY ServeIs
  <2>2. CASE pc[t] \in Reading /\ req[t].kind = "get"
    <3>1. resp'[t].kind = "item"
      BY <2>1, <2>2 DEF Reply
    <3>2. Hears(t) = {"item", "failed"}
      BY <2>2 DEF Hears, Reading
    <3> QED
      BY <3>1, <3>2
  <2>3. CASE pc[t] = "set" /\ req[t].kind = "post" /\ ~req[t].first
    BY <2>1, <2>3 DEF Hears, Reply, NoResp, Reading, Accepts
  <2>4. CASE pc[t] = "delete" /\ req[t].kind = "delete"
    BY <2>1, <2>4 DEF Hears, Reply, NoResp, Reading
  <2>5. CASE pc[t] = "casPost" /\ req[t].kind = "post"
    BY <2>1, <2>5 DEF Hears, Reply, NoResp, Reading
  <2> QED
    BY <2>1, <2>2, <2>3, <2>4, <2>5, AskedAt
<1>3. Waiting(t)'
  BY <1>1, <1>2, ServeIs DEF Waiting, Hears
<1>4. Fits(t)' /\ Swaps(t)'
  BY ServeIs DEF InStep, Fits, Swaps
<1> QED
  BY <1>3, <1>4 DEF InStep

LEMMA TimeoutInStep ==
    ASSUME TypeOK, NEW t \in Task, InStep(t), Timeout(t)
    PROVE  InStep(t)'
<1>1. pc[t] \in Busy
  BY DEF Timeout
<1>2. resp'[t].kind = "failed"
  BY TimeoutIs DEF NoResp
<1>3. Waiting(t)'
  BY <1>1, <1>2, TimeoutIs DEF Waiting, Hears, Busy, Reading
<1>4. Fits(t)' /\ Swaps(t)'
  BY TimeoutIs DEF InStep, Fits, Swaps
<1> QED
  BY <1>3, <1>4 DEF InStep

(* A write that lost its caller is the one the caller asked for. *)
LEMMA LeftBehind ==
    ASSUME NEW t \in Task, InStep(t), req[t].kind \in {"post", "delete"}
    PROVE  /\ Stray(req[t]) /\ req[t].by.id = call[t].id
           /\ pc[t] \in {"set", "delete", "casPost"}
<1> DEFINE r == req[t]
<1>1. CASE /\ pc[t] = "set" /\ r.kind = "post" /\ r.first = FALSE
           /\ r.value = call[t].value /\ r.by = ByOf(call[t], None)
  <2>1. r.by.op = "set" /\ r.by.id = call[t].id /\ r.value \in Value
    BY <1>1 DEF ByOf, InStep, Fits
  <2> QED
    BY <1>1, <2>1 DEF Stray
<1>2. CASE /\ pc[t] = "delete" /\ r.kind = "delete"
           /\ r.by = ByOf(call[t], None)
  <2>1. r.by.op = "delete" /\ r.by.id = call[t].id
    BY <1>2 DEF ByOf, InStep, Fits
  <2> QED
    BY <1>2, <2>1 DEF Stray
<1>3. CASE /\ pc[t] = "casPost" /\ r.kind = "post" /\ r.first = TRUE
           /\ r.value = cas[t].value /\ r.ttl \in OptNat \ {0}
           /\ r.by = ByOf(call[t], cas[t].expected)
  <2>1. /\ r.by.op = call[t].op /\ r.by.id = call[t].id
        /\ r.by.delta = call[t].delta /\ r.by.expects = cas[t].expected
    BY <1>3 DEF ByOf
  <2>2. /\ call[t].op \in {"cas", "increment"}
        /\ CasFits(call[t].op, call[t].delta, cas[t].expected, cas[t].value)
    BY <1>3 DEF InStep, Fits, Swaps, Comparing
  <2> QED
    BY <1>3, <2>1, <2>2 DEF Stray
<1> QED
  BY <1>1, <1>2, <1>3, AskedAt

LEMMA ProtocolInit == Init => Protocol
BY DEF Init, Protocol, InStep, Waiting, Fits, Swaps, Busy, Reading, Comparing,
       NoCall

LEMMA ProtocolStep == TypeOK /\ Protocol /\ [Next]_vars => Protocol'
<1> SUFFICES ASSUME TypeOK, Protocol, [Next]_vars PROVE Protocol'
  OBVIOUS
<1> USE DEF Protocol
<1>0. ASSUME NEW t \in Task, \A u \in Task \ {t} : Same(u), InStep(t)',
             \A r \in stray' : Stray(r)
      PROVE  Protocol'
  <2>1. \A r \in stray' : Stray(r)'
    BY <1>0 DEF Stray, CasFits
  <2> QED
    BY <1>0, <2>1, SameInStep
<1>1. ASSUME NEW t \in Task, NEW c \in Calls, Call(t, c) PROVE Protocol'
  BY <1>0, <1>1, CallInStep, CallIs
<1>2. ASSUME NEW t \in Task, Resume(t) PROVE Protocol'
  <2>1. Moves(t)
    BY <1>2, ResumeMoves
  <2>2. InStep(t)'
    BY <2>1, ReturnInStep, GoesOnInStep DEF Moves
  <2> QED
    BY <1>0, <2>1, <2>2, MovesItself
<1>3. ASSUME NEW t \in Task, Serve(t) PROVE Protocol'
  BY <1>0, <1>3, ServeInStep, ServeIs
<1>4. ASSUME NEW t \in Task, Timeout(t) PROVE Protocol'
  <2>1. \A r \in stray' : Stray(r)
    BY <1>4, TimeoutIs, LeftBehind
  <2> QED
    BY <1>0, <1>4, <2>1, TimeoutInStep, TimeoutIs
<1>5. CASE (\E r \in stray : ServeStray(r)) \/ Tick \/ UNCHANGED vars
  <2>1. /\ UNCHANGED <<pc, call, cas, tries, result, req, resp>>
        /\ stray' \subseteq stray
    BY <1>5 DEF ServeStray, Tick, vars, taskVars, netVars
  <2>2. ASSUME NEW u \in Task PROVE InStep(u)'
    BY <2>1, SameInStep DEF Same
  <2>3. ASSUME NEW r \in stray' PROVE Stray(r)'
    BY <2>1 DEF Stray, CasFits
  <2> QED
    BY <2>2, <2>3
<1> QED
  BY <1>1, <1>2, <1>3, <1>4, <1>5 DEF Next

-----------------------------------------------------------------------------
(***************************************************************************)
(* Deeds.                                                                  *)
(***************************************************************************)
(* The number of a running call is its own. *)
LEMMA IdsApart ==
    ASSUME Numbered, NEW t \in Task, NEW u \in Task, t # u, pc[t] # "idle"
    PROVE  call[u].id # call[t].id
BY DEF Numbered

(* Did is stable as long as the writes of other calls only are added. *)
LEMMA SameDid ==
    ASSUME NEW u \in Task, Same(u), Did(u), applied \subseteq applied',
           \A b \in applied' : b \in applied \/ b.id # call[u].id,
           \A r \in stray' : r \in stray \/ r.by.id # call[u].id
    PROVE  Did(u)'
<1>1. Clean(call[u].id) => Clean(call[u].id)'
  BY DEF Clean, Same
<1>2. Wrote(u) => Wrote(u)'
  BY DEF Wrote, Same
<1> QED
  BY <1>1, <1>2 DEF Did, Same

(* The same, for the task that moves on with its call. *)
LEMMA CleanKept ==
    ASSUME NEW t \in Task, call'[t] = call[t], Clean(call[t].id),
           applied' = applied, stray' = stray
    PROVE  Clean(call[t].id)'
BY DEF Clean

LEMMA NumberedKept ==
    ASSUME Numbered, call' = call, pc' = pc, calls' = calls,
           \A b \in applied' : b.id \in 1 .. calls,
           \A r \in stray' : r.by.id \in 1 .. calls
    PROVE  Numbered'
BY DEF Numbered

LEMMA ResumeDeeds ==
    ASSUME TypeOK, Protocol, Deeds, NEW t \in Task, Moves(t), Quiet
    PROVE  Deeds'
<1>1. /\ applied' = applied /\ stray' = stray /\ calls' = calls
      /\ call'[t] = call[t] /\ \A u \in Task \ {t} : Same(u)
  BY MovesItself, ReturnIs, AgainIs, CountsIs, MatchesIs, PostsIs, RereadsIs
     DEF Moves, Quiet, ghostVars
<1>2. pc[t] # "idle"
  <2>1. pc[t] = "casSample" \/ resp[t].kind # "none"
    BY DEF Moves, Says, Beaten, Again, Counts, Matches, Posts, Rereads, Got
  <2> QED
    BY <2>1, HeardNotAsking DEF Protocol, Busy
<1>3. Numbered'
  <2>1. \A u \in Task : call'[u] = call[u]
    BY <1>1 DEF Same
  <2>2. \A u \in Task : call[u].id = 0 => pc'[u] = "idle" /\ call[u].op = "get"
    BY <1>1, <1>2 DEF Same, Deeds, Numbered
  <2> QED
    BY <1>1, <2>1, <2>2 DEF Deeds, Numbered
<1>4. Once'
  BY <1>1 DEF Deeds, Once
<1>5. ASSUME NEW u \in Task \ {t} PROVE Did(u)'
  BY <1>1, SameDid DEF Deeds
<1>6. Did(t)'
  <2>1. Clean(call[t].id) => Clean(call[t].id)'
    BY <1>1, CleanKept
  <2>2. Wrote(t) => Wrote(t)'
    BY <1>1 DEF Wrote
  <2>3. Did(t) /\ InStep(t)
    BY DEF Deeds, Protocol
  <2>4. ASSUME NEW kind, NEW value, Says(t, kind, value), Return(t, kind, value)
        PROVE  Did(t)'
    <3>1. /\ kind = "ok" /\ call[t].op # "get" => Wrote(t)
          /\ kind \in {"conflict", "rejected", "exhausted"} => Clean(call[t].id)
      BY <2>3, <2>4 DEF Says, Beaten, Did, Reading
    <3>2. req[t] = NoReq
      BY <2>3, <2>4, HeardNotAsking DEF Says, Beaten
    <3>3. /\ pc'[t] = "idle" /\ req'[t] = NoReq /\ resp'[t] = NoResp
          /\ result'[t].kind = kind
      <4>1. result'[t] = [kind |-> kind, value |-> value]
        BY <2>4, ReturnIs
      <4> QED
        BY <2>4, <3>2, <4>1, ReturnIs
    <3> QED
      BY <1>1, <2>1, <2>2, <3>1, <3>3, NothingAsked DEF Did, Reading
  <2>5. ASSUME Again(t) \/ Counts(t) \/ Matches(t) \/ Posts(t) \/ Rereads(t)
        PROVE  Did(t)'
    <3>1. Clean(call[t].id)
      BY <2>3, <2>5
         DEF Again, Beaten, Counts, Matches, Posts, Rereads, Got, Did, Reading
    <3>2. resp'[t] = NoResp /\ pc'[t] # "idle"
      BY <2>5, AgainIs, CountsIs, MatchesIs, PostsIs, RereadsIs
    <3> QED
      BY <2>1, <3>1, <3>2, NothingAsked DEF Did
  <2> QED
    BY <2>4, <2>5 DEF Moves
<1> QED
  BY <1>3, <1>4, <1>5, <1>6 DEF Deeds

LEMMA CallDeeds ==
    ASSUME TypeOK, Deeds, NEW t \in Task, NEW c \in Calls, Call(t, c)
    PROVE  Deeds'
<1>1. /\ applied' = applied /\ stray' = stray /\ calls' = calls + 1
      /\ call'[t].id = calls + 1 /\ \A u \in Task \ {t} : Same(u)
  <2>1. call'[t] = Begun(c)
    BY CallIs
  <2> QED
    BY <2>1, CallIs DEF Begun, ghostVars
<1>2. calls \in Nat
  BY DaprAssumption DEF TypeOK
<1>3. Numbered'
  <2>1. ASSUME NEW u \in Task
        PROVE  /\ call'[u].id \in 0 .. calls'
               /\ call'[u].id = 0 => pc'[u] = "idle" /\ call'[u].op = "get"
               /\ u # t => call'[u].id \in 0 .. calls /\ call'[u] = call[u]
    BY <1>1, <1>2 DEF Same, Deeds, Numbered
  <2>2. ASSUME NEW u \in Task, NEW v \in Task, u # v,
               call'[u].id = call'[v].id
        PROVE  call'[u].id = 0
    BY <1>1, <1>2, <2>1, <2>2 DEF Deeds, Numbered
  <2>3. /\ \A b \in applied' : b.id \in 1 .. calls'
        /\ \A r \in stray' : r.by.id \in 1 .. calls'
    BY <1>1, <1>2 DEF Deeds, Numbered
  <2> QED
    BY <2>1, <2>2, <2>3 DEF Numbered
<1>4. Once'
  BY <1>1 DEF Deeds, Once
<1>5. ASSUME NEW u \in Task \ {t} PROVE Did(u)'
  BY <1>1, SameDid DEF Deeds
<1>6. Did(t)'
  <2>1. Clean(call[t].id)'
    BY <1>1, <1>2 DEF Deeds, Numbered, Clean
  <2>2. resp'[t] = NoResp /\ pc'[t] # "idle"
    BY CallIs
  <2> QED
    BY <2>1, <2>2, NothingAsked DEF Did
<1> QED
  BY <1>3, <1>4, <1>5, <1>6 DEF Deeds

LEMMA ServeDeeds ==
    ASSUME TypeOK, Protocol, Deeds, NEW t \in Task, Serve(t)
    PROVE  Deeds'
<1> DEFINE r == req[t]
<1>1. /\ InStep(t) /\ Did(t) /\ Numbered /\ Once /\ Clean(call[t].id)
      /\ pc[t] \in Busy /\ pc[t] # "idle"
  BY AskedAt, ServeIs DEF Protocol, Deeds, Did, Busy
<1>2. applied' = (IF TakesEffect(r) THEN applied \cup {r.by} ELSE applied)
  BY DEF Serve, Record
<1>3. TakesEffect(r) => r.by.id = call[t].id
  BY <1>1, LeftBehind DEF TakesEffect
<1>4. /\ applied \subseteq applied' /\ stray' = stray
      /\ \A b \in applied' : b \in applied \/ b.id = call[t].id
  BY <1>2, <1>3, ServeIs
<1>5. Numbered'
  <2>1. call[t].id \in 1 .. calls
    BY <1>1 DEF Numbered, TypeOK
  <2> QED
    BY <1>1, <1>4, <2>1, NumberedKept, ServeIs DEF Numbered
<1>6. Once'
  BY <1>1, <1>4 DEF Once, Clean
<1>7. ASSUME NEW u \in Task \ {t} PROVE Did(u)'
  <2>1. call[u].id # call[t].id
    BY <1>1, IdsApart
  <2> QED
    BY <1>4, <2>1, SameDid, ServeIs DEF Deeds
<1>8. Did(t)'
  <2>1. /\ pc'[t] = pc[t] /\ call'[t] = call[t] /\ req'[t].kind = "none"
        /\ resp'[t] = Reply(r)
    BY ServeIs, NothingAsked
  <2>2. ~TakesEffect(r) => Clean(call[t].id)'
    BY <1>1, <1>2, <1>4, <2>1, CleanKept
  <2>3. TakesEffect(r) => Wrote(t)'
    BY <1>2, <1>3, <2>1 DEF Wrote
  <2>4. r.kind \in {"get", "post", "delete"}
    BY ServeIs DEF TypeOK, Request
  <2>5. /\ resp'[t].kind = "done" => TakesEffect(r)
        /\ resp'[t].kind = "conflict" => ~TakesEffect(r)
    BY <2>1, <2>4 DEF Reply, TakesEffect, NoResp
  <2>6. pc[t] \in Reading \cup {"casSample"} => ~TakesEffect(r)
    BY <1>1, LeftBehind DEF TakesEffect, Reading
  <2> QED
    BY <1>1, <2>1, <2>2, <2>3, <2>5, <2>6 DEF Did
<1> QED
  BY <1>5, <1>6, <1>7, <1>8 DEF Deeds

LEMMA TimeoutDeeds ==
    ASSUME TypeOK, Protocol, Deeds, NEW t \in Task, Timeout(t)
    PROVE  Deeds'
<1> DEFINE r == req[t]
           writes == r.kind \in {"post", "delete"}
<1>1. /\ InStep(t) /\ Did(t) /\ Numbered /\ Once
      /\ pc[t] \in Busy /\ pc[t] # "idle"
  BY DEF Protocol, Deeds, Timeout, Busy
<1>2. /\ applied' = applied /\ pc' = pc /\ call' = call /\ calls' = calls
      /\ stray' = IF writes THEN stray \cup {r} ELSE stray
  BY TimeoutIs DEF ghostVars
<1>3. writes => r.by.id = call[t].id /\ Clean(call[t].id)
  BY <1>1, LeftBehind DEF Did
<1>4. Numbered'
  <2>1. call[t].id \in 1 .. calls
    BY <1>1 DEF Numbered, TypeOK
  <2> QED
    BY <1>1, <1>2, <1>3, <2>1, NumberedKept DEF Numbered
<1>5. Once'
  BY <1>1, <1>2, <1>3 DEF Once, Clean
<1>6. ASSUME NEW u \in Task \ {t} PROVE Did(u)'
  <2>1. call[u].id # call[t].id
    BY <1>1, IdsApart
  <2> QED
    BY <1>2, <1>3, <2>1, SameDid, TimeoutIs DEF Deeds
<1>7. Did(t)'
  <2>1. resp'[t].kind = "failed" /\ req'[t].kind = "none"
    BY TimeoutIs, NothingAsked DEF NoResp
  <2>2. pc[t] \in Reading \cup {"casSample"} => ~writes
    BY <1>1, LeftBehind DEF Reading
  <2>3. ~writes /\ Clean(call[t].id) => Clean(call[t].id)'
    BY <1>2, CleanKept
  <2> QED
    BY <1>1, <1>2, <2>1, <2>2, <2>3 DEF Did
<1> QED
  BY <1>4, <1>5, <1>6, <1>7 DEF Deeds

LEMMA ServeStrayDeeds ==
    ASSUME Deeds, NEW r \in stray, ServeStray(r)
    PROVE  Deeds'
<1>1. /\ Numbered /\ Once /\ stray' = stray \ {r}
      /\ applied' = (IF TakesEffect(r) THEN applied \cup {r.by} ELSE applied)
      /\ UNCHANGED <<taskVars, req, resp, calls>>
  BY DEF Deeds, ServeStray, Record
<1>2. Numbered'
  BY <1>1, NumberedKept DEF Numbered, taskVars
<1>3. Once'
  BY <1>1 DEF Once
<1>4. ASSUME NEW u \in Task PROVE Did(u)'
  <2>1. Same(u)
    BY <1>1 DEF Same, taskVars
  <2>2. CASE ~Clean(call[u].id)
    <3>1. Wrote(u) => Wrote(u)'
      BY <1>1 DEF Wrote, taskVars
    <3> QED
      BY <2>1, <2>2, <3>1 DEF Did, Deeds, Same
  <2>3. CASE Clean(call[u].id)
    BY <1>1, <2>1, <2>3, SameDid DEF Clean, Deeds
  <2> QED
    BY <2>2, <2>3
<1> QED
  BY <1>2, <1>3, <1>4 DEF Deeds

LEMMA DeedsInit == Init => Deeds
<1> SUFFICES ASSUME Init PROVE Deeds
  OBVIOUS
<1>1. ASSUME NEW t \in Task
      PROVE  /\ call[t].id = 0 /\ call[t].op = "get" /\ pc[t] = "idle"
             /\ req[t].kind = "none" /\ resp[t].kind = "none"
  BY NothingAsked DEF Init, NoCall
<1>2. stray = {} /\ applied = {} /\ calls = 0
  BY DEF Init
<1>3. Numbered /\ Once
  BY <1>1, <1>2 DEF Numbered, Once
<1>4. ASSUME NEW t \in Task PROVE Did(t)
  BY <1>1 DEF Did, Reading
<1> QED
  BY <1>3, <1>4 DEF Deeds

LEMMA DeedsStep == TypeOK /\ Protocol /\ Deeds /\ [Next]_vars => Deeds'
<1> SUFFICES ASSUME TypeOK, Protocol, Deeds, [Next]_vars PROVE Deeds'
  OBVIOUS
<1>1. ASSUME NEW t \in Task, NEW c \in Calls, Call(t, c) PROVE Deeds'
  BY <1>1, CallDeeds
<1>2. ASSUME NEW t \in Task, Resume(t) PROVE Deeds'
  BY <1>2, ResumeMoves, ResumeDeeds
<1>3. ASSUME NEW t \in Task, Serve(t) PROVE Deeds'
  BY <1>3, ServeDeeds
<1>4. ASSUME NEW t \in Task, Timeout(t) PROVE Deeds'
  BY <1>4, TimeoutDeeds
<1>5. ASSUME NEW r \in stray, ServeStray(r) PROVE Deeds'
  BY <1>5, ServeStrayDeeds
<1>6. CASE Tick \/ UNCHANGED vars
  <2>1. UNCHANGED <<taskVars, netVars, calls, applied>>
    BY <1>6 DEF Tick, vars, ghostVars
  <2>2. Numbered' /\ Once'
    BY <2>1, NumberedKept DEF Deeds, Numbered, Once, taskVars, netVars
  <2>3. ASSUME NEW u \in Task PROVE Did(u)'
    BY <2>1, SameDid DEF Deeds, Same, taskVars, netVars
  <2> QED
    BY <2>2, <2>3 DEF Deeds
<1> QED
  BY <1>1, <1>2, <1>3, <1>4, <1>5, <1>6 DEF Next

LEMMA DeedsMeanAcks ==
    TypeOK /\ Protocol /\ Deeds => AckMatchesEffect
<1> SUFFICES ASSUME TypeOK, Protocol, Deeds, NEW t \in Task
             PROVE  /\ pc[t] = "idle" /\ call[t].op # "get" =>
                         /\ result[t].kind = "ok" => Wrote(t)
                         /\ result[t].kind \in {"conflict", "rejected", "exhausted"}
                              => ~Wrote(t) /\ ~MayWrite(t)
                    /\ ~(Wrote(t) /\ MayWrite(t))
  BY DEF AckMatchesEffect
<1>1. MayWrite(t) => (req[t].kind # "none") \/ (\E r \in stray : r.by.id = call[t].id)
  <2> SUFFICES ASSUME NEW u \in Task, req[u].kind \in {"post", "delete"},
                      req[u].by.id = call[t].id
               PROVE  u = t
    BY DEF MayWrite, InFlight
  <2>1. call[u].id = call[t].id /\ pc[u] # "idle"
    BY LeftBehind DEF Protocol
  <2> QED
    BY <2>1, IdsApart DEF Deeds
<1>2. pc[t] = "idle" => req[t].kind = "none"
  BY NothingAsked DEF Protocol, InStep, Waiting, Busy
<1>3. Clean(call[t].id) =>
        ~Wrote(t) /\ ~\E r \in stray : r.by.id = call[t].id
  BY DEF Clean, Wrote
<1>4. req[t].kind # "none" => Clean(call[t].id)
  BY DEF Deeds, Did
<1>5. ~(Wrote(t) /\ \E r \in stray : r.by.id = call[t].id)
  BY DEF Wrote, Deeds, Once
<1> QED
  BY <1>1, <1>2, <1>3, <1>4, <1>5 DEF Deeds, Did

LEMMA Protocols == Spec => [](TypeOK /\ Protocol /\ Deeds)
<1>1. Init => TypeOK /\ Protocol /\ Deeds
  BY TypeInit, ProtocolInit, DeedsInit
<1>2. TypeOK /\ Protocol /\ Deeds /\ [Next]_vars =>
        (TypeOK /\ Protocol /\ Deeds)'
  BY TypeStep, ProtocolStep, DeedsStep
<1> QED
  BY <1>1, <1>2, PTL DEF Spec

(* What a call tells its caller is what it did: Ok means that it took effect,
   a conflict, an overflow or too many retries that it did not and never
   will, and no call takes effect twice, whatever was lost, late or retried. *)
THEOREM AcksAreTrue == Spec => []AckMatchesEffect
BY Protocols, DeedsMeanAcks, PTL

-----------------------------------------------------------------------------
(***************************************************************************)
(* Causes.                                                                 *)
(***************************************************************************)
(* Looking twice shows the same item. *)
LEMMA LiveStays ==
    ASSUME now' = now, item' = Live
    PROVE  Live' = Live
<1>1. CASE item.expires # None /\ item.expires <= now
  BY <1>1 DEF Live, Gone
<1>2. CASE ~(item.expires # None /\ item.expires <= now)
  BY <1>2 DEF Live
<1> QED
  BY <1>1, <1>2

(* The live item changes only when churn counts it. *)
LEMMA HandleChurns ==
    ASSUME TypeOK, NEW r \in Request, Handle(r), Record(r), now' = now
    PROVE  churn' >= churn /\ (churn' = churn => Live' = Live)
<1>1. churn' \in {churn, churn + 1} /\ churn \in Nat
  BY DEF Record, TypeOK
<1>2. CASE item' = Live
  BY <1>1, <1>2, LiveStays
<1>3. CASE r.kind = "post" /\ Accepts(r)
  BY <1>1, <1>3 DEF Record, TakesEffect
<1>4. CASE r.kind = "delete" /\ item' = Gone
  <2>1. CASE Live # Gone
    BY <1>1, <1>4, <2>1 DEF Record, TakesEffect
  <2>2. CASE Live = Gone
    BY <1>1, <1>2, <1>4, <2>2
  <2> QED
    BY <2>1, <2>2
<1> QED
  BY <1>2, <1>3, <1>4 DEF Handle, StateGet, StatePost, StateDelete

LEMMA TickChurns ==
    ASSUME TypeOK, Tick
    PROVE  churn' >= churn /\ (churn' = churn => Live' = Live)
<1>1. now \in Nat /\ item.expires \in OptNat /\ churn \in Nat
  BY DEF TypeOK, Item
<1>2. now' = now + 1 /\ item' = item
  BY DEF Tick
<1>3. CASE item.expires = now + 1
  BY <1>1, <1>3 DEF Tick
<1>4. CASE item.expires # now + 1
  <2>1. churn' = churn
    BY <1>4 DEF Tick
  <2>2. item.expires # None => (item.expires <= now + 1 <=> item.expires <= now)
    BY <1>1, <1>4 DEF OptNat
  <2>3. Live' = Live
    BY <1>2, <2>2 DEF Live, Gone
  <2> QED
    BY <1>1, <2>1, <2>3
<1> QED
  BY <1>3, <1>4

LEMMA QuietLive ==
    ASSUME UNCHANGED sidecarVars
    PROVE  Live' = Live
BY DEF Live, Gone, sidecarVars

(* Causes is stable for a task that does not move. *)
LEMMA SameCaused ==
    ASSUME TypeOK, TypeOK', NEW u \in Task, Same(u), Caused(u), churn' >= churn,
           churn' = churn => Live' = Live
    PROVE  Caused(u)'
<1>1. Paid(u)' = Paid(u) /\ Paid(u) \in Int
  BY DEF Same, Paid, TypeOK, CallRecord
<1>2. churn \in Nat /\ churn' \in Nat /\ call[u].since \in Nat /\ MaxRetries \in Nat
  BY DaprAssumption DEF TypeOK, CallRecord
<1>3. Paid(u)' <= churn'
  BY <1>1, <1>2 DEF Caused
<1>4. pc'[u] # "idle" /\ Paid(u)' = churn' => Current(u)'
  <2> SUFFICES ASSUME pc'[u] # "idle", Paid(u)' = churn' PROVE Current(u)'
    OBVIOUS
  <2>1. churn' = churn /\ Paid(u) = churn
    BY <1>1, <1>2 DEF Caused
  <2>2. Current(u) /\ Live' = Live
    BY <2>1 DEF Caused, Same
  <2> QED
    BY <2>2 DEF Current, Same
<1>5. pc'[u] = "idle" /\ result'[u].kind = "exhausted" =>
        churn' - call'[u].since >= MaxRetries
  BY <1>2 DEF Caused, Same
<1>6. pc'[u] = "idle" /\ result'[u].kind = "conflict"
        /\ result'[u].value = call'[u].expected => churn' > call'[u].since
  BY <1>2 DEF Caused, Same
<1> QED
  BY <1>3, <1>4, <1>5, <1>6 DEF Caused

(* Whoever lost was overtaken, since it last lost or since it began. *)
LEMMA BeatenForCause ==
    ASSUME TypeOK, NEW t \in Task, InStep(t), Caused(t), Beaten(t)
    PROVE  /\ call[t].op = "increment" => Paid(t) < churn
           /\ call[t].op = "cas" /\ resp[t].value = call[t].expected =>
                churn > call[t].since
<1>1. /\ Paid(t) \in Int /\ Paid(t) <= churn /\ churn \in Nat
      /\ call[t].since \in Nat /\ tries[t] \in Nat
  BY DaprAssumption DEF Paid, TypeOK, CallRecord, Caused
<1>2. Paid(t) = churn => Current(t)
  BY DEF Caused, Beaten
<1>3. CASE pc[t] = "casReread"
  BY <1>1, <1>2, <1>3 DEF Current, Paid
<1>4. CASE pc[t] = "casGet"
  <2>1. resp[t].kind = "item" /\ resp[t].value # cas[t].expected
    BY <1>4 DEF Beaten
  <2>2. call[t].op = "increment" => Paid(t) # churn
    BY <1>2, <1>4, <2>1 DEF Current
  <2>3. call[t].op = "cas" => cas[t].expected = call[t].expected
    BY <1>4 DEF InStep, Swaps, Comparing
  <2> QED
    BY <1>1, <2>1, <2>2, <2>3
<1> QED
  BY <1>3, <1>4 DEF Beaten

LEMMA ResumeCaused ==
    ASSUME TypeOK, NEW t \in Task, InStep(t), Caused(t), Moves(t), Quiet
    PROVE  Caused(t)'
<1>1. churn' = churn /\ Live' = Live /\ call'[t] = call[t]
  BY QuietLive, ReturnIs, AgainIs, CountsIs, MatchesIs, PostsIs, RereadsIs
     DEF Quiet, Moves, ghostVars
<1>2. /\ churn \in Nat /\ call[t].since \in Nat /\ tries[t] \in Nat
      /\ MaxRetries \in Nat \ {0} /\ Paid(t) <= churn
  BY DaprAssumption DEF TypeOK, CallRecord, Caused
<1>3. ASSUME NEW kind, NEW value, Says(t, kind, value), Return(t, kind, value)
      PROVE  Caused(t)'
  <2>1. result'[t] = [kind |-> kind, value |-> value]
    BY <1>3, ReturnIs
  <2>2. result'[t].kind = kind /\ result'[t].value = value
    BY <2>1
  <2>3. pc'[t] = "idle" /\ tries'[t] = 0
    BY <1>3, ReturnIs
  <2>4. Paid(t)' <= churn'
    BY <1>1, <1>2, <2>3 DEF Paid
  <2>5. kind = "exhausted" => churn - call[t].since >= MaxRetries
    <3> SUFFICES ASSUME kind = "exhausted"
                 PROVE  churn - call[t].since >= MaxRetries
      OBVIOUS
    <3>1. Beaten(t) /\ call[t].op = "increment" /\ tries[t] + 1 >= MaxRetries
      BY <1>3 DEF Says
    <3> QED
      BY <1>2, <3>1, BeatenForCause DEF Paid
  <2>6. kind = "conflict" /\ value = call[t].expected => churn > call[t].since
    BY <1>3, BeatenForCause DEF Says
  <2> QED
    BY <1>1, <2>2, <2>3, <2>4, <2>5, <2>6 DEF Caused
<1>4. ASSUME pc'[t] # "idle", Paid(t)' <= churn',
             Paid(t)' = churn' => Current(t)'
      PROVE  Caused(t)'
  BY <1>4 DEF Caused
<1>5. CASE Again(t)
  <2>1. Paid(t) < churn
    BY <1>5, BeatenForCause DEF Again
  <2>2. Paid(t)' = Paid(t) + 1
    BY <1>1, <1>2, <1>5, AgainIs DEF Paid
  <2>3. Current(t)'
    BY <1>5, AgainIs, NothingAsked, ReadsAre DEF Current
  <2> QED
    BY <1>1, <1>2, <1>4, <1>5, <2>1, <2>2, <2>3, AgainIs DEF Paid
<1>6. CASE Counts(t)
  <2>1. /\ pc'[t] = "casGet" /\ resp'[t] = NoResp
        /\ cas'[t].expected = resp[t].value
        /\ req'[t].kind = "get" /\ tries'[t] = tries[t]
    BY <1>6, CountsIs, ReadsAre
  <2>2. Paid(t) = churn => resp[t].value = Live.value
    BY <1>6 DEF Counts, Got, Caused, Current
  <2> QED
    BY <1>1, <1>2, <1>4, <2>1, <2>2, NothingAsked DEF Paid, Current
<1>7. CASE Matches(t)
  <2>1. /\ pc'[t] = "casSample" /\ resp'[t] = NoResp
        /\ cas'[t].etag = resp[t].etag
        /\ req'[t] = NoReq /\ tries'[t] = tries[t]
    BY <1>7, MatchesIs, HeardNotAsking DEF Matches, Got
  <2>2. Paid(t) = churn => resp[t].etag = Live.etag
    BY <1>7 DEF Matches, Got, Caused, Current
  <2> QED
    BY <1>1, <1>2, <1>4, <2>1, <2>2, NothingAsked DEF Paid, Current
<1>8. CASE Posts(t)
  <2>1. PICK ttl : req'[t] = StateCasRequest(call[t], cas[t], ttl)
    BY <1>8, PostsIs
  <2>2. req'[t].etag = cas[t].etag
    BY <2>1 DEF StateCasRequest
  <2>3. pc'[t] = "casPost" /\ resp'[t] = NoResp /\ tries'[t] = tries[t]
    BY <1>8, PostsIs
  <2>4. Paid(t) = churn => cas[t].etag = Live.etag
    BY <1>8 DEF Posts, Caused, Current
  <2> QED
    BY <1>1, <1>2, <1>4, <2>2, <2>3, <2>4, NothingAsked DEF Paid, Current
<1>9. CASE Rereads(t)
  <2>1. Paid(t) # churn
    BY <1>9 DEF Rereads, Got, Caused, Current
  <2>2. pc'[t] = "casReread" /\ tries'[t] = tries[t]
    BY <1>9, RereadsIs
  <2> QED
    BY <1>1, <1>2, <1>4, <2>1, <2>2 DEF Paid
<1> QED
  BY <1>3, <1>5, <1>6, <1>7, <1>8, <1>9 DEF Moves

LEMMA CallCaused ==
    ASSUME TypeOK, NEW t \in Task, InStep(t), NEW c \in Calls, Call(t, c)
    PROVE  Caused(t)'
<1>1. call'[t] = Begun(c) /\ churn' = churn /\ churn \in Nat
  BY CallIs DEF ghostVars, TypeOK
<1>2. call'[t].op = c.op /\ call'[t].since = churn
  BY <1>1 DEF Begun
<1>3. tries'[t] = 0
  BY CallIs DEF InStep, Fits
<1>4. resp'[t] = NoResp /\ pc'[t] \in {"get", "set", "delete", "casGet"}
  BY CallIs
<1>5. pc'[t] = "casGet" => c.op = "cas"
  BY CallIs
<1>6. req'[t].first = FALSE
  <2>1. \/ req'[t] = StateGetRequest(Begun(c))
        \/ req'[t] = StateSetRequest(Begun(c))
        \/ req'[t] = StateDeleteRequest(Begun(c))
    BY CallIs
  <2> QED
    BY <2>1, ReadsAre, SetsAre, DeletesAre
<1> QED
  BY <1>1, <1>2, <1>3, <1>4, <1>5, <1>6, NothingAsked
     DEF Caused, Paid, Current

LEMMA ServeCaused ==
    ASSUME TypeOK, NEW t \in Task, InStep(t), Caused(t), Serve(t)
    PROVE  Caused(t)'
<1> DEFINE r == req[t]
<1>1. churn' >= churn /\ (churn' = churn => Live' = Live)
  BY HandleChurns DEF Serve, TypeOK
<1>2. /\ churn \in Nat /\ churn' \in {churn, churn + 1}
      /\ Paid(t) \in Int /\ Paid(t) <= churn
  BY DaprAssumption DEF TypeOK, CallRecord, Paid, Caused, Serve, Record
<1>3. /\ pc' = pc /\ call' = call /\ cas' = cas /\ Paid(t)' = Paid(t)
      /\ resp'[t] = Reply(r) /\ req'[t] = NoReq /\ pc[t] # "idle"
  BY ServeIs, AskedAt DEF Paid, Busy
<1>4. ASSUME Paid(t) = churn' PROVE Current(t)'
  <2>1. Current(t) /\ Live' = Live /\ churn' = churn
    BY <1>1, <1>2, <1>3, <1>4 DEF Caused
  <2>2. r.kind \in {"get", "post", "delete"}
    BY ServeIs DEF TypeOK, Request
  <2>3. /\ resp'[t].kind = "item" =>
             resp'[t].value = Live.value /\ resp'[t].etag = Live.etag
        /\ resp'[t].kind = "conflict" => r.kind = "post" /\ ~Accepts(r)
    BY <1>3, <2>2 DEF Reply, NoResp
  <2>4. r.kind = "post" => Accepts(r)
    BY <2>1 DEF Current, Accepts
  <2> QED
    BY <1>3, <2>1, <2>3, <2>4, NothingAsked DEF Current
<1> QED
  BY <1>2, <1>3, <1>4 DEF Caused

LEMMA TimeoutCaused ==
    ASSUME TypeOK, NEW t \in Task, Caused(t), Timeout(t)
    PROVE  Caused(t)'
<1>1. resp'[t].kind = "failed" /\ req'[t].kind = "none"
  BY TimeoutIs, NothingAsked DEF NoResp
<1>2. /\ pc' = pc /\ call' = call /\ cas' = cas /\ tries' = tries
      /\ result' = result /\ churn' = churn /\ Live' = Live
  BY TimeoutIs, QuietLive DEF ghostVars
<1>3. Paid(t)' = Paid(t)
  BY <1>2 DEF Paid
<1>4. Current(t) => Current(t)'
  BY <1>1, <1>2 DEF Current
<1> QED
  BY <1>2, <1>3, <1>4 DEF Caused

LEMMA CausesInit == Init => Causes
<1> SUFFICES ASSUME Init, NEW t \in Task PROVE Caused(t)
  BY DEF Causes
<1>1. pc[t] = "idle" /\ result[t].kind = "none" /\ tries[t] = 0 /\ churn = 0
      /\ call[t].since = 0
  BY DEF Init, NoCall
<1> QED
  BY <1>1 DEF Caused, Paid

LEMMA CausesStep ==
    TypeOK /\ TypeOK' /\ Protocol /\ Causes /\ [Next]_vars => Causes'
<1> SUFFICES ASSUME TypeOK, TypeOK', Protocol, Causes, [Next]_vars
             PROVE  Causes'
  OBVIOUS
<1> USE DEF Causes, Protocol
<1>0. churn \in Nat /\ churn >= churn
  BY DEF TypeOK
<1>1. ASSUME NEW t \in Task, NEW c \in Calls, Call(t, c) PROVE Causes'
  <2>1. churn' = churn /\ Live' = Live
    BY <1>1, CallIs, QuietLive DEF ghostVars
  <2> QED
    BY <1>0, <1>1, <2>1, CallCaused, SameCaused, CallIs
<1>2. ASSUME NEW t \in Task, Resume(t) PROVE Causes'
  <2>1. Moves(t) /\ Quiet
    BY <1>2, ResumeMoves
  <2>2. churn' = churn /\ Live' = Live
    BY <2>1, QuietLive DEF Quiet, ghostVars
  <2> QED
    BY <1>0, <2>1, <2>2, ResumeCaused, SameCaused, MovesItself
<1>3. ASSUME NEW t \in Task, Serve(t) PROVE Causes'
  <2>1. churn' >= churn /\ (churn' = churn => Live' = Live)
    BY <1>3, HandleChurns DEF Serve, TypeOK
  <2> QED
    BY <1>3, <2>1, ServeCaused, SameCaused, ServeIs
<1>4. ASSUME NEW t \in Task, Timeout(t) PROVE Causes'
  <2>1. churn' = churn /\ Live' = Live
    BY <1>4, TimeoutIs, QuietLive DEF ghostVars
  <2> QED
    BY <1>0, <1>4, <2>1, TimeoutCaused, SameCaused, TimeoutIs
<1>5. ASSUME (\E r \in stray : ServeStray(r)) \/ Tick \/ UNCHANGED vars
      PROVE  Causes'
  <2>1. UNCHANGED <<pc, call, cas, tries, result, req, resp>>
    BY <1>5 DEF ServeStray, Tick, vars, taskVars, netVars
  <2>2. churn' >= churn /\ (churn' = churn => Live' = Live)
    <3>1. ASSUME NEW r \in stray, ServeStray(r)
          PROVE  churn' >= churn /\ (churn' = churn => Live' = Live)
      BY <3>1, HandleChurns DEF ServeStray, TypeOK
    <3>2. CASE UNCHANGED vars
      BY <1>0, <3>2, QuietLive DEF vars, ghostVars
    <3> QED
      BY <1>5, <3>1, <3>2, TickChurns
  <2>3. ASSUME NEW u \in Task PROVE Caused(u)'
    BY <2>1, <2>2, SameCaused DEF Same
  <2> QED
    BY <2>3
<1> QED
  BY <1>1, <1>2, <1>3, <1>4, <1>5 DEF Next

LEMMA CausesMean == TypeOK /\ Causes => ConflictsHaveCause
<1> SUFFICES ASSUME TypeOK, Causes, NEW t \in Task
             PROVE  /\ tries[t] <= churn - call[t].since
                    /\ pc[t] = "idle" /\ result[t].kind = "exhausted" =>
                         churn - call[t].since >= MaxRetries
                    /\ /\ pc[t] = "idle" /\ result[t].kind = "conflict"
                       /\ result[t].value = call[t].expected
                       => churn - call[t].since > 0
  BY DEF ConflictsHaveCause
<1>1. churn \in Nat /\ call[t].since \in Nat /\ tries[t] \in Int
  BY DaprAssumption DEF TypeOK, CallRecord
<1> QED
  BY <1>1 DEF Causes, Caused, Paid

LEMMA WholeInvariant == Spec => [](TypeOK /\ Protocol /\ Deeds /\ Causes)
<1>1. Init => TypeOK /\ Protocol /\ Deeds /\ Causes
  BY TypeInit, ProtocolInit, DeedsInit, CausesInit
<1>2. TypeOK /\ Protocol /\ Deeds /\ Causes /\ [Next]_vars =>
        (TypeOK /\ Protocol /\ Deeds /\ Causes)'
  BY TypeStep, ProtocolStep, DeedsStep, CausesStep
<1> QED
  BY <1>1, <1>2, PTL DEF Spec

(* A cas or an increment fails only for a reason: each retry was paid for by
   a change of the item while the call ran, a give-up by MaxRetries of them,
   and a conflict that reports the expected value by at least one. *)
THEOREM ConflictsAreCaused == Spec => []ConflictsHaveCause
BY WholeInvariant, CausesMean, PTL

-----------------------------------------------------------------------------
(***************************************************************************)
(* The sum of the deltas of a set.  MapThenSumSet is defined by recursion  *)
(* on sets; that it exists, and what one element more adds to it, is shown *)
(* by the smallest set of which it would be false.                         *)
(***************************************************************************)
Total(S) == MapThenSumSet(LAMBDA b : b.delta, S)

Sums(f, S) ==
    f = [s \in SUBSET S |->
           IF s = {} THEN 0
           ELSE (CHOOSE x \in s : TRUE).delta + f[s \ {CHOOSE x \in s : TRUE}]]

LEMMA TotalIs ==
    ASSUME NEW S
    PROVE  Total(S) = (CHOOSE f : Sums(f, S))[S]
BY DEF Total, MapThenSumSet, MapThenFoldSet, Sums

LEMMA SmallestSubset ==
    ASSUME NEW S, IsFiniteSet(S), NEW T, T \subseteq SUBSET S, T # {}
    PROVE  \E s \in T : \A u \in T : u \subseteq s => u = s
<1>1. IsWellFoundedOn(StrictSubsetOrdering(S), SUBSET S)
  BY FS_StrictSubsetOrderingWellFounded, FS_FiniteSubsetsOfFinite
<1>2. PICK s \in T : \A u \in T : ~(<<u, s>> \in StrictSubsetOrdering(S))
  BY <1>1, WFMin
<1>3. \A u \in T : u \subseteq s => u = s
  <2> SUFFICES ASSUME NEW u \in T, u \subseteq s, u # s PROVE FALSE
    OBVIOUS
  <2>1. <<u, s>> \in StrictSubsetOrdering(S)
    BY DEF StrictSubsetOrdering
  <2> QED BY <1>2, <2>1
<1> QED BY <1>3

(* Two of these functions agree where both are defined. *)
LEMMA SumsAgree ==
    ASSUME NEW S, IsFiniteSet(S), NEW R, NEW f, NEW g, Sums(f, S), Sums(g, R),
           S \subseteq R
    PROVE  \A s \in SUBSET S : f[s] = g[s]
<1> DEFINE T == {s \in SUBSET S : f[s] # g[s]}
<1> SUFFICES ASSUME T # {} PROVE FALSE
  OBVIOUS
<1>1. PICK s \in T : \A u \in T : u \subseteq s => u = s
  <2>1. T \subseteq SUBSET S
    OBVIOUS
  <2> HIDE DEF T
  <2> QED BY <2>1, SmallestSubset
<1> DEFINE x == CHOOSE x \in s : TRUE
<1>2. s \subseteq S /\ s \subseteq R /\ f[s] # g[s]
  BY <1>1
<1>3. CASE s = {}
  BY <1>2, <1>3 DEF Sums
<1>4. CASE s # {}
  <2>1. x \in s
    BY <1>4
  <2> HIDE DEF x
  <2>2. s \ {x} \in SUBSET S /\ s \ {x} \subseteq s /\ s \ {x} # s
    BY <1>2, <2>1
  <2>3. f[s \ {x}] = g[s \ {x}]
    BY <1>1, <2>2
  <2>4. f[s] = x.delta + f[s \ {x}] /\ g[s] = x.delta + g[s \ {x}]
    BY <1>2, <1>4 DEF Sums, x
  <2> QED BY <1>2, <2>3, <2>4
<1> QED BY <1>3, <1>4

LEMMA SumsExist ==
    ASSUME NEW S, IsFiniteSet(S)
    PROVE  \E f : Sums(f, S)
<1> DEFINE T == {s \in SUBSET S : ~\E f : Sums(f, s)}
<1> SUFFICES ASSUME T # {} PROVE FALSE
  OBVIOUS
<1>1. PICK s \in T : \A u \in T : u \subseteq s => u = s
  <2>1. T \subseteq SUBSET S
    OBVIOUS
  <2> HIDE DEF T
  <2> QED BY <2>1, SmallestSubset
<1> DEFINE F(u) == CHOOSE f : Sums(f, u)
           x == CHOOSE x \in s : TRUE
           g == [u \in SUBSET s |->
                   IF u = {} THEN 0
                   ELSE IF u = s THEN x.delta + F(s \ {x})[s \ {x}]
                   ELSE F(u)[u]]
<1>2. s \subseteq S /\ ~\E f : Sums(f, s)
  BY <1>1
<1>3. ASSUME NEW u, u \subseteq s, u # s PROVE Sums(F(u), u) /\ IsFiniteSet(u)
  <2>1. u \notin T
    BY <1>1, <1>3
  <2>2. \E f : Sums(f, u)
    BY <1>2, <1>3, <2>1
  <2> QED BY <1>2, <1>3, <2>2, FS_Subset
<1> HIDE DEF T, F
<1>4. ASSUME NEW u \in SUBSET s
      PROVE  g[u] = IF u = {} THEN 0
                    ELSE (CHOOSE y \in u : TRUE).delta + g[u \ {CHOOSE y \in u : TRUE}]
  <2> DEFINE y == CHOOSE y \in u : TRUE
  <2>1. CASE u = {}
    BY <2>1
  <2>2. CASE u # {} /\ u = s
    <3>1. x \in s /\ x = y
      BY <2>2
    <3> HIDE DEF x, y
    <3>2. s \ {x} \subseteq s /\ s \ {x} # s
      BY <3>1
    <3>3. g[s] = x.delta + F(s \ {x})[s \ {x}]
      BY <2>2
    <3>4. g[s \ {x}] = F(s \ {x})[s \ {x}]
      <4>1. CASE s \ {x} = {}
        <5>1. Sums(F({}), {})
          BY <1>3, <3>2, <4>1
        <5>2. F({})[{}] = 0
          BY <5>1 DEF Sums
        <5> QED BY <4>1, <5>2
      <4>2. CASE s \ {x} # {}
        BY <3>2, <4>2
      <4> QED BY <4>1, <4>2
    <3> QED BY <2>2, <3>1, <3>3, <3>4 DEF y
  <2>3. CASE u # {} /\ u # s
    <3>1. y \in u
      BY <2>3
    <3> HIDE DEF y, x
    <3>2. u \ {y} \subseteq u /\ u \ {y} \subseteq s /\ u \ {y} # s
      BY <2>3, <3>1
    <3>3. Sums(F(u), u) /\ Sums(F(u \ {y}), u \ {y}) /\ IsFiniteSet(u \ {y})
      BY <1>3, <2>3, <3>2
    <3>4. F(u \ {y})[u \ {y}] = F(u)[u \ {y}]
      BY <3>2, <3>3, SumsAgree
    <3>5. F(u)[u] = y.delta + F(u)[u \ {y}]
      BY <2>3, <3>3 DEF Sums, y
    <3>6. g[u] = F(u)[u]
      BY <2>3
    <3>7. g[u \ {y}] = F(u \ {y})[u \ {y}]
      <4>1. CASE u \ {y} = {}
        <5>1. F({})[{}] = 0
          BY <3>3, <4>1 DEF Sums
        <5> QED BY <4>1, <5>1
      <4>2. CASE u \ {y} # {}
        BY <3>2, <4>2
      <4> QED BY <4>1, <4>2
    <3> QED BY <2>3, <3>4, <3>5, <3>6, <3>7 DEF y
  <2> QED BY <2>1, <2>2, <2>3
<1>5. Sums(g, s)
  <2>1. g = [u \in SUBSET s |-> g[u]]
    OBVIOUS
  <2> HIDE DEF g
  <2> QED BY <1>4, <2>1 DEF Sums
<1> QED BY <1>2, <1>5

LEMMA TotalOfNone == Total({}) = 0
<1>1. PICK f : Sums(f, {})
  BY SumsExist, FS_EmptySet
<1>2. Sums(CHOOSE g : Sums(g, {}), {})
  BY <1>1
<1> QED BY <1>2, TotalIs DEF Sums

(* Any element adds its own delta. *)
LEMMA TotalSplits ==
    ASSUME NEW S, IsFiniteSet(S), \A b \in S : b.delta \in Int
    PROVE  /\ Total(S) \in Int
           /\ \A b \in S : Total(S) = b.delta + Total(S \ {b})
<1> DEFINE f == CHOOSE f : Sums(f, S)
<1>1. Sums(f, S)
  BY SumsExist
<1>2. ASSUME NEW s \in SUBSET S PROVE Total(s) = f[s]
  <2>1. IsFiniteSet(s)
    BY FS_Subset
  <2>2. Sums(CHOOSE g : Sums(g, s), s)
    BY <2>1, SumsExist
  <2> HIDE DEF f
  <2> QED BY <1>1, <2>1, <2>2, SumsAgree, TotalIs
<1> HIDE DEF f
<1>3. ASSUME NEW s \in SUBSET S, s # {}
      PROVE  \E x \in s : f[s] = x.delta + f[s \ {x}]
  BY <1>1, <1>3 DEF Sums
<1>4. f[{}] = 0
  BY <1>1 DEF Sums
<1> DEFINE Splits(s) == f[s] \in Int /\ \A b \in s : f[s] = b.delta + f[s \ {b}]
           T == {s \in SUBSET S : ~Splits(s)}
<1>5. T = {}
  <2> SUFFICES ASSUME T # {} PROVE FALSE
    OBVIOUS
  <2>1. PICK s \in T : \A u \in T : u \subseteq s => u = s
    <3>1. T \subseteq SUBSET S
      OBVIOUS
    <3> HIDE DEF T
    <3> QED BY <3>1, SmallestSubset
  <2>2. s \subseteq S /\ ~Splits(s)
    BY <2>1
  <2>3. ASSUME NEW u, u \subseteq s, u # s PROVE Splits(u)
    <3>1. u \notin T
      BY <2>1, <2>3
    <3> QED BY <2>2, <2>3, <3>1
  <2>4. s # {}
    <3>1. Splits({})
      <4>1. f[{}] \in Int
        BY <1>4
      <4>2. \A b \in {} : f[{}] = b.delta + f[{} \ {b}]
        OBVIOUS
      <4> QED BY <4>1, <4>2
    <3> HIDE DEF Splits
    <3> QED BY <2>2, <3>1
  <2>5. PICK x \in s : f[s] = x.delta + f[s \ {x}]
    BY <1>3, <2>2, <2>4
  <2>6. f[s \ {x}] \in Int /\ x.delta \in Int
    <3>1. s \ {x} \subseteq s /\ s \ {x} # s
      OBVIOUS
    <3> HIDE DEF T
    <3> QED BY <2>2, <2>3, <3>1
  <2>7. ASSUME NEW b \in s, b # x PROVE f[s] = b.delta + f[s \ {b}]
    <3>1. /\ s \ {x} \subseteq s /\ s \ {x} # s /\ b \in s \ {x}
          /\ s \ {b} \subseteq s /\ s \ {b} # s /\ x \in s \ {b}
          /\ s \ {x, b} \subseteq s /\ s \ {x, b} # s
          /\ (s \ {x}) \ {b} = s \ {x, b} /\ (s \ {b}) \ {x} = s \ {x, b}
      BY <2>7
    <3>2. Splits(s \ {x}) /\ Splits(s \ {b}) /\ Splits(s \ {x, b})
      <4> HIDE DEF T, Splits
      <4> QED BY <2>3, <3>1
    <3>3. f[s \ {x}] = b.delta + f[s \ {x, b}]
      BY <3>1, <3>2
    <3>4. f[s \ {b}] = x.delta + f[s \ {x, b}]
      BY <3>1, <3>2
    <3>5. f[s \ {x, b}] \in Int /\ b.delta \in Int
      BY <2>2, <3>2
    <3> QED BY <2>5, <2>6, <3>3, <3>4, <3>5
  <2>8. f[s] \in Int
    BY <2>5, <2>6
  <2>9. \A b \in s : f[s] = b.delta + f[s \ {b}]
    BY <2>5, <2>7
  <2> QED BY <2>2, <2>8, <2>9
<1>6. Splits(S)
  BY <1>5
<1>7. \A b \in S : Total(S \ {b}) = f[S \ {b}]
  BY <1>2
<1>8. Total(S) = f[S]
  BY <1>2
<1> QED BY <1>6, <1>7, <1>8

-----------------------------------------------------------------------------
(***************************************************************************)
(* A counter: nobody calls anything but increment and get.                 *)
(***************************************************************************)
OnlyCounts == \A c \in Calls : c.op \in {"get", "increment"}

(* Nothing has a TTL, and whatever writes is an increment. *)
Steady ==
    /\ \A i \in Instance : ttls[i] = None
    /\ item.expires = None
    /\ \A t \in Task : /\ call[t].op \in {"get", "increment"}
                       /\ req[t].kind = "post" => req[t].ttl = None
    /\ \A r \in stray : r.by.op = "increment" /\ r.ttl = None

Counter ==
    Steady /\ IsFiniteSet(applied) /\ Base(item.value) = Total(applied)

(* A write of an increment that nobody counted before. *)
Adds(r) ==
    /\ r.kind = "post" /\ r.first = TRUE /\ r.ttl = None
    /\ CasFits("increment", r.by.delta, r.by.expects, r.value)
    /\ Accepts(r) => r.by.expects = Live.value
    /\ r.by \notin applied

LEMMA AddingOne ==
    ASSUME IsFiniteSet(applied), applied \subseteq By, NEW b \in By, b \notin applied
    PROVE  /\ IsFiniteSet(applied \cup {b}) /\ Total(applied) \in Int
           /\ Total(applied \cup {b}) = b.delta + Total(applied)
<1>1. IsFiniteSet(applied \cup {b})
  BY FS_AddElement
<1>2. \A c \in applied \cup {b} : c.delta \in Int
  BY DEF By
<1>3. (applied \cup {b}) \ {b} = applied
  OBVIOUS
<1>4. Total(applied \cup {b}) = b.delta + Total((applied \cup {b}) \ {b})
  BY <1>1, <1>2, TotalSplits
<1>5. Total(applied) \in Int
  BY <1>2, TotalSplits
<1> QED
  BY <1>1, <1>3, <1>4, <1>5

(* A request that is served counts once, on the value it finds. *)
LEMMA HandleCounts ==
    ASSUME TypeOK, Counter, NEW r \in Request, Handle(r), Record(r),
           r.kind = "get" \/ Adds(r)
    PROVE  /\ item'.expires = None /\ IsFiniteSet(applied)'
           /\ Base(item.value)' = Total(applied)'
<1>1. Live = item /\ item.expires = None
  BY DEF Counter, Steady, Live
<1>2. CASE item' = Live /\ ~TakesEffect(r)
  BY <1>1, <1>2 DEF Record, Counter, Base
<1>3. CASE r.kind = "post" /\ Accepts(r) /\ item' = Stored(r)
  <2>1. /\ item'.expires = None /\ item'.value = r.value
        /\ applied' = applied \cup {r.by} /\ r.by \in By
    BY <1>3 DEF Adds, Stored, Expiry, Record, TakesEffect, Request
  <2>2. /\ r.value = Base(item.value) + r.by.delta
        /\ r.by.delta \in Int /\ Base(item.value) \in Int
    <3>1. /\ Countable(item.value, r.by.delta)
          /\ r.value = Base(item.value) + r.by.delta
      BY <1>1, <1>3 DEF Adds, CasFits
    <3>2. Total(applied) \in Int
      BY <1>3, <2>1, AddingOne DEF Adds, TypeOK, Counter
    <3> QED
      BY <2>1, <3>1, <3>2 DEF Counter, By
  <2>3. r.value \in Int /\ r.value # None
    <3>1. r.value \in Value
      BY <1>3 DEF Adds, CasFits
    <3> QED
      BY <2>2, <3>1, SidecarAssumption
  <2>4. Total(applied') = r.by.delta + Total(applied) /\ IsFiniteSet(applied')
    BY <1>3, <2>1, AddingOne DEF Adds, TypeOK, Counter
  <2>5. Base(item'.value) = r.value
    BY <2>1, <2>3 DEF Base
  <2>6. Base(item.value) = Total(applied)
    BY DEF Counter
  <2>7. Base(item'.value) = Total(applied')
    BY <2>2, <2>4, <2>5, <2>6
  <2> QED
    BY <2>1, <2>4, <2>7 DEF Base
<1>4. \/ item' = Live /\ ~TakesEffect(r)
      \/ r.kind = "post" /\ Accepts(r) /\ item' = Stored(r)
  BY DEF Handle, StateGet, StatePost, TakesEffect, Adds
<1> QED
  BY <1>2, <1>3, <1>4

LEMMA ServedCounts ==
    ASSUME TypeOK, EtagNamesValue, Protocol, Deeds, Counter,
           NEW t \in Task, req[t].kind # "none"
    PROVE  req[t].kind = "get" \/ Adds(req[t])
<1>1. InStep(t) /\ Clean(call[t].id) /\ call[t].op \in {"get", "increment"}
  BY DEF Protocol, Deeds, Did, Counter, Steady
<1>2. CASE pc[t] = "casPost" /\ req[t].kind = "post"
  <2>1. /\ req[t].first = TRUE /\ req[t].value = cas[t].value
        /\ req[t].by = ByOf(call[t], cas[t].expected)
    BY <1>1, <1>2, AskedAt DEF Reading
  <2>2. /\ call[t].op = "increment" /\ req[t].by.op = "increment"
        /\ req[t].by.id = call[t].id /\ req[t].by.delta = call[t].delta
        /\ req[t].by.expects = cas[t].expected
    BY <1>1, <1>2, <2>1 DEF InStep, Fits, Comparing, ByOf
  <2>3. CasFits("increment", req[t].by.delta, req[t].by.expects, req[t].value)
    BY <1>1, <1>2, <2>1, <2>2 DEF InStep, Swaps, Comparing
  <2>4. Accepts(req[t]) => req[t].by.expects = Live.value
    BY <1>2, <2>2, EtagImpliesAtomic DEF CasAtomic, InFlight, Conditional
  <2>5. req[t].by \notin applied
    BY <1>1, <2>2 DEF Clean
  <2>6. req[t].ttl = None
    BY <1>2 DEF Counter, Steady
  <2> QED
    BY <1>2, <2>1, <2>3, <2>4, <2>5, <2>6 DEF Adds
<1> QED
  BY <1>1, <1>2, AskedAt DEF InStep, Fits

LEMMA StrayCounts ==
    ASSUME TypeOK, EtagNamesValue, Protocol, Deeds, Counter, NEW r \in stray
    PROVE  Adds(r)
<1>1. Stray(r) /\ r.by.op = "increment" /\ r.ttl = None
  BY DEF Protocol, Counter, Steady
<1>2. /\ r.kind = "post" /\ r.first = TRUE
      /\ CasFits("increment", r.by.delta, r.by.expects, r.value)
  BY <1>1 DEF Stray, TypeOK, Request
<1>3. Accepts(r) => r.by.expects = Live.value
  BY <1>1, <1>2, EtagImpliesAtomic DEF CasAtomic, InFlight, Conditional
<1>4. r.by \notin applied
  BY DEF Deeds, Once
<1> QED
  BY <1>1, <1>2, <1>3, <1>4 DEF Adds

(* The TTL map stays empty. *)
LEMMA ResumeSteady ==
    ASSUME TypeOK, Protocol, Steady, NEW t \in Task, Resume(t)
    PROVE  Steady'
<1>1. InStep(t) /\ call[t].op \in {"get", "increment"} /\ pc[t] \notin {"set", "delete"}
  BY DEF Protocol, Steady, InStep, Fits
<1>2. Expiry(None) = None /\ TrackedTtlSecs(None) = None
  BY DEF Expiry, TrackedTtlSecs
<1>3. /\ InstanceOf[t] \in Instance /\ ttls[InstanceOf[t]] = None
      /\ ttls \in [Instance -> OptNat]
  BY DaprAssumption DEF Steady, TypeOK
<1>4. \A i \in Instance : ttls'[i] = None
  <2>1. CASE UNCHANGED ttls
    BY <2>1 DEF Steady
  <2>2. CASE ttls' = [ttls EXCEPT ![InstanceOf[t]] = None]
    BY <1>3, <2>2 DEF Steady
  <2>3. CASE \E value : ForgetIfAbsent(t, value)
    BY <1>2, <2>1, <2>2, <2>3 DEF ForgetIfAbsent, RecordTtl
  <2> QED
    BY <1>1, <2>1, <2>2, <2>3
       DEF Resume, OnFailure, OnGet, OnSet, OnDelete, OnIncrementGet, OnCasGet,
           CasSample, OnCasDone, OnCasRefused, OnCasReread, Got
<1>5. item' = item /\ Moves(t)
  BY ResumeMoves DEF Quiet, sidecarVars
<1>6. /\ call'[t] = call[t] /\ stray' = stray
      /\ \A u \in Task \ {t} : Same(u)
  BY <1>5, ReturnIs, AgainIs, CountsIs, MatchesIs, PostsIs, RereadsIs DEF Moves
<1>7. req'[t].kind = "post" => req'[t].ttl = None
  <2>1. CASE pc[t] = "casSample"
    <3>1. CasSample(t)
      BY <2>1 DEF Resume, OnFailure, OnGet, OnSet, OnDelete, OnIncrementGet,
                  OnCasGet, OnCasDone, OnCasRefused, OnCasReread, Got, Busy
    <3>2. req'[t] = StateCasRequest(call[t], cas[t], None)
      BY <1>2, <1>3, <3>1, AwaitIs DEF CasSample
    <3> QED
      BY <3>2 DEF StateCasRequest
  <2>2. CASE pc[t] # "casSample"
    <3>1. req'[t] = req[t] \/ req'[t] = StateGetRequest(call[t])
      BY <1>5, <2>2, ReturnIs, AgainIs, CountsIs, MatchesIs, RereadsIs
         DEF Moves, Posts
    <3> QED
      BY <3>1, ReadsAre DEF Steady
  <2> QED
    BY <2>1, <2>2
<1> QED
  BY <1>1, <1>4, <1>5, <1>6, <1>7 DEF Steady, Same

LEMMA CounterStep ==
    ASSUME OnlyCounts, TypeOK, EtagNamesValue, Protocol, Deeds, Counter,
           [Next]_vars
    PROVE  Counter'
<1>1. ASSUME NEW t \in Task, NEW c \in Calls, Call(t, c) PROVE Counter'
  <2>1. c.op \in {"get", "increment"}
    BY DEF OnlyCounts
  <2>2. /\ call'[t].op = c.op /\ req'[t].kind = "get" /\ stray' = stray
        /\ \A u \in Task \ {t} : Same(u)
        /\ item' = item /\ applied' = applied
    <3>1. /\ call'[t] = Begun(c) /\ stray' = stray
          /\ UNCHANGED <<sidecarVars, ghostVars>>
          /\ \A u \in Task \ {t} : Same(u)
          /\ req'[t] = StateGetRequest(Begun(c))
      BY <1>1, <2>1, CallIs
    <3>2. call'[t].op = c.op /\ req'[t].kind = "get"
      <4>1. call'[t].op = c.op
        BY <3>1 DEF Begun
      <4>2. req'[t].kind = "get"
        BY <3>1, ReadsAre
      <4> QED
        BY <4>1, <4>2
    <3> QED
      BY <3>1, <3>2 DEF sidecarVars, ghostVars
  <2>3. ttls' = ttls
    BY <1>1 DEF Call
  <2> QED
    BY <2>1, <2>2, <2>3 DEF Counter, Steady, Same, Base
<1>2. ASSUME NEW t \in Task, Resume(t) PROVE Counter'
  <2>1. Steady'
    BY <1>2, ResumeSteady DEF Counter
  <2>2. item' = item /\ applied' = applied
    BY <1>2, ResumeMoves DEF Quiet, sidecarVars, ghostVars
  <2> QED
    BY <2>1, <2>2 DEF Counter, Base
<1>3. ASSUME NEW t \in Task, Serve(t) PROVE Counter'
  <2>1. req[t].kind = "get" \/ Adds(req[t])
    BY <1>3, ServedCounts, ServeIs
  <2>2. /\ item'.expires = None /\ IsFiniteSet(applied)'
        /\ Base(item.value)' = Total(applied)'
    BY <1>3, <2>1, HandleCounts DEF Serve, TypeOK
  <2>3. /\ call' = call /\ stray' = stray /\ ttls' = ttls
        /\ req'[t].kind = "none" /\ \A u \in Task \ {t} : Same(u)
    BY <1>3, ServeIs, NothingAsked DEF Serve
  <2>4. Steady'
    BY <2>2, <2>3 DEF Counter, Steady, Same
  <2> QED
    BY <2>2, <2>4 DEF Counter
<1>4. ASSUME NEW t \in Task, Timeout(t) PROVE Counter'
  <2>1. /\ call' = call /\ ttls' = ttls /\ item' = item /\ applied' = applied
        /\ req'[t].kind = "none" /\ \A u \in Task \ {t} : Same(u)
        /\ stray' = IF req[t].kind \in {"post", "delete"}
                     THEN stray \cup {req[t]} ELSE stray
    BY <1>4, TimeoutIs, NothingAsked DEF Timeout, sidecarVars, ghostVars
  <2>2. req[t].kind \in {"post", "delete"} =>
          req[t].by.op = "increment" /\ req[t].ttl = None
    <3> SUFFICES ASSUME req[t].kind \in {"post", "delete"}
                 PROVE  req[t].by.op = "increment" /\ req[t].ttl = None
      OBVIOUS
    <3>1. InStep(t) /\ call[t].op \in {"get", "increment"}
      BY DEF Protocol, Counter, Steady
    <3>2. /\ pc[t] = "casPost" /\ req[t].kind = "post"
          /\ req[t].by = ByOf(call[t], cas[t].expected)
      BY <3>1, AskedAt DEF InStep, Fits
    <3>3. call[t].op = "increment"
      BY <3>1, <3>2 DEF InStep, Fits, Comparing
    <3> QED
      BY <3>2, <3>3 DEF ByOf, Counter, Steady
  <2>3. Steady'
    BY <2>1, <2>2 DEF Counter, Steady, Same
  <2> QED
    BY <2>1, <2>3 DEF Counter, Base
<1>5. ASSUME NEW r \in stray, ServeStray(r) PROVE Counter'
  <2>1. /\ item'.expires = None /\ IsFiniteSet(applied)'
        /\ Base(item.value)' = Total(applied)'
    BY <1>5, StrayCounts, HandleCounts DEF ServeStray, TypeOK
  <2>2. Steady'
    BY <1>5, <2>1 DEF ServeStray, Counter, Steady, taskVars
  <2> QED
    BY <2>1, <2>2 DEF Counter
<1>6. CASE Tick \/ UNCHANGED vars
  BY <1>6 DEF Tick, vars, taskVars, netVars, sidecarVars, ghostVars, Counter,
              Steady, Base
<1> QED
  BY <1>1, <1>2, <1>3, <1>4, <1>5, <1>6 DEF Next

LEMMA CounterInit == ASSUME OnlyCounts, Init PROVE Counter
<1>1. \A t \in Task : call[t].op = "get" /\ req[t].kind = "none"
  BY NothingAsked DEF Init, NoCall
<1>2. item.value = None /\ item.expires = None
  BY DEF Init, SidecarInit, Gone
<1>3. applied = {} /\ IsFiniteSet(applied)
  BY FS_EmptySet DEF Init
<1> QED
  BY <1>1, <1>2, <1>3, TotalOfNone DEF Init, Counter, Steady, Base

(* A counter that only increments touch is the sum of those that took effect:
   none is lost and none counts twice, however many tasks contend, whatever is
   retried, and however late a lost request arrives. *)
THEOREM NoUpdateIsLost == ASSUME OnlyCounts PROVE Spec => []NoLostUpdate
<1>1. Init => Counter
  BY CounterInit
<1>2. /\ TypeOK /\ EtagNamesValue /\ Protocol /\ Deeds /\ Counter
      /\ [Next]_vars
      => Counter'
  BY CounterStep
<1>3. Counter => NoLostUpdate
  BY DEF Counter, NoLostUpdate, Total
<1> QED
  BY <1>1, <1>2, <1>3, TypeCorrect, EtagsAreNames, Protocols, PTL DEF Spec

-----------------------------------------------------------------------------
(***************************************************************************)
(* The time to live, for a caller that is alone with its key and whose     *)
(* writes are answered.  The client knows the expiry of the item only by   *)
(* the deadline in its TTL map; what makes the two properties inductive is *)
(* when that deadline can be trusted.                                      *)
(***************************************************************************)
Alone == \A t, u \in Task : t = u

Deadline(t) == ttls[InstanceOf[t]]

(* A deadline that is tracked for a live item is not before the item is due. *)
Tracks(deadline) ==
    Live # Gone /\ deadline # None => due # None /\ due <= deadline

(* A set or delete has changed the item and not yet the map; a cas that found
   the key absent has no deadline; a conditional write that would be accepted
   carries a TTL that is long enough. *)
Times(t) ==
    /\ pc[t] \notin {"set", "delete"} => Tracks(Deadline(t))
    /\ pc[t] = "set" /\ resp[t].kind = "done" /\ call[t].ttl # None =>
         due # None /\ due <= Expiry(call[t].ttl)
    /\ pc[t] = "casSample" /\ cas[t].etag = 0 => Deadline(t) = None
    /\ pc[t] = "casPost" /\ req[t].kind = "post" =>
         /\ req[t].etag = 0 => Deadline(t) = None /\ req[t].ttl = None
         /\ Live # Gone /\ req[t].ttl # None =>
              due # None /\ due <= Expiry(req[t].ttl)
    /\ resp[t].kind = "failed" => pc[t] \in Reading

Timely ==
    /\ PermanentKept /\ NotCutShort
    /\ stray = {}
    /\ \A t \in Task : Times(t)

(* Rounding up keeps the deadline: the TTL that is sent ends no earlier. *)
LEMMA RoundedUp ==
    ASSUME now \in Nat, NEW deadline \in OptNat,
           TrackedTtlSecs(deadline) # None
    PROVE  deadline # None /\ deadline <= Expiry(TrackedTtlSecs(deadline))
<1>1. deadline \in Nat /\ deadline > now
  BY DEF TrackedTtlSecs, Passed, OptNat
<1>2. TicksPerSec \in Nat \ {0}
  BY SidecarAssumption
<1>3. ASSUME NEW a \in Nat, NEW b \in Nat \ {0}
      PROVE  ((a + b - 1) \div b) * b >= a
  <2>1. a + b - 1 \in Int
    OBVIOUS
  <2>2. ASSUME NEW x \in Int PROVE x < (x \div b) * b + b
    <3>1. x = b * (x \div b) + (x % b) /\ x % b \in 0 .. b - 1 /\ x \div b \in Int
      OBVIOUS
    <3> QED
      BY <3>1
  <2>3. (a + b - 1) \div b \in Int
    BY <2>1
  <2>4. ((a + b - 1) \div b) * b \in Int
    BY <2>3
  <2>5. a + b - 1 < ((a + b - 1) \div b) * b + b
    BY <2>1, <2>2
  <2> QED
    BY <2>4, <2>5
<1>4. CeilSecs(deadline - now) * TicksPerSec >= deadline - now
  BY <1>1, <1>2, <1>3 DEF CeilSecs
<1>5. TrackedTtlSecs(deadline) = CeilSecs(deadline - now)
  BY <1>1, SidecarAssumption DEF TrackedTtlSecs, Passed
<1>6. CeilSecs(deadline - now) \in Int
  <2>1. deadline - now + TicksPerSec - 1 \in Int
    BY <1>1, <1>2
  <2> QED
    BY <1>2, <2>1 DEF CeilSecs
<1>7. CeilSecs(deadline - now) * TicksPerSec \in Int
  BY <1>2, <1>6
<1> QED
  BY <1>1, <1>4, <1>5, <1>7, SidecarAssumption DEF Expiry

(* What a step of the client does to the map: it leaves the deadline, forgets
   it, or ends a set by recording what the set asked for. *)
LEMMA ResumeDeadline ==
    ASSUME TypeOK, NEW t \in Task, Resume(t)
    PROVE  \/ Deadline(t)' = Deadline(t) /\ pc[t] \notin {"set", "delete"}
           \/ Deadline(t)' = None
           \/ pc[t] \notin Reading /\ resp[t].kind = "failed"
           \/ /\ pc[t] = "set" /\ resp[t].kind = "done"
              /\ Deadline(t)' = Expiry(call[t].ttl)
<1>1. ttls \in [Instance -> OptNat] /\ InstanceOf[t] \in Instance
  BY DaprAssumption DEF TypeOK
<1>2. Expiry(None) = None
  BY DEF Expiry
<1>3. ASSUME NEW ttl, RecordTtl(t, ttl) PROVE Deadline(t)' = Expiry(ttl)
  BY <1>1, <1>3 DEF RecordTtl, Deadline
<1>4. ASSUME NEW value, ForgetIfAbsent(t, value)
      PROVE  Deadline(t)' = Deadline(t) \/ Deadline(t)' = None
  BY <1>2, <1>3, <1>4 DEF ForgetIfAbsent, Deadline
<1>5. CASE OnFailure(t)
  BY <1>5 DEF OnFailure, Deadline, Reading
<1>6. CASE OnSet(t)
  BY <1>3, <1>6 DEF OnSet, Got
<1>7. CASE OnDelete(t)
  BY <1>2, <1>3, <1>7 DEF OnDelete
<1>8. CASE OnGet(t) \/ OnIncrementGet(t) \/ OnCasGet(t)
  BY <1>4, <1>8 DEF OnGet, OnIncrementGet, OnCasGet, Got
<1>9. CASE CasSample(t)
  BY <1>1, <1>9 DEF CasSample, Deadline
<1>10. CASE OnCasDone(t) \/ OnCasRefused(t) \/ OnCasReread(t)
  BY <1>10 DEF OnCasDone, OnCasRefused, OnCasReread, Got, Deadline
<1> QED
  BY <1>5, <1>6, <1>7, <1>8, <1>9, <1>10 DEF Resume

LEMMA ResumeTimes ==
    ASSUME TypeOK, EtagParts, Protocol, NEW t \in Task, Times(t), Resume(t)
    PROVE  Times(t)'
<1>1. Moves(t) /\ UNCHANGED <<now, due>> /\ Live' = Live
  BY ResumeMoves, QuietLive DEF Quiet, sidecarVars, ghostVars
<1>2. Tracks(Deadline(t)') /\ Tracks(Deadline(t))' = Tracks(Deadline(t)')
  <2>1. Tracks(Deadline(t)')
    BY ResumeDeadline DEF Times, Tracks, Expiry
  <2> QED
    BY <1>1, <2>1 DEF Tracks
<1>3. /\ pc'[t] \notin {"set", "delete"} /\ resp'[t] = NoResp
      /\ pc'[t] = "casSample" => Matches(t) /\ cas'[t].etag = resp[t].etag
      /\ pc'[t] = "casPost" => Posts(t)
  <2>1. CASE \E kind, value : Return(t, kind, value)
    BY <2>1, ReturnIs
  <2>2. CASE Again(t)
    BY <2>2, AgainIs
  <2>3. CASE Counts(t)
    BY <2>3, CountsIs
  <2>4. CASE Matches(t)
    BY <2>4, MatchesIs
  <2>5. CASE Posts(t)
    BY <2>5, PostsIs
  <2>6. CASE Rereads(t)
    BY <2>6, RereadsIs
  <2> QED
    BY <1>1, <2>1, <2>2, <2>3, <2>4, <2>5, <2>6 DEF Moves
<1>4. pc'[t] = "casSample" /\ cas'[t].etag = 0 => Deadline(t)' = None
  <2> SUFFICES ASSUME pc'[t] = "casSample", cas'[t].etag = 0
               PROVE  Deadline(t)' = None
    OBVIOUS
  <2>1. Got(t, "casGet", "item") /\ resp[t].etag = 0
    BY <1>3 DEF Matches
  <2>2. resp[t].value = None
    BY <2>1 DEF Got, EtagParts, ReplyNames, Names
  <2>3. OnCasGet(t)
    BY <2>1, <1>3 DEF Got, Resume, OnFailure, OnGet, OnSet, OnDelete,
       OnIncrementGet, CasSample, OnCasDone, OnCasRefused, OnCasReread
  <2>4. RecordTtl(t, None)
    BY <2>2, <2>3 DEF OnCasGet, ForgetIfAbsent
  <2> QED
    BY <2>4, DaprAssumption DEF RecordTtl, Deadline, Expiry, TypeOK
<1>5. pc'[t] = "casPost" /\ req'[t].kind = "post" =>
         /\ req'[t].etag = 0 => Deadline(t)' = None /\ req'[t].ttl = None
         /\ Live' # Gone /\ req'[t].ttl # None =>
              due' # None /\ due' <= Expiry(req'[t].ttl)
  <2> SUFFICES ASSUME pc'[t] = "casPost"
               PROVE  /\ req'[t].etag = 0 =>
                           Deadline(t)' = None /\ req'[t].ttl = None
                      /\ Live # Gone /\ req'[t].ttl # None =>
                           due # None /\ due <= Expiry(req'[t].ttl)
    BY <1>1
  <2>1. pc[t] = "casSample"
    BY <1>3 DEF Posts
  <2>2. CasSample(t)
    BY <2>1 DEF Resume, OnFailure, OnGet, OnSet, OnDelete, OnIncrementGet,
                OnCasGet, OnCasDone, OnCasRefused, OnCasReread, Got, Busy
  <2>3. /\ req'[t].etag = cas[t].etag
        /\ req'[t].ttl = TrackedTtlSecs(Deadline(t))
    <3>1. req'[t] = StateCasRequest(call[t], cas[t], TrackedTtlSecs(Deadline(t)))
      BY <2>2, AwaitIs DEF CasSample, Deadline
    <3> QED
      BY <3>1 DEF StateCasRequest
  <2>4. Deadline(t) \in OptNat /\ now \in Nat
    BY DaprAssumption DEF TypeOK, Deadline
  <2>5. Deadline(t) = None => TrackedTtlSecs(Deadline(t)) = None
    BY DEF TrackedTtlSecs
  <2>6. Deadline(t) = None => Deadline(t)' = None
    BY <2>2, DaprAssumption DEF CasSample, Deadline, TypeOK
  <2>7. Tracks(Deadline(t)) /\ (cas[t].etag = 0 => Deadline(t) = None)
    BY <2>1 DEF Times
  <2>8. ASSUME Live # Gone, TrackedTtlSecs(Deadline(t)) # None
        PROVE  due # None /\ due <= Expiry(TrackedTtlSecs(Deadline(t)))
    <3>1. /\ Deadline(t) # None
          /\ Deadline(t) <= Expiry(TrackedTtlSecs(Deadline(t)))
      BY <2>4, <2>8, RoundedUp
    <3>2. due # None /\ due <= Deadline(t)
      BY <2>7, <2>8, <3>1 DEF Tracks
    <3>3. TrackedTtlSecs(Deadline(t)) \in OptNat
      BY <2>4, TrackedType
    <3>4. Expiry(TrackedTtlSecs(Deadline(t))) \in Nat
      BY <2>4, <2>8, <3>3, ExpiryType, SidecarAssumption DEF OptNat, Expiry
    <3> QED
      BY <2>4, <3>1, <3>2, <3>4 DEF TypeOK, OptNat
  <2> QED
    BY <2>3, <2>5, <2>6, <2>7, <2>8
<1>6. resp'[t].kind # "failed" /\ Expiry(req[t].ttl)' = Expiry(req'[t].ttl)
  BY <1>1, <1>3 DEF NoResp, Expiry
<1> QED
  BY <1>1, <1>2, <1>3, <1>4, <1>5, <1>6 DEF Times

(* A call begins from a task at rest, whose deadline can be trusted. *)
LEMMA CallTimes ==
    ASSUME TypeOK, NEW t \in Task, NEW c \in Calls, Times(t), Call(t, c)
    PROVE  Times(t)' /\ UNCHANGED <<item, due, stray>>
<1>1. /\ pc[t] = "idle" /\ resp'[t] = NoResp
      /\ pc'[t] \in {"get", "set", "delete", "casGet"}
      /\ UNCHANGED <<sidecarVars, ghostVars, stray>>
  BY CallIs
<1>2. UNCHANGED <<item, now, due, stray, ttls>> /\ Live' = Live
  BY <1>1, QuietLive DEF sidecarVars, ghostVars, Call
<1>3. Tracks(Deadline(t))'
  BY <1>1, <1>2 DEF Times, Tracks, Deadline
<1> QED
  BY <1>1, <1>2, <1>3 DEF Times, NoResp

(* A served request leaves the two properties, and what the task knows. *)
LEMMA ServeTimes ==
    ASSUME TypeOK, Protocol, PermanentKept, NotCutShort,
           NEW t \in Task, Times(t), Serve(t)
    PROVE  PermanentKept' /\ NotCutShort' /\ Times(t)' /\ stray' = stray
<1>1. /\ InStep(t) /\ req[t].kind # "none" /\ resp'[t] = Reply(req[t])
      /\ req'[t].kind = "none" /\ now' = now /\ stray' = stray
      /\ pc' = pc /\ call' = call
  BY ServeIs, NothingAsked DEF Protocol
<1>2. Deadline(t)' = Deadline(t) /\ Handle(req[t]) /\ due' = Due(req[t])
  BY DEF Serve, Deadline, Record
<1>3. resp'[t].kind # "failed" /\ pc[t] # "casSample"
  <2>1. resp'[t].kind \in {"item", "done", "conflict"}
    BY <1>1 DEF Reply, NoResp
  <2>2. pc[t] \in Busy
    BY <1>1, AskedAt
  <2> QED
    BY <2>1, <2>2 DEF Busy
<1>4. /\ item.expires \in OptNat /\ due \in OptNat /\ now \in Nat
      /\ Gone.expires = None
  BY DEF TypeOK, Item, Gone
<1>5. SUFFICES /\ PermanentKept' /\ NotCutShort'
               /\ pc[t] \notin {"set", "delete"} => Tracks(Deadline(t))'
               /\ pc[t] = "set" /\ call[t].ttl # None =>
                    due' # None /\ due' <= Expiry(call[t].ttl)
  <2>1. Expiry(call[t].ttl)' = Expiry(call[t].ttl)
    BY <1>1 DEF Expiry
  <2> QED
    BY <1>1, <1>3, <2>1 DEF Times
<1>6. ASSUME item' = Live, due' = IF Live # Gone THEN due ELSE None
      PROVE  /\ PermanentKept' /\ NotCutShort'
             /\ Tracks(Deadline(t)) => Tracks(Deadline(t))'
  <2>1. Live' = Live
    BY <1>1, <1>6, LiveStays
  <2>2. Live = Gone \/ Live = item
    BY DEF Live
  <2> QED
    BY <1>2, <1>4, <1>6, <2>1, <2>2 DEF PermanentKept, NotCutShort, Tracks
<1>7. CASE pc[t] \in Reading /\ req[t].kind = "get"
  <2>1. item' = Live /\ due' = IF Live # Gone THEN due ELSE None
    BY <1>2, <1>7 DEF Handle, StateGet, Due, TakesEffect
  <2> QED
    BY <1>6, <1>7, <2>1 DEF Times, Reading
<1>8. CASE pc[t] = "set" /\ req[t].kind = "post" /\ req[t].first = FALSE
           /\ req[t].ttl = call[t].ttl
  <2>1. item'.expires = Expiry(req[t].ttl) /\ due' = Expiry(req[t].ttl)
    BY <1>2, <1>8 DEF Handle, StatePost, Accepts, Stored, Due, TakesEffect
  <2>2. call[t].ttl \in OptNat
    BY DEF TypeOK, CallRecord
  <2>3. Expiry(req[t].ttl) \in OptNat
    BY <1>4, <1>8, <2>2, ExpiryType
  <2>4. call[t].ttl # None => Expiry(call[t].ttl) \in Nat
    BY <1>4, <2>2, SidecarAssumption DEF Expiry, OptNat
  <2> QED
    BY <1>8, <2>1, <2>3, <2>4, SidecarAssumption
       DEF PermanentKept, NotCutShort, OptNat
<1>9. CASE pc[t] = "delete" /\ req[t].kind = "delete"
  BY <1>2, <1>4, <1>9
     DEF Handle, StateDelete, Due, TakesEffect, PermanentKept, NotCutShort
<1>10. CASE pc[t] = "casPost" /\ req[t].kind = "post" /\ req[t].first = TRUE
  <2>1. CASE ~Accepts(req[t])
    <3>1. item' = Live /\ due' = IF Live # Gone THEN due ELSE None
      BY <1>2, <1>10, <2>1 DEF Handle, StatePost, Due, TakesEffect
    <3> QED
      BY <1>6, <1>10, <3>1 DEF Times
  <2>2. CASE Accepts(req[t])
    <3>1. /\ item'.expires = Expiry(req[t].ttl)
          /\ due' = IF Live # Gone THEN due ELSE None
      BY <1>2, <1>10, <2>2 DEF Handle, StatePost, Stored, Due, TakesEffect
    <3>2. req[t].etag = Live.etag
      BY <1>10, <2>2 DEF Accepts
    <3>3. CASE Live = Gone
      <4>1. Deadline(t) = None /\ req[t].ttl = None
        BY <1>10, <3>2, <3>3 DEF Times, Gone
      <4>2. item'.expires = None /\ due' = None
        BY <3>1, <3>3, <4>1 DEF Expiry
      <4> QED
        BY <1>2, <1>10, <4>1, <4>2 DEF PermanentKept, NotCutShort, Tracks
    <3>4. CASE Live # Gone
      <4>1. req[t].ttl # None => due # None /\ due <= Expiry(req[t].ttl)
        BY <1>10, <3>4 DEF Times
      <4>2. req[t].ttl = None => item'.expires = None
        BY <3>1 DEF Expiry
      <4>3. req[t].ttl \in OptNat
        BY DEF TypeOK, Request
      <4>4. req[t].ttl # None => Expiry(req[t].ttl) \in Nat
        BY <1>4, <4>3, SidecarAssumption DEF Expiry, OptNat
      <4>5. PermanentKept' /\ NotCutShort'
        BY <1>4, <3>1, <3>4, <4>1, <4>2, <4>4
           DEF PermanentKept, NotCutShort, OptNat
      <4>6. Tracks(Deadline(t))
        BY <1>10 DEF Times
      <4> QED
        BY <1>2, <1>10, <3>1, <3>4, <4>5, <4>6 DEF Tracks
    <3> QED
      BY <3>3, <3>4
  <2> QED
    BY <2>1, <2>2
<1> QED
  BY <1>1, <1>7, <1>8, <1>9, <1>10, AskedAt

(* Time takes the item away, and adds to what a TTL means. *)
LEMMA TickTimes ==
    ASSUME TypeOK, NEW t \in Task, Times(t), Tick
    PROVE  Times(t)' /\ UNCHANGED <<item, due, stray>>
<1>1. /\ now \in Nat /\ now' = now + 1
      /\ UNCHANGED <<item, due, stray, ttls, pc, call, cas, req, resp>>
  BY DEF Tick, taskVars, netVars, TypeOK
<1>2. Live' # Gone => Live # Gone
  <2>1. item.expires \in OptNat
    BY DEF TypeOK, Item
  <2> QED
    BY <1>1, <2>1 DEF Live, OptNat
<1>3. Deadline(t)' = Deadline(t)
  BY <1>1 DEF Deadline
<1>4. ASSUME NEW ttl \in OptNat, due # None, ttl # None, due <= Expiry(ttl)
      PROVE  due <= Expiry(ttl)'
  <2>1. due \in Nat /\ ttl * TicksPerSec \in Nat
    BY <1>4, SidecarAssumption DEF TypeOK, OptNat
  <2> QED
    BY <1>1, <1>4, <2>1 DEF Expiry
<1>5. call[t].ttl \in OptNat /\ req[t].ttl \in OptNat
  BY DEF TypeOK, CallRecord, Request
<1>6. Tracks(Deadline(t)) => Tracks(Deadline(t))'
  BY <1>1, <1>2, <1>3 DEF Tracks
<1> QED
  <2>1. call[t].ttl # None /\ due # None /\ due <= Expiry(call[t].ttl)
          => due <= Expiry(call[t].ttl)'
    <3>1. Expiry(call[t].ttl)' =
            IF call[t].ttl = None THEN None
            ELSE now' + call[t].ttl * TicksPerSec
      BY <1>1 DEF Expiry
    <3> QED
      BY <1>4, <1>5, <3>1 DEF Expiry
  <2>2. req[t].ttl # None /\ due # None /\ due <= Expiry(req[t].ttl)
          => due <= Expiry(req[t].ttl)'
    <3>1. Expiry(req[t].ttl)' =
            IF req[t].ttl = None THEN None
            ELSE now' + req[t].ttl * TicksPerSec
      BY <1>1 DEF Expiry
    <3> QED
      BY <1>4, <1>5, <3>1 DEF Expiry
  <2> QED
    BY <1>1, <1>2, <1>3, <1>6, <2>1, <2>2 DEF Times

(* A read that fails leaves the task as it is, but for the answer. *)
LEMMA FailedReadTimes ==
    ASSUME TypeOK, Protocol, NEW t \in Task, Times(t), Timeout(t), pc[t] \in Reading
    PROVE  Times(t)' /\ UNCHANGED <<item, due, stray>>
<1>1. req[t].kind \notin {"post", "delete"}
  <2>1. req[t].kind = "none" \/ req[t].kind = "get"
    BY AskedAt DEF Protocol, Reading
  <2> QED BY <2>1
<1>2. /\ UNCHANGED <<item, now, due, stray, ttls>> /\ pc'[t] = pc[t] /\ Live' = Live
      /\ resp'[t].kind = "failed"
  <2>1. /\ resp'[t] = [NoResp EXCEPT !.kind = "failed"] /\ pc' = pc /\ stray' = stray
        /\ UNCHANGED <<sidecarVars, ghostVars>>
    BY <1>1, TimeoutIs
  <2>2. ttls' = ttls
    BY DEF Timeout
  <2>3. Live' = Live
    BY <2>1, QuietLive DEF sidecarVars
  <2> QED BY <2>1, <2>2, <2>3 DEF sidecarVars, ghostVars, NoResp
<1>3. Tracks(Deadline(t))'
  BY <1>2 DEF Times, Tracks, Deadline, Reading
<1> QED
  BY <1>2, <1>3 DEF Times, Reading

LEMMA TimelyStep ==
    ASSUME Alone, TypeOK, EtagParts, Protocol, Timely,
           [Next /\ OnlyReadsFail]_vars
    PROVE  Timely'
<1>1. ASSUME NEW t \in Task, Times(t)' PROVE \A u \in Task : Times(u)'
  BY <1>1 DEF Alone
<1>2. ASSUME UNCHANGED <<item, due>> PROVE PermanentKept' /\ NotCutShort'
  BY <1>2 DEF Timely, PermanentKept, NotCutShort
<1>3. ASSUME NEW t \in Task, NEW c \in Calls, Call(t, c) PROVE Timely'
  BY <1>1, <1>2, <1>3, CallTimes DEF Timely
<1>4. ASSUME NEW t \in Task, Resume(t) PROVE Timely'
  <2>1. UNCHANGED <<item, due, stray>>
    BY <1>4, ResumeMoves, MovesItself DEF Quiet, sidecarVars, ghostVars
  <2> QED
    BY <1>1, <1>2, <1>4, <2>1, ResumeTimes DEF Timely
<1>5. ASSUME NEW t \in Task, Serve(t) PROVE Timely'
  BY <1>1, <1>5, ServeTimes DEF Timely
<1>6. ASSUME NEW t \in Task, Timeout(t), OnlyReadsFail PROVE Timely'
  <2>1. pc[t] \in Reading
    BY <1>6 DEF OnlyReadsFail
  <2> QED
    BY <1>1, <1>2, <1>6, <2>1, FailedReadTimes DEF Timely
<1>7. ASSUME NEW r \in stray PROVE FALSE
  BY <1>7 DEF Timely
<1>8. CASE Tick
  <2>1. ASSUME NEW t \in Task PROVE Times(t)'
    BY <1>8, <2>1, TickTimes DEF Timely
  <2>2. UNCHANGED <<item, due, stray>>
    BY <1>8 DEF Tick, netVars
  <2> QED
    BY <1>2, <2>1, <2>2 DEF Timely
<1>9. CASE UNCHANGED vars
  BY <1>9 DEF vars, sidecarVars, taskVars, netVars, ghostVars, Timely,
              PermanentKept, NotCutShort, Times, Tracks, Deadline, Live, Gone,
              Expiry
<1> QED
  BY <1>3, <1>4, <1>5, <1>6, <1>7, <1>8, <1>9 DEF Next

LEMMA TimelyInit == Init => Timely
<1> SUFFICES ASSUME Init PROVE Timely
  OBVIOUS
<1>1. item = Gone /\ due = None /\ stray = {} /\ Live = Gone
  BY DEF Init, SidecarInit, Live
<1>2. \A t \in Task : pc[t] = "idle" /\ resp[t] = NoResp
  BY DEF Init
<1> QED
  BY <1>1, <1>2
     DEF Timely, PermanentKept, NotCutShort, Times, Tracks, Gone, NoResp

LEMMA AloneTimely == ASSUME Alone PROVE ReadFaultSpec => []Timely
<1>1. Init => Timely
  BY TimelyInit
<1>2. TypeOK /\ EtagParts /\ Protocol /\ Timely /\ [Next /\ OnlyReadsFail]_vars
      => Timely'
  BY TimelyStep
<1>3. Spec => []EtagParts
  <2>1. Init => TypeOK /\ EtagParts
    BY TypeInit, EtagInit
  <2>2. TypeOK /\ EtagParts /\ [Next]_vars => (TypeOK /\ EtagParts)'
    BY TypeStep, EtagStep
  <2> QED
    BY <2>1, <2>2, PTL DEF Spec
<1>4. [Next /\ OnlyReadsFail]_vars => [Next]_vars
  OBVIOUS
<1> QED
  BY <1>1, <1>2, <1>3, <1>4, Protocols, PTL DEF Spec, ReadFaultSpec

(* A value that was written to stay is never given an expiry, as long as one
   caller uses the key and its writes are answered, whatever reads of it fail.
   With a second clone it is, as the deadline of a set is recorded only when
   its reply arrives. *)
THEOREM PermanentStays == ASSUME Alone PROVE ReadFaultSpec => []PermanentKept
<1>1. Timely => PermanentKept
  BY DEF Timely
<1> QED
  BY <1>1, AloneTimely, PTL

(* Under the same conditions no cas or increment, however often it rounds the
   remaining time to seconds, makes a value expire before it is due. *)
THEOREM NeverCutShort == ASSUME Alone PROVE ReadFaultSpec => []NotCutShort
<1>1. Timely => NotCutShort
  BY DEF Timely
<1> QED
  BY <1>1, AloneTimely, PTL

=============================================================================
