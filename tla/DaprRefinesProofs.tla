------------------------- MODULE DaprRefinesProofs -------------------------
(***************************************************************************)
(* DaprState implements AtomicStore, for every set of tasks, providers,    *)
(* calls and values, and every bound: every step of the round trips is a   *)
(* step of one atomic register, or none that its callers could notice.     *)
(***************************************************************************)
EXTENDS DaprRefines, DaprStateProofs

(* A key without a value is gone: nothing of it is left to expire. *)
ItemWhole == item.value = None => item.expires = None

-----------------------------------------------------------------------------
(* The parts of the abstract state. *)
Touched == {t \in Task : pc[t] # "idle" /\ churn > call[t].since}

Orphaned(r) ==
    AsAsked(r.by.op, r.by.id, r.by.expects, r.value, r.ttl, r.by.delta)

Orphans == {Orphaned(r) : r \in stray}

(* A call and an answer are not None. *)
LEMMA AskedIsCall ==
    ASSUME NEW op \in Op, NEW id \in Nat, NEW expected \in OptValue,
           NEW value \in OptValue, NEW ttl \in OptNat, NEW delta \in Int
    PROVE  AsAsked(op, id, expected, value, ttl, delta) \in AskedType
BY DEF AsAsked, AskedType, OptValue, OptNat

LEMMA RunningIs ==
    ASSUME TypeOK, NEW t \in Task
    PROVE  Running(t) # None <=> pc[t] # "idle"
<1>1. call[t] \in CallRecord
  BY DEF TypeOK
<1>2. AsAsked(call[t].op, call[t].id, call[t].expected, call[t].value,
              call[t].ttl, call[t].delta) \in AskedType
  BY <1>1, AskedIsCall DEF CallRecord
<1> QED
  BY <1>2, RefinesAssumption DEF Running

(* A task that stays where it is stays the same to AtomicStore. *)
LEMMA SameMeans ==
    ASSUME NEW u \in Task, Same(u)
    PROVE  Running(u)' = Running(u) /\ Decided(u)' = Decided(u)
BY DEF Same, Running, Decided, Learnt, Lost

LEMMA CallBegins ==
    ASSUME TypeOK, TypeOK', Protocol, NEW t \in Task, NEW c \in Calls, Call(t, c)
    PROVE  Abs!Begin(t, c)
<1>1. /\ call'[t] = Begun(c) /\ pc[t] = "idle" /\ pc'[t] # "idle"
      /\ resp'[t] = NoResp /\ stray' = stray /\ calls' = calls + 1
      /\ result' = result /\ churn' = churn /\ Live' = Live
      /\ \A u \in Task \ {t} : Same(u)
  BY CallIs, QuietLive DEF Call, ghostVars
<1>2. Running(t) = None /\ Running(t)' = Abs!Asked(c, calls + 1)
  BY <1>1 DEF Running, Begun, AsAsked, Abs!Asked
<1>3. Decided(t)' = Decided(t)
  <2>1. resp[t] = NoResp
    BY <1>1 DEF Protocol, InStep, Waiting, Busy
  <2> QED
    BY <1>1, <2>1, NothingAsked DEF Decided
<1>4. Touched' = Touched
  <2>1. ASSUME NEW u \in Task
        PROVE  u \in Touched' <=> u \in Touched
    <3>1. CASE u = t
      <4>1. call'[t].since = churn /\ churn \in Nat
        BY <1>1 DEF Begun, TypeOK
      <4> QED
        BY <1>1, <3>1, <4>1 DEF Touched
    <3>2. CASE u # t
      BY <1>1, <3>2 DEF Touched, Same
    <3> QED
      BY <3>1, <3>2
  <2> QED
    BY <2>1 DEF Touched
<1>5. Orphans' = Orphans
  BY <1>1 DEF Orphans, Orphaned
<1>6. \A u \in Task \ {t} : Running(u)' = Running(u) /\ Decided(u)' = Decided(u)
  BY <1>1, SameMeans
<1> QED
  BY <1>1, <1>2, <1>3, <1>4, <1>5, <1>6 DEF Abs!Begin, Touched, Orphans, Orphaned

-----------------------------------------------------------------------------
(***************************************************************************)
(* The item.                                                               *)
(***************************************************************************)
LEMMA WholeKept ==
    ASSUME ItemWhole, NEW r \in Request, WriteNames(r), Handle(r)
    PROVE  ItemWhole'
<1>1. CASE item' = Live
  BY <1>1 DEF ItemWhole, Live, Gone
<1>2. CASE item' = Gone
  BY <1>2 DEF ItemWhole, Gone
<1>3. CASE r.kind = "post" /\ item' = Stored(r)
  <2>1. r.value # None
    BY <1>3, SidecarAssumption DEF WriteNames
  <2>2. item'.value = r.value
    BY <1>3 DEF Stored
  <2> QED
    BY <2>1, <2>2 DEF ItemWhole
<1> QED
  BY <1>1, <1>2, <1>3 DEF Handle, StateGet, StatePost, StateDelete

LEMMA WholeInit == Init => ItemWhole
BY DEF Init, SidecarInit, Gone, ItemWhole

LEMMA WholeStep == TypeOK /\ EtagParts /\ ItemWhole /\ [Next]_vars => ItemWhole'
<1> SUFFICES ASSUME TypeOK, EtagParts, ItemWhole, [Next]_vars PROVE ItemWhole'
  OBVIOUS
<1>0. CASE UNCHANGED item
  BY <1>0 DEF ItemWhole
<1>1. ASSUME NEW t \in Task, NEW c \in Calls, Call(t, c) PROVE ItemWhole'
  BY <1>0, <1>1, CallIs DEF sidecarVars
<1>2. ASSUME NEW t \in Task, Resume(t) PROVE ItemWhole'
  BY <1>0, <1>2, ResumeMoves DEF Quiet, sidecarVars
<1>3. ASSUME NEW t \in Task, Serve(t) PROVE ItemWhole'
  BY <1>3, WholeKept DEF Serve, TypeOK, EtagParts
<1>4. ASSUME NEW t \in Task, Timeout(t) PROVE ItemWhole'
  BY <1>0, <1>4 DEF Timeout, sidecarVars
<1>5. ASSUME NEW r \in stray, ServeStray(r) PROVE ItemWhole'
  BY <1>5, WholeKept DEF ServeStray, TypeOK, EtagParts
<1>6. CASE Tick \/ UNCHANGED vars
  BY <1>0, <1>6 DEF Tick, vars, sidecarVars
<1> QED
  BY <1>1, <1>2, <1>3, <1>4, <1>5, <1>6 DEF Next

(* A key without a value is gone. *)
LEMMA ValueOrGone ==
    ASSUME TypeOK, EtagParts, ItemWhole
    PROVE  Live.value = None <=> Live = Gone
<1>1. item.value = None => item.etag = 0 /\ item.expires = None
  BY DEF EtagParts, Names, ItemWhole
<1>2. item.value = None => item = Gone
  BY <1>1 DEF TypeOK, Item, Gone
<1> QED
  BY <1>2 DEF Live, Gone

(* What a write leaves: a TTL of zero removes the key. *)
LEMMA StoredLives ==
    ASSUME TypeOK, NEW r \in Request, item' = Stored(r), now' = now
    PROVE  Live'.value = IF r.ttl = 0 THEN None ELSE r.value
<1>1. /\ item'.value = r.value /\ item'.expires = Expiry(r.ttl)
      /\ now \in Nat /\ r.ttl \in OptNat /\ TicksPerSec \in Nat \ {0}
  BY SidecarAssumption DEF Stored, TypeOK, Request
<1>2. CASE r.ttl = None
  <2>1. Live' = item' /\ r.ttl # 0
    BY <1>1, <1>2, SidecarAssumption DEF Live, Expiry
  <2> QED
    BY <1>1, <2>1
<1>3. CASE r.ttl = 0
  <2>1. item'.expires = now /\ now # None
    BY <1>1, <1>3, SidecarAssumption DEF Expiry
  <2>2. Live' = Gone
    BY <1>1, <2>1 DEF Live
  <2> QED
    BY <1>3, <2>2 DEF Gone
<1>4. CASE r.ttl \in Nat \ {0}
  <2>1. \A a, b \in Nat \ {0} : a * b > 0 /\ a * b \in Nat
    OBVIOUS
  <2>2. r.ttl * TicksPerSec > 0 /\ r.ttl * TicksPerSec \in Nat
    BY <1>1, <1>4, <2>1
  <2>3. item'.expires = now + r.ttl * TicksPerSec
    BY <1>1, <1>4, SidecarAssumption DEF Expiry
  <2>4. Live' = item'
    BY <1>1, <2>2, <2>3 DEF Live
  <2> QED
    BY <1>1, <1>4, <2>4
<1> QED
  BY <1>1, <1>2, <1>3, <1>4 DEF OptNat

(* Both models count alike. *)
LEMMA CountsAlike ==
    ASSUME NEW value \in OptValue, NEW delta \in Int
    PROVE  Countable(value, delta) <=> Abs!Countable(value, delta)
<1>1. None \notin Int64
  BY SidecarAssumption, DaprAssumption
<1>2. CASE value = None
  <2>1. Abs!Base(value) + delta = delta
    BY <1>2 DEF Abs!Base
  <2> QED
    BY <1>1, <1>2, <2>1 DEF Countable, Abs!Countable, Int64, Abs!Int64
<1>3. CASE value # None
  BY <1>3 DEF Countable, Abs!Countable, Int64, Abs!Int64, Abs!Base
<1> QED
  BY <1>2, <1>3

-----------------------------------------------------------------------------
(***************************************************************************)
(* Writes.                                                                 *)
(***************************************************************************)
(* A change of the live item touches every running call. *)
LEMMA TouchesAll ==
    ASSUME TypeOK, Causes, pc' = pc, call' = call, churn' = churn + 1
    PROVE  Touched' = {t \in Task : Running(t) # None}
<1>1. ASSUME NEW t \in Task PROVE churn' > call[t].since
  BY DaprAssumption DEF Causes, Caused, Paid, TypeOK, CallRecord
<1>2. ASSUME NEW t \in Task
      PROVE  t \in Touched' <=> Running(t) # None
  BY <1>1, RunningIs DEF Touched
<1> QED
  BY <1>2 DEF Touched

LEMMA TouchesNone ==
    ASSUME pc' = pc, call' = call, churn' = churn
    PROVE  Touched' = Touched
BY DEF Touched

(* A write the sidecar accepts is one AtomicStore can do then, and leaves
   what AtomicStore would leave. *)
LEMMA WriteApplies ==
    ASSUME TypeOK, EtagParts, NEW r \in Request, WriteNames(r), Stray(r),
           Conditional(r) => r.by.expects = Live.value,
           TakesEffect(r), Handle(r), now' = now
    PROVE  /\ Abs!Applies(Orphaned(r))
           /\ Live'.value = Abs!After(Orphaned(r))
           /\ Orphaned(r).op \in {"cas", "increment"} =>
                Abs!After(Orphaned(r)) = r.value
<1> DEFINE c == Orphaned(r)
<1>0. /\ c.op = r.by.op /\ c.id = r.by.id
      /\ c.expected = IF r.by.op = "cas" THEN r.by.expects ELSE None
      /\ c.value = IF r.by.op \in {"set", "cas"} THEN r.value ELSE None
      /\ c.ttl = IF r.by.op = "set" THEN r.ttl ELSE None
      /\ c.delta = IF r.by.op = "increment" THEN r.by.delta ELSE 0
  BY DEF Orphaned, AsAsked
<1>1. CASE r.kind = "delete" /\ r.by.op = "delete"
  <2>1. item' = Gone
    BY <1>1 DEF Handle, StateDelete
  <2>2. Live'.value = None
    BY <2>1 DEF Live, Gone
  <2> QED
    BY <1>0, <1>1, <2>2 DEF Abs!Applies, Abs!After
<1>2. CASE r.kind = "post"
  <2>1. item' = Stored(r)
    BY <1>2 DEF Handle, StatePost, TakesEffect
  <2>2. Live'.value = IF r.ttl = 0 THEN None ELSE r.value
    BY <2>1, StoredLives
  <2>3. CASE r.by.op = "set"
    BY <1>0, <2>2, <2>3 DEF Abs!Applies, Abs!After
  <2>4. CASE r.by.op \in {"cas", "increment"} /\ r.ttl # 0
             /\ CasFits(r.by.op, r.by.delta, r.by.expects, r.value)
    <3>1. r.by.expects = Live.value /\ Live'.value = r.value
      BY <1>2, <2>2, <2>4 DEF Conditional
    <3>2. CASE r.by.op = "cas"
      BY <1>0, <3>1, <3>2 DEF Abs!Applies, Abs!After
    <3>3. CASE r.by.op = "increment"
      <4>1. /\ Countable(Live.value, r.by.delta)
            /\ r.value = Base(Live.value) + r.by.delta
        BY <2>4, <3>1, <3>3 DEF CasFits
      <4>2. Live.value \in OptValue /\ r.by.delta \in Int
        BY LiveType DEF TypeOK, Item, Request, By
      <4>3. Abs!Countable(Live.value, r.by.delta)
        BY <4>1, <4>2, CountsAlike
      <4> QED
        BY <1>0, <3>1, <3>3, <4>1, <4>3 DEF Abs!Applies, Abs!After, Abs!Base, Base
    <3> QED
      BY <2>4, <3>2, <3>3
  <2> QED
    BY <1>2, <2>3, <2>4 DEF Stray
<1> QED
  BY <1>1, <1>2 DEF Stray

LEMMA WritePuts ==
    ASSUME TypeOK, EtagParts, ItemWhole, Causes,
           NEW r \in Request, WriteNames(r), Stray(r),
           Conditional(r) => r.by.expects = Live.value,
           TakesEffect(r), Handle(r), Record(r), now' = now,
           pc' = pc, call' = call
    PROVE  Abs!Put(Orphaned(r))
<1>1. /\ Abs!Applies(Orphaned(r))
      /\ Live'.value = Abs!After(Orphaned(r))
  BY WriteApplies
<1>2. Orphaned(r).op = r.by.op
  BY DEF Orphaned, AsAsked
<1>3. r.kind = "delete" <=> r.by.op = "delete"
  BY DEF Stray
<1>4. churn' = IF r.kind = "post" \/ Live # Gone THEN churn + 1 ELSE churn
  BY DEF Record
<1>5. Touched' = IF Orphaned(r).op = "delete" /\ Live.value = None THEN Touched
                 ELSE {t \in Task : Running(t) # None}
  <2>1. r.kind \in {"post", "delete"}
    BY DEF TakesEffect
  <2> QED
    BY <1>2, <1>3, <1>4, <2>1, TouchesAll, TouchesNone, ValueOrGone
<1> QED
  BY <1>1, <1>5 DEF Abs!Put, Touched

(* The write a task waits for is that of its call. *)
LEMMA AskedRuns ==
    ASSUME TypeOK, NEW t \in Task, InStep(t), req[t].kind \in {"post", "delete"}
    PROVE  /\ Orphaned(req[t]) = Running(t) /\ pc[t] # "idle"
           /\ call[t].op \in {"set", "delete", "cas", "increment"}
           /\ pc[t] = "casPost" => req[t].value = cas[t].value
           /\ pc[t] = "casPost" <=> call[t].op \in {"cas", "increment"}
<1> DEFINE r == req[t]
<1>1. CASE /\ pc[t] = "set" /\ r.value = call[t].value /\ r.ttl = call[t].ttl
           /\ r.by = ByOf(call[t], None)
  <2>1. call[t].op = "set"
    BY <1>1 DEF InStep, Fits
  <2>2. r.by.op = "set" /\ r.by.id = call[t].id
    BY <1>1, <2>1 DEF ByOf
  <2> QED
    BY <1>1, <2>1, <2>2 DEF Running, Orphaned, AsAsked
<1>2. CASE pc[t] = "delete" /\ r.by = ByOf(call[t], None)
  <2>1. call[t].op = "delete"
    BY <1>2 DEF InStep, Fits
  <2>2. r.by.op = "delete" /\ r.by.id = call[t].id
    BY <1>2, <2>1 DEF ByOf
  <2> QED
    BY <1>2, <2>1, <2>2 DEF Running, Orphaned, AsAsked
<1>3. CASE /\ pc[t] = "casPost" /\ r.value = cas[t].value
           /\ r.by = ByOf(call[t], cas[t].expected)
  <2>1. /\ r.by.op = call[t].op /\ r.by.id = call[t].id
        /\ r.by.delta = call[t].delta /\ r.by.expects = cas[t].expected
    BY <1>3 DEF ByOf
  <2>2. /\ call[t].op \in {"cas", "increment"}
        /\ call[t].op = "cas" =>
             cas[t].expected = call[t].expected /\ cas[t].value = call[t].value
    BY <1>3 DEF InStep, Fits, Swaps, Comparing
  <2> QED
    BY <1>3, <2>1, <2>2 DEF Running, Orphaned, AsAsked
<1> QED
  BY <1>1, <1>2, <1>3, AskedAt DEF Reading

-----------------------------------------------------------------------------
(***************************************************************************)
(* The steps.                                                              *)
(***************************************************************************)
Known ==
    TypeOK /\ EtagParts /\ ItemWhole /\ Protocol /\ Deeds /\ Causes

(* Nothing AtomicStore can see has changed. *)
LEMMA Unseen ==
    ASSUME Live'.value = Live.value, churn' = churn, result' = result,
           stray' = stray, calls' = calls,
           \A u \in Task : /\ Running(u)' = Running(u) /\ Decided(u)' = Decided(u)
                           /\ call'[u].since = call[u].since
                           /\ pc'[u] = "idle" <=> pc[u] = "idle"
    PROVE  UNCHANGED Abs!vars
<1>1. Touched' = Touched
  BY DEF Touched
<1>2. Orphans' = Orphans
  BY DEF Orphans, Orphaned
<1> QED
  BY <1>1, <1>2 DEF Abs!vars, Touched, Orphans, Orphaned

LEMMA BeatenLost ==
    ASSUME NEW t \in Task, Beaten(t)
    PROVE  Decided(t) = Lost(t, resp[t].value)
BY DEF Beaten, Decided, Learnt

LEMMA ReturnReturns ==
    ASSUME Known, NEW t \in Task, NEW kind, NEW value,
           Says(t, kind, value), Return(t, kind, value), Quiet
    PROVE  Abs!Return(t)
<1>1. /\ InStep(t) /\ TypeOK /\ pc[t] \in Busy /\ req[t] = NoReq
  BY HeardNotAsking DEF Known, Protocol, Says, Beaten
<1>2. Decided(t) = [kind |-> kind, value |-> value]
  <2>1. CASE kind = "failed" /\ resp[t].kind = "failed" /\ value = None
    BY <2>1 DEF Decided
  <2>2. CASE /\ kind = "ok" /\ pc[t] = "get" /\ resp[t].kind = "item"
             /\ call[t].op = "get" /\ value = resp[t].value
    BY <2>2 DEF Decided, Learnt, Ok
  <2>3. CASE /\ kind = "ok" /\ resp[t].kind = "done"
             /\ value = IF pc[t] = "casPost" THEN cas[t].value ELSE None
    BY <2>3 DEF Decided, Ok
  <2>4. CASE /\ kind = "rejected" /\ pc[t] = "get" /\ resp[t].kind = "item"
             /\ call[t].op = "increment" /\ value = None
             /\ ~Countable(resp[t].value, call[t].delta)
    BY <2>4 DEF Decided, Learnt
  <2>5. CASE /\ kind = "conflict" /\ Beaten(t) /\ call[t].op = "cas"
             /\ value = resp[t].value
    BY <2>5, BeatenLost DEF Lost
  <2>6. CASE /\ kind = "exhausted" /\ Beaten(t) /\ call[t].op = "increment"
             /\ tries[t] + 1 >= MaxRetries /\ value = None
    BY <2>6, BeatenLost DEF Lost
  <2> QED
    BY <2>1, <2>2, <2>3, <2>4, <2>5, <2>6 DEF Says
<1>3. Decided(t) # None
  <2>1. value \in OptValue
    BY <1>1, NothingTypes DEF Says, Beaten, TypeOK, Response, CasRecord
  <2>2. [kind |-> kind, value |-> value] \in Result
    BY <2>1 DEF Says, Result
  <2> QED
    BY <1>2, <2>2, RefinesAssumption
<1>4. /\ pc'[t] = "idle" /\ resp'[t] = NoResp /\ stray' = stray
      /\ \A u \in Task \ {t} : Same(u)
  BY <1>1, ReturnIs
<1>5. /\ result' = [result EXCEPT ![t] = Decided(t)]
      /\ churn' = churn /\ calls' = calls /\ Live' = Live
  BY <1>2, QuietLive DEF Return, Quiet, ghostVars
<1>6. Running(t)' = None /\ Decided(t)' = None
  BY <1>4, NothingAsked DEF Running, Decided
<1>7. Touched' = Touched \ {t}
  BY <1>4, <1>5 DEF Touched, Same
<1>8. Orphans' = Orphans
  BY <1>4 DEF Orphans, Orphaned
<1>9. \A u \in Task \ {t} : Running(u)' = Running(u) /\ Decided(u)' = Decided(u)
  BY <1>4, SameMeans
<1> QED
  BY <1>3, <1>4, <1>5, <1>6, <1>7, <1>8, <1>9
     DEF Abs!Return, Touched, Orphans, Orphaned

LEMMA GoesOnUnseen ==
    ASSUME Known, NEW t \in Task, Quiet,
           Again(t) \/ Counts(t) \/ Matches(t) \/ Posts(t) \/ Rereads(t)
    PROVE  UNCHANGED Abs!vars
<1>1. InStep(t) /\ TypeOK
  BY DEF Known, Protocol
<1>2. /\ call'[t] = call[t] /\ resp'[t] = NoResp /\ result' = result
      /\ stray' = stray /\ pc'[t] # "idle"
      /\ \A u \in Task \ {t} : Same(u)
  BY <1>1, AgainIs, CountsIs, MatchesIs, PostsIs, RereadsIs
     DEF Again, Counts, Matches, Posts, Rereads
<1>3. pc[t] # "idle"
  BY DEF Again, Beaten, Counts, Matches, Posts, Rereads, Got
<1>4. Decided(t) = None
  <2>1. CASE Again(t)
    <3>1. tries[t] \in Int /\ MaxRetries \in Nat
      BY <1>1, DaprAssumption DEF TypeOK
    <3>2. Lost(t, resp[t].value) = None
      BY <2>1, <3>1 DEF Again, Lost
    <3> QED
      BY <2>1, <3>2, BeatenLost DEF Again
  <2>2. CASE Counts(t)
    BY <2>2 DEF Counts, Got, Decided, Learnt
  <2>3. CASE Matches(t)
    BY <2>3 DEF Matches, Got, Decided, Learnt
  <2>4. CASE Posts(t)
    <3>1. resp[t] = NoResp
      BY <1>1, <2>4 DEF Posts, InStep, Waiting, Busy
    <3> QED
      BY <3>1, NothingAsked DEF Decided
  <2>5. CASE Rereads(t)
    BY <2>5 DEF Rereads, Got, Decided
  <2> QED
    BY <2>1, <2>2, <2>3, <2>4, <2>5
<1>5. Running(t)' = Running(t) /\ Decided(t)' = Decided(t)
  BY <1>2, <1>3, <1>4, NothingAsked DEF Running, Decided
<1>6. churn' = churn /\ calls' = calls /\ Live' = Live
  BY QuietLive DEF Quiet, ghostVars
<1>7. ASSUME NEW u \in Task
      PROVE  /\ Running(u)' = Running(u) /\ Decided(u)' = Decided(u)
             /\ call'[u].since = call[u].since
             /\ pc'[u] = "idle" <=> pc[u] = "idle"
  BY <1>2, <1>3, <1>5, SameMeans DEF Same
<1> QED
  BY <1>2, <1>6, <1>7, Unseen

(* A write that takes effect finds the value its cas compared. *)
LEMMA EffectExpected ==
    ASSUME EtagParts, NEW r \in InFlight, TakesEffect(r)
    PROVE  Conditional(r) => r.by.expects = Live.value
BY PartsOfEtag, EtagImpliesAtomic DEF CasAtomic, TakesEffect, Conditional

(* A read decides the call of a get, refuses that of a cas or an increment
   that cannot go on, or leaves it open. *)
LEMMA ServeReads ==
    ASSUME Known, NEW t \in Task, Serve(t), req[t].kind = "get"
    PROVE  Abs!Read(t) \/ Abs!Refuse(t) \/ UNCHANGED Abs!vars
<1>1. InStep(t) /\ TypeOK /\ Caused(t)
  BY DEF Known, Protocol, Causes
<1>2. /\ pc[t] \in Reading /\ pc[t] # "idle" /\ resp[t] = NoResp
      /\ pc' = pc /\ call' = call /\ cas' = cas /\ tries' = tries
      /\ result' = result /\ stray' = stray /\ calls' = calls
      /\ \A u \in Task \ {t} : Same(u)
  BY <1>1, AskedAt, ServeIs DEF Reading
<1>3. /\ resp'[t].kind = "item" /\ resp'[t].value = Live.value
      /\ item' = Live /\ now' = now /\ churn' = churn
  <2>1. resp'[t] = Reply(req[t]) /\ now' = now
    BY <1>1, ServeIs
  <2>2. resp'[t].kind = "item" /\ resp'[t].value = Live.value
    BY <2>1 DEF Reply
  <2>3. item' = Live /\ churn' = churn
    BY DEF Serve, Handle, StateGet, Record, TakesEffect
  <2> QED
    BY <2>1, <2>2, <2>3
<1>4. Live' = Live
  BY <1>3, LiveStays
<1>5. /\ Running(t)' = Running(t) /\ Decided(t) = None
      /\ Decided(t)' = Learnt(t, Live.value)
  BY <1>2, <1>3, NothingAsked DEF Running, Decided, Learnt, Lost
<1>6. Touched' = Touched /\ Orphans' = Orphans
  BY <1>2, <1>3 DEF Touched, Orphans, Orphaned
<1>7. \A u \in Task \ {t} : Running(u)' = Running(u) /\ Decided(u)' = Decided(u)
  BY <1>2, SameMeans
<1>8. /\ Running(t) # None /\ Running(t).op = call[t].op
      /\ call[t].op = "cas" => Running(t).expected = call[t].expected
      /\ call[t].op = "increment" => Running(t).delta = call[t].delta
  BY <1>1, <1>2, RunningIs DEF Running, AsAsked
<1>9. CASE Learnt(t, Live.value) = None
  <2>1. \A u \in Task : /\ Running(u)' = Running(u) /\ Decided(u)' = Decided(u)
                        /\ call'[u].since = call[u].since
                        /\ pc'[u] = "idle" <=> pc[u] = "idle"
    BY <1>2, <1>5, <1>7, <1>9
  <2> QED
    BY <1>2, <1>3, <1>4, <2>1, Unseen
<1>10. ASSUME NEW a, Learnt(t, Live.value) = a
       PROVE  /\ Abs!Undecided(t) /\ Abs!Decide(t, a)
              /\ UNCHANGED Live.value /\ Touched' = Touched
  BY <1>2, <1>4, <1>5, <1>6, <1>7, <1>8, <1>10
     DEF Abs!Undecided, Abs!Decide, Orphans, Orphaned
<1>11. CASE pc[t] = "get" /\ call[t].op = "get"
  <2>1. Learnt(t, Live.value) = Abs!Answer("ok", Live.value)
    BY <1>11 DEF Learnt, Ok, Abs!Answer
  <2> QED
    BY <1>8, <1>10, <1>11, <2>1 DEF Abs!Read, Touched
<1>12. CASE /\ pc[t] = "get" /\ call[t].op = "increment"
            /\ ~Countable(Live.value, call[t].delta)
  <2>1. Learnt(t, Live.value) = Abs!Answer("rejected", None)
    BY <1>12 DEF Learnt, Abs!Answer
  <2>2. Live.value \in OptValue /\ call[t].delta \in Int
    BY <1>1, LiveType DEF TypeOK, Item, CallRecord
  <2>3. ~Abs!Countable(Live.value, Running(t).delta)
    BY <1>8, <1>12, <2>2, CountsAlike
  <2> QED
    BY <1>8, <1>10, <1>12, <2>1, <2>3 DEF Abs!Refuse, Touched
<1>13. CASE /\ pc[t] \in {"casGet", "casReread"}
            /\ pc[t] = "casGet" => Live.value # cas[t].expected
  <2>1. Learnt(t, Live.value) = Lost(t, Live.value)
    BY <1>13 DEF Learnt
  <2>2. /\ call[t].op \in {"cas", "increment"}
        /\ call[t].op = "cas" => cas[t].expected = call[t].expected
    BY <1>1, <1>13 DEF InStep, Fits, Swaps, Comparing
  <2>3. /\ Paid(t) <= churn /\ Paid(t) \in Int /\ churn \in Int
        /\ call[t].since \in Int /\ call[t].since <= Paid(t)
    BY <1>1, DaprAssumption DEF Caused, Paid, TypeOK, CallRecord
  <2>4. pc[t] = "casReread" \/ call[t].op = "increment" => t \in Touched
    BY <1>1, <1>2, <1>13, <2>3 DEF Caused, Current, Touched
  <2>5. CASE call[t].op = "cas"
    <3>1. Lost(t, Live.value) = Abs!Answer("conflict", Live.value)
      BY <2>5 DEF Lost, Abs!Answer
    <3>2. Live.value # Running(t).expected \/ t \in Touched
      BY <1>8, <1>13, <2>2, <2>4, <2>5
    <3> QED
      BY <1>8, <1>10, <2>1, <2>5, <3>1, <3>2 DEF Abs!Refuse, Touched
  <2>6. CASE call[t].op = "increment" /\ tries[t] + 1 >= MaxRetries
    <3>1. Lost(t, Live.value) = Abs!Answer("exhausted", None)
      BY <2>6 DEF Lost, Abs!Answer
    <3> QED
      BY <1>8, <1>10, <2>1, <2>4, <2>6, <3>1 DEF Abs!Refuse, Touched
  <2>7. CASE call[t].op = "increment" /\ ~(tries[t] + 1 >= MaxRetries)
    BY <1>9, <2>1, <2>7 DEF Lost
  <2> QED
    BY <2>2, <2>5, <2>6, <2>7
<1> QED
  <2>1. CASE /\ pc[t] = "get" /\ call[t].op = "increment"
             /\ Countable(Live.value, call[t].delta)
    BY <1>9, <2>1 DEF Learnt
  <2>2. CASE pc[t] = "casGet" /\ Live.value = cas[t].expected
    BY <1>9, <2>2 DEF Learnt
  <2>3. pc[t] = "get" => call[t].op \in {"get", "increment"}
    BY <1>1 DEF InStep, Fits
  <2> QED
    BY <1>2, <1>11, <1>12, <1>13, <2>1, <2>2, <2>3 DEF Reading

LEMMA ServeWrites ==
    ASSUME Known, NEW t \in Task, Serve(t), req[t].kind # "get"
    PROVE  Abs!Write(t) \/ UNCHANGED Abs!vars
<1> DEFINE r == req[t]
<1>1. /\ InStep(t) /\ TypeOK /\ EtagParts /\ ItemWhole /\ Causes
      /\ r \in Request /\ WriteNames(r)
  BY DEF Known, Protocol, TypeOK, EtagParts
<1>2. r.kind \in {"post", "delete"}
  BY <1>1, ServeIs DEF Request
<1>3. /\ Stray(r) /\ Orphaned(r) = Running(t) /\ pc[t] # "idle"
      /\ call[t].op \in {"set", "delete", "cas", "increment"}
      /\ pc[t] = "casPost" => r.value = cas[t].value
      /\ pc[t] = "casPost" <=> call[t].op \in {"cas", "increment"}
  BY <1>1, <1>2, LeftBehind, AskedRuns
<1>4. /\ resp'[t] = Reply(r) /\ resp[t] = NoResp /\ now' = now
      /\ pc' = pc /\ call' = call /\ cas' = cas /\ tries' = tries
      /\ result' = result /\ stray' = stray /\ calls' = calls
      /\ \A u \in Task \ {t} : Same(u)
  BY <1>1, <1>2, AskedAt, ServeIs
<1>5. Running(t)' = Running(t) /\ Decided(t) = None
  BY <1>4, NothingAsked DEF Running, Decided
<1>6. \A u \in Task \ {t} : Running(u)' = Running(u) /\ Decided(u)' = Decided(u)
  BY <1>4, SameMeans
<1>7. CASE TakesEffect(r)
  <2>1. Conditional(r) => r.by.expects = Live.value
    <3>1. r \in InFlight
      BY <1>2 DEF InFlight
    <3> QED
      BY <1>1, <1>7, <3>1, EffectExpected
  <2>2. Handle(r) /\ Record(r)
    BY DEF Serve
  <2>3. Abs!Put(Running(t))
    <3>1. PICK w \in Request : w = req[t]
      BY <1>1
    <3>2. /\ WriteNames(w) /\ Stray(w) /\ TakesEffect(w) /\ Handle(w) /\ Record(w)
          /\ Conditional(w) => w.by.expects = Live.value
          /\ Orphaned(w) = Running(t)
      BY <1>1, <1>3, <1>7, <2>1, <2>2, <3>1
    <3>3. Abs!Put(Orphaned(w))
      BY <1>1, <1>4, <3>2, WritePuts
    <3> QED
      BY <3>2, <3>3 DEF Abs!Put, Abs!Applies, Abs!After
  <2>4. Running(t).op \in {"cas", "increment"} => Abs!After(Running(t)) = r.value
    BY <1>1, <1>3, <1>4, <1>7, <2>1, <2>2, WriteApplies
  <2>5. Running(t) # None /\ Running(t).op = call[t].op
    BY <1>1, <1>3, RunningIs DEF Running, AsAsked
  <2>6. Decided(t)' = Ok(IF pc[t] = "casPost" THEN cas[t].value ELSE None)
    <3>1. resp'[t].kind = "done"
      BY <1>4, <1>7 DEF Reply, NoResp, TakesEffect
    <3> QED
      BY <1>4, <3>1 DEF Decided
  <2>7. Decided(t)' = Abs!Told(Running(t))
    <3>1. CASE pc[t] = "casPost"
      BY <1>3, <2>4, <2>5, <2>6, <3>1 DEF Abs!Told, Abs!Answer, Ok
    <3>2. CASE pc[t] # "casPost"
      BY <1>3, <2>5, <2>6, <3>2 DEF Abs!Told, Abs!Answer, Ok
    <3> QED
      BY <3>1, <3>2
  <2>8. Abs!Undecided(t) /\ Abs!Decide(t, Abs!Told(Running(t)))
    BY <1>4, <1>5, <1>6, <2>5, <2>7
       DEF Abs!Undecided, Abs!Decide, Orphaned
  <2>9. Running(t).op # "get"
    BY <1>3, <2>5
  <2> QED
    <3> DEFINE running == [u \in Task |-> Running(u)]
    <3>1. running[t] = Running(t)
      OBVIOUS
    <3> QED
      BY <2>3, <2>8, <2>9, <3>1
         DEF Abs!Write, Abs!Put, Abs!Applies, Abs!After, Abs!Told
<1>8. CASE ~TakesEffect(r)
  <2>1. r.kind = "post" /\ ~Accepts(r)
    BY <1>2, <1>8 DEF TakesEffect
  <2>2. item' = Live /\ churn' = churn
    BY <1>8, <2>1 DEF Serve, Handle, StatePost, Record
  <2>3. Live' = Live
    BY <1>4, <2>2, LiveStays
  <2>4. resp'[t].kind = "conflict"
    BY <1>4, <2>1 DEF Reply, NoResp
  <2>5. Decided(t)' = None
    BY <2>4 DEF Decided
  <2>6. \A u \in Task : /\ Running(u)' = Running(u) /\ Decided(u)' = Decided(u)
                        /\ call'[u].since = call[u].since
                        /\ pc'[u] = "idle" <=> pc[u] = "idle"
    BY <1>4, <1>5, <1>6, <2>5
  <2> QED
    BY <1>4, <2>2, <2>3, <2>6, Unseen
<1> QED
  BY <1>7, <1>8

LEMMA StrayOrphans ==
    ASSUME Known, NEW r \in stray, ServeStray(r)
    PROVE  Abs!Orphan(Orphaned(r))
<1>1. /\ TypeOK /\ EtagParts /\ ItemWhole /\ Causes /\ Once
      /\ r \in Request /\ WriteNames(r) /\ Stray(r)
  BY DEF Known, Protocol, Deeds, TypeOK, EtagParts
<1>2. /\ Handle(r) /\ Record(r) /\ now' = now /\ stray' = stray \ {r}
      /\ UNCHANGED <<pc, call, cas, tries, result, req, resp, calls>>
  BY DEF ServeStray, taskVars
<1>3. Orphans' = Orphans \ {Orphaned(r)}
  <2>1. \A s \in stray : Orphaned(s) = Orphaned(r) => s = r
    <3> SUFFICES ASSUME NEW s \in stray, Orphaned(s) = Orphaned(r) PROVE s = r
      OBVIOUS
    <3>1. Orphaned(s).id = s.by.id /\ Orphaned(r).id = r.by.id
      BY DEF Orphaned, AsAsked
    <3> QED
      BY <1>1, <3>1 DEF Once
  <2>2. \A s : Orphaned(s)' = Orphaned(s)
    BY DEF Orphaned
  <2> QED
    BY <1>2, <2>1, <2>2 DEF Orphans
<1>4. \A u \in Task : Running(u)' = Running(u) /\ Decided(u)' = Decided(u)
  BY <1>2, SameMeans DEF Same
<1>5. CASE TakesEffect(r)
  <2>1. Conditional(r) => r.by.expects = Live.value
    <3>1. r \in InFlight
      BY <1>5 DEF InFlight, TakesEffect
    <3> QED
      BY <1>1, <1>5, <3>1, EffectExpected
  <2>2. Abs!Put(Orphaned(r))
    BY <1>1, <1>2, <1>5, <2>1, WritePuts
  <2> QED
    BY <1>2, <1>3, <1>4, <2>2 DEF Abs!Orphan, Orphans, Orphaned
<1>6. CASE ~TakesEffect(r)
  <2>1. item' = Live /\ churn' = churn
    BY <1>1, <1>2, <1>6
       DEF Handle, StateGet, StatePost, Record, TakesEffect, Stray
  <2>2. Live' = Live
    BY <1>2, <2>1, LiveStays
  <2>3. Touched' = Touched
    BY <1>2, <2>1, TouchesNone
  <2> QED
    BY <1>2, <1>3, <1>4, <2>2, <2>3 DEF Abs!Orphan, Orphans, Orphaned, Touched
<1> QED
  BY <1>5, <1>6

LEMMA TimeoutFails ==
    ASSUME Known, NEW t \in Task, Timeout(t)
    PROVE  Abs!Fail(t)
<1> DEFINE r == req[t]
           writes == r.kind \in {"post", "delete"}
<1>1. TypeOK /\ InStep(t) /\ pc[t] # "idle"
  BY DEF Known, Protocol, Timeout, Busy
<1>2. /\ resp'[t] = [NoResp EXCEPT !.kind = "failed"]
      /\ stray' = IF writes THEN stray \cup {r} ELSE stray
      /\ pc' = pc /\ call' = call /\ cas' = cas /\ tries' = tries
      /\ result' = result /\ calls' = calls /\ churn' = churn
      /\ Live' = Live /\ \A u \in Task \ {t} : Same(u)
  BY <1>1, TimeoutIs, QuietLive DEF ghostVars
<1>3. Decided(t)' = Abs!Answer("failed", None)
  <2>1. resp'[t].kind = "failed"
    BY <1>2 DEF NoResp
  <2> QED
    BY <2>1 DEF Decided, Abs!Answer
<1>4. Running(t)' = Running(t) /\ Running(t) # None
  BY <1>1, <1>2, RunningIs DEF Running
<1>5. Touched' = Touched
  BY <1>2, TouchesNone
<1>6. \A u \in Task \ {t} : Running(u)' = Running(u) /\ Decided(u)' = Decided(u)
  BY <1>2, SameMeans
<1>7. CASE ~writes
  <2>1. Orphans' = Orphans
    BY <1>2, <1>7 DEF Orphans, Orphaned
  <2> QED
    BY <1>2, <1>3, <1>4, <1>5, <1>6, <2>1
       DEF Abs!Fail, Touched, Orphans, Orphaned
<1>8. CASE writes
  <2>1. /\ Orphaned(r) = Running(t)
        /\ call[t].op \in {"set", "delete", "cas", "increment"}
    BY <1>1, <1>8, AskedRuns
  <2>2. Orphans' = Orphans \cup {Running(t)}
    <3>1. \A s : Orphaned(s)' = Orphaned(s)
      BY DEF Orphaned
    <3> QED
      BY <1>2, <1>8, <2>1, <3>1 DEF Orphans
  <2>3. Decided(t) = None
    <3>1. resp[t] = NoResp
      BY <1>1, <1>8, AskedAt
    <3> QED
      BY <3>1, NothingAsked DEF Decided
  <2>4. Running(t).op # "get"
    BY <1>1, <2>1 DEF Running, AsAsked
  <2> QED
    BY <1>2, <1>3, <1>4, <1>5, <1>6, <2>2, <2>3, <2>4
       DEF Abs!Fail, Abs!Undecided, Touched, Orphans, Orphaned
<1> QED
  BY <1>7, <1>8

LEMMA TickExpires ==
    ASSUME Known, Tick
    PROVE  Abs!Expire \/ UNCHANGED Abs!vars
<1>1. /\ TypeOK /\ EtagParts /\ ItemWhole /\ Causes
      /\ now \in Nat /\ item.expires \in OptNat
  BY DEF Known, TypeOK, Item
<1>2. /\ UNCHANGED <<pc, call, cas, tries, result, req, resp, stray, calls>>
      /\ item' = item /\ now' = now + 1
  BY DEF Tick, taskVars, netVars
<1>3. \A u \in Task : Running(u)' = Running(u) /\ Decided(u)' = Decided(u)
  BY <1>2, SameMeans DEF Same
<1>4. CASE item.expires = now + 1
  <2>1. item.expires # None
    BY <1>1, <1>4, SidecarAssumption
  <2>2. Live.value # None
    BY <1>1, <1>4, <2>1 DEF Live, ItemWhole
  <2>3. Live'.value = None
    BY <1>1, <1>2, <1>4, <2>1 DEF Live, Gone
  <2>4. Touched' = {t \in Task : Running(t) # None}
    BY <1>1, <1>2, <1>4, TouchesAll DEF Tick
  <2>5. Orphans' = Orphans
    BY <1>2 DEF Orphans, Orphaned
  <2> QED
    BY <1>2, <1>3, <2>2, <2>3, <2>4, <2>5
       DEF Abs!Expire, Touched, Orphans, Orphaned
<1>5. CASE item.expires # now + 1
  <2>1. churn' = churn
    BY <1>5 DEF Tick
  <2>2. Live' = Live
    BY <1>1, <2>1, TickChurns
  <2> QED
    BY <1>2, <1>3, <2>1, <2>2, Unseen
<1> QED
  BY <1>4, <1>5

-----------------------------------------------------------------------------
LEMMA InitMaps == Init => Abs!Init
<1> SUFFICES ASSUME Init PROVE Abs!Init
  OBVIOUS
<1>1. Live = Gone /\ Live.value = None
  BY DEF Init, SidecarInit, Live, Gone
<1>2. ASSUME NEW t \in Task
      PROVE  Running(t) = None /\ Decided(t) = None /\ pc[t] = "idle"
  BY NothingAsked DEF Init, Running, Decided
<1>3. Touched = {} /\ Orphans = {}
  BY <1>2 DEF Init, Touched, Orphans
<1> QED
  BY <1>1, <1>2, <1>3 DEF Init, Abs!Init, Abs!Answer, Touched, Orphans, Orphaned

LEMMA StepMaps == Known /\ TypeOK' /\ [Next]_vars => [Abs!Next]_(Abs!vars)
<1> SUFFICES ASSUME Known, TypeOK', [Next]_vars
             PROVE  Abs!Next \/ UNCHANGED Abs!vars
  OBVIOUS
<1>0. TypeOK /\ Protocol
  BY DEF Known
<1>1. ASSUME NEW t \in Task, NEW c \in Calls, Call(t, c) PROVE Abs!Next
  BY <1>0, <1>1, CallBegins DEF Abs!Next
<1>2. ASSUME NEW t \in Task, Resume(t) PROVE Abs!Next \/ UNCHANGED Abs!vars
  <2>1. Moves(t) /\ Quiet
    BY <1>0, <1>2, ResumeMoves
  <2>2. Abs!Return(t) \/ UNCHANGED Abs!vars
    BY <2>1, ReturnReturns, GoesOnUnseen DEF Moves
  <2> QED
    BY <2>2 DEF Abs!Next
<1>3. ASSUME NEW t \in Task, Serve(t) PROVE Abs!Next \/ UNCHANGED Abs!vars
  BY <1>3, ServeReads, ServeWrites DEF Abs!Next
<1>4. ASSUME NEW t \in Task, Timeout(t) PROVE Abs!Next
  BY <1>4, TimeoutFails DEF Abs!Next
<1>5. ASSUME NEW r \in stray, ServeStray(r) PROVE Abs!Next
  <2>1. Abs!Orphan(Orphaned(r)) /\ Orphaned(r) \in Orphans
    BY <1>5, StrayOrphans DEF Orphans
  <2> QED
    BY <2>1 DEF Abs!Next, Orphans, Orphaned
<1>6. ASSUME Tick PROVE Abs!Next \/ UNCHANGED Abs!vars
  BY <1>6, TickExpires DEF Abs!Next
<1>7. CASE UNCHANGED vars
  <2>1. Live' = Live
    BY <1>7, QuietLive DEF vars
  <2>2. UNCHANGED <<taskVars, netVars, calls, churn>>
    BY <1>7 DEF vars, ghostVars
  <2>3. \A u \in Task : Running(u)' = Running(u) /\ Decided(u)' = Decided(u)
    BY <2>2, SameMeans DEF Same, taskVars, netVars
  <2> QED
    BY <2>1, <2>2, <2>3, Unseen DEF taskVars, netVars
<1> QED
  BY <1>1, <1>2, <1>3, <1>4, <1>5, <1>6, <1>7 DEF Next

LEMMA AllKnown == Spec => []Known
<1>1. Init => TypeOK /\ EtagParts /\ ItemWhole
  BY TypeInit, EtagInit, WholeInit
<1>2. TypeOK /\ EtagParts /\ ItemWhole /\ [Next]_vars =>
        (TypeOK /\ EtagParts /\ ItemWhole)'
  BY TypeStep, EtagStep, WholeStep
<1>3. TypeOK /\ EtagParts /\ ItemWhole /\ Protocol /\ Deeds /\ Causes => Known
  BY DEF Known
<1> QED
  BY <1>1, <1>2, <1>3, WholeInvariant, PTL DEF Spec

(* To its callers the key is one atomic register: every step of the round
   trips of concurrent calls, retried, refused, lost, late or expired, is one
   step of AtomicStore or none. *)
THEOREM StoreIsAtomic == Spec => IsAtomicStore
<1>1. Known => TypeOK
  BY DEF Known
<1> QED
  BY <1>1, InitMaps, StepMaps, AllKnown, PTL DEF Spec, IsAtomicStore, Abs!Spec

=============================================================================
