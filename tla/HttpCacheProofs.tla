-------------------------- MODULE HttpCacheProofs --------------------------
(***************************************************************************)
(* Proofs about HttpCache, for any callers, resources and requests, any    *)
(* store calls that fail and entries that rot, and any clock.              *)
(*                                                                         *)
(* What a task has in hand is looked at once per step of fetch; the store  *)
(* changes only by a write, done or late, which the lemma WriteKeeps       *)
(* covers for both.                                                        *)
(***************************************************************************)
EXTENDS HttpCache, TLAPS

Stage == {"idle", "read", "origin", "answered", "write"}

Types ==
    /\ now \in Nat /\ rev \in [Etag -> Nat]
    /\ store \in [Etag -> Entry \cup {None}]
    /\ late \subseteq Write
    /\ pc \in [Task -> Stage]
    /\ req \in [Task -> Requests \cup {NoRequest}]
    /\ resp \in [Task -> Response \cup {NoResponse}]
    /\ out \in [Task -> Outcome \cup {Nothing, Failed}]
    /\ began \in [Task -> Nat] /\ down \in [Task -> BOOLEAN]
    /\ floor \in [Etag -> Nat]

(* A fetch under way has made a request the parser took, and has no answer. *)
Underway(t) ==
    pc[t] # "idle" =>
      /\ req[t] \in Requests /\ req[t].kind # "refused"
      /\ out[t].kind = "none" /\ down[t] = FALSE
      /\ began[t] <= rev[req[t].res]
      /\ pc[t] = "read" => LooksUp(req[t])

(* A response in hand is of the resource asked for, was given during the call,
   and is no older than what a write has settled; one on its way to the store
   is whole and stamped. *)
InHand(t) ==
    pc[t] \in {"answered", "write"} =>
      /\ resp[t] \in Response /\ resp[t].of = req[t].res
      /\ began[t] <= resp[t].rev /\ resp[t].rev <= rev[req[t].res]
      /\ floor[req[t].res] <= resp[t].rev
      /\ resp[t].status = "notModified" => Forwarded(req[t]) # {}
      /\ pc[t] = "write" =>
           /\ req[t].kind = "control" /\ Writes(req[t].control)
           /\ Storable(resp[t].status) /\ resp[t].tag = Key(t)

Tasks == \A t \in Task : Underway(t) /\ InHand(t)

(* What a write settled was a revision of the origin, and no write the store
   may still perform is older. *)
Floors ==
    /\ \A e \in Etag : floor[e] <= rev[e]
    /\ \A w \in late : floor[w.key] <= w.resp.rev

(* Nothing is stored from the future. *)
Ages == \A e \in Etag : store[e] # None => store[e].since <= now

Inv ==
    /\ Types /\ Tasks /\ Floors /\ Ages
    /\ OnlyWholeStored /\ OriginWhenAsked /\ FailsOnlyWithOrigin /\ SettledStays

-----------------------------------------------------------------------------
(* OriginWhenAsked and FailsOnlyWithOrigin, of one task. *)
Told(t) ==
    out[t].kind = "ok" =>
      /\ ~(req[t].kind = "control" /\ Reads(req[t].control)) =>
           ~out[t].hit /\ out[t].resp.rev >= began[t]
      /\ req[t].kind = "control" /\ out[t].resp.status = "notModified" =>
           ~out[t].hit /\ "If-Modified-Since" \in req[t].conditions
      /\ out[t].resp.of = req[t].res

Excused(t) ==
    pc[t] = "idle" =>
      (out[t].kind = "failed" <=> down[t] = TRUE \/ req[t].kind = "refused")

LEMMA PerTask ==
    ASSUME Types
    PROVE  /\ OriginWhenAsked <=> \A t \in Task : Told(t)
           /\ FailsOnlyWithOrigin <=> \A t \in Task : Excused(t)
<1>1. OriginWhenAsked <=> \A t \in Task : Told(t)
  BY DEF OriginWhenAsked, Told
<1>2. \A t \in Task : down[t] \in BOOLEAN
  BY DEF Types
<1>3. FailsOnlyWithOrigin <=> \A t \in Task : Excused(t)
  BY <1>2 DEF FailsOnlyWithOrigin, Excused
<1> QED BY <1>1, <1>3

(* The key of a request that reads or writes the store is its resource. *)
LEMMA RequestFacts ==
    ASSUME NEW r \in Requests
    PROVE  /\ r \in RequestType /\ r.res \in Etag /\ r.control \in AnyControl
           /\ r.control.maxAge \in Nat
           /\ r.kind = "control" /\ r.control.etag # NoEtag =>
                r.control.etag = r.res
<1>1. r \in RequestType
  BY HttpCacheAssumption
<1>2. r.control \in AnyControl /\ r.res \in Etag
  BY <1>1 DEF RequestType
<1> QED BY <1>1, <1>2, HttpCacheAssumption DEF AnyControl

LEMMA Records ==
    /\ Nothing.kind = "none" /\ Failed.kind = "failed"
    /\ \A r : FromOrigin(r).kind = "ok" /\ FromOrigin(r).resp = r
              /\ FromOrigin(r).hit = FALSE
    /\ \A x : FromStore(x).kind = "ok" /\ FromStore(x).resp = x.resp
              /\ FromStore(x).hit = TRUE
  BY DEF Nothing, Failed, FromOrigin, FromStore

LEMMA OutcomeOfOrigin ==
    ASSUME NEW r \in Response PROVE FromOrigin(r) \in Outcome
  BY DEF FromOrigin, Outcome

LEMMA TasksTogether ==
    ASSUME Types', \A u \in Task : Underway(u)' /\ InHand(u)' /\ Told(u)' /\ Excused(u)'
    PROVE  Tasks' /\ OriginWhenAsked' /\ FailsOnlyWithOrigin'
<1>1. Tasks' /\ OriginWhenAsked'
  BY DEF Tasks, OriginWhenAsked, Told
<1>2. \A u \in Task : down'[u] \in BOOLEAN
  BY DEF Types
<1>3. FailsOnlyWithOrigin'
  BY <1>2 DEF FailsOnlyWithOrigin, Excused
<1> QED BY <1>1, <1>3

(* A task that does not move keeps its part, while the origin goes on and
   nothing newer than what it has in hand is settled. *)
LEMMA OthersStay ==
    ASSUME Inv, NEW u \in Task,
           UNCHANGED <<pc[u], req[u], resp[u], out[u], began[u], down[u]>>,
           \A e \in Etag : rev'[e] \in Nat /\ rev[e] <= rev'[e],
           pc[u] \in {"answered", "write"} => floor'[req[u].res] <= resp[u].rev
    PROVE  Underway(u)' /\ InHand(u)' /\ Told(u)' /\ Excused(u)'
<1>1. Underway(u) /\ InHand(u) /\ Told(u) /\ Excused(u)
  BY PerTask DEF Inv, Tasks
<1>2. began[u] \in Nat /\ \A e \in Etag : rev[e] \in Nat
  BY DEF Inv, Types
<1>3. pc[u] # "idle" => req[u].res \in Etag
  BY <1>1, RequestFacts DEF Underway
<1>4. Underway(u)'
  BY <1>1, <1>2, <1>3 DEF Underway
<1>5. Told(u)' /\ Excused(u)'
  BY <1>1 DEF Told, Excused
<1>6. resp[u] \in Response => resp[u].rev \in Nat
  BY DEF Response
<1>7. InHand(u)'
  BY <1>1, <1>2, <1>3, <1>6 DEF InHand, Key
<1> QED BY <1>4, <1>5, <1>7

(* What a step of one task that leaves the store and the origin alone has to
   show. *)
LEMMA OneTask ==
    ASSUME Inv, Types', NEW t \in Task,
           UNCHANGED <<now, rev, floor, store, late>>,
           \A u \in Task \ {t} :
             UNCHANGED <<pc[u], req[u], resp[u], out[u], began[u], down[u]>>,
           Underway(t)', InHand(t)', Told(t)', Excused(t)'
    PROVE  Inv'
<1>1. /\ \A e \in Etag : rev'[e] \in Nat /\ rev[e] <= rev'[e]
      /\ \A u \in Task : pc[u] \in {"answered", "write"} =>
           floor'[req[u].res] <= resp[u].rev
  BY DEF Inv, Types, Tasks, InHand
<1>2. \A u \in Task : Underway(u)' /\ InHand(u)' /\ Told(u)' /\ Excused(u)'
  BY <1>1, OthersStay
<1>3. Floors' /\ Ages' /\ OnlyWholeStored' /\ SettledStays'
  BY DEF Inv, Floors, Ages, OnlyWholeStored, SettledStays, WholeCopy
<1> QED BY <1>2, <1>3, TasksTogether DEF Inv

-----------------------------------------------------------------------------
LEMMA FetchKeeps ==
    ASSUME Inv, NEW t \in Task, NEW r \in Requests, Fetch(t, r)
    PROVE  Inv'
<1> USE DEF Fetch, Return
<1>1. r \in RequestType /\ r.res \in Etag
  BY RequestFacts
<1>2. rev[r.res] \in Nat
  BY <1>1 DEF Inv, Types
<1>3. Types'
  BY <1>2 DEF Inv, Types, Stage
<1>4. /\ req'[t] = r /\ down'[t] = FALSE /\ began'[t] = rev[r.res]
      /\ pc'[t] \in Stage /\ rev' = rev
  BY <1>2 DEF Inv, Types, Stage
<1>5. \/ r.kind = "refused" /\ pc'[t] = "idle" /\ out'[t] = Failed
      \/ /\ r.kind # "refused" /\ out'[t] = Nothing
         /\ pc'[t] = IF LooksUp(r) THEN "read" ELSE "origin"
  BY DEF Inv, Types, Stage
<1>6. Underway(t)' /\ InHand(t)'
  BY <1>2, <1>4, <1>5, Records DEF Underway, InHand, LooksUp
<1>7. Told(t)' /\ Excused(t)'
  BY <1>4, <1>5, Records DEF Told, Excused
<1>8. \A u \in Task \ {t} :
        UNCHANGED <<pc[u], req[u], resp[u], out[u], began[u], down[u]>>
  BY DEF Inv, Types
<1> QED BY <1>3, <1>6, <1>7, <1>8, OneTask

LEMMA ReadHitKeeps ==
    ASSUME Inv, NEW t \in Task, ReadHit(t)
    PROVE  Inv'
<1> DEFINE entry == store[Key(t)]
<1> USE DEF ReadHit, Return
<1>1. /\ req[t] \in Requests /\ LooksUp(req[t]) /\ req[t].kind # "refused"
      /\ down[t] = FALSE /\ pc[t] = "read"
  BY DEF Inv, Tasks, Underway
<1>2. Key(t) = req[t].res /\ Key(t) \in Etag
  BY <1>1, RequestFacts DEF Key, LooksUp, Reads
<1>3. entry \in Entry /\ WholeCopy(Key(t), entry.resp)
  BY <1>2 DEF Inv, Types, Usable, LiveEntry, OnlyWholeStored
<1>4. entry.resp \in Response /\ entry.since \in Nat
  BY <1>3 DEF Entry
<1>5. /\ pc'[t] = "idle" /\ req'[t] = req[t] /\ down'[t] = FALSE
      /\ out'[t] = FromStore(entry)
  BY <1>1 DEF Inv, Types
<1>6. Types'
  <2>1. entry.since \in Nat /\ entry.since <= now /\ now \in Nat
    BY <1>2, <1>3, <1>4 DEF Inv, Types, Ages, Usable, LiveEntry
  <2>2. now - entry.since \in Nat
    BY <2>1
  <2>3. FromStore(entry) \in Outcome
    BY <1>4, <2>2 DEF FromStore, Outcome
  <2> QED BY <2>3 DEF Inv, Types, Stage
<1>7. Underway(t)' /\ InHand(t)'
  BY <1>5 DEF Underway, InHand
<1>8. Told(t)' /\ Excused(t)'
  <2>1. entry.resp.of = req[t].res /\ entry.resp.status = "full"
    BY <1>2, <1>3 DEF WholeCopy
  <2> QED BY <1>1, <1>5, <2>1, Records DEF Told, Excused, LooksUp
<1>9. \A u \in Task \ {t} :
        UNCHANGED <<pc[u], req[u], resp[u], out[u], began[u], down[u]>>
  BY DEF Inv, Types
<1> QED BY <1>6, <1>7, <1>8, <1>9, OneTask

LEMMA ReadMissKeeps ==
    ASSUME Inv, NEW t \in Task, ReadMiss(t)
    PROVE  Inv'
<1> USE DEF ReadMiss
<1>1. Types'
  BY DEF Inv, Types, Stage
<1>2. pc[t] = "read" /\ pc'[t] = "origin"
  BY DEF Inv, Types
<1>3. Underway(t) /\ Told(t)
  BY PerTask DEF Inv, Tasks
<1>4. Underway(t)' /\ InHand(t)'
  BY <1>2, <1>3 DEF Underway, InHand
<1>5. Told(t)' /\ Excused(t)'
  BY <1>2, <1>3 DEF Told, Excused
<1>6. \A u \in Task \ {t} :
        UNCHANGED <<pc[u], req[u], resp[u], out[u], began[u], down[u]>>
  BY DEF Inv, Types
<1> QED BY <1>1, <1>4, <1>5, <1>6, OneTask

LEMMA OriginAnswersKeeps ==
    ASSUME Inv, NEW t \in Task, OriginAnswers(t)
    PROVE  Inv'
<1> DEFINE res == req[t].res
<1>1. PICK status \in Status :
        /\ status = "notModified" => Forwarded(req[t]) # {}
        /\ resp' = [resp EXCEPT ![t] =
                      [status |-> status, of |-> res, rev |-> rev[res],
                       tag |-> NoEtag]]
  BY DEF OriginAnswers
<1> DEFINE answer == [status |-> status, of |-> res, rev |-> rev[res],
                      tag |-> NoEtag]
<1>2. /\ pc[t] = "origin" /\ pc' = [pc EXCEPT ![t] = "answered"]
      /\ UNCHANGED <<now, rev, store, late, req, out, began, down, floor>>
  BY DEF OriginAnswers
<1>3. Underway(t) /\ Told(t)
  BY PerTask DEF Inv, Tasks
<1>4. res \in Etag /\ rev[res] \in Nat /\ floor[res] <= rev[res]
  BY <1>2, <1>3, RequestFacts DEF Underway, Inv, Types, Floors
<1>5. answer \in Response
  BY <1>4 DEF Response
<1>6. Types'
  BY <1>1, <1>2, <1>5 DEF Inv, Types, Stage
<1>7. pc'[t] = "answered" /\ resp'[t] = answer
  BY <1>1, <1>2 DEF Inv, Types
<1>8. Underway(t)' /\ Told(t)' /\ Excused(t)'
  BY <1>2, <1>3, <1>7 DEF Underway, Told, Excused
<1>9. InHand(t)'
  BY <1>1, <1>2, <1>3, <1>4, <1>5, <1>7 DEF InHand, Underway
<1>10. \A u \in Task \ {t} :
        UNCHANGED <<pc[u], req[u], resp[u], out[u], began[u], down[u]>>
  BY <1>1, <1>2 DEF Inv, Types
<1> QED BY <1>2, <1>6, <1>8, <1>9, <1>10, OneTask

LEMMA OriginFailsKeeps ==
    ASSUME Inv, NEW t \in Task, OriginFails(t)
    PROVE  Inv'
<1> USE DEF OriginFails, Return
<1>1. Types'
  BY DEF Inv, Types, Stage
<1>2. pc'[t] = "idle" /\ out'[t] = Failed /\ down'[t] = TRUE
  BY DEF Inv, Types
<1>3. Underway(t)' /\ InHand(t)' /\ Told(t)' /\ Excused(t)'
  BY <1>2, Records DEF Underway, InHand, Told, Excused
<1>4. \A u \in Task \ {t} :
        UNCHANGED <<pc[u], req[u], resp[u], out[u], began[u], down[u]>>
  BY DEF Inv, Types
<1> QED BY <1>1, <1>3, <1>4, OneTask

LEMMA ReceiveKeeps ==
    ASSUME Inv, NEW t \in Task, Receive(t)
    PROVE  Inv'
<1> DEFINE r == Stamped(t)
           stores == /\ req[t].kind = "control"
                     /\ Writes(req[t].control) /\ Storable(resp[t].status)
<1>1. /\ pc[t] = "answered" /\ Underway(t) /\ InHand(t)
      /\ UNCHANGED <<now, rev, store, late, req, began, down, floor>>
  BY DEF Receive, Inv, Tasks
<1>2. /\ req[t] \in Requests /\ req[t].kind # "refused" /\ down[t] = FALSE
      /\ resp[t] \in Response
  BY <1>1 DEF Underway, InHand
<1>3. /\ r \in Response /\ r.status = resp[t].status /\ r.of = resp[t].of
      /\ r.rev = resp[t].rev
      /\ req[t].kind = "control" => r.tag = Key(t)
  BY <1>2, RequestFacts DEF Stamped, Response, Key, AnyControl
<1>4. \A u \in Task \ {t} :
        UNCHANGED <<pc[u], req[u], resp[u], out[u], began[u], down[u]>>
  BY DEF Receive, Return, Inv, Types
<1>5. CASE ~stores /\ Return(t, FromOrigin(r))
  <2>1. pc'[t] = "idle" /\ out'[t] = FromOrigin(r)
    BY <1>5 DEF Return, Inv, Types
  <2>2. Types'
    BY <1>1, <1>3, <1>5, OutcomeOfOrigin DEF Return, Inv, Types, Stage
  <2>3. Underway(t)' /\ InHand(t)'
    BY <2>1 DEF Underway, InHand
  <2>4. Excused(t)'
    BY <1>1, <1>2, <2>1, Records DEF Excused
  <2>5. Told(t)'
    <3>1. r.of = req[t].res /\ began[t] <= r.rev
      BY <1>1, <1>3 DEF InHand
    <3>2. req[t].kind = "control" /\ r.status = "notModified" =>
            "If-Modified-Since" \in req[t].conditions
      <4>1. req[t].conditions \subseteq Condition
        BY <1>2, RequestFacts DEF RequestType
      <4> QED BY <1>1, <1>3, <4>1 DEF InHand, Forwarded, Condition
    <3>3. began[t] \in Nat /\ r.rev \in Nat
      BY <1>3 DEF Inv, Types, Response
    <3> QED BY <1>1, <2>1, <3>1, <3>2, <3>3, Records DEF Told
  <2> QED BY <1>1, <1>4, <2>2, <2>3, <2>4, <2>5, OneTask
<1>6. CASE /\ stores
           /\ pc' = [pc EXCEPT ![t] = "write"]
           /\ resp' = [resp EXCEPT ![t] = r]
           /\ UNCHANGED out
  <2>1. pc'[t] = "write" /\ resp'[t] = r
    BY <1>6 DEF Inv, Types
  <2>2. Types'
    BY <1>1, <1>3, <1>6 DEF Inv, Types, Stage
  <2>3. InHand(t)'
    BY <1>1, <1>3, <1>6, <2>1 DEF InHand, Key
  <2>4. Underway(t)' /\ Excused(t)'
    BY <1>1, <1>6, <2>1 DEF Underway, Excused
  <2>5. Told(t)'
    BY <1>1, <1>6 DEF Told, Underway
  <2> QED BY <1>1, <1>4, <2>2, <2>3, <2>4, <2>5, OneTask
<1> QED BY <1>5, <1>6 DEF Receive

-----------------------------------------------------------------------------
(* A write, done now or late, of a whole response no older than what is
   settled: whatever it replaces, the store stays whole and settled, and it
   settles its own revision only if nothing on its way is older. *)
LEMMA PutKeeps ==
    ASSUME Inv, NEW w \in Write, WholeCopy(w.key, w.resp),
           floor[w.key] <= w.resp.rev, store' = Put(w), Settle(w),
           UNCHANGED <<now, rev>>, late' \subseteq late
    PROVE  /\ store' \in [Etag -> Entry \cup {None}] /\ floor' \in [Etag -> Nat]
           /\ Ages' /\ Floors' /\ OnlyWholeStored' /\ SettledStays'
           /\ \A u \in Task : pc[u] \in {"answered", "write"} =>
                floor'[req[u].res] <= resp[u].rev
<1> DEFINE entry == [resp |-> w.resp, since |-> now, expires |-> now + w.maxAge,
                     corrupt |-> FALSE]
<1>1. w.key \in Etag /\ w.resp \in Response /\ w.maxAge \in Nat /\ now \in Nat
  BY DEF Write, Inv, Types
<1>2. w.resp.rev \in Nat
  BY <1>1 DEF Response
<1>3. entry \in Entry /\ entry # None
  <2>1. entry \in Entry
    BY <1>1 DEF Entry
  <2> QED BY <2>1, HttpCacheAssumption
<1>4. store' = [store EXCEPT ![w.key] = entry]
  BY DEF Put
<1>5. store' \in [Etag -> Entry \cup {None}]
  BY <1>3, <1>4 DEF Inv, Types
<1>6. \A e \in Etag : store'[e] = IF e = w.key THEN entry ELSE store[e]
  BY <1>1, <1>4 DEF Inv, Types
<1>7. /\ floor' \in [Etag -> Nat]
      /\ \A e \in Etag \ {w.key} : floor'[e] = floor[e]
      /\ floor'[w.key] \in {floor[w.key], w.resp.rev}
      /\ floor'[w.key] <= w.resp.rev
  BY <1>1, <1>2 DEF Settle, Inv, Types
<1>8. Ages'
  BY <1>1, <1>6 DEF Ages, Inv
<1>9. OnlyWholeStored'
  BY <1>6 DEF Inv, OnlyWholeStored, WholeCopy
<1>10. SettledStays'
  BY <1>6, <1>7 DEF Inv, SettledStays
<1>11. \A l \in late : /\ l.key \in Etag /\ l.resp.rev \in Nat
                       /\ floor'[l.key] <= l.resp.rev
  <2> TAKE l \in late
  <2>1. l \in Write /\ floor[l.key] <= l.resp.rev
    BY DEF Inv, Types, Floors
  <2>2. l.key \in Etag /\ l.resp.rev \in Nat
    BY <2>1 DEF Write, Response
  <2>3. CASE l.key = w.key /\ l.resp.rev < w.resp.rev
    BY <2>1, <2>2, <2>3 DEF Settle
  <2>4. CASE l.key = w.key /\ ~(l.resp.rev < w.resp.rev)
    BY <1>2, <1>7, <2>2, <2>4
  <2>5. CASE l.key # w.key
    BY <1>7, <2>1, <2>2, <2>5
  <2> QED BY <2>2, <2>3, <2>4, <2>5
<1>12. Floors'
  <2>1. \A e \in Etag : floor'[e] <= rev[e]
    BY <1>1, <1>7 DEF Inv, Floors, WholeCopy
  <2> QED BY <1>11, <2>1 DEF Floors
<1>13. ASSUME NEW u \in Task, pc[u] \in {"answered", "write"}
       PROVE  floor'[req[u].res] <= resp[u].rev
  <2>1. Underway(u) /\ InHand(u)
    BY DEF Inv, Tasks
  <2>2. /\ req[u].res \in Etag /\ resp[u].rev \in Nat
        /\ floor[req[u].res] <= resp[u].rev
    BY <1>13, <2>1, RequestFacts DEF Underway, InHand, Response
  <2>3. CASE req[u].res = w.key /\ resp[u].rev < w.resp.rev
    <3>1. OnItsWay(u, w.key)
      BY <1>13, <2>3 DEF OnItsWay
    <3> QED BY <2>2, <2>3, <3>1 DEF Settle
  <2>4. CASE req[u].res = w.key /\ ~(resp[u].rev < w.resp.rev)
    BY <1>2, <1>7, <2>2, <2>4
  <2>5. CASE req[u].res # w.key
    BY <1>7, <2>2, <2>5
  <2> QED BY <2>3, <2>4, <2>5
<1> QED BY <1>5, <1>7, <1>8, <1>9, <1>10, <1>12, <1>13

(* What a task is about to write may be written. *)
LEMMA WriteFacts ==
    ASSUME Inv, NEW t \in Task, pc[t] = "write"
    PROVE  LET w == WriteOf(t)
           IN  /\ w \in Write /\ WholeCopy(w.key, w.resp)
               /\ floor[w.key] <= w.resp.rev
               /\ w.key = req[t].res /\ w.resp = resp[t]
<1>1. Underway(t) /\ InHand(t)
  BY DEF Inv, Tasks
<1>2. /\ req[t] \in Requests /\ req[t].kind = "control"
      /\ Writes(req[t].control) /\ Storable(resp[t].status)
      /\ resp[t] \in Response /\ resp[t].of = req[t].res
      /\ resp[t].tag = Key(t) /\ resp[t].rev <= rev[req[t].res]
      /\ floor[req[t].res] <= resp[t].rev
  BY <1>1 DEF Underway, InHand
<1>3. Key(t) = req[t].res /\ Key(t) \in Etag /\ req[t].control.maxAge \in Nat
  BY <1>2, RequestFacts DEF Key, Writes
<1>4. WriteOf(t) \in Write
  BY <1>2, <1>3 DEF WriteOf, Write
<1>5. WholeCopy(Key(t), resp[t])
  BY <1>2, <1>3 DEF WholeCopy, Storable
<1> QED BY <1>2, <1>3, <1>4, <1>5 DEF WriteOf

(* A write that ends its fetch: the response is returned as it came. *)
LEMMA WriteReturns ==
    ASSUME Inv, NEW t \in Task, pc[t] = "write",
           Return(t, FromOrigin(resp[t])), UNCHANGED <<req, began, down>>
    PROVE  /\ pc' \in [Task -> Stage] /\ pc'[t] = "idle"
           /\ resp' \in [Task -> Response \cup {NoResponse}]
           /\ out' \in [Task -> Outcome \cup {Nothing, Failed}]
           /\ Told(t)' /\ Excused(t)'
           /\ \A u \in Task \ {t} : UNCHANGED <<pc[u], resp[u], out[u]>>
<1>1. Underway(t) /\ InHand(t)
  BY DEF Inv, Tasks
<1>2. /\ pc'[t] = "idle" /\ out'[t] = FromOrigin(resp[t])
      /\ \A u \in Task \ {t} : UNCHANGED <<pc[u], resp[u], out[u]>>
  BY DEF Return, Inv, Types
<1>3. /\ pc' \in [Task -> Stage]
      /\ resp' \in [Task -> Response \cup {NoResponse}]
      /\ out' \in [Task -> Outcome \cup {Nothing, Failed}]
  BY <1>1, OutcomeOfOrigin DEF InHand, Return, Inv, Types, Stage
<1>4. /\ resp[t].of = req[t].res /\ began[t] <= resp[t].rev
      /\ resp[t].status = "full" /\ resp[t] \in Response
  BY <1>1 DEF InHand, Storable
<1>5. began[t] \in Nat /\ resp[t].rev \in Nat
  BY <1>4 DEF Inv, Types, Response
<1>6. Told(t)'
  BY <1>2, <1>4, <1>5, Records DEF Told
<1>7. Excused(t)'
  BY <1>1, <1>2, Records DEF Underway, Excused
<1> QED BY <1>2, <1>3, <1>6, <1>7

LEMMA WriteDoneKeeps ==
    ASSUME Inv, NEW t \in Task, WriteDone(t)
    PROVE  Inv'
<1> DEFINE w == WriteOf(t)
<1>1. /\ pc[t] = "write" /\ store' = Put(w) /\ Settle(w)
      /\ Return(t, FromOrigin(resp[t]))
      /\ UNCHANGED <<now, rev, late, req, fetches, faults, began, down>>
  BY DEF WriteDone
<1>2. w \in Write /\ WholeCopy(w.key, w.resp) /\ floor[w.key] <= w.resp.rev
  BY <1>1, WriteFacts
<1>3. /\ store' \in [Etag -> Entry \cup {None}] /\ floor' \in [Etag -> Nat]
      /\ Ages' /\ Floors' /\ OnlyWholeStored' /\ SettledStays'
      /\ \A u \in Task : pc[u] \in {"answered", "write"} =>
           floor'[req[u].res] <= resp[u].rev
  BY <1>1, <1>2, PutKeeps
<1>4. /\ pc' \in [Task -> Stage] /\ pc'[t] = "idle"
      /\ resp' \in [Task -> Response \cup {NoResponse}]
      /\ out' \in [Task -> Outcome \cup {Nothing, Failed}]
      /\ Told(t)' /\ Excused(t)'
      /\ \A u \in Task \ {t} : UNCHANGED <<pc[u], resp[u], out[u]>>
  BY <1>1, WriteReturns
<1>5. Types'
  BY <1>1, <1>3, <1>4 DEF Inv, Types
<1>6. Underway(t)' /\ InHand(t)'
  BY <1>4 DEF Underway, InHand
<1>7. ASSUME NEW u \in Task \ {t}
      PROVE  Underway(u)' /\ InHand(u)' /\ Told(u)' /\ Excused(u)'
  BY <1>1, <1>3, <1>4, OthersStay DEF Inv, Types
<1>8. \A u \in Task : Underway(u)' /\ InHand(u)' /\ Told(u)' /\ Excused(u)'
  BY <1>4, <1>6, <1>7
<1> QED BY <1>3, <1>5, <1>8, TasksTogether DEF Inv

LEMMA LateWriteKeeps ==
    ASSUME Inv, NEW w \in late, LateWrite(w)
    PROVE  Inv'
<1>1. /\ store' = Put(w) /\ Settle(w) /\ late' = late \ {w}
      /\ UNCHANGED <<now, rev, pc, req, resp, out, fetches, faults, began, down>>
  BY DEF LateWrite
<1>2. w \in Write /\ WholeCopy(w.key, w.resp) /\ floor[w.key] <= w.resp.rev
  BY DEF Inv, Types, OnlyWholeStored, Floors
<1>3. /\ store' \in [Etag -> Entry \cup {None}] /\ floor' \in [Etag -> Nat]
      /\ Ages' /\ Floors' /\ OnlyWholeStored' /\ SettledStays'
      /\ \A u \in Task : pc[u] \in {"answered", "write"} =>
           floor'[req[u].res] <= resp[u].rev
  BY <1>1, <1>2, PutKeeps
<1>4. Types'
  BY <1>1, <1>3 DEF Inv, Types
<1>5. \A u \in Task : Underway(u)' /\ InHand(u)' /\ Told(u)' /\ Excused(u)'
  BY <1>1, <1>3, OthersStay DEF Inv, Types
<1> QED BY <1>3, <1>4, <1>5, TasksTogether DEF Inv

LEMMA WriteFailsKeeps ==
    ASSUME Inv, NEW t \in Task, WriteFails(t)
    PROVE  Inv'
<1> DEFINE w == WriteOf(t)
<1>1. /\ pc[t] = "write" /\ late' = late \cup {w}
      /\ Return(t, FromOrigin(resp[t]))
      /\ UNCHANGED <<now, rev, store, req, fetches, began, down, floor>>
  BY DEF WriteFails
<1>2. w \in Write /\ WholeCopy(w.key, w.resp) /\ floor[w.key] <= w.resp.rev
  BY <1>1, WriteFacts
<1>3. /\ pc' \in [Task -> Stage] /\ pc'[t] = "idle"
      /\ resp' \in [Task -> Response \cup {NoResponse}]
      /\ out' \in [Task -> Outcome \cup {Nothing, Failed}]
      /\ Told(t)' /\ Excused(t)'
      /\ \A u \in Task \ {t} : UNCHANGED <<pc[u], resp[u], out[u]>>
  BY <1>1, WriteReturns
<1>4. Types'
  BY <1>1, <1>2, <1>3 DEF Inv, Types
<1>5. Underway(t)' /\ InHand(t)'
  BY <1>3 DEF Underway, InHand
<1>6. \A u \in Task : pc[u] \in {"answered", "write"} =>
        floor[req[u].res] <= resp[u].rev
  BY DEF Inv, Tasks, InHand
<1>7. ASSUME NEW u \in Task \ {t}
      PROVE  Underway(u)' /\ InHand(u)' /\ Told(u)' /\ Excused(u)'
  BY <1>1, <1>3, <1>6, OthersStay DEF Inv, Types
<1>8. \A u \in Task : Underway(u)' /\ InHand(u)' /\ Told(u)' /\ Excused(u)'
  BY <1>3, <1>5, <1>7
<1>9. Floors' /\ Ages' /\ OnlyWholeStored' /\ SettledStays'
  BY <1>1, <1>2 DEF Inv, Floors, Ages, OnlyWholeStored, SettledStays, WholeCopy
<1> QED BY <1>4, <1>8, <1>9, TasksTogether DEF Inv

-----------------------------------------------------------------------------
LEMMA RotKeeps ==
    ASSUME Inv, NEW e \in Etag, Rot(e)
    PROVE  Inv'
<1> DEFINE rotten == [store[e] EXCEPT !.corrupt = TRUE]
<1>1. /\ store[e] # None /\ store' = [store EXCEPT ![e] = rotten]
      /\ UNCHANGED <<now, rev, late, pc, req, resp, out, fetches, began, down,
                     floor>>
  BY DEF Rot
<1>2. store[e] \in Entry
  BY <1>1 DEF Inv, Types
<1>3. /\ rotten \in Entry /\ rotten.resp = store[e].resp
      /\ rotten.since = store[e].since
  BY <1>2 DEF Entry
<1>4. Types'
  BY <1>1, <1>3 DEF Inv, Types
<1>5. \A f \in Etag : store'[f] # None =>
        /\ store[f] # None /\ store'[f].resp = store[f].resp
        /\ store'[f].since = store[f].since
  BY <1>1, <1>3 DEF Inv, Types
<1>6. Floors' /\ Ages' /\ OnlyWholeStored' /\ SettledStays'
  BY <1>1, <1>5 DEF Inv, Floors, Ages, OnlyWholeStored, SettledStays, WholeCopy
<1>7. \A u \in Task : pc[u] \in {"answered", "write"} =>
        floor[req[u].res] <= resp[u].rev
  BY DEF Inv, Tasks, InHand
<1>8. \A u \in Task : Underway(u)' /\ InHand(u)' /\ Told(u)' /\ Excused(u)'
  BY <1>1, <1>7, OthersStay DEF Inv, Types
<1> QED BY <1>4, <1>6, <1>8, TasksTogether DEF Inv

LEMMA ChangeKeeps ==
    ASSUME Inv, NEW e \in Etag, Change(e)
    PROVE  Inv'
<1>1. /\ rev' = [rev EXCEPT ![e] = @ + 1]
      /\ UNCHANGED <<now, store, late, pc, req, resp, out, fetches, faults, began,
                     down, floor>>
  BY DEF Change
<1>2. \A f \in Etag : rev[f] \in Nat /\ rev'[f] \in Nat /\ rev[f] <= rev'[f]
  BY <1>1 DEF Inv, Types
<1>3. Types'
  BY <1>1 DEF Inv, Types
<1>4. \A f \in Etag : floor'[f] <= rev'[f]
  BY <1>1, <1>2 DEF Inv, Types, Floors
<1>5. Floors' /\ Ages' /\ SettledStays'
  BY <1>1, <1>4 DEF Inv, Floors, Ages, SettledStays
<1>6. OnlyWholeStored'
  <2>1. ASSUME NEW f \in Etag, NEW r \in Response, WholeCopy(f, r)
        PROVE  WholeCopy(f, r)'
    BY <1>2, <2>1 DEF WholeCopy, Response
  <2>2. \A f \in Etag : store[f] # None => store[f].resp \in Response
    BY DEF Inv, Types, Entry
  <2>3. \A w \in late : w.key \in Etag /\ w.resp \in Response
    BY DEF Inv, Types, Write
  <2> QED BY <1>1, <2>1, <2>2, <2>3 DEF Inv, OnlyWholeStored
<1>7. \A u \in Task : pc[u] \in {"answered", "write"} =>
        floor[req[u].res] <= resp[u].rev
  BY DEF Inv, Tasks, InHand
<1>8. \A u \in Task : Underway(u)' /\ InHand(u)' /\ Told(u)' /\ Excused(u)'
  BY <1>1, <1>2, <1>7, OthersStay
<1> QED BY <1>3, <1>5, <1>6, <1>8, TasksTogether DEF Inv

LEMMA TickKeeps ==
    ASSUME Inv, Tick
    PROVE  Inv'
<1>1. /\ now \in Nat /\ now' = now + 1
      /\ UNCHANGED <<rev, store, late, pc, req, resp, out, fetches, faults, began,
                     down, floor>>
  BY DEF Tick, Inv, Types
<1>2. Types'
  BY <1>1 DEF Inv, Types
<1>3. Ages'
  <2>1. \A e \in Etag : store[e] # None => store[e].since \in Nat
    BY DEF Inv, Types, Entry
  <2> QED BY <1>1, <2>1 DEF Inv, Ages
<1>4. Floors' /\ OnlyWholeStored' /\ SettledStays'
  BY <1>1 DEF Inv, Floors, OnlyWholeStored, SettledStays, WholeCopy
<1>5. \A u \in Task : pc[u] \in {"answered", "write"} =>
        floor[req[u].res] <= resp[u].rev
  BY DEF Inv, Tasks, InHand
<1>6. \A u \in Task : Underway(u)' /\ InHand(u)' /\ Told(u)' /\ Excused(u)'
  BY <1>1, <1>5, OthersStay DEF Inv, Types
<1> QED BY <1>2, <1>3, <1>4, <1>6, TasksTogether DEF Inv

-----------------------------------------------------------------------------
LEMMA InvInit == Init => Inv
<1> SUFFICES ASSUME Init PROVE Inv
  OBVIOUS
<1> USE DEF Init
<1>1. Types
  BY DEF Types, Stage
<1>2. Tasks
  BY DEF Tasks, Underway, InHand
<1>3. Floors /\ Ages /\ OnlyWholeStored /\ SettledStays
  BY DEF Floors, Ages, OnlyWholeStored, SettledStays
<1>4. OriginWhenAsked /\ FailsOnlyWithOrigin
  BY DEF OriginWhenAsked, FailsOnlyWithOrigin, Nothing, NoRequest
<1> QED BY <1>1, <1>2, <1>3, <1>4 DEF Inv

LEMMA InvNext == Inv /\ [Next]_vars => Inv'
<1> SUFFICES ASSUME Inv, [Next]_vars PROVE Inv'
  OBVIOUS
<1>1. ASSUME NEW t \in Task, Step(t) PROVE Inv'
  BY <1>1, FetchKeeps, ReadHitKeeps, ReadMissKeeps, OriginAnswersKeeps,
     OriginFailsKeeps, ReceiveKeeps, WriteDoneKeeps, WriteFailsKeeps DEF Step
<1>2. ASSUME NEW w \in late, LateWrite(w) PROVE Inv'
  BY <1>2, LateWriteKeeps
<1>3. ASSUME NEW e \in Etag, Rot(e) \/ Change(e) PROVE Inv'
  BY <1>3, RotKeeps, ChangeKeeps
<1>4. CASE Tick
  BY <1>4, TickKeeps
<1>5. CASE UNCHANGED vars
  <2>1. Types' /\ Floors' /\ Ages' /\ SettledStays'
    BY <1>5 DEF vars, Inv, Types, Floors, Ages, SettledStays
  <2>2. OnlyWholeStored' /\ OriginWhenAsked' /\ FailsOnlyWithOrigin'
    BY <1>5 DEF vars, Inv, OnlyWholeStored, WholeCopy, OriginWhenAsked,
         FailsOnlyWithOrigin
  <2>3. Tasks'
    BY <1>5 DEF vars, Inv, Tasks, Underway, InHand, Key
  <2> QED BY <2>1, <2>2, <2>3 DEF Inv
<1> QED BY <1>1, <1>2, <1>3, <1>4, <1>5 DEF Next

LEMMA SpecInv == Spec => []Inv
  BY InvInit, InvNext, PTL DEF Spec

-----------------------------------------------------------------------------
(* The store never comes to hold a partial, failed or 304 response, or one of
   another resource, whichever writes fail, come late or overtake others. *)
THEOREM StoreHoldsWholeCopies == Spec => []OnlyWholeStored
  BY SpecInv, PTL DEF Inv

(* Who forbids a stored response gets one the origin gave during the call,
   and on the cached path only a request with If-Modified-Since is told "not
   modified", by the origin. *)
THEOREM OriginAnswersWhenAsked == Spec => []OriginWhenAsked
  BY SpecInv, PTL DEF Inv

(* Store calls that fail and entries that rot never make a fetch fail. *)
THEOREM StoreNeverFailsAFetch == Spec => []FailsOnlyWithOrigin
  BY SpecInv, PTL DEF Inv

(* A settled revision is never replaced in the store by an older one. *)
THEOREM SettledRevisionStays == Spec => []SettledStays
  BY SpecInv, PTL DEF Inv

=============================================================================
