----------------------------- MODULE HttpCache -----------------------------
(***************************************************************************)
(* HttpCache::fetch of crates/http-cache/src/lib.rs, called by several     *)
(* tasks over one StateStore and one origin.  A call is cut into steps     *)
(* where it awaits the store or the origin.  The origin's resources change *)
(* between requests; a revision number tells their representations apart.  *)
(* A caller names a resource by one entity-tag, which is the storage key.  *)
(***************************************************************************)
EXTENDS Control, FiniteSets

CONSTANTS
    Task,        \* the callers
    Requests,    \* what they may ask for
    None,        \* no entry
    MaxFetches,  \* bound: fetches made in a behaviour
    MaxFaults,   \* bound: store calls that fail and entries that rot
    MaxRev,      \* bound: the last revision of a resource
    MaxClock     \* bound: the last second

(* The headers that make a request conditional. *)
Condition == {"If-None-Match", "If-Modified-Since"}

(* "plain" passes through (no directive to act on), "refused" has headers
   the parser rejects. *)
RequestType ==
    [kind : {"plain", "refused", "control"}, res : Etag,
     conditions : SUBSET Condition, control : AnyControl]

Status == {"full", "partial", "error", "notModified"}

(* tag is the ETag header: the origin's own (NoEtag) or the request's. *)
Response == [status : Status, of : Etag, rev : Nat, tag : Etag \cup {NoEtag}]

Entry == [resp : Response, since : Nat, expires : Nat, corrupt : BOOLEAN]

Write == [key : Etag, resp : Response, maxAge : Nat]

ASSUME HttpCacheAssumption ==
    /\ Requests \subseteq RequestType
    /\ \A r \in Requests : r.kind = "control" =>
         /\ IsControl(r.control)
         /\ r.control.etag \in {NoEtag, r.res}
         /\ r.control.etag # NoEtag => "If-None-Match" \in r.conditions
    /\ None \notin Entry
    /\ MaxFetches \in Nat /\ MaxFaults \in Nat
    /\ MaxRev \in Nat /\ MaxClock \in Nat

VARIABLES
    now,
    rev,      \* per resource: the origin's current revision
    store,    \* per etag: the entry, or None
    late,     \* writes reported failed that the store may still perform
    pc, req,  \* per task: its await point and its request
    resp,     \* per task: the origin's response in hand
    out,      \* per task: what its last fetch returned
    fetches, faults,
    began,    \* history: per task, the origin's revision when it called
    down,     \* history: per task, whether the origin failed it
    floor     \* history: per etag, the revision a write has settled

vars == <<now, rev, store, late, pc, req, resp, out, fetches, faults,
          began, down, floor>>

-----------------------------------------------------------------------------
Outcome ==
    [kind : {"none", "ok", "failed"}, resp : Response, hit : BOOLEAN, age : Nat]

AnEtag == CHOOSE e \in Etag : TRUE

NoResponse == [status |-> "error", of |-> AnEtag, rev |-> 0, tag |-> NoEtag]

NoControl ==
    [noCache |-> FALSE, noStore |-> FALSE, maxAge |-> 0, etag |-> NoEtag]

NoRequest ==
    [kind |-> "plain", res |-> AnEtag, conditions |-> {},
     control |-> NoControl]

Nothing == [kind |-> "none", resp |-> NoResponse, hit |-> FALSE, age |-> 0]

Init ==
    /\ now = 0
    /\ rev = [e \in Etag |-> 0]
    /\ store = [e \in Etag |-> None]
    /\ late = {}
    /\ pc = [t \in Task |-> "idle"]
    /\ req = [t \in Task |-> NoRequest]
    /\ resp = [t \in Task |-> NoResponse]
    /\ out = [t \in Task |-> Nothing]
    /\ fetches = 0 /\ faults = 0
    /\ began = [t \in Task |-> 0]
    /\ down = [t \in Task |-> FALSE]
    /\ floor = [e \in Etag |-> 0]

-----------------------------------------------------------------------------
Return(t, outcome) ==
    /\ pc' = [pc EXCEPT ![t] = "idle"]
    /\ resp' = [resp EXCEPT ![t] = NoResponse]
    /\ out' = [out EXCEPT ![t] = outcome]

Failed == [Nothing EXCEPT !.kind = "failed"]

FromOrigin(r) == [kind |-> "ok", resp |-> r, hit |-> FALSE, age |-> 0]

FromStore(entry) ==
    [kind |-> "ok", resp |-> entry.resp, hit |-> TRUE, age |-> now - entry.since]

Fault == faults < MaxFaults /\ faults' = faults + 1

(***************************************************************************)
(* The head of fetch: refuse, pass through, look in the store, or go to    *)
(* the origin.                                                             *)
(***************************************************************************)
(* Mutant: no-cache still looks in the store. *)
LooksUpOnNoCache(r) ==
    r.kind = "control" /\ r.control.maxAge > 0 /\ r.control.etag # NoEtag

LooksUp(r) == r.kind = "control" /\ Reads(r.control)

Fetch(t, r) ==
    /\ pc[t] = "idle" /\ fetches < MaxFetches
    /\ fetches' = fetches + 1
    /\ req' = [req EXCEPT ![t] = r]
    /\ began' = [began EXCEPT ![t] = rev[r.res]]
    /\ down' = [down EXCEPT ![t] = FALSE]
    /\ \/ r.kind = "refused" /\ Return(t, Failed)
       \/ /\ r.kind # "refused"
          /\ pc' = [pc EXCEPT ![t] = IF LooksUp(r) THEN "read" ELSE "origin"]
          /\ out' = [out EXCEPT ![t] = Nothing]
          /\ UNCHANGED resp
    /\ UNCHANGED <<now, rev, store, late, faults, floor>>

Key(t) == req[t].control.etag

LiveEntry(e) == store[e] # None /\ now < store[e].expires

Usable(e) == LiveEntry(e) /\ ~store[e].corrupt

(* read_entry: a hit answers the request, *)
ReadHit(t) ==
    /\ pc[t] = "read" /\ Usable(Key(t))
    /\ Return(t, FromStore(store[Key(t)]))
    /\ UNCHANGED <<now, rev, store, late, req, fetches, faults, began, down, floor>>

(* an absent, expired or undecodable entry, or a failing store, is a miss. *)
ReadMiss(t) ==
    /\ pc[t] = "read"
    /\ \/ ~Usable(Key(t)) /\ UNCHANGED faults
       \/ Fault
    /\ pc' = [pc EXCEPT ![t] = "origin"]
    /\ UNCHANGED <<now, rev, store, late, req, resp, out, fetches, began, down,
                   floor>>

(***************************************************************************)
(* The origin answers with the revision it has now; only a request that is *)
(* still conditional can be told that nothing was modified.  The cache     *)
(* removes If-None-Match, and no other condition.                          *)
(***************************************************************************)
Forwarded(r) ==
    IF r.kind = "control" THEN r.conditions \ {"If-None-Match"} ELSE r.conditions

OriginAnswers(t) ==
    /\ pc[t] = "origin"
    /\ \E status \in Status :
         /\ status = "notModified" => Forwarded(req[t]) # {}
         /\ resp' = [resp EXCEPT ![t] =
                       [status |-> status, of |-> req[t].res,
                        rev |-> rev[req[t].res], tag |-> NoEtag]]
    /\ pc' = [pc EXCEPT ![t] = "answered"]
    /\ UNCHANGED <<now, rev, store, late, req, out, fetches, faults, began, down,
                   floor>>

OriginFails(t) ==
    /\ pc[t] = "origin"
    /\ down' = [down EXCEPT ![t] = TRUE]
    /\ Return(t, Failed)
    /\ UNCHANGED <<now, rev, store, late, req, fetches, faults, began, floor>>

(***************************************************************************)
(* The answer arrives: it is stamped with the request's etag, and stored   *)
(* if the request asks for it and the response is whole.                   *)
(***************************************************************************)
(* Mutant: every success is stored, a partial one too. *)
AnySuccess(status) == status \in {"full", "partial"}

Storable(status) == status = "full"

Stamped(t) ==
    IF req[t].kind = "control" THEN [resp[t] EXCEPT !.tag = Key(t)] ELSE resp[t]

Receive(t) ==
    LET stores == /\ req[t].kind = "control"
                  /\ Writes(req[t].control) /\ Storable(resp[t].status)
    IN  /\ pc[t] = "answered"
        /\ \/ ~stores /\ Return(t, FromOrigin(Stamped(t)))
           \/ /\ stores
              /\ pc' = [pc EXCEPT ![t] = "write"]
              /\ resp' = [resp EXCEPT ![t] = Stamped(t)]
              /\ UNCHANGED out
        /\ UNCHANGED <<now, rev, store, late, req, fetches, faults, began, down,
                       floor>>

(***************************************************************************)
(* write_entry.  The store may also perform a write it reported failed,    *)
(* at once or later.  A write settles its revision when nobody holds an    *)
(* older response of the same resource on the way to the store.            *)
(***************************************************************************)
(* Mutant: an entry that is there is not replaced. *)
PutIfAbsent(w) ==
    IF LiveEntry(w.key) THEN store
    ELSE [store EXCEPT ![w.key] =
            [resp |-> w.resp, since |-> now, expires |-> now + w.maxAge,
             corrupt |-> FALSE]]

Put(w) ==
    [store EXCEPT ![w.key] =
        [resp |-> w.resp, since |-> now, expires |-> now + w.maxAge,
         corrupt |-> FALSE]]

WriteOf(t) == [key |-> Key(t), resp |-> resp[t], maxAge |-> req[t].control.maxAge]

OnItsWay(t, e) == pc[t] \in {"answered", "write"} /\ req[t].res = e

Settle(w) ==
    LET older == \/ \E t \in Task : OnItsWay(t, w.key) /\ resp[t].rev < w.resp.rev
                 \/ \E l \in late : l.key = w.key /\ l.resp.rev < w.resp.rev
    IN  floor' = IF older THEN floor ELSE [floor EXCEPT ![w.key] = w.resp.rev]

WriteDone(t) ==
    /\ pc[t] = "write"
    /\ store' = Put(WriteOf(t))
    /\ Settle(WriteOf(t))
    /\ Return(t, FromOrigin(resp[t]))
    /\ UNCHANGED <<now, rev, late, req, fetches, faults, began, down>>

(* Mutant: a failing write fails the request. *)
WriteFailureSurfaces(t) ==
    /\ pc[t] = "write" /\ Fault
    /\ late' = late \cup {WriteOf(t)}
    /\ Return(t, Failed)
    /\ UNCHANGED <<now, rev, store, req, fetches, began, down, floor>>

WriteFails(t) ==
    /\ pc[t] = "write" /\ Fault
    /\ late' = late \cup {WriteOf(t)}
    /\ Return(t, FromOrigin(resp[t]))
    /\ UNCHANGED <<now, rev, store, req, fetches, began, down, floor>>

LateWrite(w) ==
    /\ store' = Put(w)
    /\ late' = late \ {w}
    /\ Settle(w)
    /\ UNCHANGED <<now, rev, pc, req, resp, out, fetches, faults, began, down>>

-----------------------------------------------------------------------------
(***************************************************************************)
(* The world: entries rot, resources change, time passes.                  *)
(***************************************************************************)
Rot(e) ==
    /\ store[e] # None /\ ~store[e].corrupt /\ Fault
    /\ store' = [store EXCEPT ![e].corrupt = TRUE]
    /\ UNCHANGED <<now, rev, late, pc, req, resp, out, fetches, began, down, floor>>

Change(e) ==
    /\ rev[e] < MaxRev
    /\ rev' = [rev EXCEPT ![e] = @ + 1]
    /\ UNCHANGED <<now, store, late, pc, req, resp, out, fetches, faults, began,
                   down, floor>>

Tick ==
    /\ now < MaxClock
    /\ now' = now + 1
    /\ UNCHANGED <<rev, store, late, pc, req, resp, out, fetches, faults, began,
                   down, floor>>

Step(t) ==
    \/ \E r \in Requests : Fetch(t, r)
    \/ ReadHit(t) \/ ReadMiss(t)
    \/ OriginAnswers(t) \/ OriginFails(t) \/ Receive(t)
    \/ WriteDone(t) \/ WriteFails(t)

Next ==
    \/ \E t \in Task : Step(t)
    \/ \E w \in late : LateWrite(w)
    \/ \E e \in Etag : Rot(e) \/ Change(e)
    \/ Tick

Spec == Init /\ [][Next]_vars

-----------------------------------------------------------------------------
(* What the store holds, or may yet hold, under an etag is a whole response
   of that resource, stamped with that etag: never a partial, failed or 304
   response, nor another resource's. *)
WholeCopy(e, r) ==
    r.status = "full" /\ r.of = e /\ r.tag = e /\ r.rev <= rev[e]

OnlyWholeStored ==
    /\ \A e \in Etag : store[e] # None => WholeCopy(e, store[e].resp)
    /\ \A w \in late : WholeCopy(w.key, w.resp)

(* A request that forbids a stored response (no-cache, no-store, max-age=0 or
   no directive at all) gets one the origin gave during the call; and on the
   cached path the If-None-Match it carries never gets it a "not modified",
   nor does a hit: only If-Modified-Since does. *)
OriginWhenAsked ==
    \A t \in Task : out[t].kind = "ok" =>
        /\ ~(req[t].kind = "control" /\ Reads(req[t].control)) =>
             ~out[t].hit /\ out[t].resp.rev >= began[t]
        /\ req[t].kind = "control" /\ out[t].resp.status = "notModified" =>
             ~out[t].hit /\ "If-Modified-Since" \in req[t].conditions
        /\ out[t].resp.of = req[t].res

(* The store never decides whether a fetch fails: it fails exactly when its
   headers are refused or the origin cannot be reached. *)
FailsOnlyWithOrigin ==
    \A t \in Task : pc[t] = "idle" =>
        (out[t].kind = "failed" <=> down[t] \/ req[t].kind = "refused")

(* Once a write has gone through with no older response on its way to the
   store, nobody is answered with an older revision from the store again: a
   forced refresh replaces the stored copy. *)
SettledStays ==
    \A e \in Etag : store[e] # None => store[e].resp.rev >= floor[e]

(* A hit has been in the store no longer than the request's own max-age,
   "the oldest response the client will accept". *)
HitWithinMaxAge ==
    \A t \in Task :
        out[t].kind = "ok" /\ out[t].hit => out[t].age <= req[t].control.maxAge

=============================================================================
