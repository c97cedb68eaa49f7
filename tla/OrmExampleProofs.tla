------------------------- MODULE OrmExampleProofs --------------------------
(***************************************************************************)
(* Proofs about OrmExample, for any number of requests at a time, any      *)
(* agencies, feeds and requests, and any faults.                           *)
(*                                                                         *)
(* Every statement, its reply delivered or lost, has one of three shapes:  *)
(* it only moves its request along, it puts one row into the agency table, *)
(* or it puts one row into the feed table or takes it out.  What each      *)
(* statement does is looked at once, in the lemma that gives it its shape; *)
(* the invariant is then carried through the shapes.                       *)
(***************************************************************************)
EXTENDS OrmExample, TLAPS

Stage == {"idle", "create agency table", "create feed table", "lookup", "main"}

ListOp == {"list_agencies", "list_all_feeds"}

(* A request is under way, and has no answer, until its handler returns. *)
Unanswered == \A t \in Task : pc[t] # "idle" => result[t] = "none"

(* The agency's table is created before the feed's. *)
SchemaHalf ==
    \A t \in Task : pc[t] = "create feed table" => "agency" \in schema

(* Between the lookup of an agency and the insert of its feed, the agency
   stays. *)
LookedUp ==
    \A t \in Task : pc[t] = "main" /\ req[t].q.op = "create_feed" =>
      agency[req[t].q.agency] # Absent

(* Requests have names of their own, and only requests made so far wrote. *)
Ids ==
    /\ wrote \subseteq 1 .. requests
    /\ \A t \in Task :
         /\ req[t].id \in 0 .. requests
         /\ req[t].id = 0 => req[t] = NoRequest /\ pc[t] = "idle"
         /\ req[t].id # 0 => req[t].q \in Requests
    /\ \A t, u \in Task : t # u /\ req[t].id = req[u].id => req[t].id = 0

Inv ==
    /\ TypeOK /\ Unanswered /\ SchemaHalf /\ SchemaFirst /\ LookedUp
    /\ FeedsHaveAgencies /\ FeedsMapped /\ Ids /\ AnswersTrue /\ AgencyAsAsked

-----------------------------------------------------------------------------
(* The shapes of a statement of request t. *)
Ends(t) ==
    /\ pc' = [pc EXCEPT ![t] = "idle"]
    /\ \E r \in {"ok", "failed"} : result' = [result EXCEPT ![t] = r]

Quiet(t, p, r) ==
    /\ pc[t] # "idle"
    /\ pc' = [pc EXCEPT ![t] = p] /\ result' = [result EXCEPT ![t] = r]
    /\ UNCHANGED <<agency, feed, wrote>>
    /\ schema \subseteq schema' /\ schema' \subseteq {"agency", "feed"}
    /\ p = "create feed table" => "agency" \in schema'
    /\ p \in {"lookup", "main"} => {"agency", "feed"} \subseteq schema'
    /\ p = "main" /\ req[t].q.op = "create_feed" =>
         agency[req[t].q.agency] # Absent
    /\ p # "idle" => r = "none"
    /\ r = "ok" => req[t].q.op \in ListOp
    /\ r # "unmapped"

PutsAgency(t, row) ==
    LET q == req[t].q
    IN  /\ pc[t] # "idle" /\ Ends(t)
        /\ q.op \in {"create_agency", "update_agency"}
        /\ row \in AgencyRow
        /\ row.name = q.name /\ row.timezone = q.timezone
        /\ \/ q.op = "create_agency" /\ row.url = q.url
           \/ agency[q.agency] # Absent /\ row.url = agency[q.agency].url
        /\ agency' = [agency EXCEPT ![q.agency] = row]
        /\ Writes(t)
        /\ UNCHANGED <<schema, feed>>

PutsFeed(t, row) ==
    LET q == req[t].q
    IN  /\ pc[t] # "idle" /\ Ends(t)
        /\ q.op \in {"create_feed", "delete_feed"}
        /\ row \in FeedRow \cup {Absent}
        /\ row # Absent => agency[row.agency] # Absent
        /\ feed' = [feed EXCEPT ![q.feed] = row]
        /\ Writes(t)
        /\ UNCHANGED <<schema, agency>>

Shaped(t) ==
    \/ \E p \in Stage, r \in Answer : Quiet(t, p, r)
    \/ \E row \in AgencyRow : PutsAgency(t, row)
    \/ \E row \in FeedRow \cup {Absent} : PutsFeed(t, row)

LEMMA Running ==
    ASSUME Inv, NEW t \in Task, pc[t] # "idle"
    PROVE  /\ req[t].q \in RequestType /\ req[t].q \in Requests
           /\ req[t].id \in Nat /\ req[t].id # 0 /\ req[t].id \in 1 .. requests
           /\ req[t].q.agency \in AgencyId /\ req[t].q.feed \in FeedId
           /\ result[t] = "none" /\ req[t] # NoRequest
<1>1. req[t].q \in Requests /\ req[t].q \in RequestType
  BY ExampleAssumption DEF Inv, TypeOK
<1>2. req[t].q.agency \in AgencyId /\ req[t].q.feed \in FeedId
  BY <1>1 DEF RequestType
<1>3. /\ req[t].id \in 0 .. requests /\ req[t].id # 0 /\ requests \in Nat
      /\ result[t] = "none"
  BY DEF Inv, TypeOK, Ids, Unanswered
<1>4. req[t] # NoRequest
  BY <1>3 DEF NoRequest
<1> QED BY <1>1, <1>2, <1>3, <1>4

LEMMA ReadShaped ==
    ASSUME Inv, NEW t \in Task, NEW lost \in BOOLEAN, pc[t] # "idle",
           NEW r \in Answer \ {"unmapped"}, Reply(t, lost, r), Reads,
           r = "ok" => req[t].q.op \in ListOp
    PROVE  Shaped(t)
<1> DEFINE answer == IF lost THEN "failed" ELSE r
<1>1. answer \in Answer
  BY DEF Answer
<1>2. schema \subseteq {"agency", "feed"}
  BY DEF Inv, TypeOK
<1>3. Quiet(t, "idle", answer)
  BY <1>2 DEF Quiet, Reply, Reads, tables
<1> QED BY <1>1, <1>3 DEF Shaped, Stage

LEMMA GotoShaped ==
    ASSUME Inv, NEW t \in Task, NEW lost \in BOOLEAN, pc[t] # "idle",
           NEW p \in Stage \ {"idle"}, Goto(t, lost, p),
           UNCHANGED <<agency, feed, wrote>>,
           schema \subseteq schema', schema' \subseteq {"agency", "feed"},
           p = "create feed table" => "agency" \in schema',
           p \in {"lookup", "main"} => {"agency", "feed"} \subseteq schema',
           p = "main" /\ req[t].q.op = "create_feed" =>
             agency[req[t].q.agency] # Absent
    PROVE  Shaped(t)
<1>1. CASE lost
  <2>1. Quiet(t, "idle", "failed")
    BY <1>1 DEF Goto, Reply, Quiet
  <2> QED BY <2>1 DEF Shaped, Stage, Answer
<1>2. CASE ~lost
  <2>1. result' = [result EXCEPT ![t] = "none"]
    BY <1>2, Running DEF Goto, Inv, TypeOK
  <2>2. Quiet(t, p, "none")
    BY <1>2, <2>1 DEF Goto, Quiet
  <2> QED BY <2>2 DEF Shaped, Stage, Answer
<1> QED BY <1>1, <1>2

LEMMA AnswerEnds ==
    ASSUME NEW t \in Task, NEW lost \in BOOLEAN, Reply(t, lost, "ok")
    PROVE  Ends(t)
  BY DEF Reply, Ends

LEMMA RunsShaped ==
    ASSUME Inv, NEW t \in Task, NEW lost \in BOOLEAN, Runs(t, lost)
    PROVE  Shaped(t)
<1> DEFINE q == req[t].q
<1>0. schema \subseteq {"agency", "feed"}
  BY DEF Inv, TypeOK
<1>1. CASE CreateTable(t, lost)
  <2>1. CASE pc[t] = "create agency table"
    BY <1>0, <1>1, <2>1, GotoShaped DEF CreateTable, Stage
  <2>2. CASE pc[t] = "create feed table"
    <3>1. "agency" \in schema
      BY <2>2 DEF Inv, SchemaHalf
    <3>2. /\ AfterSchema(t) \in {"lookup", "main"}
          /\ AfterSchema(t) = "main" => q.op # "create_feed"
      BY DEF AfterSchema
    <3> QED BY <1>0, <1>1, <2>2, <3>1, <3>2, GotoShaped DEF CreateTable, Stage
  <2> QED BY <1>1, <2>1, <2>2 DEF CreateTable
<1>2. CASE ListAgencies(t, lost)
  BY <1>2, ReadShaped DEF ListAgencies, Main, Answer, ListOp
<1>3. CASE CreateAgency(t, lost)
  <2>1. pc[t] # "idle" /\ q.op = "create_agency"
    BY <1>3 DEF CreateAgency, Main
  <2>2. CASE agency[q.agency] # Absent
    BY <1>3, <2>1, <2>2, ReadShaped DEF CreateAgency, Answer
  <2>3. CASE agency[q.agency] = Absent
    <3> DEFINE row == [name |-> q.name, url |-> q.url, timezone |-> q.timezone]
    <3>1. row \in AgencyRow
      BY <2>1, Running DEF AgencyRow, RequestType
    <3>2. Ends(t)
      BY <1>3, <2>3, AnswerEnds DEF CreateAgency
    <3>3. PutsAgency(t, row)
      BY <1>3, <2>1, <2>3, <3>1, <3>2 DEF CreateAgency, PutsAgency
    <3> QED BY <3>1, <3>3 DEF Shaped
  <2> QED BY <2>2, <2>3
<1>4. CASE UpdateAgency(t, lost)
  <2>1. pc[t] # "idle" /\ q.op = "update_agency"
    BY <1>4 DEF UpdateAgency, Main
  <2>2. CASE agency[q.agency] = Absent
    BY <1>4, <2>1, <2>2, ReadShaped DEF UpdateAgency, RowsAffected, Answer
  <2>3. CASE agency[q.agency] # Absent
    <3> DEFINE row == Updated(agency[q.agency], q)
    <3>1. agency[q.agency] \in AgencyRow /\ q \in RequestType
      BY <2>1, <2>3, Running DEF Inv, TypeOK
    <3>2. /\ row \in AgencyRow /\ row.name = q.name
          /\ row.timezone = q.timezone /\ row.url = agency[q.agency].url
      BY <3>1 DEF Updated, AgencyRow, RequestType
    <3>3. Ends(t)
      BY <1>4, <2>3, AnswerEnds DEF UpdateAgency
    <3>4. agency' = [agency EXCEPT ![q.agency] = row]
      BY <1>4, <2>3 DEF UpdateAgency
    <3>5. PutsAgency(t, row)
      BY <1>4, <2>1, <2>3, <3>2, <3>3, <3>4 DEF UpdateAgency, PutsAgency
    <3> QED BY <3>2, <3>5 DEF Shaped
  <2> QED BY <2>2, <2>3
<1>5. CASE Lookup(t, lost)
  <2>1. pc[t] = "lookup" /\ {"agency", "feed"} \subseteq schema
    BY <1>5 DEF Lookup, Inv, SchemaFirst
  <2>2. CASE agency[q.agency] = Absent
    BY <1>5, <2>1, <2>2, ReadShaped DEF Lookup, Answer
  <2>3. CASE agency[q.agency] # Absent
    BY <1>0, <1>5, <2>1, <2>3, GotoShaped DEF Lookup, Stage, Reads, tables
  <2> QED BY <2>2, <2>3
<1>6. CASE CreateFeed(t, lost)
  <2>1. pc[t] = "main" /\ q.op = "create_feed" /\ agency[q.agency] # Absent
    BY <1>6 DEF CreateFeed, Main, Inv, LookedUp
  <2>2. CASE feed[q.feed] # Absent
    BY <1>6, <2>1, <2>2, ReadShaped DEF CreateFeed, Answer
  <2>3. CASE feed[q.feed] = Absent
    <3> DEFINE row == [agency |-> q.agency, description |-> q.name]
    <3>1. row \in FeedRow
      BY <2>1, Running DEF FeedRow, RequestType
    <3>2. Ends(t)
      BY <1>6, <2>3, AnswerEnds DEF CreateFeed
    <3>3. PutsFeed(t, row)
      BY <1>6, <2>1, <2>3, <3>1, <3>2 DEF CreateFeed, PutsFeed
    <3> QED BY <3>1, <3>3 DEF Shaped
  <2> QED BY <2>2, <2>3
<1>7. CASE ListAllFeeds(t, lost)
  <2>1. pc[t] # "idle" /\ q.op \in ListOp
    BY <1>7 DEF ListAllFeeds, Main, ListOp
  <2>2. Reply(t, lost, "ok") /\ Reads
    BY <1>7 DEF ListAllFeeds, Inv, FeedsHaveAgencies
  <2> QED BY <2>1, <2>2, ReadShaped DEF Answer
<1>8. CASE DeleteFeed(t, lost)
  <2>1. pc[t] # "idle" /\ q.op = "delete_feed"
    BY <1>8 DEF DeleteFeed, Main
  <2>2. CASE feed[q.feed] = Absent
    BY <1>8, <2>1, <2>2, ReadShaped DEF DeleteFeed, RowsAffected, Answer
  <2>3. CASE feed[q.feed] # Absent
    <3>1. Ends(t)
      BY <1>8, <2>3, AnswerEnds DEF DeleteFeed
    <3>2. PutsFeed(t, Absent)
      BY <1>8, <2>1, <2>3, <3>1 DEF DeleteFeed, PutsFeed
    <3> QED BY <3>2 DEF Shaped
  <2> QED BY <2>2, <2>3
<1> QED BY <1>1, <1>2, <1>3, <1>4, <1>5, <1>6, <1>7, <1>8 DEF Runs, Handle

LEMMA FaultShaped ==
    ASSUME Inv, NEW t \in Task, Fault(t)
    PROVE  Shaped(t)
<1>1. CASE Runs(t, TRUE)
  BY <1>1, RunsShaped
<1>2. CASE Reply(t, TRUE, "failed") /\ Reads
  BY <1>2, ReadShaped DEF Fault, Answer
<1> QED BY <1>1, <1>2 DEF Fault

-----------------------------------------------------------------------------
LEMMA InvInit == Init => Inv
<1> SUFFICES ASSUME Init PROVE Inv
  OBVIOUS
<1>1. TypeOK
  BY DEF Init, TypeOK, NoRequest, Answer
<1>2. Ids
  BY DEF Init, Ids, NoRequest
<1> QED
  BY <1>1, <1>2 DEF Init, Inv, Unanswered, SchemaHalf, SchemaFirst, LookedUp,
       FeedsHaveAgencies, Feeds, FeedsMapped, AnswersTrue, AgencyAsAsked

(* Two of the parts of Inv speak of the rows alone. *)
LEMMA SameRows ==
    ASSUME FeedsHaveAgencies, AgencyAsAsked, UNCHANGED <<agency, feed>>
    PROVE  FeedsHaveAgencies' /\ AgencyAsAsked'
<1>1. FeedsHaveAgencies'
  BY DEF FeedsHaveAgencies, Feeds
<1>2. AgencyAsAsked'
  BY DEF AgencyAsAsked
<1> QED BY <1>1, <1>2

LEMMA RequestKeepsInv ==
    ASSUME Inv, NEW t \in Task, NEW q \in Requests, Request(t, q)
    PROVE  Inv'
<1>1. requests \in Nat /\ wrote \subseteq 1 .. requests
  BY DEF Inv, TypeOK, Ids
<1>a. requests + 1 \notin wrote
  BY <1>1
<1>b. [q |-> q, id |-> requests + 1] \in [q : Requests \cup {Absent}, id : Nat]
  BY <1>1
<1>2. /\ req' = [req EXCEPT ![t] = [q |-> q, id |-> requests + 1]]
      /\ pc' = [pc EXCEPT ![t] = "create agency table"]
      /\ result' = [result EXCEPT ![t] = "none"]
      /\ requests' = requests + 1 /\ UNCHANGED <<schema, agency, feed, wrote, faults>>
  BY DEF Request, tables
<1>3. TypeOK'
  <2>1. req' \in [Task -> [q : Requests \cup {Absent}, id : Nat]]
    BY <1>2, <1>b DEF Inv, TypeOK
  <2>2. /\ pc' \in [Task -> Stage] /\ result' \in [Task -> Answer]
        /\ \A u \in Task : pc'[u] # "idle" => req'[u].q \in Requests
    BY <1>2 DEF Inv, TypeOK, Answer, Stage
  <2> QED BY <1>1, <1>2, <2>1, <2>2 DEF Inv, TypeOK, Stage
<1>4. Unanswered' /\ SchemaHalf' /\ SchemaFirst' /\ LookedUp'
  BY <1>2 DEF Inv, TypeOK, Unanswered, SchemaHalf, SchemaFirst, LookedUp
<1>5. FeedsHaveAgencies' /\ FeedsMapped' /\ AgencyAsAsked'
  BY <1>2, SameRows DEF Inv, TypeOK, FeedsMapped
<1>6. Ids'
  <2>0. requests' = requests + 1 /\ wrote' = wrote
    BY <1>2
  <2>1. wrote' \subseteq 1 .. requests'
    <3>1. \A n \in 1 .. requests : n \in 1 .. requests'
      BY <1>1, <2>0
    <3> QED BY <1>1, <2>0, <3>1
  <2>2. ASSUME NEW u \in Task
        PROVE  /\ req'[u].id \in 0 .. requests'
               /\ req'[u].id = 0 => req'[u] = NoRequest /\ pc'[u] = "idle"
               /\ req'[u].id # 0 => req'[u].q \in Requests
    <3>1. CASE u = t
      <4>1. req'[u].id = requests + 1 /\ req'[u].q = q
        BY <1>2, <3>1 DEF Inv, TypeOK
      <4> QED BY <1>1, <2>0, <4>1
    <3>2. CASE u # t
      <4>1. req'[u] = req[u] /\ pc'[u] = pc[u]
        BY <1>2, <3>2 DEF Inv, TypeOK
      <4>2. /\ req[u].id \in 0 .. requests
            /\ req[u].id = 0 => req[u] = NoRequest /\ pc[u] = "idle"
            /\ req[u].id # 0 => req[u].q \in Requests
        BY DEF Inv, Ids
      <4>3. req'[u].id \in 0 .. requests'
        BY <1>1, <2>0, <4>1, <4>2
      <4> QED BY <4>1, <4>2, <4>3
    <3> QED BY <3>1, <3>2
  <2>3. ASSUME NEW u \in Task, NEW v \in Task, u # v, req'[u].id = req'[v].id
        PROVE  req'[u].id = 0
    <3>1. \A w \in Task : req[w].id # requests + 1
      BY <1>1 DEF Inv, Ids
    <3> QED BY <1>1, <1>2, <2>3, <3>1 DEF Inv, TypeOK, Ids
  <2> QED BY <2>1, <2>2, <2>3 DEF Ids
<1>7. AnswersTrue'
  <2> SUFFICES ASSUME NEW u \in Task, req[u]' # NoRequest PROVE Told(u)'
    BY DEF AnswersTrue
  <2>1. CASE u = t
    BY <1>a, <1>2, <2>1 DEF Inv, TypeOK, Told
  <2>2. CASE u # t
    BY <1>2, <2>2 DEF Inv, TypeOK, AnswersTrue, Told
  <2> QED BY <2>1, <2>2
<1> QED BY <1>3, <1>4, <1>5, <1>6, <1>7 DEF Inv

LEMMA QuietKeepsInv ==
    ASSUME Inv, NEW t \in Task, NEW p \in Stage, NEW r \in Answer,
           Quiet(t, p, r), UNCHANGED <<req, requests>>, faults' \in Nat
    PROVE  Inv'
<1>1. /\ pc' = [pc EXCEPT ![t] = p] /\ result' = [result EXCEPT ![t] = r]
      /\ UNCHANGED <<agency, feed, wrote>>
  BY DEF Quiet
<1>2. TypeOK'
  <2>1. pc' \in [Task -> Stage] /\ result' \in [Task -> Answer]
    BY <1>1 DEF Inv, TypeOK, Stage
  <2>2. \A u \in Task : pc'[u] # "idle" => req[u].q \in Requests
    BY <1>1 DEF Quiet, Inv, TypeOK
  <2> QED BY <1>1, <2>1, <2>2 DEF Quiet, Inv, TypeOK, Stage
<1>3. Unanswered' /\ SchemaHalf' /\ SchemaFirst'
  BY <1>1 DEF Quiet, Inv, TypeOK, Unanswered, SchemaHalf, SchemaFirst
<1>4. LookedUp'
  BY <1>1 DEF Quiet, Inv, TypeOK, LookedUp
<1>5. FeedsHaveAgencies' /\ FeedsMapped' /\ AgencyAsAsked'
  BY <1>1, SameRows DEF Quiet, Inv, TypeOK, FeedsMapped
<1>6. Ids'
  BY <1>1, Running DEF Quiet, Inv, TypeOK, Ids
<1>7. AnswersTrue'
  <2> SUFFICES ASSUME NEW u \in Task, req[u] # NoRequest PROVE Told(u)'
    BY DEF AnswersTrue
  <2>1. CASE u = t
    <3>1. Told(t) /\ req[t].id \notin wrote
      BY Running DEF Quiet, Inv, AnswersTrue, Told
    <3> QED BY <1>1, <2>1, <3>1 DEF Quiet, Inv, TypeOK, Told, ListOp
  <2>2. CASE u # t
    BY <1>1, <2>2 DEF Inv, TypeOK, AnswersTrue, Told
  <2> QED BY <2>1, <2>2
<1> QED BY <1>2, <1>3, <1>4, <1>5, <1>6, <1>7 DEF Inv

(* What a statement that writes a row does to everything but the rows. *)
LEMMA WriteKeeps ==
    ASSUME Inv, NEW t \in Task, pc[t] # "idle", Ends(t), Writes(t),
           req[t].q.op \notin ListOp, UNCHANGED <<schema, req, requests>>,
           faults' \in Nat,
           agency' \in [AgencyId -> AgencyRow \cup {Absent}],
           feed' \in [FeedId -> FeedRow \cup {Absent}]
    PROVE  TypeOK' /\ Unanswered' /\ SchemaHalf' /\ SchemaFirst'
           /\ FeedsMapped' /\ Ids' /\ AnswersTrue'
<1>1. PICK r \in {"ok", "failed"} : result' = [result EXCEPT ![t] = r]
  BY DEF Ends
<1>2. pc' = [pc EXCEPT ![t] = "idle"] /\ wrote' = wrote \cup {req[t].id}
  BY DEF Ends, Writes
<1>3. TypeOK'
  BY <1>1, <1>2, Running DEF Inv, TypeOK, Answer
<1>4. Unanswered' /\ SchemaHalf' /\ SchemaFirst' /\ FeedsMapped'
  BY <1>1, <1>2 DEF Inv, TypeOK, Unanswered, SchemaHalf, SchemaFirst, FeedsMapped
<1>5. Ids'
  BY <1>1, <1>2, Running DEF Inv, TypeOK, Ids
<1>6. AnswersTrue'
  <2> SUFFICES ASSUME NEW u \in Task, req[u] # NoRequest PROVE Told(u)'
    BY DEF AnswersTrue
  <2>1. CASE u = t
    BY <1>1, <1>2, <2>1 DEF Inv, TypeOK, Told, ListOp
  <2>2. CASE u # t
    <3>1. req[u].id # req[t].id
      BY <2>2, Running DEF Inv, Ids
    <3> QED BY <1>1, <1>2, <2>2, <3>1 DEF Inv, TypeOK, AnswersTrue, Told
  <2> QED BY <2>1, <2>2
<1> QED BY <1>3, <1>4, <1>5, <1>6

LEMMA AgencyKeepsInv ==
    ASSUME Inv, NEW t \in Task, NEW row \in AgencyRow, PutsAgency(t, row),
           UNCHANGED <<req, requests>>, faults' \in Nat
    PROVE  Inv'
<1> DEFINE q == req[t].q
<1>1. /\ pc[t] # "idle" /\ q \in Requests /\ q.agency \in AgencyId
      /\ row # Absent
  BY Running, ExampleAssumption DEF PutsAgency, AgencyRow
<1>2. agency' = [agency EXCEPT ![q.agency] = row] /\ UNCHANGED feed
  BY DEF PutsAgency
<1>3. /\ agency \in [AgencyId -> AgencyRow \cup {Absent}]
      /\ agency' \in [AgencyId -> AgencyRow \cup {Absent}]
      /\ feed \in [FeedId -> FeedRow \cup {Absent}]
  BY <1>1, <1>2 DEF Inv, TypeOK
<1>4. \A a \in AgencyId : agency[a] # Absent => agency'[a] # Absent
  BY <1>1, <1>2, <1>3
<1>5. /\ TypeOK' /\ Unanswered' /\ SchemaHalf' /\ SchemaFirst'
      /\ FeedsMapped' /\ Ids' /\ AnswersTrue'
  BY <1>1, <1>2, <1>3, WriteKeeps DEF PutsAgency, ListOp, Inv, TypeOK
<1>6. LookedUp'
  <2> SUFFICES ASSUME NEW u \in Task, pc'[u] = "main", req[u].q.op = "create_feed"
               PROVE  agency'[req[u].q.agency] # Absent
    BY DEF LookedUp
  <2>1. pc[u] = "main"
    BY DEF PutsAgency, Ends, Inv, TypeOK
  <2> QED BY <1>4, <2>1, Running DEF Inv, LookedUp
<1>7. FeedsHaveAgencies'
  BY <1>2, <1>3, <1>4, ExampleAssumption DEF Inv, FeedsHaveAgencies, Feeds, FeedRow
<1>8. AgencyAsAsked'
  <2> SUFFICES ASSUME NEW a \in AgencyId, agency'[a] # Absent
               PROVE  /\ \E p \in Requests :
                           /\ p.op \in {"create_agency", "update_agency"}
                           /\ p.agency = a /\ p.name = agency'[a].name
                           /\ p.timezone = agency'[a].timezone
                      /\ \E p \in Requests :
                           /\ p.op = "create_agency" /\ p.agency = a
                           /\ p.url = agency'[a].url
    BY DEF AgencyAsAsked
  <2>1. CASE a = q.agency
    <3>1. agency'[a] = row
      BY <1>2, <1>3, <2>1
    <3>2. /\ q.op \in {"create_agency", "update_agency"}
          /\ row.name = q.name /\ row.timezone = q.timezone
      BY DEF PutsAgency
    <3>3. \E p \in Requests : p.op = "create_agency" /\ p.agency = a /\ p.url = row.url
      BY <1>1, <2>1 DEF PutsAgency, Inv, AgencyAsAsked
    <3> QED BY <1>1, <2>1, <3>1, <3>2, <3>3
  <2>2. CASE a # q.agency
    <3>1. agency'[a] = agency[a]
      BY <1>2, <1>3, <2>2
    <3> QED BY <3>1 DEF Inv, AgencyAsAsked
  <2> QED BY <2>1, <2>2
<1> QED BY <1>5, <1>6, <1>7, <1>8 DEF Inv

LEMMA FeedKeepsInv ==
    ASSUME Inv, NEW t \in Task, NEW row \in FeedRow \cup {Absent},
           PutsFeed(t, row), UNCHANGED <<req, requests>>, faults' \in Nat
    PROVE  Inv'
<1> DEFINE q == req[t].q
<1>1. pc[t] # "idle" /\ q.feed \in FeedId
  BY Running DEF PutsFeed
<1>2. feed' = [feed EXCEPT ![q.feed] = row] /\ UNCHANGED agency
  BY DEF PutsFeed
<1>3. feed' \in [FeedId -> FeedRow \cup {Absent}]
  BY <1>1, <1>2 DEF Inv, TypeOK
<1>4. /\ TypeOK' /\ Unanswered' /\ SchemaHalf' /\ SchemaFirst'
      /\ FeedsMapped' /\ Ids' /\ AnswersTrue'
  BY <1>1, <1>2, <1>3, WriteKeeps DEF PutsFeed, ListOp, Inv, TypeOK
<1>5. LookedUp'
  BY <1>2 DEF PutsFeed, Ends, Inv, TypeOK, LookedUp
<1>6. FeedsHaveAgencies'
  BY <1>1, <1>2 DEF PutsFeed, Inv, TypeOK, FeedsHaveAgencies, Feeds
<1>7. AgencyAsAsked'
  BY <1>2 DEF Inv, AgencyAsAsked
<1> QED BY <1>4, <1>5, <1>6, <1>7 DEF Inv

LEMMA InvNext == Inv /\ [Next]_vars => Inv'
<1> SUFFICES ASSUME Inv, [Next]_vars PROVE Inv'
  OBVIOUS
<1>1. ASSUME NEW t \in Task, NEW q \in Requests, Request(t, q) PROVE Inv'
  BY <1>1, RequestKeepsInv
<1>2. ASSUME NEW t \in Task, Shaped(t), UNCHANGED <<req, requests>>, faults' \in Nat
      PROVE  Inv'
  BY <1>2, QuietKeepsInv, AgencyKeepsInv, FeedKeepsInv DEF Shaped
<1>3. ASSUME NEW t \in Task, Step(t) PROVE Inv'
  BY <1>2, <1>3, RunsShaped DEF Step, Inv, TypeOK
<1>4. ASSUME NEW t \in Task, Fault(t) PROVE Inv'
  <2>1. Shaped(t)
    BY <1>4, FaultShaped
  <2>2. faults \in Nat /\ faults' = faults + 1 /\ UNCHANGED <<req, requests>>
    BY <1>4 DEF Fault, Inv, TypeOK
  <2>3. faults' \in Nat
    BY <2>2
  <2> QED BY <1>2, <2>1, <2>2, <2>3
<1>5. CASE UNCHANGED vars
  <2>1. TypeOK'
    BY <1>5 DEF vars, tables, Inv, TypeOK
  <2>2. Unanswered' /\ SchemaHalf' /\ SchemaFirst' /\ LookedUp' /\ FeedsMapped'
    BY <1>5 DEF vars, tables, Inv, Unanswered, SchemaHalf, SchemaFirst, LookedUp,
         FeedsMapped
  <2>3. Ids' /\ AnswersTrue'
    BY <1>5 DEF vars, tables, Inv, Ids, AnswersTrue, Told
  <2> QED BY <1>5, <2>1, <2>2, <2>3, SameRows DEF vars, tables, Inv
<1> QED BY <1>1, <1>3, <1>4, <1>5 DEF Next

LEMMA SpecInv == Spec => []Inv
  BY InvInit, InvNext, PTL DEF Spec

-----------------------------------------------------------------------------
(* The variables keep their types. *)
THEOREM TypeCorrect == Spec => []TypeOK
  BY SpecInv, PTL DEF Inv

(* However the lookups and inserts of create_feed interleave with the other
   requests, every feed has its agency: no handler takes an agency away. *)
THEOREM EveryFeedHasItsAgency == Spec => []FeedsHaveAgencies
  BY SpecInv, PTL DEF Inv

(* list_all_feeds never meets a row it cannot read. *)
THEOREM EveryFeedIsMapped == Spec => []FeedsMapped
  BY SpecInv, PTL DEF Inv

(* A handler's statements find both tables, whichever of the statements that
   create them failed, in this request or in others. *)
THEOREM TablesComeFirst == Spec => []SchemaFirst
  BY SpecInv, PTL DEF Inv

(* An answer of ok means a write of that request, any other definite answer
   none, however many requests ask for the same. *)
THEOREM EveryAnswerIsTrue == Spec => []AnswersTrue
  BY SpecInv, PTL DEF Inv

(* An agency's row is never made of the halves of two updates. *)
THEOREM EveryAgencyIsAsAsked == Spec => []AgencyAsAsked
  BY SpecInv, PTL DEF Inv

=============================================================================
