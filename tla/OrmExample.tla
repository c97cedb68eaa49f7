----------------------------- MODULE OrmExample ----------------------------
(***************************************************************************)
(* The service of examples/orm/guest.rs: requests about agencies and their *)
(* feeds.  Every request runs in a guest of its own, creates the tables if *)
(* need be, and then runs the one or two statements of its handler.  Each  *)
(* statement is atomic in the database; nothing is between two of them, so *)
(* that statements of different requests interleave.                       *)
(***************************************************************************)
EXTENDS Naturals, FiniteSets

CONSTANTS
    Task,          \* requests handled at a time
    AgencyId, FeedId,
    Text,          \* names, URLs, time zones and descriptions
    Absent,        \* no row
    Requests,      \* the requests clients make
    ListLimit,     \* the limit of list_all_feeds
    MaxRequests,   \* bound: requests in a behaviour
    MaxFaults      \* bound: statements that fail or whose reply is lost

Op == {"list_agencies", "create_agency", "update_agency", "create_feed",
       "list_all_feeds", "delete_feed"}

RequestType ==
    [op : Op, agency : AgencyId, feed : FeedId, name : Text, url : Text,
     timezone : Text]

ASSUME ExampleAssumption ==
    /\ Requests \subseteq RequestType
    /\ Absent \notin [name : Text, url : Text, timezone : Text]
    /\ Absent \notin [agency : AgencyId, description : Text]
    /\ ListLimit \in Nat /\ MaxRequests \in Nat /\ MaxFaults \in Nat

VARIABLES
    schema,     \* the tables there are
    agency,     \* per id: the row of the agency table, or Absent
    feed,       \* per id: the row of the feed table, or Absent
    pc,         \* per task: the statement it runs next
    req,        \* per task: its request
    result,     \* per task: what its last request was answered
    requests,   \* requests made so far
    faults,     \* faults so far
    wrote       \* history: the requests that changed a table

tables == <<schema, agency, feed>>
vars == <<tables, pc, req, result, requests, faults, wrote>>

AgencyRow == [name : Text, url : Text, timezone : Text]
FeedRow == [agency : AgencyId, description : Text]

Answer ==
    {"none", "ok", "not found", "duplicate", "unmapped", "failed"}

NoRequest == [q |-> Absent, id |-> 0]

Init ==
    /\ schema = {}
    /\ agency = [a \in AgencyId |-> Absent]
    /\ feed = [f \in FeedId |-> Absent]
    /\ pc = [t \in Task |-> "idle"]
    /\ req = [t \in Task |-> NoRequest]
    /\ result = [t \in Task |-> "none"]
    /\ requests = 0 /\ faults = 0
    /\ wrote = {}

-----------------------------------------------------------------------------
(* The router hands a request to its handler, which begins with
   ensure_schema. *)
Request(t, q) ==
    /\ pc[t] = "idle" /\ requests < MaxRequests
    /\ requests' = requests + 1
    /\ pc' = [pc EXCEPT ![t] = "create agency table"]
    /\ req' = [req EXCEPT ![t] = [q |-> q, id |-> requests + 1]]
    /\ result' = [result EXCEPT ![t] = "none"]
    /\ UNCHANGED <<tables, faults, wrote>>

(***************************************************************************)
(* A statement takes effect, and the handler goes on to another one or     *)
(* answers.  "lost" says that the reply of the statement is lost: the      *)
(* handler then ends with an error, whatever the statement did.            *)
(***************************************************************************)
Reply(t, lost, answer) ==
    /\ pc' = [pc EXCEPT ![t] = "idle"]
    /\ result' = [result EXCEPT ![t] = IF lost THEN "failed" ELSE answer]

Goto(t, lost, p) ==
    \/ lost /\ Reply(t, lost, "failed")
    \/ ~lost /\ pc' = [pc EXCEPT ![t] = p] /\ UNCHANGED result

Writes(t) == wrote' = wrote \cup {req[t].id}

Reads == UNCHANGED <<tables, wrote>>

AfterSchema(t) == IF req[t].q.op = "create_feed" THEN "lookup" ELSE "main"

(* Mutant: the second table is forgotten. *)
CreateAgencyTable(t, lost) ==
    /\ pc[t] = "create agency table"
    /\ schema' = schema \cup {"agency"}
    /\ Goto(t, lost, AfterSchema(t))
    /\ UNCHANGED <<agency, feed, wrote>>

CreateTable(t, lost) ==
    /\ \/ /\ pc[t] = "create agency table"
          /\ schema' = schema \cup {"agency"}
          /\ Goto(t, lost, "create feed table")
       \/ /\ pc[t] = "create feed table"
          /\ schema' = schema \cup {"feed"}
          /\ Goto(t, lost, AfterSchema(t))
    /\ UNCHANGED <<agency, feed, wrote>>

Main(t, op) == pc[t] = "main" /\ req[t].q.op = op

ListAgencies(t, lost) ==
    /\ Main(t, "list_agencies")
    /\ Reply(t, lost, "ok")
    /\ Reads

CreateAgency(t, lost) ==
    LET q == req[t].q
    IN  /\ Main(t, "create_agency")
        /\ \/ /\ agency[q.agency] # Absent
              /\ Reply(t, lost, "duplicate")
              /\ Reads
           \/ /\ agency[q.agency] = Absent
              /\ agency' = [agency EXCEPT ![q.agency] =
                              [name |-> q.name, url |-> q.url,
                               timezone |-> q.timezone]]
              /\ Reply(t, lost, "ok")
              /\ Writes(t)
              /\ UNCHANGED <<schema, feed>>

(* Mutant: the time zone is not set. *)
Renamed(row, q) == [row EXCEPT !.name = q.name]

Updated(row, q) == [row EXCEPT !.name = q.name, !.timezone = q.timezone]

(* Mutant: the number of rows affected is not looked at. *)
AlwaysFound(answer) == "ok"

RowsAffected(answer) == answer

UpdateAgency(t, lost) ==
    LET q == req[t].q
    IN  /\ Main(t, "update_agency")
        /\ \/ /\ agency[q.agency] = Absent
              /\ Reply(t, lost, RowsAffected("not found"))
              /\ Reads
           \/ /\ agency[q.agency] # Absent
              /\ agency' = [agency EXCEPT ![q.agency] = Updated(@, q)]
              /\ Reply(t, lost, "ok")
              /\ Writes(t)
              /\ UNCHANGED <<schema, feed>>

(* Mutant: whatever the lookup finds, the feed is inserted. *)
LookupIgnored(t, lost) ==
    /\ pc[t] = "lookup"
    /\ Goto(t, lost, "main")
    /\ Reads

Lookup(t, lost) ==
    /\ pc[t] = "lookup"
    /\ \/ agency[req[t].q.agency] = Absent /\ Reply(t, lost, "not found")
       \/ agency[req[t].q.agency] # Absent /\ Goto(t, lost, "main")
    /\ Reads

CreateFeed(t, lost) ==
    LET q == req[t].q
    IN  /\ Main(t, "create_feed")
        /\ \/ /\ feed[q.feed] # Absent
              /\ Reply(t, lost, "duplicate")
              /\ Reads
           \/ /\ feed[q.feed] = Absent
              /\ feed' = [feed EXCEPT ![q.feed] =
                            [agency |-> q.agency, description |-> q.name]]
              /\ Reply(t, lost, "ok")
              /\ Writes(t)
              /\ UNCHANGED <<schema, agency>>

Feeds == {f \in FeedId : feed[f] # Absent}

(* The newest feeds, which the model does not tell from others.  The left
   join gives a feed without an agency no agency_name, which from_row
   refuses: one such row fails the request. *)
ListAllFeeds(t, lost) ==
    /\ Main(t, "list_all_feeds")
    /\ \E listed \in SUBSET Feeds :
         /\ \/ Cardinality(listed) = ListLimit
            \/ listed = Feeds /\ Cardinality(listed) < ListLimit
         /\ Reply(t, lost, IF \A f \in listed : agency[feed[f].agency] # Absent
                             THEN "ok" ELSE "unmapped")
    /\ Reads

DeleteFeed(t, lost) ==
    LET q == req[t].q
    IN  /\ Main(t, "delete_feed")
        /\ \/ /\ feed[q.feed] = Absent
              /\ Reply(t, lost, RowsAffected("not found"))
              /\ Reads
           \/ /\ feed[q.feed] # Absent
              /\ feed' = [feed EXCEPT ![q.feed] = Absent]
              /\ Reply(t, lost, "ok")
              /\ Writes(t)
              /\ UNCHANGED <<schema, agency>>

Handle(t, lost) ==
    \/ ListAgencies(t, lost) \/ CreateAgency(t, lost) \/ UpdateAgency(t, lost)
    \/ Lookup(t, lost) \/ CreateFeed(t, lost) \/ ListAllFeeds(t, lost)
    \/ DeleteFeed(t, lost)

Runs(t, lost) == CreateTable(t, lost) \/ Handle(t, lost)

Step(t) ==
    /\ Runs(t, FALSE)
    /\ UNCHANGED <<req, requests, faults>>

(* A statement fails, or its reply is lost. *)
Fault(t) ==
    /\ pc[t] # "idle" /\ faults < MaxFaults
    /\ faults' = faults + 1
    /\ \/ Runs(t, TRUE)
       \/ Reply(t, TRUE, "failed") /\ Reads
    /\ UNCHANGED <<req, requests>>

Next ==
    \E t \in Task :
      \/ \E q \in Requests : Request(t, q)
      \/ Step(t) \/ Fault(t)

Spec == Init /\ [][Next]_vars

-----------------------------------------------------------------------------
(* The variables keep their types. *)
TypeOK ==
    /\ schema \subseteq {"agency", "feed"}
    /\ agency \in [AgencyId -> AgencyRow \cup {Absent}]
    /\ feed \in [FeedId -> FeedRow \cup {Absent}]
    /\ pc \in [Task -> {"idle", "create agency table", "create feed table",
                        "lookup", "main"}]
    /\ req \in [Task -> [q : Requests \cup {Absent}, id : Nat]]
    /\ \A t \in Task : pc[t] # "idle" => req[t].q \in Requests
    /\ result \in [Task -> Answer]
    /\ requests \in Nat /\ faults \in Nat
    /\ wrote \subseteq Nat

(* Every feed has its agency: create_feed looks the agency up in a statement
   of its own, before the insert, with no foreign key to back it. *)
FeedsHaveAgencies == \A f \in Feeds : agency[feed[f].agency] # Absent

(* The feeds can be listed, although their agency_name is not optional. *)
FeedsMapped == \A t \in Task : result[t] # "unmapped"

(* No handler runs a statement on a table that is not there, although each
   request creates the tables in two statements that may fail. *)
SchemaFirst ==
    \A t \in Task : pc[t] \in {"lookup", "main"} => {"agency", "feed"} \subseteq schema

(* What a client is told is what its request did: ok when it wrote, "not
   found" and "duplicate" when it did not; a read never writes. *)
Told(t) ==
    LET wrotes == req[t].id \in wrote
        op == req[t].q.op
    IN  /\ op \in {"list_agencies", "list_all_feeds"} => ~wrotes
        /\ result[t] \in {"not found", "duplicate"} => ~wrotes
        /\ result[t] = "ok" /\ op \notin {"list_agencies", "list_all_feeds"}
             => wrotes
        /\ pc[t] # "idle" => ~wrotes

AnswersTrue == \A t \in Task : req[t] # NoRequest => Told(t)

(* An agency is what somebody asked for: its name and time zone come from one
   request, and its URL is the one it was created with, however updates
   interleave. *)
AgencyAsAsked ==
    \A a \in AgencyId : agency[a] # Absent =>
      /\ \E q \in Requests :
           /\ q.op \in {"create_agency", "update_agency"} /\ q.agency = a
           /\ q.name = agency[a].name /\ q.timezone = agency[a].timezone
      /\ \E q \in Requests :
           /\ q.op = "create_agency" /\ q.agency = a
           /\ q.url = agency[a].url

=============================================================================
