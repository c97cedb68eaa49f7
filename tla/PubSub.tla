------------------------------- MODULE PubSub -------------------------------
(***************************************************************************)
(* An event's way through crates/dapr: Publish::send, the broker, and the  *)
(* bridge of axum.rs, which decodes a delivery, dispatches it to the       *)
(* handler of its topic and answers SUCCESS, RETRY or DROP.  The broker is *)
(* Dapr as the bridge takes it: it delivers an event until the answer is   *)
(* SUCCESS or DROP, gives up on an answer that is late, and does not care  *)
(* that the bridge goes on handling what it gave up on.                    *)
(***************************************************************************)
EXTENDS CloudEvents, Integers

CONSTANTS
    Publisher,   \* tasks that call send
    Messages,    \* what they send: [topic, payload]
    Foreign,     \* events other programs publish
    Registered,  \* topics that have a handler
    Slot,        \* deliveries the broker makes at a time
    MaxSends,    \* bound: calls of send
    MaxForeign,  \* bound: events there are when a foreign one is added
    MaxFaults    \* bound: rejections, timeouts and crashes

(* Topics are sequences of characters; "%" stands for an escape %XX, of another
   character than a slash, that is part of a topic.  A broker puts nothing but
   JSON into the data of JSON content. *)
ASSUME PubSubAssumption ==
    /\ MaxSends \in Nat /\ MaxForeign \in Nat /\ MaxFaults \in Nat
    /\ \A topic \in Registered \cup {m.topic : m \in Messages}
                               \cup {e.topic : e \in Foreign} :
         topic \in Seq(STRING) /\ topic # <<>>
    /\ \A m \in Messages : m.payload \in Text
    /\ \A e \in Foreign :
         /\ e.form \in Forms(e.datatype) \cup DamagedForms
         /\ e.datatype \in {"json", "text", "octets", Absent}
         /\ e.payload \in Text
         /\ e.form = "inline" /\ e.datatype # "text" =>
              e.payload = <<>> \/ IsJson(e.payload)

VARIABLES
    call,       \* per publisher: its send
    late,       \* messages whose send has failed and that may still arrive
    events,     \* all events the broker accepted, in order
    status,     \* per event: what has become of it
    slot,       \* per slot: the delivery at the bridge
    sends, faults,
    confirmed,  \* history: the events of the sends that returned Ok
    handled     \* history: what handlers have completed

vars == <<call, late, events, status, slot, sends, faults, confirmed, handled>>

-----------------------------------------------------------------------------
NoCall == [pc |-> "idle", message |-> Absent, reply |-> "none", event |-> 0]

Free ==
    [pc |-> "free", event |-> 0, delivery |-> Absent, ack |-> "none",
     abandoned |-> FALSE]

Init ==
    /\ call = [p \in Publisher |-> NoCall]
    /\ late = {}
    /\ events = <<>> /\ status = <<>>
    /\ slot = [s \in Slot |-> Free]
    /\ sends = 0 /\ faults = 0
    /\ confirmed = {} /\ handled = {}

Fault == faults < MaxFaults /\ faults' = faults + 1

-----------------------------------------------------------------------------
(***************************************************************************)
(* Publish::send: one POST, of octets, with no retry.                      *)
(***************************************************************************)
Send(p) ==
    /\ call[p].pc = "idle" /\ sends < MaxSends
    /\ sends' = sends + 1
    /\ \E m \in Messages :
         call' = [call EXCEPT ![p] = [pc |-> "sent", message |-> m,
                                      reply |-> "none", event |-> 0]]
    /\ UNCHANGED <<late, events, status, slot, faults, confirmed, handled>>

Event(m, form) ==
    [topic |-> m.topic, named |-> m.topic, datatype |-> "octets",
     payload |-> m.payload, form |-> form]

Enqueue(e) ==
    /\ events' = Append(events, e)
    /\ status' = Append(status, "queued")

Accept(p) ==
    /\ call[p].pc = "sent"
    /\ \E form \in Forms("octets") : Enqueue(Event(call[p].message, form))
    /\ call' = [call EXCEPT ![p].pc = "answered", ![p].reply = "success",
                            ![p].event = Len(events')]
    /\ UNCHANGED <<late, slot, sends, faults, confirmed, handled>>

(* The broker knows no such pubsub or topic (404), or fails. *)
Refuse(p) ==
    /\ call[p].pc = "sent"
    /\ \E reply \in {"notFound", "error"} :
         call' = [call EXCEPT ![p].pc = "answered", ![p].reply = reply]
    /\ UNCHANGED <<late, events, status, slot, sends, faults, confirmed, handled>>

(* Mutant: a 404 passes, as it may for a delete. *)
NotFoundPasses(reply) == reply \in {"success", "notFound"}

EnsureSuccess(reply) == reply = "success"

Return(p) ==
    /\ call[p].pc = "answered"
    /\ confirmed' = IF EnsureSuccess(call[p].reply)
                    THEN confirmed \cup {call[p].event} ELSE confirmed
    /\ call' = [call EXCEPT ![p] = NoCall]
    /\ UNCHANGED <<late, events, status, slot, sends, faults, handled>>

(* The transport fails: the request, or the reply to it, may be lost, or the
   request is yet to arrive. *)
SendFails(p) ==
    /\ call[p].pc \in {"sent", "answered"}
    /\ late' = IF call[p].pc = "sent" THEN late \cup {call[p].message} ELSE late
    /\ call' = [call EXCEPT ![p] = NoCall]
    /\ UNCHANGED <<events, status, slot, sends, faults, confirmed, handled>>

LateArrival(m) ==
    /\ late' = late \ {m}
    /\ \E form \in Forms("octets") : Enqueue(Event(m, form))
    /\ UNCHANGED <<call, slot, sends, faults, confirmed, handled>>

ForeignPublish(e) ==
    /\ Len(events) < MaxForeign
    /\ Enqueue(e)
    /\ UNCHANGED <<call, late, slot, sends, faults, confirmed, handled>>

-----------------------------------------------------------------------------
(***************************************************************************)
(* The broker: it waits for one answer per event at a time.                *)
(***************************************************************************)
Awaited(i) == \E s \in Slot : slot[s].event = i /\ ~slot[s].abandoned

Deliver(s, i) ==
    /\ slot[s].pc = "free"
    /\ status[i] = "queued" /\ ~Awaited(i)
    /\ slot' = [slot EXCEPT ![s] =
                  [pc |-> "arrived", event |-> i, delivery |-> Absent,
                   ack |-> "none", abandoned |-> FALSE]]
    /\ UNCHANGED <<call, late, events, status, sends, faults, confirmed, handled>>

(* RETRY, or any answer to a delivery given up on, leaves the event queued. *)
TakeAnswer(s) ==
    /\ slot[s].pc = "answered"
    /\ status' = IF slot[s].abandoned \/ slot[s].ack = "RETRY" THEN status
                 ELSE [status EXCEPT ![slot[s].event] = slot[s].ack]
    /\ slot' = [slot EXCEPT ![s] = Free]
    /\ UNCHANGED <<call, late, events, sends, faults, confirmed, handled>>

GiveUp(s) ==
    /\ slot[s].pc # "free" /\ ~slot[s].abandoned /\ Fault
    /\ slot' = [slot EXCEPT ![s].abandoned = TRUE]
    /\ UNCHANGED <<call, late, events, status, sends, confirmed, handled>>

(* The bridge's process dies with every delivery it holds, and restarts. *)
Crash ==
    /\ \E s \in Slot : slot[s].pc # "free"
    /\ Fault
    /\ slot' = [s \in Slot |-> Free]
    /\ UNCHANGED <<call, late, events, status, sends, confirmed, handled>>

-----------------------------------------------------------------------------
(***************************************************************************)
(* The bridge: deliver_event up to its await, and after it.                *)
(***************************************************************************)
(* The bridge lists a route that ends with the topic as it is, and the broker
   posts to it: a "?" or "#" ends the path there. *)
RoutePath(topic) ==
    LET ends == {i \in DOMAIN topic : topic[i] \in {"?", "#"}}
    IN  IF ends = {} THEN topic ELSE SubSeq(topic, 1, Min(ends) - 1)

(* The path extractor replaces an escape by the character it stands for;
   deliver_event strips the slashes the name begins with.  A route that names
   nothing is not served, which the broker takes for a DROP. *)
RouteTopic(topic) ==
    LET path  == RoutePath(topic)
        Char(i) == IF path[i] = "%" THEN "decoded" ELSE path[i]
        named == {i \in DOMAIN path : Char(i) # "/"}
    IN  IF named = {} THEN <<>>
        ELSE [i \in 1 .. (Len(path) - Min(named) + 1) |-> Char(i + Min(named) - 1)]

(* Mutant: what a handler rejects is done with. *)
RejectedIsDone(outcome) ==
    IF outcome \in {"ok", "rejected"} THEN "SUCCESS" ELSE "DROP"

(* Mutant: what a handler rejects is dropped. *)
RejectedIsDropped(outcome) == IF outcome = "ok" THEN "SUCCESS" ELSE "DROP"

(* Mutant: what does not decode is asked for again. *)
UndecodableRetried(outcome) ==
    CASE outcome = "ok" -> "SUCCESS"
      [] outcome = "unhandled" -> "DROP"
      [] outcome \in {"rejected", "undecodable"} -> "RETRY"

Ack(outcome) ==
    CASE outcome = "ok" -> "SUCCESS"
      [] outcome \in {"unhandled", "undecodable"} -> "DROP"
      [] outcome = "rejected" -> "RETRY"

Answered(s, outcome) ==
    [slot EXCEPT ![s].pc = "answered", ![s].ack = Ack(outcome)]

DeliverEvent(s) ==
    LET e   == events[slot[s].event]
        req == Encode(e)
        delivery == Decode(req, RouteTopic(e.topic))
    IN  /\ slot[s].pc = "arrived"
        /\ \/ /\ ~Decodes(req)
              /\ slot' = Answered(s, "undecodable")
           \/ /\ Decodes(req) /\ delivery.topic \notin Registered
              /\ slot' = Answered(s, "unhandled")
           \/ /\ Decodes(req) /\ delivery.topic \in Registered
              /\ slot' = [slot EXCEPT ![s].pc = "handling",
                                      ![s].delivery = delivery]
        /\ UNCHANGED <<call, late, events, status, sends, faults, confirmed,
                       handled>>

HandlerDone(s) ==
    /\ slot[s].pc = "handling"
    /\ handled' = handled \cup {[event |-> slot[s].event,
                                 delivery |-> slot[s].delivery]}
    /\ slot' = Answered(s, "ok")
    /\ UNCHANGED <<call, late, events, status, sends, faults, confirmed>>

HandlerRejects(s) ==
    /\ slot[s].pc = "handling" /\ Fault
    /\ slot' = Answered(s, "rejected")
    /\ UNCHANGED <<call, late, events, status, sends, confirmed, handled>>

-----------------------------------------------------------------------------
Bridge(s) == DeliverEvent(s) \/ HandlerDone(s) \/ HandlerRejects(s)

Next ==
    \/ \E p \in Publisher :
         Send(p) \/ Accept(p) \/ Refuse(p) \/ Return(p) \/ SendFails(p)
    \/ \E m \in late : LateArrival(m)
    \/ \E e \in Foreign : ForeignPublish(e)
    \/ \E s \in Slot, i \in DOMAIN events : Deliver(s, i)
    \/ \E s \in Slot : Bridge(s) \/ TakeAnswer(s) \/ GiveUp(s)
    \/ Crash

Spec == Init /\ [][Next]_vars

(* The broker keeps delivering what is queued and reads the answers; the
   bridge's executor polls a request it has accepted, and handlers end. *)
Fairness ==
    /\ \A i \in 1..(MaxSends + MaxForeign) :
         WF_vars(i \in DOMAIN events /\ \E s \in Slot : Deliver(s, i))
    /\ \A s \in Slot : WF_vars(Bridge(s)) /\ WF_vars(TakeAnswer(s))

FairSpec == Spec /\ Fairness

-----------------------------------------------------------------------------
Settled == {"SUCCESS", "DROP"}

(* Everything has its type; a handler runs only for its topic, on a payload
   that decoded. *)
TypeOK ==
    /\ \A p \in Publisher :
         /\ call[p].pc \in {"idle", "sent", "answered"}
         /\ call[p].message \in Messages \cup {Absent}
         /\ call[p].event \in 0..Len(events)
    /\ late \subseteq Messages
    /\ Len(status) = Len(events)
    /\ \A i \in DOMAIN events :
         /\ events[i] \in Foreign \cup
              {Event(m, form) : m \in Messages, form \in Forms("octets")}
         /\ status[i] \in {"queued"} \cup Settled
    /\ \A s \in Slot :
         /\ slot[s].pc \in {"free", "arrived", "handling", "answered"}
         /\ slot[s].event \in 0..Len(events)
         /\ slot[s].ack \in {"none", "RETRY"} \cup Settled
         /\ slot[s].pc = "handling" =>
              /\ slot[s].delivery.topic \in Registered
              /\ slot[s].delivery.payload \notin {Absent, Damaged}
    /\ sends \in 0..MaxSends /\ faults \in 0..MaxFaults

(* A topic that its route names: nothing in it has a meaning in a URL, and no
   slash is stripped. *)
Literal(topic) ==
    /\ Head(topic) # "/"
    /\ \A i \in DOMAIN topic : topic[i] \notin {"?", "#", "%"}

JsonInline(e) == e.form = "inline" /\ e.datatype \in {"json", Absent}

(* A request that asking again does not make readable. *)
Unreadable(e) ==
    e.form \in DamagedForms \/ (JsonInline(e) /\ Is("unread", e.payload))

(* What the handler of an event is to be given: the bytes published, but of
   JSON in a JSON envelope only the value, in serde_json's spelling, and for
   null nothing. *)
Carried(e) ==
    CASE ~JsonInline(e) -> e.payload
      [] JsonInline(e) /\ Rewritten(e.payload) = <<"null">> -> <<>>
      [] OTHER -> Rewritten(e.payload)

(* A handler is given what was published: the payload byte for byte in the body
   of a request, in base64 and as a text in a JSON string, and the same value
   as JSON in a JSON envelope; and under the topic it was published to, whatever
   topic its envelope names, if the route names that topic. *)
HandledAsPublished ==
    \A h \in handled :
        LET e == events[h.event]
        IN  /\ h.delivery.payload = Carried(e)
            /\ Literal(e.topic) => h.delivery.topic = e.topic
            /\ ~Unreadable(e)

(* The broker forgets an event as successful only when a handler has completed
   it, through rejections, late answers and crashes. *)
SuccessWasHandled ==
    \A i \in DOMAIN events :
        status[i] = "SUCCESS" => \E h \in handled : h.event = i

(* An event is dropped only when asking again cannot help: its request cannot
   be read, or its topic has no handler, or is not the one its route names. *)
DropOnlyHopeless ==
    \A i \in DOMAIN events : status[i] = "DROP" =>
        \/ Unreadable(events[i])
        \/ events[i].topic \notin Registered \/ ~Literal(events[i].topic)

(* Every send that returned Ok on a topic with a handler, and which its route
   names, is handled in the end, with the payload that was sent.  What is
   confirmed or handled stays so: "again and again" is "from some time on". *)
SentIsHandled ==
    []<>(\A i \in confirmed :
            /\ i \in DOMAIN events
            /\ LET e == events[i]
               IN  e.topic \in Registered /\ Literal(e.topic) =>
                     [event |-> i, delivery |->
                        [topic |-> e.topic, payload |-> e.payload]] \in handled)

(* No event stays with the broker forever, to be delivered again and again. *)
EveryEventSettles ==
    []<>(\A i \in DOMAIN events : status[i] \in Settled)

=============================================================================
