---------------------------- MODULE PubSubProofs ----------------------------
(***************************************************************************)
(* Theorems about PubSub: what a handler is given, and what SUCCESS and    *)
(* DROP mean, for any publishers, events, topics, payloads, number of      *)
(* deliveries at a time, and bounds.                                       *)
(***************************************************************************)
EXTENDS PubSub, SequenceTheorems, TLAPS

-----------------------------------------------------------------------------
(***************************************************************************)
(* What deliver_event makes of an event.                                   *)
(***************************************************************************)

(* A topic is a text too, and so not the absence of one. *)
LEMMA TopicIsThere ==
    ASSUME NEW topic \in Seq(STRING)
    PROVE  topic # Absent
<1>1. topic \in Text
  BY DEF Text
<1> QED BY <1>1, CloudEventsAssumption

(* A route gives back the topic it was made of, if that topic is literal. *)
LEMMA RouteOfTopic ==
    ASSUME NEW topic \in Seq(STRING), topic # <<>>, Literal(topic)
    PROVE  RouteTopic(topic) = topic
<1>1. RoutePath(topic) = topic
  BY DEF RoutePath, Literal
<1> DEFINE Char(i) == IF topic[i] = "%" THEN "decoded" ELSE topic[i]
           named == {i \in DOMAIN topic : Char(i) # "/"}
<1>2. \A i \in 1 .. Len(topic) : Char(i) = topic[i]
  BY DEF Literal
<1>3. 1 \in named /\ \A i \in named : 1 <= i
  BY <1>2 DEF Literal
<1>4. Min(named) = 1
  <2>1. \A x \in named : (\A y \in named : x <= y) => x = 1
    BY <1>3
  <2> HIDE DEF named
  <2> QED BY <1>3, <2>1 DEF Min
<1>5. RouteTopic(topic) =
        [i \in 1 .. (Len(topic) - Min(named) + 1) |-> Char(i + Min(named) - 1)]
  BY <1>1, <1>3 DEF RouteTopic
<1>6. RouteTopic(topic) = [i \in 1 .. Len(topic) |-> topic[i]]
  <2> DEFINE n == Len(topic)
  <2>1. n \in Nat /\ n - 1 + 1 = n /\ \A i \in 1 .. n : i + 1 - 1 = i
    OBVIOUS
  <2> HIDE DEF n, named
  <2> QED BY <1>2, <1>4, <1>5, <2>1 DEF n
<1> QED BY <1>6

(* The events there can be. *)
AnyEvent ==
    Foreign \cup {Event(m, form) : m \in Messages, form \in Forms("octets")}

LEMMA EventFacts ==
    ASSUME NEW e \in AnyEvent
    PROVE  /\ e.form \in {"binary", "base64", "inline"} \cup DamagedForms
           /\ e.form = "inline" => e.datatype # "octets"
           /\ e.datatype \in {"json", "text", "octets", Absent}
           /\ e.payload \in Text
           /\ e.payload # Damaged /\ e.payload # Absent
           /\ Literal(e.topic) => RouteTopic(e.topic) = e.topic
           /\ e.topic # Absent
<1>1. CASE e \in Foreign
  <2>1. /\ e.form \in Forms(e.datatype) \cup DamagedForms
        /\ e.datatype \in {"json", "text", "octets", Absent}
        /\ e.payload \in Text
        /\ e.topic \in Seq(STRING) /\ e.topic # <<>>
    BY <1>1, PubSubAssumption
  <2>2. e.form = "inline" => e.datatype # "octets"
    BY <2>1 DEF Forms, DamagedForms
  <2> QED BY <2>1, <2>2, RouteOfTopic, TopicIsThere, CloudEventsAssumption DEF Forms
<1>2. CASE e \in {Event(m, form) : m \in Messages, form \in Forms("octets")}
  <2>1. PICK m \in Messages, form \in Forms("octets") : e = Event(m, form)
    BY <1>2
  <2>2. m.payload \in Text /\ m.topic \in Seq(STRING) /\ m.topic # <<>>
    BY PubSubAssumption
  <2>3. /\ e.topic = m.topic /\ e.datatype = "octets" /\ e.payload = m.payload
        /\ e.form \in {"binary", "base64"}
    BY <2>1 DEF Event, Forms
  <2> QED BY <2>2, <2>3, RouteOfTopic, TopicIsThere, CloudEventsAssumption
<1> QED
  BY <1>1, <1>2 DEF AnyEvent

(* Parsing JSON and writing it again keeps it a text. *)
LEMMA CarriedIsText ==
    ASSUME NEW e \in AnyEvent
    PROVE  Carried(e) \in Text
<1>1. e.payload \in Text
  BY EventFacts
<1>2. Rewritten(e.payload) \in Text
  <2> DEFINE text == e.payload
  <2>1. text \in Text
    BY <1>1
  <2> HIDE DEF text
  <2>2. text # <<>> => Tail(text) \in Text
    BY <2>1 DEF Text
  <2> QED BY <2>1, <2>2 DEF Rewritten, Is, text
<1>3. <<>> \in Text
  BY DEF Text
<1> DEFINE json == JsonInline(e)
           nil == Rewritten(e.payload) = <<"null">>
<1>4. Carried(e) \in {e.payload, <<>>, Rewritten(e.payload)}
  <2> HIDE DEF json, nil
  <2>1. Carried(e) = CASE ~json -> e.payload
                       [] json /\ nil -> <<>>
                       [] OTHER -> Rewritten(e.payload)
    BY DEF Carried, json, nil
  <2> QED BY <2>1
<1> QED BY <1>1, <1>2, <1>3, <1>4

(* A sequence with something put before it. *)
LEMMA PutBefore ==
    ASSUME NEW S, NEW first \in S, NEW rest \in Seq(S)
    PROVE  LET s == <<first>> \o rest
           IN  s \in Seq(S) /\ s # <<>> /\ Head(s) = first /\ Tail(s) = rest
<1> DEFINE s == <<first>> \o rest
           t == Tail(s)
           n == Len(rest)
<1>1. s \in Seq(S) /\ Len(s) = 1 + n /\ n \in Nat
  OBVIOUS
<1>2. s # <<>> /\ s[1] = first /\ \A i \in 1 .. n : s[i + 1] = rest[i]
  OBVIOUS
<1>3. Head(s) = first
  <2> HIDE DEF s
  <2> QED BY <1>1, <1>2
<1>4. t \in Seq(S) /\ Len(t) = n /\ \A i \in 1 .. n : t[i] = rest[i]
  <2> HIDE DEF s, n
  <2>1. /\ t \in Seq(S) /\ Len(t) = Len(s) - 1
        /\ \A i \in 1 .. Len(t) : t[i] = s[i + 1]
    BY <1>1, <1>2, HeadTailProperties
  <2>2. Len(t) = n
    BY <1>1, <2>1
  <2> HIDE DEF t
  <2> QED BY <1>2, <2>1, <2>2
<1>5. t = rest
  <2> HIDE DEF t
  <2> QED BY <1>4, SeqEqual
<1> QED BY <1>1, <1>2, <1>3, <1>5

(* A text in a JSON string is what the string holds. *)
LEMMA TextInverts ==
    ASSUME NEW text \in Text, NEW datatype, ~IsJsonData(datatype)
    PROVE  LET v == <<"string">> \o text
           IN  /\ v \in Text
               /\ DataPayload(Rewritten(v), datatype) = text /\ ~Is("unread", v)
<1> DEFINE v == <<"string">> \o text
<1>1. v \in Text /\ v # <<>> /\ Head(v) = "string" /\ Tail(v) = text
  <2>1. "string" \in JsonKind \cup STRING
    BY DEF JsonKind
  <2> QED BY <2>1, PutBefore DEF Text
<1>2. v # <<"null">>
  <2> HIDE DEF v
  <2>1. Head(<<"null">>) # "string"
    OBVIOUS
  <2> QED BY <1>1, <2>1
<1> HIDE DEF v
<1>3. Is("string", v) /\ ~Is("respelled", v) /\ ~Is("unread", v)
  BY <1>1 DEF Is
<1> QED BY <1>1, <1>2, <1>3 DEF Rewritten, DataPayload, v

(* The data of an event that travels in a JSON envelope. *)
LEMMA InlineFacts ==
    ASSUME NEW e \in AnyEvent, e.form = "inline"
    PROVE  LET env == Encode(e).envelope
           IN  /\ Encode(e).media = "cloudevents" /\ env.shape = "object"
               /\ env.base64 = Absent /\ env.data = Inline(e)
               /\ env.datatype = e.datatype /\ Inline(e) # Absent
<1>1. Inline(e) # Absent
  <2>1. CASE e.datatype = "text"
    <3>1. ~IsJsonData(e.datatype)
      BY <2>1, CloudEventsAssumption DEF IsJsonData
    <3>2. <<"string">> \o e.payload \in Text
      BY <3>1, EventFacts, TextInverts
    <3>3. Inline(e) = <<"string">> \o e.payload
      BY <2>1 DEF Inline
    <3> QED BY <3>2, <3>3, CloudEventsAssumption
  <2>2. CASE e.datatype # "text" /\ e.payload = <<>>
    <3>1. "null" \in JsonKind \cup STRING
      BY DEF JsonKind
    <3>2. <<"null">> \in Text
      BY <3>1 DEF Text
    <3> QED BY <2>2, <3>2, CloudEventsAssumption DEF Inline
  <2>3. CASE e.datatype # "text" /\ e.payload # <<>>
    BY <2>3, EventFacts DEF Inline
  <2> QED BY <2>1, <2>2, <2>3
<1>2. Encode(e) = [Structured(e) EXCEPT !.envelope.data = Inline(e)]
  BY DEF Encode
<1> QED
  BY <1>1, <1>2, CloudEventsAssumption DEF Structured, NoEnvelope

(* The decoder gives back the payload, whichever form carries it, but of JSON in
   a JSON envelope only the value. *)
LEMMA DecodeInverts ==
    ASSUME NEW e \in AnyEvent, Decodes(Encode(e))
    PROVE  LET d == Decode(Encode(e), RouteTopic(e.topic))
           IN  /\ d.payload = Carried(e)
               /\ Literal(e.topic) => d.topic = e.topic
               /\ ~Unreadable(e)
<1> DEFINE req == Encode(e)
           d == Decode(req, RouteTopic(e.topic))
<1>1. Literal(e.topic) => d.topic = e.topic
  BY EventFacts DEF Decode, DeliveryTopic
<1>2. CASE e.form = "binary"
  <2>1. req.media = e.datatype /\ req.body = e.payload
    BY <1>2 DEF Encode
  <2>2. ~IsStructured(req)
    BY <2>1, EventFacts, CloudEventsAssumption DEF IsStructured
  <2>3. d.payload = Carried(e)
    BY <1>2, <2>1, <2>2 DEF Decode, Carried, JsonInline
  <2> QED BY <1>1, <1>2, <2>3 DEF Unreadable, JsonInline, DamagedForms
<1>3. CASE e.form = "base64"
  <2>1. req.media = "cloudevents" /\ req.envelope.base64 = e.payload
    BY <1>3 DEF Encode, Structured, NoEnvelope
  <2>2. d.payload = e.payload
    BY <2>1, EventFacts DEF Decode, IsStructured, StructuredPayload
  <2>3. d.payload = Carried(e)
    BY <1>3, <2>2 DEF Carried, JsonInline
  <2> QED BY <1>1, <1>3, <2>3 DEF Unreadable, JsonInline, DamagedForms
<1>4. CASE e.form = "inline"
  <2>1. IsStructured(req) /\ req.envelope.data # Absent
    BY <1>4, InlineFacts DEF IsStructured
  <2>2. ~Is("unread", Inline(e))
    BY <1>4, <2>1, InlineFacts DEF Decodes, Parses
  <2>3. d.payload = DataPayload(Rewritten(Inline(e)), e.datatype)
    BY <1>4, <2>1, InlineFacts DEF Decode, StructuredPayload
  <2>4. CASE e.datatype = "text"
    <3>1. Inline(e) = <<"string">> \o e.payload
      BY <2>4 DEF Inline
    <3>2. ~IsJsonData(e.datatype) /\ ~JsonInline(e)
      BY <2>4, CloudEventsAssumption DEF IsJsonData, JsonInline
    <3>3. d.payload = e.payload
      BY <2>3, <3>1, <3>2, EventFacts, TextInverts
    <3> QED BY <1>1, <1>4, <3>2, <3>3 DEF Carried, Unreadable, DamagedForms
  <2>5. CASE e.datatype # "text"
    <3>1. IsJsonData(e.datatype) /\ JsonInline(e)
      BY <1>4, <2>5, EventFacts DEF IsJsonData, JsonInline
    <3>2. CASE e.payload = <<>>
      <4>1. Inline(e) = <<"null">>
        BY <2>5, <3>2 DEF Inline
      <4>2. Rewritten(Inline(e)) = <<"null">> /\ Rewritten(e.payload) = <<>>
        BY <3>2, <4>1 DEF Rewritten, Is
      <4>3. d.payload = <<>> /\ Carried(e) = <<>>
        BY <2>3, <3>1, <4>2 DEF DataPayload, Carried
      <4> QED
        BY <1>1, <1>4, <3>2, <4>3 DEF Unreadable, Is, DamagedForms
    <3>3. CASE e.payload # <<>>
      <4>1. Inline(e) = e.payload
        BY <2>5, <3>3 DEF Inline
      <4>2. d.payload = Carried(e)
        BY <2>3, <3>1, <4>1 DEF DataPayload, Carried
      <4> QED
        BY <1>1, <1>4, <2>2, <4>1, <4>2 DEF Unreadable, DamagedForms
    <3> QED BY <3>2, <3>3
  <2> QED BY <2>4, <2>5
<1>5. e.form \notin DamagedForms
  BY DEF Decodes, Parses, IsStructured, Encode, Structured, NoEnvelope, DamagedForms
<1> QED BY <1>1, <1>2, <1>3, <1>4, <1>5, EventFacts

(* Only an unreadable event does not decode. *)
LEMMA WholeDecodes ==
    ASSUME NEW e \in AnyEvent, ~Decodes(Encode(e))
    PROVE  Unreadable(e)
<1>1. CASE e.form = "binary"
  BY <1>1, EventFacts, CloudEventsAssumption DEF Encode, Decodes, IsStructured
<1>2. CASE e.form = "base64"
  BY <1>2, EventFacts
     DEF Encode, Decodes, Parses, IsStructured, Structured, NoEnvelope
<1>3. CASE e.form = "inline"
  <2>1. Is("unread", Inline(e))
    BY <1>3, InlineFacts, CloudEventsAssumption DEF Decodes, Parses
  <2>2. e.datatype # "text"
    <3>1. e.datatype = "text" => Head(Inline(e)) = "string"
      BY EventFacts DEF Inline
    <3> QED BY <2>1, <3>1 DEF Is
  <2>3. e.payload # <<>>
    BY <2>1, <2>2 DEF Inline, Is
  <2>4. Is("unread", e.payload)
    BY <2>1, <2>2, <2>3 DEF Inline
  <2>5. JsonInline(e)
    BY <1>3, <2>2, EventFacts DEF JsonInline
  <2> QED BY <2>4, <2>5 DEF Unreadable
<1>4. CASE e.form \in DamagedForms
  BY <1>4 DEF Unreadable
<1> QED
  BY <1>1, <1>2, <1>3, <1>4, EventFacts

(* An event whose topic has a handler, and is literal, is dispatched to it. *)
LEMMA RegisteredDispatched ==
    ASSUME NEW e, NEW req, e.topic \in Registered, Literal(e.topic)
    PROVE  Decode(req, RouteTopic(e.topic)).topic \in Registered
<1>1. RouteTopic(e.topic) = e.topic
  BY RouteOfTopic, PubSubAssumption
<1> QED
  BY <1>1, PubSubAssumption, TopicIsThere DEF Decode, DeliveryTopic

-----------------------------------------------------------------------------
(***************************************************************************)
(* The inductive invariant: types, and what a slot knows that its answer   *)
(* will turn into a status.                                                *)
(***************************************************************************)
CallRecord ==
    [pc : {"idle", "sent", "answered"}, message : Messages \cup {Absent},
     reply : {"none", "success", "notFound", "error"}, event : Nat]

Deliveries ==
    {Absent} \cup {Decode(Encode(e), RouteTopic(e.topic)) : e \in AnyEvent}

SlotRecord ==
    [pc : {"free", "arrived", "handling", "answered"}, event : Nat,
     delivery : Deliveries, ack : {"none", "RETRY"} \cup Settled,
     abandoned : BOOLEAN]

Queue ==
    /\ events \in Seq(AnyEvent)
    /\ status \in Seq({"queued"} \cup Settled)
    /\ Len(status) = Len(events)

Callers ==
    /\ call \in [Publisher -> CallRecord]
    /\ \A p \in Publisher :
         /\ call[p].pc = "sent" => call[p].message \in Messages
         /\ call[p].event <= Len(events)
    /\ late \subseteq Messages
    /\ sends \in 0 .. MaxSends /\ faults \in 0 .. MaxFaults

Hopeless(i) ==
    \/ Unreadable(events[i])
    \/ events[i].topic \notin Registered \/ ~Literal(events[i].topic)

(* A handler has, or had, what was published. *)
AsPublished(i, delivery) ==
    /\ delivery.payload = Carried(events[i])
    /\ Literal(events[i].topic) => delivery.topic = events[i].topic
    /\ ~Unreadable(events[i])

SlotKnows(s) ==
    /\ slot[s].event <= Len(events)
    /\ slot[s].pc # "free" => slot[s].event \in 1 .. Len(events)
    /\ slot[s].pc = "handling" =>
         /\ slot[s].delivery.topic \in Registered
         /\ AsPublished(slot[s].event, slot[s].delivery)
    /\ slot[s].pc = "answered" =>
         /\ slot[s].ack # "none"
         /\ slot[s].ack = "SUCCESS" =>
              \E h \in handled : h.event = slot[s].event
         /\ slot[s].ack = "DROP" => Hopeless(slot[s].event)

Slots ==
    /\ slot \in [Slot -> SlotRecord]
    /\ \A s \in Slot : SlotKnows(s)

Handled ==
    \A h \in handled :
        h.event \in 1 .. Len(events) /\ AsPublished(h.event, h.delivery)

Inv ==
    /\ Queue /\ Callers /\ Slots /\ Handled
    /\ SuccessWasHandled /\ DropOnlyHopeless

LEMMA InvInit == Init => Inv
<1> SUFFICES ASSUME Init PROVE Inv
  OBVIOUS
<1>1. Queue
  BY DEF Init, Queue
<1>2. Callers
  BY PubSubAssumption DEF Init, Callers, CallRecord, NoCall
<1>3. Slots
  BY DEF Init, Slots, SlotKnows, SlotRecord, Free, Deliveries
<1>4. SuccessWasHandled /\ DropOnlyHopeless /\ Handled
  BY DEF Init, SuccessWasHandled, DropOnlyHopeless, Handled
<1> QED
  BY <1>1, <1>2, <1>3, <1>4 DEF Inv

(* A new event disturbs nothing that is known of the others. *)
LEMMA EnqueueKeeps ==
    ASSUME Inv, NEW e \in AnyEvent, Enqueue(e), UNCHANGED <<slot, handled>>
    PROVE  /\ Queue' /\ Slots' /\ Handled' /\ SuccessWasHandled' /\ DropOnlyHopeless'
           /\ Len(events') = Len(events) + 1
<1> USE DEF Inv, Queue
<1>1. Queue'
  BY DEF Enqueue
<1>2. /\ Len(events') = Len(events) + 1 /\ Len(status') = Len(events) + 1
      /\ \A i \in 1 .. Len(events) :
           events'[i] = events[i] /\ status'[i] = status[i]
      /\ status'[Len(events) + 1] = "queued"
      /\ DOMAIN events = 1 .. Len(events)
      /\ DOMAIN events' = 1 .. Len(events) + 1
  BY DEF Enqueue
<1>3. Slots'
  <2> SUFFICES ASSUME NEW s \in Slot PROVE SlotKnows(s)'
    BY DEF Slots
  <2>1. SlotKnows(s) /\ slot[s].event \in Nat
    BY DEF Slots, SlotRecord
  <2> QED
    BY <1>2, <2>1 DEF SlotKnows, Hopeless, AsPublished
<1>4. SuccessWasHandled' /\ DropOnlyHopeless' /\ Handled'
  BY <1>2 DEF SuccessWasHandled, DropOnlyHopeless, Handled, AsPublished
<1> QED
  BY <1>1, <1>2, <1>3, <1>4

(* send, whichever way it ends. *)
LEMMA SendKeeps ==
    ASSUME Inv, NEW p \in Publisher,
           Send(p) \/ Accept(p) \/ Refuse(p) \/ Return(p) \/ SendFails(p)
    PROVE  Inv'
<1> USE DEF Inv
<1>1. NoCall \in CallRecord /\ NoCall.event = 0 /\ NoCall.pc = "idle"
  BY DEF NoCall, CallRecord
<1>2. CASE Accept(p)
  <2>1. PICK form \in Forms("octets") : Enqueue(Event(call[p].message, form))
    BY <1>2 DEF Accept
  <2>2. Event(call[p].message, form) \in AnyEvent
    BY <1>2 DEF Accept, Callers, AnyEvent
  <2>3. /\ Queue' /\ Slots' /\ Handled' /\ SuccessWasHandled' /\ DropOnlyHopeless'
        /\ Len(events') = Len(events) + 1
    BY <1>2, <2>1, <2>2, EnqueueKeeps DEF Accept
  <2>4. Len(events') \in Nat /\ Len(events) \in Nat
    BY <2>3 DEF Queue
  <2>5. \A q \in Publisher : call[q].event \in Nat
    BY DEF Callers, CallRecord
  <2>6. Callers'
    BY <1>2, <2>3, <2>4, <2>5 DEF Accept, Callers, CallRecord
  <2> QED
    BY <2>3, <2>6
<1>3. ASSUME Send(p) \/ Refuse(p) \/ Return(p) \/ SendFails(p) PROVE Inv'
  <2>1. UNCHANGED <<events, status, slot, handled>> /\ Len(events) \in Nat
    BY <1>3 DEF Send, Refuse, Return, SendFails, Queue
  <2>2. Queue' /\ Slots' /\ Handled' /\ SuccessWasHandled' /\ DropOnlyHopeless'
    BY <2>1 DEF Queue, Slots, SlotKnows, Hopeless, Handled, AsPublished,
                SuccessWasHandled, DropOnlyHopeless
  <2>3. CASE Send(p)
    <3>1. PICK m \in Messages :
             call' = [call EXCEPT ![p] = [pc |-> "sent", message |-> m,
                                          reply |-> "none", event |-> 0]]
      BY <2>3 DEF Send
    <3>2. sends' \in 0 .. MaxSends /\ UNCHANGED <<events, late, faults>>
      BY <2>3, PubSubAssumption DEF Send, Callers
    <3>3. Callers'
      BY <2>1, <3>1, <3>2 DEF Callers, CallRecord
    <3> QED
      BY <2>2, <3>3
  <2>4. CASE Refuse(p)
    <3>1. PICK reply \in {"notFound", "error"} :
            call' = [call EXCEPT ![p].pc = "answered", ![p].reply = reply]
      BY <2>4 DEF Refuse
    <3>2. UNCHANGED <<events, late, sends, faults>>
      BY <2>4 DEF Refuse
    <3>3. Callers'
      BY <2>1, <3>1, <3>2 DEF Callers, CallRecord
    <3> QED
      BY <2>2, <3>3
  <2>5. CASE Return(p)
    BY <1>1, <2>1, <2>2, <2>5 DEF Return, Callers
  <2>6. CASE SendFails(p)
    BY <1>1, <2>1, <2>2, <2>6 DEF SendFails, Callers
  <2> QED
    BY <1>3, <2>3, <2>4, <2>5, <2>6
<1> QED
  BY <1>2, <1>3

(***************************************************************************)
(* The broker's and the bridge's steps.                                    *)
(***************************************************************************)

LEMMA LengthIsNat == Inv => Len(events) \in Nat
  BY DEF Inv, Queue

(* What a slot knows stays true while its own delivery does not move on. *)
LEMMA SlotsStay ==
    ASSUME Inv, handled \subseteq handled', events' = events,
           slot' \in [Slot -> SlotRecord],
           \A s \in Slot : SlotKnows(s)' \/ slot'[s] = slot[s]
    PROVE  Slots'
<1> SUFFICES ASSUME NEW s \in Slot, slot'[s] = slot[s] PROVE SlotKnows(s)'
  BY DEF Slots
<1>1. SlotKnows(s)
  BY DEF Inv, Slots
<1> QED
  BY <1>1 DEF SlotKnows, Hopeless, AsPublished

(* Delivering, answering late and crashing change slots only. *)
LEMMA SlotOnly ==
    ASSUME Inv, UNCHANGED <<call, late, events, status, sends, handled>>, Slots',
           UNCHANGED faults \/ Fault
    PROVE  Inv'
<1>1. faults' \in 0 .. MaxFaults
  BY PubSubAssumption DEF Fault, Inv, Callers
<1>2. Callers'
  BY <1>1 DEF Inv, Callers
<1> QED
  BY <1>2 DEF Inv, Queue, Handled, AsPublished, SuccessWasHandled,
              DropOnlyHopeless

LEMMA DeliverKeeps ==
    ASSUME Inv, NEW s \in Slot, NEW i \in DOMAIN events, Deliver(s, i)
    PROVE  Inv'
<1> DEFINE d == [pc |-> "arrived", event |-> i, delivery |-> Absent,
                 ack |-> "none", abandoned |-> FALSE]
<1>1. i \in 1 .. Len(events) /\ i \in Nat
  BY DEF Inv, Queue
<1>2. d \in SlotRecord
  BY <1>1 DEF SlotRecord, Deliveries
<1>3. slot' = [slot EXCEPT ![s] = d]
  BY DEF Deliver
<1>4. slot \in [Slot -> SlotRecord]
  BY DEF Inv, Slots
<1>5. SlotKnows(s)'
  BY <1>1, <1>3, <1>4 DEF SlotKnows, Deliver
<1>6. slot' \in [Slot -> SlotRecord]
      /\ \A r \in Slot : SlotKnows(r)' \/ slot'[r] = slot[r]
  BY <1>2, <1>3, <1>4, <1>5
<1>7. Slots'
  BY <1>6, SlotsStay DEF Deliver
<1> QED
  BY <1>7, SlotOnly DEF Deliver

LEMMA GiveUpKeeps ==
    ASSUME Inv, NEW s \in Slot, GiveUp(s)
    PROVE  Inv'
<1>1. slot \in [Slot -> SlotRecord] /\ SlotKnows(s)
  BY DEF Inv, Slots
<1>2. slot' \in [Slot -> SlotRecord]
  BY <1>1 DEF GiveUp, SlotRecord
<1>3. SlotKnows(s)'
  <2>1. slot'[s] = [slot[s] EXCEPT !.abandoned = TRUE]
    BY <1>1 DEF GiveUp
  <2>2. /\ slot'[s].pc = slot[s].pc /\ slot'[s].event = slot[s].event
        /\ slot'[s].ack = slot[s].ack /\ slot'[s].delivery = slot[s].delivery
    BY <1>1, <2>1 DEF SlotRecord
  <2>3. UNCHANGED <<events, handled>>
    BY DEF GiveUp
  <2> QED
    BY <1>1, <2>2, <2>3 DEF SlotKnows, Hopeless, AsPublished
<1>4. \A r \in Slot : SlotKnows(r)' \/ slot'[r] = slot[r]
  BY <1>1, <1>3 DEF GiveUp
<1>5. Slots'
  BY <1>2, <1>4, SlotsStay DEF GiveUp
<1> QED
  BY <1>5, SlotOnly DEF GiveUp

LEMMA CrashKeeps ==
    ASSUME Inv, Crash
    PROVE  Inv'
<1>1. Slots'
  BY DEF Crash, Slots, SlotKnows, SlotRecord, Free, Deliveries
<1> QED
  BY <1>1, SlotOnly DEF Crash

(* An answer that is taken becomes a status for the reason it was given. *)
LEMMA TakeAnswerKeeps ==
    ASSUME Inv, NEW s \in Slot, TakeAnswer(s)
    PROVE  Inv'
<1> USE DEF Inv
<1> DEFINE i == slot[s].event
<1>1. /\ slot \in [Slot -> SlotRecord] /\ SlotKnows(s)
      /\ slot[s].pc = "answered"
  BY DEF Slots, TakeAnswer
<1>2. UNCHANGED <<call, late, events, handled>> /\ slot' = [slot EXCEPT ![s] = Free]
  BY DEF TakeAnswer
<1>3. Free \in SlotRecord /\ Free.pc = "free" /\ Free.event = 0
  BY DEF Free, SlotRecord, Deliveries
<1>4. Slots'
  <2>1. slot' \in [Slot -> SlotRecord] /\ slot'[s] = Free
        /\ \A r \in Slot : r # s => slot'[r] = slot[r]
    BY <1>1, <1>2, <1>3
  <2>2. SlotKnows(s)'
    BY <1>2, <1>3, <2>1, LengthIsNat DEF SlotKnows
  <2> QED
    BY <1>2, <2>1, <2>2, SlotsStay
<1>5. Callers' /\ Handled'
  BY <1>2 DEF TakeAnswer, Callers, Handled, AsPublished
<1>6. CASE slot[s].abandoned \/ slot[s].ack = "RETRY"
  <2>1. UNCHANGED <<events, status, handled>>
    BY <1>2, <1>6 DEF TakeAnswer
  <2> QED
    BY <1>4, <1>5, <2>1 DEF Queue, SuccessWasHandled, DropOnlyHopeless
<1>7. CASE ~(slot[s].abandoned \/ slot[s].ack = "RETRY")
  <2>1. status' = [status EXCEPT ![i] = slot[s].ack]
    BY <1>7 DEF TakeAnswer
  <2>2. slot[s].ack \in Settled /\ i \in 1 .. Len(events)
    BY <1>1, <1>7 DEF SlotKnows, SlotRecord
  <2>3. /\ Queue'
        /\ status'[i] = slot[s].ack
        /\ \A j \in DOMAIN events : j # i => status'[j] = status[j]
    BY <1>2, <2>1, <2>2 DEF Queue
  <2>4. SuccessWasHandled' /\ DropOnlyHopeless'
    BY <1>1, <1>2, <2>3
       DEF SuccessWasHandled, DropOnlyHopeless, SlotKnows, Hopeless
  <2> QED
    BY <1>4, <1>5, <2>3, <2>4
<1> QED
  BY <1>6, <1>7

(* The bridge answers DROP only to what it can never handle. *)
LEMMA DeliverEventKeeps ==
    ASSUME Inv, NEW s \in Slot, DeliverEvent(s)
    PROVE  Inv'
<1> DEFINE i == slot[s].event
           e == events[i]
           delivery == Decode(Encode(e), RouteTopic(e.topic))
<1>1. /\ slot \in [Slot -> SlotRecord] /\ SlotKnows(s)
      /\ slot[s].pc = "arrived"
  BY DEF Inv, Slots, DeliverEvent
<1>2. i \in 1 .. Len(events) /\ e \in AnyEvent
  BY <1>1 DEF SlotKnows, Inv, Queue
<1>3. UNCHANGED <<call, late, events, status, sends, faults, handled>>
  BY DEF DeliverEvent
<1>4. ASSUME NEW outcome \in {"undecodable", "unhandled"},
             slot' = Answered(s, outcome), Hopeless(i)
      PROVE  Slots'
  <2>1. Ack(outcome) = "DROP"
    BY <1>4 DEF Ack
  <2>2. slot' = [slot EXCEPT ![s].pc = "answered", ![s].ack = "DROP"]
    BY <1>4, <2>1 DEF Answered
  <2>3. slot' \in [Slot -> SlotRecord]
        /\ \A r \in Slot : r # s => slot'[r] = slot[r]
    BY <1>1, <2>2 DEF SlotRecord, Settled
  <2>4. /\ slot'[s].event = i /\ slot'[s].ack = "DROP"
        /\ slot'[s].pc = "answered"
    BY <1>1, <2>2 DEF SlotRecord
  <2>5. SlotKnows(s)'
    BY <1>1, <1>2, <1>3, <1>4, <2>4 DEF SlotKnows, Hopeless
  <2> QED
    BY <1>3, <2>3, <2>5, SlotsStay
<1>5. ASSUME ~Decodes(Encode(e)), slot' = Answered(s, "undecodable")
      PROVE  Slots'
  <2>1. Hopeless(i)
    BY <1>2, <1>5, WholeDecodes DEF Hopeless
  <2> QED
    BY <1>4, <1>5, <2>1
<1>6. ASSUME delivery.topic \notin Registered,
             slot' = Answered(s, "unhandled")
      PROVE  Slots'
  <2>1. Hopeless(i)
    BY <1>6, RegisteredDispatched DEF Hopeless
  <2> QED
    BY <1>4, <1>6, <2>1
<1>7. ASSUME Decodes(Encode(e)), delivery.topic \in Registered,
             slot' = [slot EXCEPT ![s].pc = "handling",
                                  ![s].delivery = delivery]
      PROVE  Slots'
  <2>1. delivery \in Deliveries
    BY <1>2 DEF Deliveries
  <2>2. slot' \in [Slot -> SlotRecord]
        /\ \A r \in Slot : r # s => slot'[r] = slot[r]
    BY <1>1, <1>7, <2>1 DEF SlotRecord
  <2>3. /\ slot'[s].event = i /\ slot'[s].pc = "handling"
        /\ slot'[s].delivery = delivery
    BY <1>1, <1>7 DEF SlotRecord
  <2>4. AsPublished(i, delivery)
    BY <1>2, <1>7, DecodeInverts DEF AsPublished
  <2>5. SlotKnows(s)'
    BY <1>1, <1>2, <1>3, <1>7, <2>3, <2>4 DEF SlotKnows, AsPublished
  <2> QED
    BY <1>3, <2>2, <2>5, SlotsStay
<1>8. Slots'
  BY <1>5, <1>6, <1>7 DEF DeliverEvent
<1> QED
  BY <1>3, <1>8, SlotOnly

(* SUCCESS is answered when the handler is done, *)
LEMMA HandlerDoneKeeps ==
    ASSUME Inv, NEW s \in Slot, HandlerDone(s)
    PROVE  Inv'
<1> DEFINE i == slot[s].event
<1>1. /\ slot \in [Slot -> SlotRecord] /\ SlotKnows(s)
      /\ slot[s].pc = "handling"
  BY DEF Inv, Slots, HandlerDone
<1>2. /\ UNCHANGED <<call, late, events, status, sends, faults>>
      /\ handled \subseteq handled'
      /\ \E h \in handled' : h.event = i
  <2> DEFINE h == [event |-> i, delivery |-> slot[s].delivery]
  <2>1. handled' = handled \cup {h} /\ h.event = i
    BY DEF HandlerDone
  <2> QED
    BY <2>1 DEF HandlerDone
<1>3. slot' = [slot EXCEPT ![s].pc = "answered", ![s].ack = "SUCCESS"]
  BY DEF HandlerDone, Answered, Ack
<1>4. slot' \in [Slot -> SlotRecord]
      /\ \A r \in Slot : r # s => slot'[r] = slot[r]
  BY <1>1, <1>3 DEF SlotRecord, Settled
<1>5. /\ slot'[s].event = i /\ slot'[s].ack = "SUCCESS"
      /\ slot'[s].pc = "answered"
  BY <1>1, <1>3 DEF SlotRecord
<1>6. SlotKnows(s)'
  BY <1>1, <1>2, <1>5 DEF SlotKnows
<1>7. Slots'
  BY <1>2, <1>4, <1>6, SlotsStay
<1>8. Handled'
  <2> DEFINE h == [event |-> i, delivery |-> slot[s].delivery]
  <2>1. handled' = handled \cup {h} /\ h.event = i /\ h.delivery = slot[s].delivery
    BY DEF HandlerDone
  <2>2. i \in 1 .. Len(events) /\ AsPublished(i, slot[s].delivery)
    BY <1>1 DEF SlotKnows
  <2> QED
    BY <1>2, <2>1, <2>2 DEF Inv, Handled, AsPublished
<1> QED
  BY <1>2, <1>7, <1>8
     DEF Inv, Queue, Callers, SuccessWasHandled, DropOnlyHopeless

(* and RETRY when it rejected the event. *)
LEMMA HandlerRejectsKeeps ==
    ASSUME Inv, NEW s \in Slot, HandlerRejects(s)
    PROVE  Inv'
<1>1. /\ slot \in [Slot -> SlotRecord] /\ SlotKnows(s)
      /\ slot[s].pc = "handling"
  BY DEF Inv, Slots, HandlerRejects
<1>2. slot' = [slot EXCEPT ![s].pc = "answered", ![s].ack = "RETRY"]
  BY DEF HandlerRejects, Answered, Ack
<1>3. slot' \in [Slot -> SlotRecord]
      /\ \A r \in Slot : r # s => slot'[r] = slot[r]
  BY <1>1, <1>2 DEF SlotRecord
<1>4. /\ slot'[s].event = slot[s].event /\ slot'[s].ack = "RETRY"
      /\ slot'[s].pc = "answered"
  BY <1>1, <1>2 DEF SlotRecord
<1>5. SlotKnows(s)'
  BY <1>1, <1>4 DEF SlotKnows, HandlerRejects
<1>6. Slots'
  BY <1>3, <1>5, SlotsStay DEF HandlerRejects
<1> QED
  BY <1>6, SlotOnly DEF HandlerRejects

(* An event more, and callers who do not move. *)
LEMMA CallersStay ==
    ASSUME Inv, Len(events') = Len(events) + 1, late' \subseteq late,
           UNCHANGED <<call, sends, faults>>
    PROVE  Callers'
<1>1. Len(events) \in Nat /\ \A p \in Publisher : call[p].event \in Nat
  BY LengthIsNat DEF Inv, Callers, CallRecord
<1> QED
  BY <1>1 DEF Inv, Callers

LEMMA InvStep == Inv /\ [Next]_vars => Inv'
<1> SUFFICES ASSUME Inv, [Next]_vars PROVE Inv'
  OBVIOUS
<1>1. ASSUME NEW p \in Publisher,
             Send(p) \/ Accept(p) \/ Refuse(p) \/ Return(p) \/ SendFails(p)
      PROVE  Inv'
  BY <1>1, SendKeeps
<1>2. ASSUME NEW m \in late, LateArrival(m) PROVE Inv'
  <2>1. PICK form \in Forms("octets") : Enqueue(Event(m, form))
    BY <1>2 DEF LateArrival
  <2>2. Event(m, form) \in AnyEvent
    BY DEF Inv, Callers, AnyEvent
  <2>3. /\ Queue' /\ Slots' /\ Handled' /\ SuccessWasHandled' /\ DropOnlyHopeless'
        /\ Len(events') = Len(events) + 1
    BY <1>2, <2>1, <2>2, EnqueueKeeps DEF LateArrival
  <2>4. Callers'
    BY <1>2, <2>3, CallersStay DEF LateArrival, Inv, Callers
  <2> QED
    BY <2>3, <2>4 DEF Inv
<1>3. ASSUME NEW e \in Foreign, ForeignPublish(e) PROVE Inv'
  <2>1. /\ Queue' /\ Slots' /\ Handled' /\ SuccessWasHandled' /\ DropOnlyHopeless'
        /\ Len(events') = Len(events) + 1
    BY <1>3, EnqueueKeeps DEF ForeignPublish, AnyEvent
  <2>2. Callers'
    BY <1>3, <2>1, CallersStay DEF ForeignPublish, Inv, Callers
  <2> QED
    BY <2>1, <2>2 DEF Inv
<1>4. ASSUME NEW s \in Slot, NEW i \in DOMAIN events, Deliver(s, i) PROVE Inv'
  BY <1>4, DeliverKeeps
<1>5. ASSUME NEW s \in Slot, Bridge(s) \/ TakeAnswer(s) \/ GiveUp(s)
      PROVE  Inv'
  BY <1>5, DeliverEventKeeps, HandlerDoneKeeps, HandlerRejectsKeeps,
     TakeAnswerKeeps, GiveUpKeeps DEF Bridge
<1>6. CASE Crash
  BY <1>6, CrashKeeps
<1>7. CASE UNCHANGED vars
  BY <1>7 DEF vars, Inv, Queue, Callers, Slots, SlotKnows, Hopeless, Handled,
              AsPublished, SuccessWasHandled, DropOnlyHopeless
<1> QED
  BY <1>1, <1>2, <1>3, <1>4, <1>5, <1>6, <1>7 DEF Next

LEMMA SpecInv == Spec => []Inv
  BY InvInit, InvStep, PTL DEF Spec

-----------------------------------------------------------------------------
(* The variables keep their types, and a handler runs only for a topic it was
   registered for, on a payload that decoded. *)
THEOREM TypeCorrect == Spec => []TypeOK
<1>1. Inv => TypeOK
  <2> SUFFICES ASSUME Inv PROVE TypeOK
    OBVIOUS
  <2>1. Len(events) \in Nat /\ DOMAIN events = 1 .. Len(events)
    BY DEF Inv, Queue
  <2>2. \A p \in Publisher :
          /\ call[p].pc \in {"idle", "sent", "answered"}
          /\ call[p].message \in Messages \cup {Absent}
          /\ call[p].event \in 0 .. Len(events)
    BY <2>1 DEF Inv, Callers, CallRecord
  <2>3. \A i \in DOMAIN events :
          /\ events[i] \in AnyEvent
          /\ status[i] \in {"queued"} \cup Settled
    BY <2>1 DEF Inv, Queue
  <2>4. ASSUME NEW s \in Slot
        PROVE  /\ slot[s].pc \in {"free", "arrived", "handling", "answered"}
               /\ slot[s].event \in 0 .. Len(events)
               /\ slot[s].ack \in {"none", "RETRY"} \cup Settled
               /\ slot[s].pc = "handling" =>
                    /\ slot[s].delivery.topic \in Registered
                    /\ slot[s].delivery.payload \notin {Absent, Damaged}
    <3>1. slot[s] \in SlotRecord /\ SlotKnows(s)
      BY DEF Inv, Slots
    <3>2. slot[s].event \in 0 .. Len(events)
      BY <2>1, <3>1 DEF SlotRecord, SlotKnows
    <3>3. ASSUME slot[s].pc = "handling"
          PROVE  slot[s].delivery.payload \notin {Absent, Damaged}
      <4>1. /\ slot[s].event \in DOMAIN events
            /\ slot[s].delivery.payload = Carried(events[slot[s].event])
        BY <2>1, <3>1, <3>3 DEF SlotKnows, AsPublished
      <4>2. Carried(events[slot[s].event]) \in Text
        BY <2>3, <4>1, CarriedIsText
      <4> QED BY <4>1, <4>2, CloudEventsAssumption
    <3> QED BY <3>1, <3>2, <3>3 DEF SlotRecord, SlotKnows
  <2> QED BY <2>1, <2>2, <2>3, <2>4 DEF TypeOK, AnyEvent, Inv, Queue, Callers
<1> QED
  BY <1>1, SpecInv, PTL

(* However often an event travels, a handler is given its payload, byte for byte
   unless JSON was put into a JSON envelope, and then its value; and under the
   topic it was published to, if the route names that topic. *)
THEOREM HandlersGetWhatWasPublished == Spec => []HandledAsPublished
<1>1. Inv => HandledAsPublished
  BY DEF Inv, Handled, AsPublished, HandledAsPublished
<1> QED
  BY <1>1, SpecInv, PTL

(* The broker forgets an event as successful only when a handler completed it. *)
THEOREM SuccessMeansHandled == Spec => []SuccessWasHandled
  BY SpecInv, PTL DEF Inv

(* The broker drops an event only when its request cannot be read, or its topic
   has no handler or is not the one that its route names. *)
THEOREM DropMeansHopeless == Spec => []DropOnlyHopeless
  BY SpecInv, PTL DEF Inv

=============================================================================
