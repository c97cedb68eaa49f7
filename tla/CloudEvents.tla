---------------------------- MODULE CloudEvents ----------------------------
(***************************************************************************)
(* How an event travels as an HTTP request, and the decoder of             *)
(* crates/dapr/src/cloudevents.rs.  Attributes other than the topic are    *)
(* left out.                                                               *)
(*                                                                         *)
(* A text is <<>>, or what it is, layer by layer: <<"null">> is the JSON   *)
(* null, "string" the JSON string of the rest, "value" any other JSON      *)
(* value, "respelled" the JSON text that follows with other blanks,        *)
(* escapes, numbers, or keys out of order or repeated, and "unread" JSON   *)
(* that serde_json refuses, as it is nested too deep or has a number out   *)
(* of range.  Any other text is no JSON.                                   *)
(***************************************************************************)
EXTENDS Sequences, SequencesExt

CONSTANTS
    Absent,   \* a field or header that is not there
    Damaged   \* a data_base64 that is not base64

JsonKind == {"null", "string", "value", "respelled", "unread"}

Text == Seq(JsonKind \cup STRING)

(* What stands for the absence of a text is none. *)
ASSUME CloudEventsAssumption ==
    /\ Absent \notin Text /\ Damaged \notin Text
    /\ Absent \notin {Damaged, "cloudevents", "json", "text", "octets"}

Is(kind, text) == text # <<>> /\ Head(text) = kind

IsJson(text) == \E kind \in JsonKind : Is(kind, text)

(* The value of a JSON text, as serde_json writes it again. *)
Rewritten(text) == IF Is("respelled", text) THEN Tail(text) ELSE text

NoEnvelope ==
    [shape |-> "other", datatype |-> Absent, base64 |-> Absent,
     data |-> Absent, topic |-> Absent]

-----------------------------------------------------------------------------
(***************************************************************************)
(* What a broker makes of an event: the three ways CloudEvents 1.0 has to  *)
(* carry a payload, and the ways to damage it.  An event has the topic it  *)
(* was published to, the topic its envelope names, its data content type   *)
(* and its payload.                                                        *)
(***************************************************************************)
DamagedForms == {"malformed", "notObject", "badBase64"}

Forms(datatype) ==
    {"binary", "base64"} \cup (IF datatype = "octets" THEN {} ELSE {"inline"})

Structured(e) ==
    [media |-> "cloudevents", body |-> <<>>,
     envelope |-> [NoEnvelope EXCEPT !.shape = "object",
                     !.datatype = e.datatype, !.topic = e.named]]

(* The JSON text that stands for a payload in the data field. *)
Inline(e) ==
    CASE e.datatype = "text" -> <<"string">> \o e.payload
      [] e.datatype # "text" /\ e.payload = <<>> -> <<"null">>
      [] OTHER -> e.payload

Encode(e) ==
    CASE e.form = "binary" ->
           [media |-> e.datatype, body |-> e.payload,
            envelope |-> [NoEnvelope EXCEPT !.topic = e.named]]
      [] e.form = "base64" ->
           [Structured(e) EXCEPT !.envelope.base64 = e.payload]
      [] e.form = "inline" ->
           [Structured(e) EXCEPT !.envelope.data = Inline(e)]
      [] e.form = "malformed" ->
           [Structured(e) EXCEPT !.envelope.shape = "malformed"]
      [] e.form = "notObject" ->
           [Structured(e) EXCEPT !.envelope.shape = "other"]
      [] e.form = "badBase64" ->
           [Structured(e) EXCEPT !.envelope.base64 = Damaged]

-----------------------------------------------------------------------------
(***************************************************************************)
(* decode: the Delivery a request holds.                                   *)
(***************************************************************************)
IsStructured(req) == req.media = "cloudevents"

(* The envelope is parsed as a whole, the data in it too. *)
Parses(env) ==
    env.shape = "object" /\ (env.data # Absent => ~Is("unread", env.data))

(* Mutant: base64 that does not decode is let through. *)
AnyBase64(req) == IsStructured(req) => Parses(req.envelope)

Decodes(req) ==
    IsStructured(req) => Parses(req.envelope) /\ req.envelope.base64 # Damaged

(* Mutant: text data keeps the quotes of the JSON string that carries it. *)
QuotedText(datatype) == TRUE

(* Data counts as JSON unless its content type says otherwise. *)
IsJsonData(datatype) == datatype \in {Absent, "json"}

(* JSON data is written again as the value it has; null is no data. *)
DataPayload(value, datatype) ==
    CASE value = <<"null">> -> <<>>
      [] Is("string", value) /\ ~IsJsonData(datatype) -> Tail(value)
      [] OTHER -> value

StructuredPayload(env) ==
    CASE env.base64 # Absent -> env.base64
      [] env.base64 = Absent /\ env.data = Absent -> <<>>
      [] OTHER -> DataPayload(Rewritten(env.data), env.datatype)

(* The route a request came in by decides before the topic it names. *)
DeliveryTopic(req, route) ==
    IF route # Absent THEN route ELSE req.envelope.topic

Decode(req, route) ==
    [topic |-> DeliveryTopic(req, route),
     payload |-> IF IsStructured(req) THEN StructuredPayload(req.envelope)
                                      ELSE req.body]

=============================================================================
