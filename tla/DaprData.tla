------------------------------ MODULE DaprData ------------------------------
(***************************************************************************)
(* What of a caller's data, keys and names reaches the services behind the *)
(* sidecar, and comes back: BlobStore and Config of crates/dapr/src/lib.rs *)
(* with the requests and parsers of protocol.rs, and the keys and bytes of *)
(* StateStore and Publish, whose protocols DaprState and PubSub model.     *)
(* Every call is one request; the services differ in how they store and    *)
(* answer, and the transport may lose a reply or deliver a write late.     *)
(***************************************************************************)
EXTENDS Encoding, FiniteSets

CONSTANTS
    Key,          \* keys of state, names of objects and configuration keys
    Bytes,        \* values
    Topic, Headers, \* what is published: topics, and sets of pairs of names
    Services,     \* the ways services behave
    Configs,      \* what the configuration store may hold: Key -> ConfigValue
    Env,          \* what the process environment holds: Key -> Setting
    Foreign,      \* texts that other programs store
    Container, Absent, Null,
    MaxCalls, MaxFaults  \* bounds

VARIABLES
    service,    \* how the services at hand behave
    config,     \* what the configuration store holds
    fallback,   \* env_fallback
    stored,     \* the text under each key: of "state" items and of "blob" objects
    published,  \* the messages the broker got
    call,       \* the call being made, or Absent
    reply,      \* its reply, once there is one
    late,       \* writes nobody waits for any more
    answer,     \* what the last call returned
    meant,      \* history: what the writes that were served asked for
    sent,       \* history: the messages whose publication was served
    seen,       \* history: what the call was about when it was served
    calls, faults

data == <<stored, published>>
ghosts == <<meant, sent>>
vars == <<service, config, fallback, data, call, reply, late, answer, ghosts,
          seen, calls, faults>>

Api == {"state", "blob"}

Ops ==
    [api : Api, op : {"get", "delete"}, key : Key]
    \cup [api : Api, op : {"put"}, key : Key, value : Bytes]
    \cup {[api |-> "blob", op |-> "list"]}
    \cup [api : {"config"}, op : {"get"}, key : Key]
    \cup [api : {"publish"}, op : {"send"}, topic : Topic, headers : Headers]

(* Names and bytes are sequences, and the marks of what is absent, or not
   text, are none. *)
ASSUME DataAssumption ==
    /\ {"store", "key", "metadata."} \subseteq Char
    /\ IsFiniteSet(Key) /\ Key \subseteq Seq(Char) \ {<<>>}
    /\ \A k \in Key : Head(k) # "/"
    /\ Bytes \cup Foreign \cup Topic \subseteq Seq(Char)
    /\ \A h \in Headers : IsFiniteSet(h) /\ h \subseteq Seq(Char) \X Seq(Char)
    /\ \A f \in Configs : f \in [Key -> Seq(Char) \cup {Absent, Null}]
    /\ Env \in [Key -> Seq(Char) \cup {Absent}]
    /\ Absent # Null /\ {Absent, Null} \cap Seq(Char) = {}
    /\ Absent \notin Ops
    /\ \A s \in Services :
         /\ s.body \in {"json", "text", "decoded"}
         /\ s.absent \in {"noContent", "notFound", "empty"}
         /\ s.items \in {"string", "name", "key", "odd"}
         /\ s.shape \in {"map", "array", "other"}

NoReply == [status |-> "none", body |-> <<>>]
NoAnswer == [kind |-> "none", value |-> <<>>]

Init ==
    /\ service \in Services /\ config \in Configs /\ fallback \in BOOLEAN
    /\ stored = [a \in Api |-> [k \in Key |-> Absent]]
    /\ published = {}
    /\ call = Absent /\ reply = NoReply /\ late = {}
    /\ answer = NoAnswer
    /\ meant = stored /\ sent = {} /\ seen = Absent
    /\ calls = 0 /\ faults = 0

-----------------------------------------------------------------------------
(***************************************************************************)
(* The requests: the path and query behind /v1.0/<api>/, and the body.     *)
(***************************************************************************)
Store == Lit("store")

NoData == [key |-> Absent, value |-> Absent]

StateRequest(c) ==
    IF c.op = "put"
    THEN [url |-> Store,
          body |-> [key |-> c.key, value |-> EncodeBytes(c.value)]]
    ELSE [url |-> Store \o Lit("/") \o Encode(c.key), body |-> NoData]

BindingRequest(c) ==
    [url |-> Encode(Container),
     body |-> CASE c.op = "put" -> [key |-> c.key, value |-> EncodeBytes(c.value)]
                [] c.op = "list" -> NoData
                [] OTHER -> [NoData EXCEPT !.key = c.key]]

ConfigGetRequest(c) ==
    [url |-> Store \o Lit("?") \o Lit("key") \o Lit("=") \o Encode(c.key),
     body |-> NoData]

MetadataOf(header) ==
    Lit("metadata.") \o Encode(header[1]) \o Lit("=") \o Encode(header[2])

PublishRequest(c) ==
    LET pairs == SetToSeq(c.headers)
        query == Joined([i \in DOMAIN pairs |-> MetadataOf(pairs[i])], "&")
    IN  [url |-> Store \o Lit("/") \o EncodeTopic(c.topic)
                   \o (IF pairs = <<>> THEN <<>> ELSE Lit("?") \o query),
         body |-> NoData]

RequestOf(c) ==
    CASE c.api = "state" -> StateRequest(c)
      [] c.api = "blob" -> BindingRequest(c)
      [] c.api = "config" -> ConfigGetRequest(c)
      [] c.api = "publish" -> PublishRequest(c)

-----------------------------------------------------------------------------
(***************************************************************************)
(* The services.  They see the request alone.                              *)
(***************************************************************************)
Path(url) == Before(url, "?")
Query(url) == Behind(url, "?")

(* The key a request names: behind the store of its path, or in its body. *)
KeyIn(r) ==
    IF r.body.key # Absent THEN r.body.key
    ELSE Unescaped(Behind(Path(r.url), "/"))

Parameters(url) ==
    IF Query(url) = <<>> THEN {}
    ELSE {<<Unescaped(Before(p, "=")), Unescaped(Behind(p, "="))>> :
            p \in Pieces(Query(url), "&")}

Message(r) ==
    [topic |-> Unescaped(Behind(Path(r.url), "/")), headers |-> Parameters(r.url)]

Held(api, key) == IF key \in Key THEN stored[api][key] ELSE Absent

BodyOf(text) ==
    CASE service.body = "json" -> Layer("json", text)
      [] service.body = "text" -> text
      [] service.body = "decoded" -> IF IsBase64(text) THEN Decode64(text) ELSE text

Nothing ==
    CASE service.absent = "noContent" -> [status |-> "noContent", body |-> <<>>]
      [] service.absent = "notFound" -> [status |-> "notFound", body |-> <<>>]
      [] service.absent = "empty" -> [status |-> "ok", body |-> <<>>]

Done == [status |-> "noContent", body |-> <<>>]

ReplyToGet(text) ==
    IF text = Absent THEN Nothing ELSE [status |-> "ok", body |-> BodyOf(text)]

Present == {k \in Key : stored["blob"][k] # Absent}

ReplyToList ==
    [status |-> "ok",
     body |-> SetToSeq({[form |-> service.items, name |-> k] : k \in Present})]

(* A configuration is answered as an object by key, as an array of items, or
   as neither.  The service reads its URL's query as one does, unescaped; the
   tests' own server looks its keys up as they are escaped. *)
ConfigReply(r) ==
    LET wanted == CHOOSE p \in Parameters(r.url) : TRUE
        key == wanted[2]
        value == IF key \in Key THEN config[key] ELSE Absent
    IN  [status |-> "ok",
         body |-> [shape |-> service.shape,
                   items |-> IF value = Absent THEN {}
                             ELSE {[key |-> key, value |-> value]}]]

PutText(api, key, text) ==
    stored' = IF key \in Key THEN [stored EXCEPT ![api][key] = text] ELSE stored

(* Serve a call's request; what it meant is noted for the properties. *)
Means(c, value) == meant' = [meant EXCEPT ![c.api][c.key] = value]

ServeRequest(c, r) ==
    \/ /\ c.op = "put"
       /\ PutText(c.api, KeyIn(r), r.body.value)
       /\ Means(c, c.value)
       /\ UNCHANGED <<published, sent>>
    \/ /\ c.op = "delete"
       /\ PutText(c.api, KeyIn(r), Absent)
       /\ Means(c, Absent)
       /\ UNCHANGED <<published, sent>>
    \/ /\ c.op = "send"
       /\ published' = published \cup {Message(r)}
       /\ sent' = sent \cup {[topic |-> c.topic, headers |->
             {<<<<"metadata.">> \o h[1], h[2]>> : h \in c.headers}]}
       /\ UNCHANGED <<stored, meant>>
    \/ /\ c.op \in {"get", "list"}
       /\ UNCHANGED <<data, ghosts>>

ReplyTo(c, r) ==
    CASE c.op \in {"put", "send"} -> Done
      [] c.op = "delete" ->
           IF Held(c.api, KeyIn(r)) = Absent /\ service.absent = "notFound"
           THEN Nothing ELSE Done
      [] c.op = "list" -> ReplyToList
      [] c.api = "config" -> ConfigReply(r)
      [] OTHER -> ReplyToGet(Held(c.api, KeyIn(r)))

SeenBy(c) ==
    CASE c.api \in Api /\ c.op = "get" ->
           [text |-> stored[c.api][c.key], meant |-> meant[c.api][c.key]]
      [] c.op = "list" -> [names |-> {k \in Key : meant["blob"][k] # Absent}]
      [] OTHER -> Absent

Serve ==
    /\ call # Absent /\ reply = NoReply
    /\ ServeRequest(call, RequestOf(call))
    /\ reply' = ReplyTo(call, RequestOf(call))
    /\ seen' = SeenBy(call)
    /\ UNCHANGED <<service, config, fallback, call, late, answer, calls, faults>>

(* The service refuses a request, and does nothing. *)
Refuse ==
    /\ call # Absent /\ reply = NoReply /\ faults < MaxFaults
    /\ faults' = faults + 1
    /\ reply' = [status |-> "error", body |-> <<>>]
    /\ UNCHANGED <<service, config, fallback, data, call, late, answer, ghosts,
                   seen, calls>>

ServeLate(c) ==
    /\ ServeRequest(c, RequestOf(c))
    /\ late' = late \ {c}
    /\ UNCHANGED <<service, config, fallback, call, reply, answer, seen, calls,
                   faults>>

(* Another program stores a text of its own. *)
ForeignStore(api, key, text) ==
    /\ faults < MaxFaults
    /\ faults' = faults + 1
    /\ stored' = [stored EXCEPT ![api][key] = text]
    /\ meant' = [meant EXCEPT ![api][key] = Null]
    /\ UNCHANGED <<service, config, fallback, published, call, reply, late,
                   answer, sent, seen, calls>>

-----------------------------------------------------------------------------
(***************************************************************************)
(* The client.                                                             *)
(***************************************************************************)
Ok(value) == [kind |-> "ok", value |-> value]
Failed == [kind |-> "failed", value |-> <<>>]
Unreached == [kind |-> "unreached", value |-> <<>>]

ParseGet(r) ==
    CASE r.status \in {"noContent", "notFound"} -> Ok(Absent)
      [] r.status = "ok" /\ r.body = <<>> -> Ok(Absent)
      [] r.status = "ok" /\ r.body # <<>> ->
           IF DecodeBytes(r.body).ok THEN Ok(DecodeBytes(r.body).bytes)
           ELSE Failed
      [] OTHER -> Failed

(* Mutant: the key of an item is not looked for. *)
ParseNames(r) ==
    IF r.status = "ok" /\ \A i \in DOMAIN r.body : r.body[i].form # "odd"
    THEN Ok({r.body[i].name :
                  i \in {j \in DOMAIN r.body : r.body[j].form # "key"}})
    ELSE Failed

(* An item is a string, or names itself under "name" or "key"; one odd item
   fails the list. *)
ParseBindingList(r) ==
    IF r.status = "ok" /\ \A i \in DOMAIN r.body : r.body[i].form # "odd"
    THEN Ok({r.body[i].name : i \in DOMAIN r.body})
    ELSE Failed

(* Mutant: the items of an array are taken whatever they hold. *)
ParseConfigLoosely(r, key) ==
    LET held == {item.value : item \in {i \in r.body.items : i.key = key}}
    IN  IF r.status = "ok" /\ r.body.shape \in {"map", "array"} /\ held # {}
        THEN Ok(CHOOSE v \in held : TRUE) ELSE Failed

ParseConfigGet(r, key) ==
    LET held == {item.value : item \in {i \in r.body.items : i.key = key}}
                  \ {Null}
    IN  IF r.status = "ok" /\ r.body.shape \in {"map", "array"} /\ held # {}
        THEN Ok(CHOOSE v \in held : TRUE) ELSE Failed

EnsureSuccess(r, op) ==
    IF r.status \in {"ok", "noContent"} \/ (op = "delete" /\ r.status = "notFound")
    THEN Ok(<<>>) ELSE Failed

Parse(c, r) ==
    CASE c.api = "config" ->
           IF r.status = "error" THEN Failed ELSE ParseConfigGet(r, c.key)
      [] c.op = "list" -> ParseBindingList(r)
      [] c.api \in Api /\ c.op = "get" -> ParseGet(r)
      [] OTHER -> EnsureSuccess(r, c.op)

Begin(c) ==
    /\ call = Absent /\ calls < MaxCalls
    /\ calls' = calls + 1
    /\ seen' = Absent
    /\ \/ /\ c.api = "config" /\ fallback /\ Env[c.key] # Absent
          /\ answer' = [call |-> c, status |-> "env", result |-> Ok(Env[c.key])]
          /\ UNCHANGED call
       \/ /\ ~(c.api = "config" /\ fallback /\ Env[c.key] # Absent)
          /\ call' = c
          /\ answer' = NoAnswer
    /\ UNCHANGED <<service, config, fallback, data, reply, late, ghosts, faults>>

Return ==
    /\ reply # NoReply
    /\ answer' = [call |-> call, status |-> reply.status,
                  result |-> Parse(call, reply)]
    /\ call' = Absent /\ reply' = NoReply
    /\ UNCHANGED <<service, config, fallback, data, late, ghosts, seen, calls,
                   faults>>

(* The transport fails: the reply is lost, or the request is late. *)
Lose ==
    /\ call # Absent /\ faults < MaxFaults
    /\ faults' = faults + 1
    /\ late' = IF reply = NoReply /\ call.op \in {"put", "delete", "send"}
               THEN late \cup {call} ELSE late
    /\ answer' = [call |-> call, status |-> "none", result |-> Unreached]
    /\ call' = Absent /\ reply' = NoReply /\ seen' = Absent
    /\ UNCHANGED <<service, config, fallback, data, ghosts, calls>>

Next ==
    \/ \E c \in Ops : Begin(c)
    \/ Serve \/ Refuse \/ Return \/ Lose
    \/ \E c \in late : ServeLate(c)
    \/ \E api \in Api, key \in Key, text \in Foreign : ForeignStore(api, key, text)

Spec == Init /\ [][Next]_vars

-----------------------------------------------------------------------------
(* What is stored under each key, and was published, is what the calls that
   were served asked for: keys, names, topics and headers arrive as they were
   given, whichever of the URL, its query and the body carries them. *)
StoredAsAsked ==
    /\ published = sent
    /\ \A api \in Api, key \in Key :
         LET text == stored[api][key]
             value == meant[api][key]
         IN  value # Null => /\ (text = Absent) = (value = Absent)
                             /\ text # Absent => IsBase64(text) /\ Decode64(text) = value

Answers(ops) == answer # NoAnswer /\ answer.call.op \in ops

Answered == answer.status \notin {"none", "error", "env"}

Plain(bytes) == ~Is("json", Trim(bytes)) /\ ~IsBase64(Trim(bytes))

(* A get returns the bytes that were stored, whether the service answers the
   JSON or the text it holds, or the bytes themselves if they do not look like
   an encoding.  An empty value may read as none.  A text of another program
   comes back as it is, or fails where JSON says that it should be base64. *)
ReadsBack ==
    Answers({"get"}) /\ answer.call.api \in Api /\ Answered =>
      LET value == seen.meant
          text == seen.text
          got == answer.result
      IN  /\ value = Absent => got = Ok(Absent)
          /\ value = <<>> => got \in {Ok(<<>>), Ok(Absent)}
          /\ /\ value \notin {Absent, Null, <<>>}
             /\ service.body = "decoded" => Plain(value)
             => got = Ok(value)
          /\ value = Null /\ Plain(text) =>
               got = IF service.body = "json" THEN Failed ELSE Ok(text)

(* A list names the objects there are, in whichever form the binding gives
   their names, or fails. *)
ListsObjects ==
    Answers({"list"}) /\ Answered =>
      answer.result = IF service.items = "odd" /\ seen.names # {} THEN Failed
                      ELSE Ok(seen.names)

(* A configuration key has the value the environment, if it may be asked, or
   else the store gives it, in either shape of response; one that has none is
   an error and never a value. *)
ConfigAsSet ==
    Answers({"get"}) /\ answer.call.api = "config" =>
      LET key == answer.call.key
          known == fallback /\ Env[key] # Absent
      IN  /\ known => answer.result = Ok(Env[key])
          /\ ~known /\ Answered =>
               answer.result = IF config[key] \in {Absent, Null}
                                  \/ service.shape = "other"
                               THEN Failed ELSE Ok(config[key])

=============================================================================
