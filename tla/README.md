# Verification of omnia-extensions

TLA+ models of this repository's three crates and of its ORM example, TLC runs that check them on
small instances, and TLAPS proofs of what matters most.  Every definition is
translated from the source; `PROJECT.json` names the lines each one models.

Contents: [the system](#the-system), [modules](#modules), [from code to
model](#from-code-to-model), [runs](#runs), [divergences](#divergences-found),
[proofs](#proofs), [not modelled](#not-modelled), [what is left](#what-is-left).

## The system

The repository extends the Omnia SDK with providers that guests plug in.  The
SDK, the HTTP transport, the database and the Dapr runtime are outside it.

| Component | State | Operations | Talks to |
|---|---|---|---|
| **Dapr StateStore** `crates/dapr/src/lib.rs`, `protocol.rs` | the TTL map `ttls`: key to deadline, behind a mutex, shared by the clones of a provider | `get`, `set`, `delete`, `cas`, `increment` | the sidecar, one HTTP request per round trip |
| **Dapr sidecar** (external; the in-memory one of `crates/dapr/tests/conformance.rs`) | per key: value, ETag, expiry; a counter for ETags | get, plain post, first-write post, delete | |
| **Dapr Publish** `lib.rs` | none | `send` | the sidecar's broker |
| **Subscription bridge** `axum.rs`, `cloudevents.rs` | the router and the list of subscriptions, both fixed | `GET /dapr/subscribe`, `POST /dapr/events/{*topic}` | the broker, the SDK's router and its handlers |
| **Dapr Config, BlobStore** `lib.rs`, `protocol.rs` | none | `get`; `get`, `put`, `delete`, `list` | configuration API, output bindings |
| **Encoding** `protocol.rs` | none | `encode_bytes`, `decode_bytes`, `encode`, `encode_topic` | |
| **Cache-Control parser** `crates/http-cache/src/control.rs` | none between requests | `Control::parse`, `strong_etag` | |
| **HttpCache** `crates/http-cache/src/lib.rs`, `envelope.rs` | none of its own; entries in a `StateStore`, under the entity-tag | `fetch` | a `StateStore`, the origin |
| **ORM builders** `crates/orm/src/` | the builder under construction | `select`, `insert`, `update`, `delete`, filters, joins | the SQL host |
| **ORM entities** `entity.rs`, `lib.rs` | none | `entity!`, conversion of values in and out | rows |
| **Examples** `examples/` | tables of the host | HTTP handlers | the crates above |

What is hard, and what makes each component correct:

* **StateStore.**  `cas` compares in the client and swaps in the sidecar, two
  round trips apart; `increment` is a loop around it.  Requests and replies get
  lost, and a request may be applied after its caller gave up.  Right means:
  compare and swap is atomic whatever arrives when; no increment is lost or
  counted twice; what a caller is told is what happened.  The TTL is worse:
  Dapr does not tell a key's remaining TTL, so the client remembers the
  deadline it asked for, in a map that is updated when replies arrive, and
  re-supplies it, rounded to seconds, with every `cas`.
* **Publish and the bridge.**  Delivery is at least once: answers come late,
  deliveries overlap, the bridge dies with deliveries in its hands.  Right
  means: SUCCESS only for what a handler completed, DROP only for what is
  hopeless, nothing retried for ever, and the payload what was published in
  whichever form CloudEvents carries it.  A topic goes through a URL between the
  list of subscriptions and the handler, and JSON data through a parser.
* **Cache-Control parser.**  Directives come in any order on any number of
  lines; the verdict must be that of the set of them.  A key is one strong
  entity-tag, whose grammar has corners (quotes, blanks, `W/`, `*`, lists).
* **HttpCache.**  Concurrent callers fill the same entry from an origin that
  changes, over a store that fails.  Right means: only whole responses of the
  right resource are stored; `no-cache` and the like reach the origin; a store
  never decides whether a fetch succeeds.
* **Config, BlobStore, encoding.**  A key travels in a path, in a query or in a
  JSON body; a value comes back as the JSON that was sent, as its text, or
  decoded.  Right means: what is stored is what was asked for, whatever
  characters a name has, and what was stored reads back.
* **ORM.**  Filters are trees whose tables are filled in late and whose
  parentheses are written by someone else; the order of builder calls decides
  what an upsert updates; unfiltered updates and deletes are refused.  Right
  means: a statement touches the rows its filters mean, and an entity that was
  written can be read.
* **ORM example.**  A request is several statements with no transaction around
  them: tables are created in two, a feed's agency is looked up in one and the
  feed inserted in the next.  Right means: no feed without an agency, no
  statement before its table, no answer that is not true.

The hazards of each, at their lines, are listed in `PROJECT.json`.

## Modules

| Module | Models | Extended or checked by |
|---|---|---|
| `Sidecar` | one key of the state API | `DaprState` |
| `DaprState` | the five operations of `StateStore` over it, tasks, clones, faults | `MCDaprState`, `DaprStateProofs` |
| `DaprStateProofs` | proofs about `DaprState`: types, ETags, what calls return, conflicts, the counter, TTLs | `DaprRefinesProofs` |
| `CloudEvents` | the forms of an event, `decode` | `PubSub` |
| `PubSub` | `send`, the broker, `deliver_event` | `MCPubSub`, `PubSubProofs` |
| `PubSubProofs` | proofs about `PubSub` | |
| `AtomicStore` | the abstract store: what `StateStore` promises for one key | `DaprRefines` |
| `DaprRefines` | the refinement mapping from `DaprState` to `AtomicStore` | `MCDaprState`, `DaprRefinesProofs` |
| `DaprRefinesProofs` | proof of the refinement | |
| `Encoding` | `encode_bytes`, `decode_bytes`, `encode`, `encode_topic`; a server's reading of a URL | `DaprData` |
| `DaprData` | `Config`, `BlobStore`, and the keys, values, topics and headers of the other two | `MCDaprData`, `DaprDataProofs` |
| `DaprDataProofs` | proofs about `Encoding` and `DaprData` | |
| `Control` | the `Control` record, `reads`, `writes` | `CacheControl`, `HttpCache` |
| `CacheControl` | `Control::parse`, `strong_etag`; the header contract as reference | `MCCacheControl`, `CacheControlProofs` |
| `CacheControlProofs` | proofs about `CacheControl` | |
| `HttpCache` | `fetch`, `read_entry`, `write_entry` | `MCHttpCache`, `HttpCacheProofs` |
| `HttpCacheProofs` | proofs about `HttpCache` | |
| `OrmEntity` | `entity!`, values in and out, by type and NULL | `SqlHost` |
| `SqlHost` | the database: conditions in three-valued logic, joins, the four statements (external) | `OrmFilter` |
| `OrmFilter` | the filter tree, `in_table`, `into_expr`, the SQL of a condition; the meaning of a filter as reference | `OrmQueries` |
| `OrmQueries` | the four builders, call by call, and `build` | `MCOrmQueries`, `OrmQueriesProofs` |
| `OrmQueriesProofs` | proofs about the builders, filters, entities and the statements' effect | |
| `OrmExample` | the handlers of `examples/orm/guest.rs`, statement by statement | `MCOrmExample`, `OrmExampleProofs` |
| `OrmExampleProofs` | proofs about `OrmExample` | |

The `MC` modules only give constants their values.  Operators whose comment
begins with "Mutant" are plausible bugs: each property has one in `PROJECT.json`
that breaks it under the same configuration.

`DaprState` is composed of the provider and the sidecar; `PubSub` of publisher,
broker and bridge; `HttpCache` of callers, store and origin.  Parser and cache
meet in `Control`: `YieldsControl` is what the parser guarantees, and
`HttpCacheAssumption` asks exactly that of the requests; the theorem
`ParserYieldsControls` gives it for every header field.  `OrmQueries` is composed
of the builders and the database; `OrmExample` takes from it that a statement does
what its builder was asked for, and composes requests instead.

## From code to model

**Steps.**  Async code can be overtaken where it awaits, and on a threaded
executor where it releases a mutex.  A call is cut there and nowhere else, so
one action is everything a task does from one await to the next.

**`DaprState`.**  `pc[t]` is the await a task is suspended at; `req[t]` and
`resp[t]` are its request on the way out and its reply on the way back.  `Call`
starts an operation, `On...(t)` continues it with the reply, `CasSample` is the
stretch of `cas` between the two locks of the TTL map (its `forget` of an absent
key, then the sampling of the remaining TTL).  `Serve` is the sidecar handling a
request, `Timeout` loses a request or a reply, and what was lost underway stays
in `stray`, from where `ServeStray` may still apply it, once.  `increment` keeps
its attempts in `tries`.  One key stands for all: provider and sidecar keep
everything per key.  Values are small integers and one value `raw` that is not
eight bytes long; `Int64` is a small range, so that sums overflow.  Time counts
ticks, half seconds in the runs, as deadlines may fall between whole seconds.
`applied`, `churn` and `due` are history variables: the writes that took effect,
how often the item changed, the expiry the last `set` asked for.

**`PubSub`.**  The broker's queue is the append-only `events` with a `status`
each.  `slot` holds deliveries at the bridge; `DeliverEvent` is `deliver_event`
up to the await of the router, `HandlerDone` and `HandlerRejects` are what comes
after it.  `GiveUp` is an answer that is late or lost: the broker redelivers,
and the abandoned delivery goes on.  `Crash` loses all deliveries.  The broker
is Dapr as the bridge takes it and is marked external, like the forms it gives
an event (`CloudEvents!Encode`).  A payload is a text that says what it is layer
by layer: JSON's null, the JSON string of another text, another JSON value, JSON
that serde_json spells otherwise (blanks, escapes, numbers, the order of keys and
their repetition), JSON it refuses, or no JSON.  So `Decode` does what the code
does with data in a JSON envelope: it is parsed with the envelope (`Parses`),
written again (`Rewritten`), and a null is an empty payload (`DataPayload`).  A
topic is a sequence of characters; `RoutePath` is what its route in the
subscription list leaves of it, as `?` and `#` end a path, and `RouteTopic` what
the bridge makes of the path: escapes decoded, leading slashes stripped.

**`CacheControl`.**  One action per directive, then `Conclude`.  A malformed or
overflowing number is `NaN`; a character of `If-None-Match` is one of five
classes.  The reference `Contract` has no order and no loop, and describes
entity-tags by grammar instead of by scanning.

**`HttpCache`.**  A revision tells the representations of a resource apart.
`store` maps an entity-tag to an entry with an expiry; `Rot` makes one
undecodable; a write that fails may still happen (`late`).  `floor` is history:
the revision a write settled when no older response was on its way.  A request
carries `conditions`; `Forwarded` is what the cache leaves of them, and an origin
may answer 304 only to a request that still has one.

**`AtomicStore`.**  One register, and calls that take effect, or are refused, at
one moment between their begin and their return.  What the trait leaves open is
left open: a call that fails may have taken effect, may do so later, once, or
never; a `cas` may be refused, and an `increment` give up, although the value is
the expected one, if the key was written to since the call began (`touched`).
In `DaprRefines` a write happens when the sidecar serves it, and a call is
decided (`Decided`) when its last reply is there; ETags, retries, deadlines and the
two requests of a `cas` are gone.  Requests underway of failed calls map to
`orphans`.

**`DaprData`.**  A call is one request, served by services that differ in
how they answer (`Services`): a value as JSON, as its text or decoded; nothing
as 204, 404 or an empty body; a list as strings or objects; a configuration as a
map, an array or neither.  Bytes are layers (`Encoding`): the base64 text of, the
JSON string of, blanks around; this is what `decode_bytes` can tell apart.  A URL
is a sequence of characters, each escaped or literal, that the services take
apart as a server would; they see the request only.  `meant` and `sent` are
history: what the calls served asked for.  `Lose` loses a reply or leaves a
request to arrive late; `ForeignStore` is another program writing its own text.

**`OrmQueries`.**  A behaviour makes one builder, makes calls on it and builds:
the statement is refused, or runs on the database.  `Act` covers the three
conflict actions, which the typestate of `InsertBuilder` allows once a target is
set.  A filter is a tree, kept as a function from the paths of its nodes, so that
`in_table` and `into_expr` are functions over paths.  An expression is an operator
and the tokens SeaQuery writes for it, with the parentheses that follow from the
two deciders of `query.rs`; the database reads the tokens by the precedence of SQL:
that a filter means the same after both is shown, not assumed.  The reference
`Means` evaluates the tree the caller wrote.  ORDER BY, LIMIT and OFFSET choose the
first rows of an order (`First`), then leave out the first of those.  The columns
of a conflict action are a set, as their order changes nothing.  Values are small
integers with a data type; text is compared, not spelled.

**`OrmExample`.**  `pc[t]` is the statement request `t` runs next.  A statement is
one action; with `lost`, its effect happens and its reply does not arrive, so the
handler ends with an error.  `created_at` is left out: it only orders lists, so
`ListAllFeeds` picks any feeds up to the limit, which is 100 in the code and 1 in
the run.  `wrote` is history: the requests that changed a row.

## Runs

| Run | Instance | Distinct states | Shows |
|---|---|---|---|
| `dapr_mixed` | 2 tasks, clones of one provider; 3 calls of all operations; 1 fault; 1 s in half seconds | 1,038,152 | `TypeOK` (no overflow is stored), `CasAtomic`, `EtagNamesValue`, `AckMatchesEffect`, and the refinement `IsAtomicStore` |
| `dapr_contention` | 3 tasks on 2 providers; 3 increments; 1 fault; fair | 167,827 | `NoLostUpdate`, `ConflictsHaveCause`, `EveryCallReturns` |
| `dapr_ttl` | 1 task; 4 calls; 3 s; 1 read that fails | 435,402 | `PermanentKept`, `NotCutShort` |
| `dapr_ttl_round_up` | 1 task | | violates `TtlSurvivesCas` |
| `dapr_ttl_race` | 2 clones | | violates `PermanentKept` |
| `dapr_data` | 3 calls of every operation on 2 keys; 4 kinds of service; 3 configurations; 1 fault | 3,410,136 | `StoredAsAsked`, `ReadsBack`, `ListsObjects`, `ConfigAsSet` |
| `cache_control` | every list of up to 3 directives; every line of up to 5 characters | 18,382 | `MeetsContract`, `YieldsControl` |
| `http_cache` | 2 callers; 3 fetches; 2 resources, each may change once; 1 fault; 1 s | 1,897,466 | `OnlyWholeStored`, `OriginWhenAsked`, `FailsOnlyWithOrigin`, `SettledStays` |
| `http_cache_age` | 1 caller | | violates `HitWithinMaxAge` |
| `pubsub` | 1 send to 1 of 2 topics and 1 of 11 foreign events; 2 deliveries at a time; 2 faults; fair | 127,664 | `TypeOK`, `HandledAsPublished`, `SuccessWasHandled`, `DropOnlyHopeless`, `SentIsHandled`, `EveryEventSettles` |
| `orm_builders` | 3 calls before `build`, 4 of an insert; 12 filters, 4 joins; 2 tables with NULLs | 456,643 | `OnlyMatching`, `JoinsAsMeant`, `UpsertAll`, `ReadsBack` |
| `orm_guest` | 3 requests at a time, 4 in all; 2 agencies, 2 feeds; 1 fault | 1,289,520 | `FeedsHaveAgencies`, `FeedsMapped`, `SchemaFirst`, `AnswersTrue`, `AgencyAsAsked` |

Why the bounds are enough:

* `MaxRetries = 2` stands for 16: two reach a retry, and a give-up; nothing in
  the loop depends on the number.
* Three calls let two writers get between the two round trips of a third, the
  A-B-A of an ETag included.  One fault puts one late write anywhere.  With
  three increments every order of read, write and retry of three tasks occurs.
* Four calls in six half seconds let a key be set, expire, be created again by
  `cas` and be changed by another `cas`, each between whole seconds or on them.
* Three directives contain every pair and every repetition with a third in
  between; five characters contain a tag with a character inside and one more
  on either side.
* Three fetches of two callers let a slow miss be overtaken by a refresh and be
  read afterwards.
* Two faults let an answer be late and its successor's handler reject or the
  bridge die.  The foreign events are a payload in the data of an envelope under
  each data content type that reads it differently, JSON that is a string, null
  or refused by the parser, topics that no handler has or no route names, and
  every way to damage a request; what is sent comes as octets, in a body or in
  base64, and one of the two topics sent to has a `?`.
* One of the two keys of `dapr_data` has every character that means something in
  a URL; the values are empty, plain, and such as look like base64 or JSON
  themselves.  Three calls and a fault let a write be late behind a second one
  and a third read what came of it.
* The filters of `orm_builders` have every kind of predicate, empty lists, NULL
  operands, and `and`, `or` and `not` in each other; three calls combine two of
  them with a join.  Four calls of an insert set a value before and after a
  target and its action.
* Three requests at a time in `orm_guest` let the lookup and the insert of a feed
  have two whole requests in between.

Calls, faults, sends and clocks are bounded, so a behaviour ends: hence
`CHECK_DEADLOCK FALSE`.  Symmetry is used in safety runs only, among clones of
one provider, callers, or requests.

**Fairness.**  `dapr_contention`: a task whose reply is there is polled
(`WF(Resume)`), and the sidecar serves a request (`WF(Serve)`); nothing is asked
of faults, time or the arrival of abandoned requests.  An executor polls woken
tasks, and a transport that never answers would hang any caller; a transport
error is an answer.  `pubsub`: the broker keeps delivering what is queued and
reads answers, the bridge is polled and handlers end; faults are finite in
number, so what has to happen to every event is stated as `[]<>` of all there are.
Handlers that never end, or always reject, are outside the promise: the
code puts no limit on either.  The other runs have safety properties only and
assume no fairness; a refused request of `DaprData` or a statement of
`OrmExample` is one step away from its answer, so liveness would say nothing.

## Divergences found

1. **`cas` can lose a TTL** (`dapr_ttl_round_up`).  `lib.rs:200` says the write
   of `cas` preserves the TTL.  The remaining time is rounded up to whole
   seconds and the tracked deadline stays, so after one `cas` the sidecar keeps
   the value up to a second past the deadline; a second `cas` in that second
   sends no TTL and the value stays for ever.
2. **`cas` can give a permanent value the TTL of an older one**
   (`dapr_ttl_race`).  `set` records its TTL when its reply arrives.  A `cas`
   or `increment` of another clone between the commit in the sidecar and that
   reply re-supplies the deadline of the value before.
3. **A hit may be older than the request's `max-age`** (`http_cache_age`).
   `control.rs:22-23` calls it "the oldest response the client will accept"; an
   entry lives for the `max-age` of the request that stored it.

Two more need no run, as the model has them in its definitions and the
properties say what holds instead:

4. **The cached path can answer 304.**  The crate's README says at lines 40-41
   that `If-None-Match` is not forwarded, "so the origin always answers with a
   full body".  `lib.rs:103` removes that header only: an `If-Modified-Since` of
   the same request is forwarded without it (`Forwarded`), and the origin's 304
   is returned.  It is not stored (`OnlyWholeStored`), and only a request with
   `If-Modified-Since` is told so (`OriginWhenAsked`).
5. **A subscribed topic can reach another topic's handler, or none.**
   `axum.rs:33-35` and `cloudevents.rs:23-26` speak of dispatching on the
   subscribed topic.  `axum.rs:53` puts the topic into the route as it is, and the
   path extractor at line 75 decodes what arrives (`RouteTopic`): a `?` or `#`
   cuts the topic, an escape comes back as another character, and a leading slash
   is stripped.  The events of `orders?eu` are given to the handler of `orders`,
   or dropped if there is none.  `Publish` escapes its topics, so a send to it
   returns Ok.  The properties of `PubSub` name the topics that do survive
   (`Literal`), and promise nothing of the rest.

`NotCutShort` and `PermanentKept` hold for one task whose writes are answered, which
is proved (`NeverCutShort`, `PermanentStays`); rounding up is what the former needs:
the mutant that rounds down breaks it.

## Proofs

Eight modules hold proofs, for every value of the constants: any tasks,
providers, keys, values, calls, header fields, resources, events and requests, of
any number, and any bounds.  Nothing is left unproved in them.

| Module | Theorem | States |
|---|---|---|
| `DaprStateProofs` | `TypeCorrect` | `Spec => []TypeOK`; as `Value` meets the integers in `Int64`, no number out of range is ever stored or returned |
| | `EtagsAreNames` | `Spec => []EtagNamesValue` |
| | `CasIsAtomic` | `Spec => []CasAtomic` |
| | `AcksAreTrue` | `Spec => []AckMatchesEffect` |
| | `ConflictsAreCaused` | `Spec => []ConflictsHaveCause` |
| | `NoUpdateIsLost` | `Spec => []NoLostUpdate`, if calls are gets and increments (`OnlyCounts`) |
| | `PermanentStays` | `ReadFaultSpec => []PermanentKept`, for one task (`Alone`) |
| | `NeverCutShort` | `ReadFaultSpec => []NotCutShort`, for one task |
| `DaprRefinesProofs` | `StoreIsAtomic` | `Spec => IsAtomicStore`: `DaprState` implements `AtomicStore` |
| `CacheControlProofs` | `ParserMeetsContract` | `Spec => []MeetsContract` |
| | `ParserYieldsControls` | `Spec => []YieldsControl` |
| `HttpCacheProofs` | `StoreHoldsWholeCopies` | `Spec => []OnlyWholeStored` |
| | `OriginAnswersWhenAsked` | `Spec => []OriginWhenAsked` |
| | `StoreNeverFailsAFetch` | `Spec => []FailsOnlyWithOrigin` |
| | `SettledRevisionStays` | `Spec => []SettledStays` |
| `PubSubProofs` | `TypeCorrect` | `Spec => []TypeOK` |
| | `HandlersGetWhatWasPublished` | `Spec => []HandledAsPublished` |
| | `SuccessMeansHandled` | `Spec => []SuccessWasHandled` |
| | `DropMeansHopeless` | `Spec => []DropOnlyHopeless` |
| `DaprDataProofs` | `ArriveAsGiven` | `Spec => []StoredAsAsked` |
| | `ComesBack` | `Spec => []ReadsBack` |
| | `ListsWhatIsThere` | `Spec => []ListsObjects` |
| | `ConfigReadAsSet` | `Spec => []ConfigAsSet` |
| `OrmExampleProofs` | `EveryFeedHasItsAgency` | `Spec => []FeedsHaveAgencies` |
| | `EveryFeedIsMapped` | `Spec => []FeedsMapped` |
| | `TablesComeFirst` | `Spec => []SchemaFirst` |
| | `EveryAnswerIsTrue` | `Spec => []AnswersTrue` |
| | `EveryAgencyIsAsAsked` | `Spec => []AgencyAsAsked` |
| `OrmQueriesProofs` | `Invariant` | `Spec => []IInv`, the inductive invariant |
| | `TouchesMatching` | `Spec => []OnlyMatching` |
| | `JoinsPair` | `Spec => []JoinsAsMeant` |
| | `UpsertsAllColumns` | `Spec => []UpsertAll` |
| | `InsertsReadBack` | `Spec => []ReadsBack` |

The conditions of three theorems are those of the runs that check the same
properties.  `NoUpdateIsLost` asks that nothing but increments writes, as a `set`
may put any number there.  The two TTL properties ask for one caller (`Alone`)
whose writes are answered, while any of its reads may fail (`ReadFaultSpec`).
`dapr_ttl_race` shows them false for a second clone, and a `set` whose reply is lost
has the same effect, as the client then does not know the expiry it asked for.

### Assumptions

TLC evaluates each of them in the runs of its component.

* `SidecarAssumption`: a second has at least one tick; the absent value is neither
  a value nor a number.  `DaprAssumption`: every task has a provider; the range of
  an i64 contains 0; calls are well typed and carry values of that range.
  `RefinesAssumption`: the absent value is no call and no answer, which
  `AtomicStore` tells apart by it.
* `CacheControlAssumption` and `ControlAssumption`: headers are sequences of
  directives and of lines; a number that does not parse is no number, a field
  that is not visible ASCII no directive and no line, and no tag is the absent one.
* `HttpCacheAssumption`: what the parser guarantees of a request; a tag names a
  resource, and a request that has one sends it as If-None-Match; the absent entry
  is no entry.  Which other conditions a request has is left open.
* `PubSubAssumption`: topics are not empty; foreign events have the forms and
  content types `CloudEvents` knows, and what is carried inline as JSON is JSON.
  `CloudEventsAssumption`: what stands for an absent or damaged attribute is no
  text.
* `EncodingAssumption`: the characters with a meaning in a URL are characters, and
  none of them is sent unescaped.  `DataAssumption`: keys are finitely many, not
  empty, do not begin with a slash; values, topics and headers are texts;
  services answer in one of the forms modelled.
* `ExampleAssumption`: requests are well typed, and the mark of an absent row is no
  row.
* `OrmAssumption`: NULL is no number.  The tables are finite sets of whole rows
  that differ in their keys, whose values have the key column's type (`IsTable`);
  so have the keys that are set (`Settable`), as a typed database demands.  Filters
  are what the constructors of `Filter` build (`IsFilter`), of any size, and joins
  are on tables there are.  Objects have a value for each field, of which only an
  optional one is None, and their entities read no column of another table
  (`IsObject`).

### The arguments

**ETags.**  `CasAtomic` speaks of the writes in flight, and is not inductive: a
write is built from an ETag that a task read long before, so a state in which a
task holds the wrong ETag satisfies it and its next step breaks it.  What makes it
inductive is `EtagNamesValue`: an ETag names one value for ever.  Every place an
ETag travels through is a conjunct: the stored item, replies on their way, the
arguments of a running `cas`, the writes in flight or abandoned.  `Names(etag,
value)` says that the ETag was given out, that 0 stands for the absent value,
and that the item has that value if it has that ETag; a new write cannot break
it because its ETag is new.

**Calls.**  The calls have an invariant of three parts, each proved from the
ones before.  `Protocol` says of one task at a time what it waits for, with which
arguments, and which replies it may hear.  `Deeds` relates calls to writes: a call
that has only read so far is `Clean`, nothing of it is applied nor can be; a write
that nobody waits for is the only one of its call and not applied.
`AckMatchesEffect` follows.  `Causes` says that a call holds what the live item
has unless `churn` has moved past what its retries have paid for; so a conflict
that finds the call up to date is impossible, and every retry has its own cause.
`ResumeMoves` reduces the ten handlers to six kinds of move once, and the parts
are carried through the moves.

**The counter.**  `NoLostUpdate` equates the item with a sum over a set, which the
community modules define by recursion.  Where a theorem by induction over data
would be used, the proof takes a smallest set for which the claim is false:
`SumsExist` shows so that the recursive function exists, and `TotalSplits` that one
element more adds its delta.  Then an accepted increment adds its delta because
the value it expected is the live one (`CasAtomic`) and it was not counted before
(`Deeds`).  `Steady` says that without `set` no TTL arises, so nothing expires.

**TTLs.**  The client knows an expiry only by the deadline in its map; what it
takes is when that deadline can be trusted (`Times`).  It can, unless a `set` or
`delete` has changed the item and its reply is not there yet: then a deadline
tracked for a live item is not before `due`.  A read that fails changes neither.  A `cas` that found the key absent has
none, and a conditional write that would be accepted carries a TTL that is long
enough, by `RoundedUp`.

**Refinement.**  Each step maps to a step of `AtomicStore` or to none: a call
begins; a write that the sidecar serves puts its value, and decides the call; a
last read decides it; a return returns what was decided; a lost write becomes an
orphan; time may remove the value.  The invariant is that of the calls with
`ItemWhole`, that an absent item has no expiry.  The three parts are what the
mapping needs: that a write is decided once (`Deeds`), and that a refusal finds the
value changed or the key touched (`Causes`).

**Cache-Control.**  The parser's flags are what the contract counts in the prefix
read (`Flags`, over the places `ReadSoFar` of each directive), so the order of the
rest cannot matter; `StrongEtagIsTheTag` shows that scanning a line finds just the
one tag of the grammar, or none.

**HttpCache.**  The invariant follows a response from the origin into the store.
`InHand`: it is of the resource asked for, no older than the call, nor than what a
write has settled (`floor`), and stamped with its key before it is written.
`Floors`: no write that the store may still perform is older than what was settled
while it was underway.  `Ages`: nothing is stored from the future.  `WriteKeeps`
covers a write, done or late, once.

**Bridge.**  What the broker will note is on its way before, so the invariant adds
what a slot knows about the answer it holds (`SlotKnows`): a SUCCESS has a
completed handler behind it, a DROP an event that is `Hopeless`.  Both outlive the
delivery, as `handled` only grows and an event never changes.  `DecodeInverts`
shows that `decode` returns the payload from every readable form, or of JSON in a
JSON envelope its value, which gives `HandledAsPublished`; that a DROP is
justified needs besides that a readable event decodes (`WholeDecodes`), that a
literal topic comes back from its route (`RouteOfTopic`) and that the bridge so
finds the handler of a registered one (`RegisteredDispatched`).

**Data.**  Half of `DaprDataProofs` is about URLs: a path or query that was put
together from pieces, each encoded, falls into those pieces when a server cuts it
(`CutAt`, `NoCut`, `JoinedPieces`), as an encoded piece has no literal separator
(`EncodedLacks`), and unescaping gives back the name (`UnescapedIsName`).  The
query's pieces are joined by a fold, which is shown to exist by a smallest
counterexample again.  A second part does the same for the layers of bytes
(`DecodesJson`, `DecodesBase64`, `DecodesPlain`).  The invariant is that what is
stored is the text written for what was meant (`Faithful`), and that the call at
hand returned, or would return if its reply arrived, what is right (`Calling`).

**ORM example.**  The invariant `Inv` adds to the five properties what makes them
inductive.  `LookedUp`: the agency that a lookup found is still there when the
feed is inserted, as no handler removes an agency; without it the insert of a
feed could break `FeedsHaveAgencies`.  `SchemaHalf`: the first table exists while
the second is being created.  `Ids` and `Unanswered`: requests have names of
their own and no answer while they run, so that one request's write cannot make
another's answer false.  Every statement, its reply lost or not, has one of three
shapes (`Quiet`, `PutsAgency`, `PutsFeed`); each handler is shown to have a shape
once, and the invariant is carried through the shapes.

**Conditions.**  What the host makes of a condition is defined by recursion on
tokens, and what the caller meant by recursion on a tree; nothing relates the two
but the text in between.  The proof goes from the tokens up.  `Balanced` says that
the parentheses of a sequence close what they open; then no operator within them is
at the top of it (`EnclosedSplits`), and a sequence put together of balanced ones
has the operators at its top that it was put together with (`SplitsConcat`).  A
condition is read from its parts, which are shorter, and alike wherever it stands
(`ConditionReads`).  `OpReads`, `NegationReads` and `ChainReads` follow: an
expression is read as what it stands for, if it is in parentheses unless AND
follows AND or OR follows OR, which is what the deciders say.  `FilterReads`
carries this to a whole filter: of the nodes that were read otherwise than meant,
a deepest would have nodes below it that are all read right, so there is none.
`PredicateIsTruth` and `ReadingIsTruth` keep everything in the three truth values,
where NOT turns around and AND and OR are the least and the greatest.

**Builders.**  `IInv` says that the builder's filters and joins are the caller's
in its own terms (`AskedFilters`, `AskedJoins`); that after `do_update_all`, until
a value is set or another action is chosen, the action's columns are those of the
values but the target (`Conflicts`); that keys that were set have their type
(`Inserts`); and that the tables are as before `build`, or what the statement makes
of them, if it was not refused (`Outcomes`).  None of the four properties is
inductive: each speaks of the state after `build` and rests on what the calls left
in the builder.  `OnlyMatching` needs of a SELECT besides that a page has as many
rows as its limit and offset leave: that first rows exist is shown by
`ForemostExists`, since `Before` is a strict order (`BeforeIsStrict`) and the joined
rows are finitely many (`JoinedFinite`).  For `UpsertAll`, every column is given
once, so the row to insert has the values that were set, and the target is the key,
which merged and assigned rows share (`InsertedRow`, `UpsertsAll`).  For
`ReadsBack`, the condition of the SELECT is an equality that only the new row meets
(`SelectsByKey`), and every type that `to_wasi_param` does not refuse is one that
`fetch` takes for the field (`TypesReadBack`).

### Only model-checked

* Liveness (`EveryCallReturns`, `SentIsHandled`, `EveryEventSettles`): fairness and
  ENABLED are out of the prover's reach.

Every other property that the passing runs check is the subject of a theorem.

## Not modelled

* A state store that returns no ETag is listed as a hazard: the modelled sidecar
  always returns one.  A value that is stored empty may read as absent over a
  service that answers the bare text; `ReadsBack` allows it.
* Keys, and topics a send names, that begin with a slash, in `DaprData`.  A server
  that trims it, as the conformance tests' sidecar does, makes two keys one;
  `DataAssumption` leaves them out.  In `PubSub` such topics are modelled.
* The value of a JSON number: serde_json may keep fewer digits than a payload has,
  or make a float of a large integer.  The models treat it as another spelling.
* Escapes in a topic that stand for a slash, or for bytes that are no UTF-8.
* How the service of a configuration reads its URL: `ConfigReply` unescapes the
  query's key, as a server does.  The conformance tests' own server looks keys up
  as they are escaped, which differs only for keys with characters that are escaped.
* The operations that bindings do not have (`get_range`, `object_info`, the
  container operations): each returns an error at once.  `from_env` and the
  setters of `Dapr`, which run before any call.
* Attributes of an event other than its topic: they are copied and decide
  nothing.
* `set` with a TTL so large that `Instant` overflows.
* Two resources whose callers use one entity-tag: the model takes from the
  callers that a tag names a resource; the code does not check it.
* The text of dates, timestamps and JSON in rows, and numbers at the limits of
  their types: conversions either keep a value or change its text.
* Order of equal rows, and the spelling of identifiers, in SQL.  A column given
  to `do_update` that was never set takes the value the insert would have given
  it, NULL in the model as in a table without defaults.
* Upserts with `set` after `do_update_all`.  The doc comment at `insert.rs:105`
  speaks of all columns except the target; the columns are those set so far, and
  what is set later is inserted only.  The runs include such upserts; `UpsertAll`
  does not speak of them.
* The http-cache example: it calls `HttpCache` with fixed requests and keeps no
  state.

## What is left

**HttpCache over `AtomicStore`**, with `set` and `get` as it promises them, in
place of the store of its own that `HttpCache` has now.
