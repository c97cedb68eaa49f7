---------------------------- MODULE CacheControl ----------------------------
(***************************************************************************)
(* The header parser of crates/http-cache/src/control.rs: one pass over    *)
(* the directives of all Cache-Control lines, one action per directive,    *)
(* then a verdict on the whole set and on the If-None-Match lines.         *)
(*                                                                         *)
(* A directive is a record, a malformed or overflowing number of seconds   *)
(* the number NaN.  An If-None-Match line is a sequence of character       *)
(* classes: "dq" the double quote, "sp" a space or tab, "star" and "weak"  *)
(* the * and the W/ that are special in front and etagc inside the quotes, *)
(* "c" any other etagc, the comma included.                                *)
(***************************************************************************)
EXTENDS Control, Sequences, SequencesExt, FiniteSets

CONSTANTS
    NaN,        \* what does not parse as a u64
    ObsText,    \* a line with octets that are not visible ASCII
    Headers     \* the requests to parse: Cache-Control and If-None-Match

Char == {"dq", "sp", "star", "weak", "c"}

AnyDirective ==
    [name : {"no-store", "no-cache", "max-age", "other", ObsText},
     secs : Nat \cup {NaN}]

AnyHeaders ==
    [directives : Seq(AnyDirective), tags : Seq(Seq(Char) \cup {ObsText})]

VARIABLES
    headers,    \* the request
    todo,       \* directives still to read
    noStore, noCache,
    maxAge,     \* <<>> before a max-age was read, <<secs>> after
    outcome     \* what the parser returns, and the Control it built

vars == <<headers, todo, noStore, noCache, maxAge, outcome>>

NoControl ==
    [noCache |-> FALSE, noStore |-> FALSE, maxAge |-> 0, etag |-> NoEtag]

Reading == [kind |-> "reading", control |-> NoControl]
Ignored == [kind |-> "ignored", control |-> NoControl]
Refused == [kind |-> "refused", control |-> NoControl]
Parsed(control) == [kind |-> "control", control |-> control]

Init ==
    /\ headers \in Headers
    /\ todo = headers.directives
    /\ noStore = FALSE /\ noCache = FALSE /\ maxAge = <<>>
    /\ outcome = Reading

-----------------------------------------------------------------------------
(***************************************************************************)
(* One directive.                                                          *)
(***************************************************************************)
Take(name) ==
    /\ outcome = Reading /\ todo # <<>>
    /\ Head(todo).name = name
    /\ todo' = Tail(todo)
    /\ UNCHANGED headers

ReadNoStore ==
    /\ Take("no-store")
    /\ noStore' = TRUE
    /\ UNCHANGED <<noCache, maxAge, outcome>>

ReadNoCache ==
    /\ Take("no-cache")
    /\ noCache' = TRUE
    /\ UNCHANGED <<noStore, maxAge, outcome>>

ReadMaxAge ==
    /\ Take("max-age")
    /\ \/ /\ maxAge # <<>> \/ Head(todo).secs = NaN
          /\ outcome' = Refused /\ UNCHANGED maxAge
       \/ /\ maxAge = <<>> /\ Head(todo).secs # NaN
          /\ maxAge' = <<Head(todo).secs>> /\ UNCHANGED outcome
    /\ UNCHANGED <<noStore, noCache>>

(* A line that is not text: to_str fails. *)
ReadObsText ==
    /\ Take(ObsText)
    /\ outcome' = Refused
    /\ UNCHANGED <<noStore, noCache, maxAge>>

(* Unknown directives and empty list elements. *)
Skip ==
    /\ Take("other")
    /\ UNCHANGED <<noStore, noCache, maxAge, outcome>>

-----------------------------------------------------------------------------
(***************************************************************************)
(* strong_etag: the tag a line holds, or <<>> when it is refused.          *)
(***************************************************************************)
Trim(line) ==
    LET Visible(c) == c # "sp"
        first == SelectInSeq(line, Visible)
    IN  IF first = 0 THEN <<>>
        ELSE SubSeq(line, first, SelectLastInSeq(line, Visible))

(* Mutant: whatever follows the closing quote is let through. *)
StrongEtagPrefix(line) ==
    LET value == Trim(line)
        body  == Tail(value)
        Quote(c) == c = "dq"
        close == SelectInSeq(body, Quote)
    IN  IF value = <<>> \/ Head(value) # "dq" \/ close = 0
             \/ Contains(SubSeq(body, 1, close), "sp")
        THEN <<>> ELSE value

StrongEtag(line) ==
    LET value == Trim(line)
        body  == Tail(value)
        Quote(c) == c = "dq"
        close == SelectInSeq(body, Quote)
    IN  IF \/ value = <<>> \/ Head(value) # "dq" \/ close = 0
           \/ Trim(SubSeq(body, close + 1, Len(body))) # <<>>
           \/ Contains(SubSeq(body, 1, close), "sp")
        THEN <<>> ELSE value

(* The one If-None-Match line a keyed request must have. *)
KeyOf(lines) ==
    IF Len(lines) # 1 THEN <<>>
    ELSE IF lines[1] = ObsText THEN <<>> ELSE StrongEtag(lines[1])

(* Mutant: a request that cannot be stored needs no key. *)
ConcludeKeyless ==
    LET key  == KeyOf(headers.tags)
        secs == IF maxAge = <<>> THEN 0 ELSE maxAge[1]
    IN  /\ outcome = Reading /\ todo = <<>>
        /\ outcome' =
             IF secs = 0 \/ key = <<>>
             THEN Parsed([NoControl EXCEPT !.noStore = noStore,
                                           !.noCache = noCache])
             ELSE Parsed([noCache |-> noCache, noStore |-> noStore,
                          maxAge |-> secs, etag |-> key])
        /\ UNCHANGED <<headers, todo, noStore, noCache, maxAge>>

(* The verdict on the whole set of directives. *)
Conclude ==
    LET key  == KeyOf(headers.tags)
        secs == IF maxAge = <<>> THEN 0 ELSE maxAge[1]
        acts == noStore \/ noCache \/ maxAge # <<>>
        conflict == noStore /\ (noCache \/ maxAge # <<>>)
    IN  /\ outcome = Reading /\ todo = <<>>
        /\ \/ ~acts /\ outcome' = Ignored
           \/ acts /\ conflict /\ outcome' = Refused
           \/ /\ acts /\ ~conflict /\ noStore
              /\ outcome' = Parsed([NoControl EXCEPT !.noStore = TRUE])
           \/ acts /\ ~noStore /\ key = <<>> /\ outcome' = Refused
           \/ /\ acts /\ ~noStore /\ key # <<>>
              /\ outcome' = Parsed([noCache |-> noCache, noStore |-> FALSE,
                                    maxAge |-> secs, etag |-> key])
        /\ UNCHANGED <<headers, todo, noStore, noCache, maxAge>>

Next ==
    \/ ReadNoStore \/ ReadNoCache \/ ReadMaxAge \/ ReadObsText \/ Skip
    \/ Conclude

Spec == Init /\ [][Next]_vars

-----------------------------------------------------------------------------
(***************************************************************************)
(* The header contract, said of the headers as a whole: no order, no       *)
(* loop, and entity-tags by their grammar.                                 *)
(***************************************************************************)
Given(h, name) == {i \in DOMAIN h.directives : h.directives[i].name = name}

(* OWS DQUOTE *etagc DQUOTE OWS, from position i to j. *)
IsTagAt(line, i, j) ==
    /\ i < j /\ line[i] = "dq" /\ line[j] = "dq"
    /\ \A k \in DOMAIN line :
         /\ k < i \/ k > j => line[k] = "sp"
         /\ i < k /\ k < j => line[k] \in {"c", "star", "weak"}

TagsOf(line) ==
    IF line = ObsText THEN {}
    ELSE {SubSeq(line, p[1], p[2]) :
            p \in {q \in (DOMAIN line) \X (DOMAIN line) :
                     IsTagAt(line, q[1], q[2])}}

(* The requests are well formed, and the entity-tags of Control are those that
   their lines hold. *)
ASSUME CacheControlAssumption ==
    /\ ObsText \notin {"no-store", "no-cache", "max-age", "other"} \cup Seq(Char)
    /\ NaN \notin Nat
    /\ Headers \subseteq AnyHeaders
    /\ \A h \in Headers : \A i \in DOMAIN h.tags : TagsOf(h.tags[i]) \subseteq Etag

Contract(h) ==
    LET stores == Given(h, "no-store")
        caches == Given(h, "no-cache")
        ages   == Given(h, "max-age")
        tags   == IF Len(h.tags) = 1 THEN TagsOf(h.tags[1]) ELSE {}
        malformed == \/ Given(h, ObsText) # {}
                     \/ Cardinality(ages) > 1
                     \/ \E i \in ages : h.directives[i].secs = NaN
                     \/ stores # {} /\ caches \cup ages # {}
    IN  IF malformed THEN Refused
        ELSE IF stores \cup caches \cup ages = {} THEN Ignored
        ELSE IF stores # {} THEN Parsed([NoControl EXCEPT !.noStore = TRUE])
        ELSE IF tags = {} THEN Refused
        ELSE Parsed([noCache |-> caches # {}, noStore |-> FALSE,
                     maxAge |-> IF ages = {} THEN 0
                                ELSE h.directives[CHOOSE i \in ages : TRUE].secs,
                     etag |-> CHOOSE tag \in tags : TRUE])

(* Whatever the order of the directives and of the lines they came on, the
   parser returns what the header contract says of the set of them; a key is
   exactly one strong entity-tag by the grammar of RFC 9110. *)
MeetsContract == outcome # Reading => outcome = Contract(headers)

(* What the parser hands to the cache is a Control: the cache never reads or
   writes the store under an empty key, and no-store excludes both. *)
YieldsControl ==
    outcome.kind = "control" =>
        /\ IsControl(outcome.control)
        /\ Reads(outcome.control) => Writes(outcome.control)

=============================================================================
