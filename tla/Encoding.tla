------------------------------ MODULE Encoding ------------------------------
(***************************************************************************)
(* The encodings of crates/dapr/src/protocol.rs: of bytes in JSON bodies,  *)
(* and of names in URLs.                                                   *)
(*                                                                         *)
(* A byte string is <<>>, or what it is, layer by layer: "base64" is the   *)
(* base64 text of the rest, "json" the JSON string of the rest, "blank"    *)
(* the rest with white space around it; any other last element stands for  *)
(* bytes that are none of these.                                           *)
(*                                                                         *)
(* A name is a sequence of characters.  A URL is a sequence of tokens, a   *)
(* character each, escaped (%XX) or literal.                               *)
(***************************************************************************)
EXTENDS Sequences, SequencesExt, Integers

CONSTANTS
    Char,         \* characters, and the words, layers and bytes that stand for some
    Unreserved    \* the characters that mean nothing in a URL

(* What ends a part of a URL, and what begins an escape. *)
Reserved == {"/", "?", "&", "=", "%"}

ASSUME EncodingAssumption ==
    /\ Reserved \cup {"spoilt", "base64", "json", "blank"} \subseteq Char
    /\ Unreserved \subseteq Char \ Reserved

Layer(kind, bytes) == <<kind>> \o bytes

Is(kind, bytes) == bytes # <<>> /\ Head(bytes) = kind

Trim(bytes) == IF Is("blank", bytes) THEN Tail(bytes) ELSE bytes

(* The empty string is its own base64 text. *)
EncodeBytes(bytes) == IF bytes = <<>> THEN <<>> ELSE Layer("base64", bytes)

IsBase64(text) == text = <<>> \/ Is("base64", text)

Decode64(text) == IF text = <<>> THEN <<>> ELSE Tail(text)

Decoded(bytes) == [ok |-> TRUE, bytes |-> bytes]

Undecodable == [ok |-> FALSE, bytes |-> <<>>]

(* Mutant: the JSON around the encoded bytes is not looked for. *)
DecodePlain(raw) ==
    IF IsBase64(Trim(raw)) THEN Decoded(Decode64(Trim(raw))) ELSE Decoded(raw)

(* A JSON string has to be base64; of other text base64 is a guess. *)
DecodeBytes(raw) ==
    LET text == Trim(raw)
    IN  CASE Is("json", text) ->
               IF IsBase64(Tail(text)) THEN Decoded(Decode64(Tail(text)))
               ELSE Undecodable
          [] ~Is("json", text) /\ IsBase64(text) -> Decoded(Decode64(text))
          [] OTHER -> Decoded(raw)

-----------------------------------------------------------------------------
Lit(c) == <<[c |-> c, esc |-> FALSE]>>

(* Mutant: characters that end a path or begin an escape are left as they are. *)
EncodeLoosely(name) ==
    [i \in DOMAIN name |->
        [c |-> name[i], esc |-> name[i] \notin Unreserved \cup {"?", "%"}]]

Encode(name) ==
    [i \in DOMAIN name |-> [c |-> name[i], esc |-> name[i] \notin Unreserved]]

(* The segments of a topic are encoded one by one. *)
EncodeTopic(topic) ==
    [i \in DOMAIN topic |->
        IF topic[i] = "/" THEN [c |-> "/", esc |-> FALSE]
        ELSE Encode(topic)[i]]

Joined(parts, c) ==
    LET all == FlattenSeq([i \in DOMAIN parts |-> Lit(c) \o parts[i]])
    IN  SubSeq(all, 2, Len(all))

-----------------------------------------------------------------------------
(***************************************************************************)
(* How an HTTP server takes a URL apart.                                   *)
(***************************************************************************)
Cut(url, c) == SelectInSeq(url, LAMBDA token : Lit(c) = <<token>>)

Before(url, c) ==
    IF Cut(url, c) = 0 THEN url ELSE SubSeq(url, 1, Cut(url, c) - 1)

Behind(url, c) ==
    IF Cut(url, c) = 0 THEN <<>> ELSE SubSeq(url, Cut(url, c) + 1, Len(url))

Pieces(url, c) ==
    LET cuts == {i \in DOMAIN url : Lit(c) = <<url[i]>>}
        Piece(i) == Before(SubSeq(url, i + 1, Len(url)), c)
    IN  {Piece(i) : i \in cuts \cup {0}}

(* A literal percent sign, escaping what nobody escaped, spoils a name. *)
Unescaped(tokens) ==
    [i \in DOMAIN tokens |->
        IF Lit("%") = <<tokens[i]>> THEN "spoilt" ELSE tokens[i].c]

=============================================================================
