------------------------------ MODULE Control ------------------------------
(***************************************************************************)
(* What crates/http-cache/src/control.rs hands from the request headers to *)
(* the cache, and what the cache asks of it.  CacheControl shows that the  *)
(* parser produces nothing but Controls; HttpCache starts from them.       *)
(***************************************************************************)
EXTENDS Naturals

CONSTANTS
    Etag,      \* the entity-tags, as sent
    NoEtag     \* the empty string: a control without a key

ASSUME ControlAssumption == NoEtag \notin Etag

AnyControl ==
    [noCache : BOOLEAN, noStore : BOOLEAN, maxAge : Nat, etag : Etag \cup {NoEtag}]

(* no-store comes alone, and only no-store comes without a key. *)
IsControl(c) ==
    /\ c \in AnyControl
    /\ c.noStore => ~c.noCache /\ c.maxAge = 0
    /\ c.noStore <=> c.etag = NoEtag

(* A stored response may answer the request. *)
Reads(c) ==
    ~c.noCache /\ ~c.noStore /\ c.maxAge > 0 /\ c.etag # NoEtag

(* The origin's response is to be stored. *)
Writes(c) == ~c.noStore /\ c.maxAge > 0 /\ c.etag # NoEtag

=============================================================================
