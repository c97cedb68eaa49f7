------------------------------ MODULE Sidecar ------------------------------
(***************************************************************************)
(* The Dapr sidecar as the state API of crates/dapr sees it, after the     *)
(* in-memory sidecar of crates/dapr/tests/conformance.rs: one state item   *)
(* of one key, its ETag and its expiry.  Everything the client and the     *)
(* sidecar keep is kept per key, so one key stands for all of them.        *)
(*                                                                         *)
(* Time is counted in ticks; a second is TicksPerSec of them, so that      *)
(* deadlines may fall between two whole seconds.                           *)
(***************************************************************************)
EXTENDS Integers

CONSTANTS
    Value,        \* the byte strings a key may hold
    None,         \* the absent value, and the absent TTL, deadline or expiry
    TicksPerSec

ASSUME SidecarAssumption ==
    /\ TicksPerSec \in Nat \ {0}
    /\ None \notin Value
    /\ None \notin Nat

VARIABLES
    now,        \* the clock, which the sidecar and its clients share
    item,       \* the stored item, an expired one until somebody looks at it
    nextEtag    \* the ETag given to the last write

sidecarVars == <<now, item, nextEtag>>

OptNat == Nat \cup {None}

OptValue == Value \cup {None}

(***************************************************************************)
(* ETags are the numbers from 1; 0 is the empty ETag of a write that       *)
(* expects the key to be absent, and the ETag of an absent item.           *)
(***************************************************************************)
Item == [value : OptValue, etag : Nat, expires : OptNat]

Gone == [value |-> None, etag |-> 0, expires |-> None]

SidecarInit ==
    /\ now = 0
    /\ item = Gone
    /\ nextEtag = 0

(* The item a request finds: an expired one is removed on the way. *)
Live ==
    IF item.expires # None /\ item.expires <= now THEN Gone ELSE item

(* A first-write is refused unless its ETag is that of the live item. *)
Accepts(w) == w.first => w.etag = Live.etag

Expiry(ttl) == IF ttl = None THEN None ELSE now + ttl * TicksPerSec

(* Mutant: a write keeps the ETag of the write before it. *)
StoredStaleEtag(w) ==
    [value |-> w.value, etag |-> nextEtag, expires |-> Expiry(w.ttl)]

Stored(w) ==
    [value |-> w.value, etag |-> nextEtag + 1, expires |-> Expiry(w.ttl)]

StateGet ==
    /\ item' = Live
    /\ nextEtag' = nextEtag

StatePost(w) ==
    \/ /\ Accepts(w)
       /\ item' = Stored(w)
       /\ nextEtag' = nextEtag + 1
    \/ /\ ~Accepts(w)
       /\ item' = Live
       /\ nextEtag' = nextEtag

StateDelete ==
    /\ item' = Gone
    /\ nextEtag' = nextEtag

=============================================================================
