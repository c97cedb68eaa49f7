--------------------------- MODULE MCCacheControl ---------------------------
(***************************************************************************)
(* All lists of up to MaxDirectives directives with a few If-None-Match    *)
(* lines, and one max-age with every If-None-Match line of up to MaxLine   *)
(* characters.                                                             *)
(***************************************************************************)
EXTENDS CacheControl

CONSTANTS MaxDirectives, MaxLine

Directive(name, secs) == [name |-> name, secs |-> secs]

MCDirectives ==
    {Directive("no-store", NaN), Directive("no-cache", NaN),
     Directive("max-age", 0), Directive("max-age", 1), Directive("max-age", NaN),
     Directive(ObsText, NaN), Directive("other", NaN)}

Strong == <<"dq", "c", "dq">>

MCTags ==
    {<<>>, <<Strong>>, <<Strong, Strong>>, <<ObsText>>,
     <<<<"weak", "dq", "c", "dq">>>>}

MCHeaders ==
    [directives : SeqOf(MCDirectives, MaxDirectives), tags : MCTags]
    \cup
    [directives : {<<Directive("max-age", 1)>>},
     tags : {<<line>> : line \in SeqOf(Char, MaxLine)}]

(* Every key the lines above can hold. *)
MCEtag ==
    {<<"dq">> \o body \o <<"dq">> :
        body \in SeqOf({"c", "star", "weak"}, MaxLine)}

=============================================================================
