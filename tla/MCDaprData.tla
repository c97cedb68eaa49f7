----------------------------- MODULE MCDaprData -----------------------------
(***************************************************************************)
(* Instances of DaprData: a plain key and one with every character that    *)
(* means something in a URL; values that are empty, that are no text, and  *)
(* that look like base64 or JSON themselves.                               *)
(***************************************************************************)
EXTENDS DaprData

Plainly == <<"a">>
Awkward == <<"a", "/", "%", "?", "&", "=">>

MCKey == {Plainly, Awkward}

MCChar ==
    {"a", "e", "v", "x", "store", "key", "metadata.", "spoilt", "base64", "json",
     "blank"} \cup Reserved

MCUnreserved == {"a"}

MCBytes == {<<>>, <<"x">>, <<"base64", "x">>, <<"json", "x">>}

MCTopic == {Awkward}

MCHeaders == {{}, {<<Plainly, Awkward>>, <<Awkward, Plainly>>}}

MCContainer == Awkward

(* Every way to answer each of get, list and configuration, not every mixture. *)
Service(body, absent, items, shape) ==
    [body |-> body, absent |-> absent, items |-> items, shape |-> shape]

MCServices ==
    {Service("json", "notFound", "string", "map"),
     Service("json", "empty", "odd", "other"),
     Service("text", "noContent", "key", "array"),
     Service("decoded", "notFound", "name", "array")}

MCConfigs ==
    {[k \in MCKey |-> IF k = Awkward THEN v ELSE Absent] :
        v \in {Absent, Null, <<"v">>}}

MCEnv == [k \in MCKey |-> IF k = Plainly THEN <<"e">> ELSE Absent]

MCForeign == {<<"x">>, <<"blank", "x">>}

=============================================================================
