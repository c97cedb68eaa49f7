------------------------------ MODULE MCPubSub ------------------------------
(***************************************************************************)
(* Instances of PubSub: topics of one segment and of two, one whose route  *)
(* names "orders" instead, and one nobody handles; foreign events of every *)
(* data content type, some of which name another topic, some damaged.      *)
(***************************************************************************)
EXTENDS PubSub

Orders == <<"orders">>
Temp   == <<"iot", "/", "temp">>
Query  == <<"orders", "?", "eu">>
Lone   == <<"lone">>

(* JSON texts, and what a text in a JSON string may hold. *)
Str   == <<"string", "x">>
Loose == <<"respelled", "value", "x">>
Deep  == <<"unread", "value", "x">>
Nil   == <<"respelled", "null">>

Message(topic) == [topic |-> topic, payload |-> Loose]

MCMessages == {Message(Orders), Message(Query)}

MCRegistered == {Orders, Temp, Query}

Foreigner(topic, named, datatype, payload, form) ==
    [topic |-> topic, named |-> named, datatype |-> datatype,
     payload |-> payload, form |-> form]

(* A payload in the data of an envelope, as each data content type says how to
   read it; JSON that is a string, null, or more than the parser takes; topics
   that nobody handles or that the route does not name; and every way to damage
   a request.  What is sent is octets, in a body or in base64. *)
MCForeign ==
    {Foreigner(Temp, Orders, d, Loose, "inline") : d \in {"json", "text"}}
    \cup {Foreigner(Temp, Orders, "json", p, "inline") : p \in {Nil, Deep}}
    \cup {Foreigner(Temp, Orders, Absent, Str, "inline"),
          Foreigner(Lone, Orders, "json", Str, "inline"),
          Foreigner(<<"/", "orders">>, Orders, "json", Str, "inline"),
          Foreigner(<<"%", "lone">>, Orders, "json", Str, "inline")}
    \cup {Foreigner(Orders, Absent, "json", Str, f) : f \in DamagedForms}

=============================================================================
