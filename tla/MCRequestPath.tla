--------------------------- MODULE MCRequestPath ---------------------------
(* Instances of RequestPath for TLC. *)
EXTENDS RequestPath

CONSTANTS p1, p2, p3

\* p1 is split into two parts, the second shorter; p2 fits exactly; p3 is empty.
MCBodyLength == [p \in Payloads |-> CASE p = p1 -> 3 [] p = p2 -> 2 [] OTHER -> 0]

Plain == <<"svc">>
Dotted == <<"svc", "a">>
MCNames == {Plain, Dotted}
MCChildren == {<<"child">>}

Make(p, op, key, spec, lock) == NewRequest(p, op, key, spec, lock, 7)

\* A request for a handler, by name and as a broadcast; for a child; for what
\* every endpoint does; without specifier; with an unknown operation; with a key
\* that is no UUID; with an empty payload.
MCRequests == {Make(p1, "get", <<"svc", "a">>, <<"x", "y">>, "nil"),
               Make(p2, "set", <<"all">>, <<"x">>, "key"),
               Make(p1, "get", <<"child">>, <<"x">>, "nil"),
               Make(p2, "cmd", <<"svc">>, <<"ping">>, "nil"),
               Make(p2, "get", <<"svc">>, EmptyString, "nil"),
               Make(p2, "run", <<"svc">>, <<"x">>, "nil"),
               Make(p2, "set", <<"svc">>, <<"x">>, "malformed"),
               Make(p3, "get", <<"svc">>, <<"x">>, "nil")}
=============================================================================
