----------------------------- MODULE MCOptions ------------------------------
(* An instance of Options for TLC. *)
EXTENDS Options, FiniteSets

\* Functions that give at most n of the names of D a value.
RECURSIVE Partial(_, _)
Partial(D, n) ==
    IF n = 0 THEN {<<>>}
    ELSE LET P == Partial(D, n - 1)
         IN P \cup UNION {{f @@ (k :> v) : f \in {g \in P : k \notin DOMAIN g},
                                           v \in D[k]} : k \in DOMAIN D}

Typed ==
    Partial([help |-> {""}, bogus |-> {""}], 1)
    \cup Partial([host |-> {"c"}, maildir |-> {"c"}, ssl |-> BOOLEAN], 3)
    \cup {f @@ [host |-> "c"] : f \in
            Partial([delete |-> BOOLEAN, fp |-> {"BAFF"}, ca |-> {"c"}], 2)}
    \cup {f @@ [maildir |-> "~/m"] : f \in
            Partial([list |-> BOOLEAN, header |-> BOOLEAN, port |-> {"c"},
                     cert_host |-> {"c"}, journal |-> {"c"},
                     account |-> {"2nd_example_account", "other"},
                     config |-> {"c"}], 2)}

User == [username |-> "u", password |-> "p"]
Written ==
    {"default" :> f : f \in
        {[username |-> "u"], User @@ [bogus |-> ""]}
        \cup {f @@ User : f \in
                Partial([host |-> {"r"}, maildir |-> {"r"}, ssl |-> BOOLEAN,
                         fp |-> {"BAFF"}, ca |-> {"r"}, delete |-> BOOLEAN], 3)}
        \cup {f @@ User @@ [host |-> "r", maildir |-> "r"] : f \in
                Partial([ip |-> {5, 6}, cipher_preset |-> {3, 4}, cert_host |-> {"r"},
                         cipher |-> {"r"}, mailbox |-> {"r"}, journal |-> {"r"},
                         ca |-> {"r"}, _comment |-> {""}], 2)}}

Certificates == [fp : {"BAFF", "other"}, preverified : BOOLEAN, host : {"c", "r"}]
Presented == {<<c>> : c \in Certificates} \cup
             {<<c, d>> : c \in {x \in Certificates : x.host = "c"}, d \in Certificates}
=============================================================================
