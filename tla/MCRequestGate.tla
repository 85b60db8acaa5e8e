---------------------------- MODULE MCRequestGate ---------------------------
(* A small instance of RequestGate: tokens for a project "a" and for one    *)
(* whose name holds a separator, and files the server must not start with. *)
EXTENDS RequestGate, TLC

A == <<"a">>
AB == <<"a", "/", "b">>
I == <<"i">>

TokenA == [id |-> "t1", secret |-> "s1", hashed |-> TRUE, project |-> A, prefix |-> <<"a", "/">>]
TokenAB == [id |-> "t2", secret |-> "s2", hashed |-> TRUE, project |-> AB, prefix |-> <<"a">>]
Narrow == [TokenA EXCEPT !.id = "t2", !.prefix = <<"a", "/", "j">>]

Schema(p, k, ok) == [project |-> p, kind |-> k, accepts |-> ok, compiles |-> TRUE]
Resource(u) == [uri |-> u, compiles |-> TRUE]

Good == [parses |-> TRUE, tokens |-> <<TokenA, TokenAB>>, resources |-> <<Resource("u")>>,
         schemas |-> <<Schema(A, "log_attributes", {"good", "bad"}),
                       Schema(A, "log_attributes", {"good"}),
                       Schema(A, "crash_metadata", {"good"})>>]

MCConfigFiles ==
    {Good,
     [Good EXCEPT !.tokens = <<Narrow, TokenA>>, !.schemas = <<>>],
     [Good EXCEPT !.parses = FALSE],
     [Good EXCEPT !.tokens = <<TokenAB>>],
     [Good EXCEPT !.tokens = <<TokenA, [TokenAB EXCEPT !.hashed = FALSE]>>],
     [Good EXCEPT !.tokens = <<>>, !.schemas = <<>>],
     [Good EXCEPT !.resources = <<Resource("u"), Resource("u")>>],
     [Good EXCEPT !.schemas = <<[Schema(A, "log_attributes", {}) EXCEPT !.compiles = FALSE]>>]}

Symmetry == Permutations(Handlers)

Source(p, i) == [project |-> p, install |-> i]
Part(s, payload) == [source |-> s, payload |-> payload]
Post(path, secret, entries) ==
    [path |-> path, secret |-> secret, version |-> TRUE, wellFormed |-> TRUE, entries |-> entries]

Home == Source(A, I)
MCSources == {Home, Source(A, <<"b", "/", "i">>), Source(AB, I), Source(<<"b">>, I)}

MCClients == {"t1", "t2"} \X {Canonical(s) : s \in MCSources}

MCCalls ==
    {Post("logs", "s1", <<Part(s, "good")>>) : s \in MCSources \cup {None}}
    \cup {Post("logs", "s1", <<Part(Home, "good"), Part(s, p)>>) :
            s \in {Home, Source(<<"b">>, I)}, p \in {"good", "bad"}}
    \cup {Post("crashes", "s1", <<Part(s, "good")>>) : s \in MCSources}
    \cup {Post(p, "s2", <<Part(s, "bad")>>) : p \in Endpoints, s \in {Home, Source(AB, I)}}
    \cup {Post("crashes", "s1", <<Part(Home, "bad")>>),
          Post("crashes", "no", <<Part(Home, "good")>>),
          [Post("crashes", "s1", <<Part(Home, "good")>>) EXCEPT !.wellFormed = FALSE],
          [Post("logs", "s1", <<>>) EXCEPT !.version = FALSE]}
=============================================================================
