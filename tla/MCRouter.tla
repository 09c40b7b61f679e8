-------------------------------- MODULE MCRouter --------------------------------
(* A small instance of Router for TLC. *)
EXTENDS Router

Part(kind, name) == [kind |-> kind, name |-> name]

Exact  == Part("static", "a")
Params == {Part("param", "p"), Part("param", "q")}
Wild   == Part("wild", "w")
Empty  == Part("empty", "")

UpTo(n, S) == UNION {[1..i -> S] : i \in 0..n}

\* Every path of up to two parts (one exact part shows all of exactness), and
\* paths that differ in an empty segment only.
MCPath ==
  UpTo(2, Params \cup {Exact, Wild}) \cup {<<Empty>>, <<Exact, Empty>>}

\* Requests: one segment longer than the paths, so that wildcards take more
\* than one; parameters are not special in them.
Other == Part("static", "b")

MCAsked == UpTo(2, {Exact, Other, Wild, Empty}) \cup [1..3 -> {Exact, Other}]

MCSuffix == {<<>>, <<Other>>}

=============================================================================
