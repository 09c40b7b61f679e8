--------------------------------- MODULE Router ---------------------------------
(***************************************************************************)
(* The routes: the trie of each method (node.h), the chains of handlers    *)
(* and the groups they are registered through (router.cpp, gee.h), and the *)
(* lookup of a request (get_route).                                        *)
(*                                                                         *)
(* A path is the sequence of its segments, each preceded by a slash: the   *)
(* empty path is <<>>, and "/" is one empty segment.  A node of a trie is  *)
(* named by the parts on the way to it, so its depth is the height that    *)
(* insert() and search() count.                                            *)
(***************************************************************************)
EXTENDS Naturals, Sequences, SequencesExt, Functions

CONSTANTS
  Path,        \* the paths that are registered
  AskedPath,   \* the paths that are asked for
  Suffix,      \* the suffixes of groups
  Added,       \* the middlewares that Use() adds
  Method,
  MaxCalls     \* bound on the number of calls of Use, Group, GET and POST

\* The first character of a segment decides what it is.
Segment == [kind : {"empty", "static", "param", "wild"}, name : STRING]

IsPath(p) == p \in Seq(Segment)

ASSUME PathAssumption == \A p \in Path \cup AskedPath \cup Suffix : IsPath(p)
ASSUME CallsAssumption == MaxCalls \in Nat

NoPath == <<>>     \* the empty pattern of a node where no route ends

VARIABLES
  children,   \* children[m][n]: the parts of the children of node n, in order
  pattern,    \* pattern[m][n]: the pattern of node n
  chains,     \* route_handlers_chain_
  groups,     \* groups_, the engine itself first
  routes,     \* history: what was registered, <<method, path>>
  calls       \* the number of calls so far, for the bound

rtvars == <<children, pattern, chains, groups, routes, calls>>

\* A handler is named by the registration it came with.
Handler(i) == <<"handler", i>>

RouterTypeOK ==
  /\ DOMAIN children = DOMAIN pattern /\ DOMAIN children \subseteq Method
  /\ \A m \in DOMAIN children :
       /\ DOMAIN children[m] = DOMAIN pattern[m]
       /\ \A n \in DOMAIN children[m] :
            /\ IsPath(n) /\ IsPath(pattern[m][n]) /\ IsPath(children[m][n])
            /\ \A i \in DOMAIN children[m][n] :
                 /\ children[m][n][i].kind # "empty"
                 /\ Append(n, children[m][n][i]) \in DOMAIN children[m]
  /\ \A k \in DOMAIN chains : k[1] \in Method /\ IsPath(k[2])
  /\ \A i \in DOMAIN groups : IsPath(groups[i].prefix)

-----------------------------------------------------------------------------
\* A map with one entry put in, over the old one of that key.
Bind(map, key, value) ==
  [k \in DOMAIN map \cup {key} |-> IF k = key THEN value ELSE map[k]]

\* Faulty: empty segments are kept.
parse_pattern_raw(p) == p

\* parse_pattern: empty segments are dropped, a wildcard ends the path.
parse_pattern(p) ==
  FoldLeft(LAMBDA ps, s :
             IF s.kind = "empty" \/ (ps # <<>> /\ ps[Len(ps)].kind = "wild")
             THEN ps ELSE Append(ps, s),
           <<>>, p)

\* Engine's constructor.
RouterInit ==
  /\ children = <<>>
  /\ pattern = <<>>
  /\ chains = <<>>
  /\ groups = << [prefix |-> NoPath, middlewares |-> <<"recovery">>] >>
  /\ routes = <<>>
  /\ calls = 0

Called == calls < MaxCalls /\ calls' = calls + 1

\* Use(), of the engine or of a group.
Use(i, middleware) ==
  /\ Called
  /\ groups' = [groups EXCEPT ![i].middlewares = Append(@, middleware)]
  /\ UNCHANGED <<children, pattern, chains, routes>>

\* Faulty: a group begins without the middlewares of its parent.
Group_bare(i, suffix) ==
  /\ Called
  /\ groups' = Append(groups, [prefix |-> groups[i].prefix \o suffix,
                               middlewares |-> <<>>])
  /\ UNCHANGED <<children, pattern, chains, routes>>

\* Group(): a group copies the middlewares its parent has by now.
Group(i, suffix) ==
  /\ Called
  /\ groups' = Append(groups, [prefix |-> groups[i].prefix \o suffix,
                               middlewares |-> groups[i].middlewares])
  /\ UNCHANGED <<children, pattern, chains, routes>>

\* insert(): the nodes on the way, each a child of the one before it.
insert(tree, ps) ==
  [n \in DOMAIN tree \cup {SubSeq(ps, 1, i) : i \in 0..Len(ps)} |->
     LET old == IF n \in DOMAIN tree THEN tree[n] ELSE <<>>
     IN  IF \E i \in 1..Len(ps) :
              n = SubSeq(ps, 1, i - 1) /\ SubSeq(ps, 1, i) \notin DOMAIN tree
         THEN Append(old, ps[Len(n) + 1])
         ELSE old]

\* The pattern of the last node is the path, the new ones before it have none.
SetPattern(old, nodes, end, path) ==
  [n \in nodes |-> IF n = end THEN path
                   ELSE IF n \in DOMAIN old THEN old[n] ELSE NoPath]

\* What is under a method, nothing at first.
Under(m, map) == IF m \in DOMAIN map THEN map[m] ELSE <<>>

\* GET() and POST() of a group, and add_route().
add_route(i, m, p) ==
  LET path  == groups[i].prefix \o p
      ps    == parse_pattern(path)
      tree  == insert(Under(m, children), ps)
  IN  /\ Called
      /\ children' = Bind(children, m, tree)
      /\ pattern' = Bind(pattern, m,
                         SetPattern(Under(m, pattern), DOMAIN tree, ps, path))
      /\ routes' = Append(routes, <<m, path>>)
      /\ chains' = Bind(chains, <<m, path>>,
                        Append(groups[i].middlewares, Handler(Len(routes) + 1)))
      /\ UNCHANGED groups

RouterNext ==
  \E i \in DOMAIN groups :
     \/ \E middleware \in Added : Use(i, middleware)
     \/ \E suffix \in Suffix : Group(i, suffix)
     \/ \E m \in Method, p \in Path : add_route(i, m, p)

RouterSpec == RouterInit /\ [][RouterNext]_rtvars

-----------------------------------------------------------------------------
(***************************************************************************)
(* The lookup.  search() of a node returns a node and the parameters on    *)
(* the way to it, outer ones last, or NotFound.                            *)
(***************************************************************************)
NotFound == [node |-> <<>>, params |-> <<>>, found |-> FALSE]
Hit(n) == [node |-> n, params |-> <<>>, found |-> TRUE]

\* Faulty: parameters before exact parts.
Priority_params(c) ==
  CASE c.kind = "param" -> 0 [] c.kind = "static" -> 1 [] OTHER -> 2

\* The priorities of search().
Priority(c) ==
  IF c.kind = "static" THEN 0 ELSE IF c.kind = "param" THEN 1 ELSE 2

\* Faulty: the first child that fits is the only one tried.
Hits_first(kids, results) ==
  {i \in DOMAIN results :
     /\ results[i].found
     /\ \A j \in DOMAIN results : Priority(kids[i]) <= Priority(kids[j])}

\* The children whose search is not a nullptr.
Hits(kids, results) == {i \in DOMAIN results : results[i].found}

\* The first of them in the order of search().
FirstHit(kids, results) ==
  CHOOSE i \in Hits(kids, results) : \A j \in Hits(kids, results) :
    \/ Priority(kids[i]) < Priority(kids[j])
    \/ Priority(kids[i]) = Priority(kids[j]) /\ i <= j

\* Faulty: an inner parameter of the same name stays.
Record_inner(c, part, r) ==
  IF r.found /\ c.kind = "param" /\ c.name \notin DOMAIN r.params
  THEN [r EXCEPT !.params = Bind(@, c.name, part)] ELSE r

\* params[name] = part, once the search below has succeeded.
Record(c, part, r) ==
  IF r.found /\ c.kind = "param"
  THEN [r EXCEPT !.params = Bind(@, c.name, part)] ELSE r

\* What the search of the children of node n that fit a part comes to, from what
\* f says of the nodes below: a wildcard takes the rest of the path.
Results(kids, part, f, n) ==
  [i \in {j \in DOMAIN kids : kids[j].kind = "static" => kids[j] = part} |->
     IF kids[i].kind = "wild" THEN Hit(Append(n, kids[i]))
     ELSE Record(kids[i], part, f[Append(n, kids[i])])]

SearchNode(m, asked, f, n) ==
  LET kids    == children[m][n]
      results == Results(kids, asked[Len(n) + 1], f, n)
  IN  IF Len(n) = Len(asked)
      THEN IF pattern[m][n] = NoPath THEN NotFound ELSE Hit(n)
      ELSE IF Hits(kids, results) = {} THEN NotFound
      ELSE results[FirstHit(kids, results)]

search(m, asked) ==
  LET f[n \in {k \in DOMAIN children[m] : Len(k) <= Len(asked)}] ==
        SearchNode(m, asked, f, n)
  IN  f[<<>>]

get_route(m, p) ==
  IF m \in DOMAIN children THEN search(m, parse_pattern(p)) ELSE NotFound

-----------------------------------------------------------------------------
(***************************************************************************)
(* Properties, over every path that may be asked for.                      *)
(***************************************************************************)

\* What a route matches, without a trie: a parameter matches one part, a final
\* wildcard one or more.
Matches(route, asked) ==
  /\ \/ Len(route) = Len(asked)
     \/ /\ route # <<>> /\ route[Len(route)].kind = "wild"
        /\ Len(route) < Len(asked)
  /\ \A i \in DOMAIN route : route[i].kind = "static" => route[i] = asked[i]

\* The registrations for a node, and the path of the last one of them.
Registered(m, n) ==
  {i \in DOMAIN routes : routes[i][1] = m /\ parse_pattern(routes[i][2]) = n}

LastPath(m, n) == routes[Max(Registered(m, n))][2]

\* The routes that match a request.  Of routes with the same parts the last one
\* counts, and an empty path is no route (it even takes "/" back).
Matching(m, p) ==
  LET asked == parse_pattern(p)
  IN  {n \in {parse_pattern(routes[i][2]) :
                i \in {j \in DOMAIN routes : routes[j][1] = m}} :
         Matches(n, asked) /\ LastPath(m, n) # NoPath}

MoreSpecific(c, d) == \/ c.kind = "static" /\ d.kind # "static"
                      \/ c.kind # "wild" /\ d.kind = "wild"

\* A request finds a route exactly if one that was registered matches it: no
\* route hides behind a more specific one that fails further down.  Where two
\* matching routes part, the one found is the one with the exact part, else
\* the parameter, else the wildcard.
FindsMostSpecific(m, p, r) ==
  LET matching == Matching(m, p)
  IN  /\ r.found <=> matching # {}
      /\ r.found =>
           /\ r.node \in matching
           /\ \A o \in matching :
                ~\E i \in DOMAIN o \cap DOMAIN r.node :
                   /\ \A j \in 1..i - 1 : o[j] = r.node[j]
                   /\ MoreSpecific(o[i], r.node[i])

\* The parameters of the route found, with the parts at their places: nothing
\* is left of branches that were tried and given up.  Of two parameters with
\* one name the first counts.
ParamsOfRoute(p, r) ==
  LET ParamAt == {i \in DOMAIN r.node : r.node[i].kind = "param"}
  IN  /\ DOMAIN r.params = {r.node[i].name : i \in ParamAt}
      /\ \A i \in ParamAt :
           (\A j \in ParamAt : r.node[j].name = r.node[i].name => i <= j)
             => r.params[r.node[i].name] = parse_pattern(p)[i]

\* get_route: the right node, and the parameters that belong to it.
RouteAndParams ==
  \A m \in Method, p \in AskedPath :
    LET r == get_route(m, p)
    IN  FindsMostSpecific(m, p, r) /\ (r.found => ParamsOfRoute(p, r))

\* "Route exists but handler chain is missing" is never thrown: the pattern of
\* the node found is the key of a chain, the one registered last for that node.
\* The chain begins with Recovery, by whatever groups it was registered.
ChainExists ==
  \A m \in Method, p \in AskedPath :
    LET r   == get_route(m, p)
        key == <<m, LastPath(m, r.node)>>
    IN  r.found =>
          /\ pattern[m][r.node] = key[2]
          /\ key \in DOMAIN chains
          /\ Head(chains[key]) = "recovery"
          /\ Last(chains[key]) =
               Handler(Max({i \in DOMAIN routes : routes[i] = key}))

=============================================================================
