------------------------------- MODULE Routes -------------------------------
(***************************************************************************)
(* The routing tables of ghttp: SimpleRoute (ghttp/simpleroute.go), built  *)
(* from path patterns, and DefaultRoute (ghttp/route.go), built node by    *)
(* node.  A table is built by calls made one after the other and then      *)
(* looked up by every request.                                             *)
(*                                                                         *)
(* A node is the sequence of the names that lead to it.  A segment of a    *)
(* pattern is a literal name or a placeholder: "id" stands for :x_id,      *)
(* "colon" for a :x without that suffix, "brace" for {x}, "braceid" for    *)
(* {x_id}, whose text is the x, and "wild" for the asterisk, whose text is *)
(* Wild.                                                                   *)
(***************************************************************************)
EXTENDS Naturals, Sequences, FiniteSets

CONSTANTS Patterns,   \* the patterns that SetEndpoint and SetGroup may be given
          Names,      \* names of nodes added to a DefaultRoute
          Given,      \* what a call may give a node: a task and acceptances
          Paths,      \* request paths: nonempty sequences of segments
          MaxCalls    \* bound: calls that build the table

\* The parts of the patterns, and the names a node can have.
Parts == UNION {{p[i] : i \in DOMAIN p} : p \in Patterns}

\* The empty path is for the root (SetRoot, SetRootGroup).
ASSUME PatternsAssumption == Patterns \subseteq Seq(Parts) \ {<<>>}

VARIABLES
  flavour,   \* "simple" or "default"
  tree,      \* node |-> its routeType, handler and acceptances
  mappings,  \* endpointMappings: pattern |-> node name |-> key of its parameter
  calls,     \* how many calls have been made
  placed     \* history: node |-> what the last effective call gave it

routesVars == <<flavour, tree, mappings, calls, placed>>

None == "none"
Root == <<>>
Wild == "*"

Node(k, t, as) == [kind |-> k, task |-> t, accs |-> as]
Lit(n) == [kind |-> "name", text |-> n]
Placeholder(part) == part.kind \in {"id", "colon", "brace", "braceid"}

\* f with f[x] = v, whether or not x was in its domain.
With(f, x, v) == [y \in DOMAIN f \cup {x} |-> IF y = x THEN v ELSE f[y]]

NameOf(n) == IF n = Root THEN "" ELSE n[Len(n)]
ParentOf(n) == SubSeq(n, 1, Len(n) - 1)
Child(n, name) == Append(n, name)

\* The nodes from the root to n, n included.
Line(n) == {SubSeq(n, 1, i) : i \in 0..Len(n)}

\* NewSimpleRoute, and NewRoute with its default task.
RoutesInit ==
  /\ flavour \in {"simple", "default"}
  /\ tree = [n \in {Root} |-> Node("root", None, {})]
  /\ mappings = <<>>
  /\ calls = 0
  /\ placed = <<>>

----------------------------------------------------------------------------
(* Building a SimpleRoute.                                                 *)

SetRoot(t, as) ==
  /\ tree' = [tree EXCEPT ![Root].task = t, ![Root].accs = as]
  /\ placed' = With(placed, Root, [task |-> t, accs |-> as])
  /\ UNCHANGED mappings

\* A walk along a pattern: where it is, the tree as changed so far, the keys
\* of parameters it has met, the node it gave the task to, and whether it
\* came to the asterisk, where it returns at once.
Start == [at |-> Root, tree |-> tree, keys |-> <<>>, put |-> <<>>, over |-> FALSE]

\* The key of a parameter: its prefix, its name and the _id at its end.  A brace
\* sets the prefix of the node's name for the rest of the pattern; a colon sets
\* none, and takes none away.
ParamKey(keys, name, part) ==
  <<IF part.kind # "id" THEN "p:" ELSE IF name \in DOMAIN keys THEN keys[name][1] ELSE "",
    part.text,
    IF part.kind \in {"id", "braceid"} THEN "_id" ELSE "">>

\* A placeholder turns the node before it into an endpoint.
MeetParam(w, part, last, t, as) ==
  LET n == w.tree[w.at]
  IN [w EXCEPT !.tree[w.at] = IF last THEN Node("endpoint", t, as)
                                      ELSE [n EXCEPT !.kind = "endpoint"],
               !.keys = IF part.kind = "colon" THEN @
                        ELSE With(@, NameOf(w.at), ParamKey(@, NameOf(w.at), part)),
               !.put = IF last THEN <<w.at>> ELSE @]

\* The node of an asterisk is made anew, without the nodes below the old one.
MeetWild(w, t, as) ==
  LET c == Child(w.at, Wild)
      kept == {n \in DOMAIN w.tree : c \notin Line(n)}
  IN [w EXCEPT !.tree = With([n \in kept |-> w.tree[n]], c, Node("recursive", t, as)),
               !.put = <<c>>, !.over = TRUE]

\* Mutant of MeetName: a name met last takes the task, node or no node.
MeetNameReplaces(w, name, last, t, as) ==
  LET c == Child(w.at, name)
  IN [w EXCEPT !.at = c,
               !.tree = IF c \in DOMAIN @ /\ ~last THEN @
                        ELSE With(@, c, Node(IF last THEN "endpoint" ELSE "group", t, as))]

\* A node that is already there stays as it is, even as the last of the
\* pattern: then the call gives its task to no node.
MeetName(w, name, last, t, as) ==
  LET c == Child(w.at, name)
  IN IF c \in DOMAIN w.tree THEN [w EXCEPT !.at = c]
     ELSE [w EXCEPT !.at = c,
                    !.tree = With(@, c, IF last THEN Node("endpoint", t, as)
                                                ELSE Node("group", None, {})),
                    !.put = IF last THEN <<c>> ELSE @]

MeetEndpoint(w, part, last, t, as) ==
  CASE Placeholder(part) -> MeetParam(w, part, last, t, as)
    [] part.kind = "wild" -> MeetWild(w, t, as)
    [] OTHER -> MeetName(w, part.text, last, t, as)

\* Of a group, placeholders are skipped, the asterisk is a name like others, and
\* the acceptances of a node that is already there are not set.
MeetGroup(w, part, last, as) ==
  LET c == Child(w.at, part.text)
  IN CASE Placeholder(part) -> w
       [] ~Placeholder(part) /\ c \in DOMAIN w.tree -> [w EXCEPT !.at = c]
       [] OTHER -> [w EXCEPT !.at = c,
                             !.tree = With(@, c, Node("group", None, IF last THEN as ELSE {})),
                             !.put = IF last THEN <<c>> ELSE @]

\* One turn of the loop of a call.
Meet(w, part, last, call) ==
  CASE w.over -> w
    [] ~w.over /\ call.group -> MeetGroup(w, part, last, call.accs)
    [] OTHER -> MeetEndpoint(w, part, last, call.task, call.accs)

WalkAlong(pattern, call) ==
  LET walk[i \in 0..Len(pattern)] ==
        IF i = 0 THEN Start ELSE Meet(walk[i - 1], pattern[i], i = Len(pattern), call)
  IN walk[Len(pattern)]

\* A call walks along its pattern.  What it was given is remembered for the node
\* it gave it to, and forgotten of nodes that are gone.
Build(w, call) ==
  LET kept == [n \in DOMAIN placed \cap DOMAIN w.tree |-> placed[n]]
  IN /\ tree' = w.tree
     /\ placed' = IF w.put = <<>> THEN kept
                  ELSE With(kept, w.put[1], [task |-> call.task, accs |-> call.accs])

\* The keys are stored under the pattern, unless it ended at an asterisk.
SetEndpoint(pattern, t, as) ==
  LET call == [group |-> FALSE, task |-> t, accs |-> as]
      w == WalkAlong(pattern, call)
  IN /\ Build(w, call)
     /\ mappings' = IF w.over \/ w.keys = <<>> THEN mappings
                    ELSE With(mappings, pattern, w.keys)

SetGroup(pattern, as) ==
  LET call == [group |-> TRUE, task |-> None, accs |-> as]
  IN Build(WalkAlong(pattern, call), call) /\ UNCHANGED mappings

\* SetGroup of the empty path.
SetRootGroup(as) ==
  /\ tree' = [tree EXCEPT ![Root].accs = as]
  /\ placed' = With(placed, Root, [task |-> tree[Root].task, accs |-> as])
  /\ UNCHANGED mappings

----------------------------------------------------------------------------
(* Building a DefaultRoute: AddEndPoint, AddRecursiveEndPoint and AddGroup *)
(* of endpoints and of groups, and of the route for its root.  A second    *)
(* child of one name is refused.                                           *)

AddNode(parent, name, k, t, as) ==
  /\ Child(parent, name) \notin DOMAIN tree
  /\ tree' = With(tree, Child(parent, name), Node(k, IF k = "group" THEN None ELSE t, as))
  /\ placed' = With(placed, Child(parent, name),
                    [task |-> IF k = "group" THEN None ELSE t, accs |-> as])
  /\ UNCHANGED mappings

AddToRoute(name, k, t, as) == AddNode(Root, name, k, t, as)

\* DefaultRoute.SetRoot: the new root comes without the nodes of the old one.
ReplaceRoot(t, as) ==
  /\ tree' = [n \in {Root} |-> Node("root", t, as)]
  /\ placed' = [n \in {Root} |-> [task |-> t, accs |-> as]]
  /\ UNCHANGED mappings

----------------------------------------------------------------------------
(* Lookup.                                                                 *)

\* What a lookup returns; a parameter is the node it belongs to and a value.
Nothing == [node |-> None, params |-> {}, isLast |-> FALSE]
Found(n, ps, last) == [node |-> <<n>>, params |-> ps, isLast |-> last]

\* Mutant of AtEndpoint: an id needs no child of the endpoint behind it.
AtEndpointGreedy(cur, path, i, ps) ==
  LET c == Child(cur, path[i])
      last == i = Len(path)
  IN CASE c \in DOMAIN tree /\ last -> [res |-> Found(c, ps, TRUE)]
       [] c \in DOMAIN tree /\ ~last -> [cur |-> c, ps |-> ps]
       [] c \notin DOMAIN tree /\ last /\ cur = Root -> [res |-> Nothing]
       [] c \notin DOMAIN tree /\ last /\ cur # Root ->
            [res |-> Found(cur, ps \cup {<<cur, path[i]>>}, FALSE)]
       [] OTHER -> [cur |-> cur, ps |-> ps \cup {<<cur, path[i]>>}]

\* The steps of a lookup on which both routes agree: what the next segment
\* does at an endpoint, a group or a recursive endpoint.
AtEndpoint(cur, path, i, ps) ==
  LET part == path[i]
      there == Child(cur, part) \in DOMAIN tree
      last == i = Len(path)
  IN CASE there /\ last -> [res |-> Found(Child(cur, part), ps, TRUE)]
       [] there /\ ~last -> [cur |-> Child(cur, part), ps |-> ps]
       [] ~there /\ last /\ cur = Root -> [res |-> Nothing]
       [] ~there /\ last /\ cur # Root -> [res |-> Found(cur, ps \cup {<<cur, part>>}, FALSE)]
       [] ~there /\ ~last /\ Child(cur, path[i + 1]) \in DOMAIN tree ->
            [cur |-> cur, ps |-> ps \cup {<<cur, part>>}]
       [] OTHER -> [res |-> Nothing]

AtRecursive(cur, path, i, ps) ==
  [res |-> Found(cur, IF Child(cur, path[i]) \in DOMAIN tree THEN ps
                      ELSE ps \cup {<<cur, path[i]>>}, FALSE)]

\* Only SimpleRoute looks for an asterisk; it takes the rest of the path.
AtGroup(cur, path, i, ps, wildcards) ==
  LET c == Child(cur, path[i])
      wild == Child(cur, Wild)
  IN CASE c \in DOMAIN tree -> [cur |-> c, ps |-> ps]
       [] c \notin DOMAIN tree /\ wildcards /\ wild \in DOMAIN tree ->
            [res |-> Found(wild, ps \cup {<<wild, SubSeq(path, i, Len(path))>>}, FALSE)]
       [] OTHER -> [res |-> Nothing]

\* The state of a lookup is a result, or a current node and parameters; what
\* segment i does to it, ...
Look(s, path, i, wildcards) ==
  CASE "res" \in DOMAIN s -> s
    [] "res" \notin DOMAIN s /\ tree[s.cur].kind \in {"root", "endpoint"} ->
         AtEndpoint(s.cur, path, i, s.ps)
    [] "res" \notin DOMAIN s /\ tree[s.cur].kind = "recursive" ->
         AtRecursive(s.cur, path, i, s.ps)
    [] "res" \notin DOMAIN s /\ tree[s.cur].kind = "group" ->
         AtGroup(s.cur, path, i, s.ps, wildcards)

\* ... and where the whole path leads.
Lookup(path, wildcards) ==
  LET walk[i \in 0..Len(path)] ==
        IF i = 0 THEN [cur |-> Root, ps |-> {}] ELSE Look(walk[i - 1], path, i, wildcards)
  IN walk[Len(path)]

\* SimpleRoute.RouteNode: a group at the end of the path is not found.
RouteNode(path) ==
  LET s == Lookup(path, TRUE)
  IN IF "res" \in DOMAIN s THEN s.res
     ELSE IF tree[s.cur].kind = "group" THEN Nothing ELSE Found(s.cur, s.ps, TRUE)

\* DefaultRoute.RouteNode returns it; the dispatcher then answers 404.
DefaultRouteNode(path) ==
  LET s == Lookup(path, FALSE)
  IN IF "res" \in DOMAIN s THEN s.res ELSE Found(s.cur, s.ps, TRUE)

Answer(path) == IF flavour = "simple" THEN RouteNode(path) ELSE DefaultRouteNode(path)

\* What the dispatcher takes for found.
Served(r) == r.node # None /\ tree[r.node[1]].kind # "group"

\* Mutant of AggregatedAcceptances: those of the parents are left out.
AggregatedOwn(n) == tree[n].accs

\* _Node.AggregatedAcceptances.
AggregatedAcceptances(n) == UNION {tree[m].accs : m \in Line(n)}

----------------------------------------------------------------------------
(* The keys under which parameters are stored.                             *)

\* A pattern fits a path that is at least as long and has its names.
PathMatchesEndpoint(path, pattern) ==
  /\ Len(pattern) <= Len(path)
  /\ \A i \in 1..Len(pattern) : Placeholder(pattern[i]) \/ pattern[i].text = path[i]

\* findBestMatchingMapping ranges over a Go map and takes the first mapping
\* that fits: any of these, a different one at every call.
Fitting(path) == {mappings[p] : p \in {q \in DOMAIN mappings : PathMatchesEndpoint(path, q)}}
BestMappings(path) == IF Fitting(path) = {} THEN {<<>>} ELSE Fitting(path)

\* getParamKeyForPath.
KeyIn(m, n) ==
  IF NameOf(n) \in DOMAIN m THEN m[NameOf(n)] ELSE <<"", NameOf(n), "_id">>

\* Mutant of ShownName: the node keeps its own name.
ShownNamePlain(m, n) == NameOf(n)

\* wrapNodeChainIfNeeded: a parameter's own name, without its _id, replaces
\* the name of the node.
ShownName(m, n) == IF NameOf(n) \in DOMAIN m THEN m[NameOf(n)][2] ELSE NameOf(n)

\* GetID(name, params): p:name, then name, then name_id.
GetID(name, stored) ==
  LET tries == <<<<"p:", name, "">>, <<"", name, "">>, <<"", name, "_id">>>>
      hits == {i \in 1..3 : tries[i] \in DOMAIN stored}
  IN IF hits = {} THEN None
     ELSE stored[tries[CHOOSE i \in hits : \A j \in hits : i <= j]]

----------------------------------------------------------------------------
\* Tables are built by a few calls; a DefaultRoute nests in nodes already added.
RoutesNext ==
  /\ calls < MaxCalls
  /\ calls' = calls + 1
  /\ UNCHANGED flavour
  /\ \E g \in Given : LET t == g.task  as == g.accs IN
       \/ /\ flavour = "simple"
          /\ \/ SetRoot(t, as) \/ SetRootGroup(as)
             \/ \E p \in Patterns : SetEndpoint(p, t, as) \/ SetGroup(p, as)
       \/ /\ flavour = "default"
          /\ \/ ReplaceRoot(t, as)
             \/ \E name \in Names, k \in {"endpoint", "group", "recursive"} :
                  \/ AddToRoute(name, k, t, as)
                  \/ \E n \in DOMAIN tree \ {Root} : AddNode(n, name, k, t, as)

RoutesSpec == RoutesInit /\ [][RoutesNext]_routesVars

----------------------------------------------------------------------------
(* Properties.                                                             *)

\* A reading of a path gives every segment a role: the name of a node, the
\* id that follows an endpoint, or part of the rest a recursive endpoint or
\* an asterisk takes.
Roles(path) == [1..Len(path) -> {"name", "id", "rest"}]

\* The node that the names before segment i lead to.
Before(path, role, i) ==
  LET js == SelectSeq([j \in 1..(i - 1) |-> j], LAMBDA j : role[j] = "name")
  IN [k \in 1..Len(js) |-> path[js[k]]]

TakesRest(n) ==
  \/ tree[n].kind = "recursive"
  \/ flavour = "simple" /\ tree[n].kind = "group" /\ Child(n, Wild) \in DOMAIN tree

\* A segment is a name wherever there is a node of that name.  An id stands
\* between an endpoint and a name of its children, or last; not last after the
\* root.
Reading(path, role) ==
  \A i \in 1..Len(path) :
    LET n == Before(path, role, i)
        named == Child(n, path[i]) \in DOMAIN tree
    IN /\ n \in DOMAIN tree
       /\ role[i] = "name" => named /\ tree[n].kind # "recursive"
       /\ role[i] = "id" =>
            /\ ~named /\ tree[n].kind \in {"root", "endpoint"}
            /\ IF i = Len(path) THEN n # Root
               ELSE role[i + 1] = "name"
       /\ role[i] = "rest" =>
            /\ i = Len(path) \/ role[i + 1] = "rest"
            /\ \/ i > 1 /\ role[i - 1] = "rest"
               \/ TakesRest(n) /\ (named => tree[n].kind = "recursive")

\* The node a reading ends at.
EndOf(path, role) ==
  LET n == Before(path, role, Len(path) + 1)
  IN IF role[Len(path)] = "rest" /\ tree[n].kind = "group" THEN Child(n, Wild) ELSE n

\* The segment-by-segment lookups of both routes find exactly the paths that
\* have a reading with an endpoint at its end, and return that endpoint, its
\* ids, and whether the path ends with its name.
LookupAgrees ==
  \A path \in Paths :
    LET r == Answer(path)
        good == {role \in Roles(path) :
                  Reading(path, role) /\ tree[EndOf(path, role)].kind # "group"}
    IN IF Served(r)
       THEN \E role \in good :
              /\ r.node[1] = EndOf(path, role)
              /\ r.isLast = (role[Len(path)] = "name")
              /\ \A i \in 1..Len(path) :
                   role[i] = "id" => <<Before(path, role, i), path[i]>> \in r.params
       ELSE good = {}

\* An endpoint that a call has put in the table is found under its names, with
\* its task, whatever calls follow; not below a recursive endpoint.
EndpointsStay ==
  \A n \in DOMAIN placed :
    /\ placed[n].task # None
    /\ \A m \in Line(n) \ {n} : tree[m].kind # "recursive"
    => LET r == Answer(n)
       IN r.node = <<n>> /\ r.isLast /\ tree[n].task = placed[n].task

\* Acceptances given to a node stand before every endpoint below it, however
\* a request comes there, and stay until a call gives the node others.
GuardsApply ==
  \A path \in Paths :
    LET r == Answer(path)
    IN Served(r) =>
         \A m \in Line(r.node[1]) \cap DOMAIN placed :
           placed[m].accs \subseteq AggregatedAcceptances(r.node[1])

\* The values of r's parameters under their keys; of two with one key the
\* later is kept.
Stored(r, m) ==
  LET deepest(k) == CHOOSE p \in r.params :
        /\ KeyIn(m, p[1]) = k
        /\ \A q \in r.params : KeyIn(m, q[1]) = k => Len(q[1]) <= Len(p[1])
  IN [k \in {KeyIn(m, p[1]) : p \in r.params} |-> deepest(k)[2]]

\* The id at the end of a path is what GetID returns for the node's own name,
\* although key and name are looked up apart.  Not if two patterns fit the
\* path, nor if a key has a prefix and ends in _id: that of a brace parameter with
\* such a name, or of a colon after a brace, both behind nodes of one name.
IdFoundByName ==
  \A path \in Paths :
    LET r == RouteNode(path)
    IN /\ flavour = "simple" /\ Served(r) /\ ~r.isLast
       /\ tree[r.node[1]].kind = "endpoint"
       /\ Cardinality(Fitting(path)) <= 1
       /\ \A m \in Fitting(path) : \A n \in DOMAIN m : m[n] # <<"p:", m[n][2], "_id">>
       => \A m1, m2 \in BestMappings(path) :
            GetID(ShownName(m2, r.node[1]), Stored(r, m1)) = path[Len(path)]
=============================================================================
