------------------------------- MODULE Router -------------------------------
(***************************************************************************)
(* Routes of app/ordinary.rs: compiled patterns, the trie they are         *)
(* inserted into and how a request path is matched against it.             *)
(*                                                                         *)
(* A segment of a pattern is a fixed text, a parameter or a catch-all; a   *)
(* path is the sequence of its segments, with the slashes at both ends     *)
(* trimmed.  A trie is the set of its nodes, each named by the edges that  *)
(* lead to it, with partial functions for what a node stores.              *)
(*                                                                         *)
(* A definition Bug... is a plausible mistake in the one that follows it.  *)
(***************************************************************************)
EXTENDS Integers, FiniteSets, SequencesExt

CONSTANT None   (* no route, and no catch-all at a node *)

ASSUME NoneAssumption == None \notin Nat \cup [name : STRING, route : Nat]

Segments == [kind : {"static", "param", "rest"}, text : STRING]

Static(text) == [kind |-> "static", text |-> text]
Param(name) == [kind |-> "param", text |-> name]
CatchAll(name) == [kind |-> "rest", text |-> IF name = "" THEN "*" ELSE name]

(* RoutePattern::parse: what follows a catch-all is never looked at.       *)
Parse(pattern) ==
  LET stars == {i \in DOMAIN pattern : pattern[i].kind = "rest"}
  IN  IF stars = {} THEN pattern
      ELSE SubSeq(pattern, 1, CHOOSE i \in stars : \A j \in stars : i <= j)

-----------------------------------------------------------------------------
(* The trie.                                                               *)

IsOpen(pattern) == pattern # <<>> /\ pattern[Len(pattern)].kind = "rest"

(* The edge a segment follows: all parameters of a node share one child.   *)
Edge(seg) == IF seg.kind = "param" THEN Param("") ELSE seg

EmptyTrie ==
  [nodes |-> {<<>>},   (* the nodes                                         *)
   route |-> <<>>,     (* node -> the route that ends there                 *)
   name  |-> <<>>,     (* node below a parameter -> name of the parameter   *)
   rest  |-> <<>>]     (* node -> [name, route] of its catch-all            *)

Over(f, g) == [k \in DOMAIN f \cup DOMAIN g |-> IF k \in DOMAIN f THEN f[k] ELSE g[k]]
Put(f, key, value) ==
  [k \in DOMAIN f \cup {key} |-> IF k = key THEN value ELSE f[k]]
Lookup(f, key) == IF key \in DOMAIN f THEN f[key] ELSE None

(* The last node of a pattern, and all it passes; the empty path is a child*)
(* of its own.                                                             *)
End(pattern) ==
  IF pattern = <<>> THEN <<Static("")>>
  ELSE [j \in 1 .. (IF IsOpen(pattern) THEN Len(pattern) - 1 ELSE Len(pattern)) |-> Edge(pattern[j])]
Passed(pattern) == {SubSeq(End(pattern), 1, k) : k \in 1 .. Len(End(pattern))}

(* TrieRouter::insert: the last name of a parameter and the last of equal  *)
(* routes replace those before.                                            *)
BugInsert(trie, pattern, index) ==
  LET named == {node \in Passed(pattern) : node[Len(node)].kind = "param"}
      below == [node \in named |-> pattern[Len(node)].text]
      grown == [trie EXCEPT !.nodes = @ \cup Passed(pattern), !.name = Over(below, @)]
  IN  IF IsOpen(pattern)
      THEN [grown EXCEPT !.rest =
              Over(@, Put(<<>>, End(pattern), [name |-> pattern[Len(pattern)].text, route |-> index]))]
      ELSE [grown EXCEPT !.route = Over(@, Put(<<>>, End(pattern), index))]
Insert(trie, pattern, index) ==
  LET named == {node \in Passed(pattern) : node[Len(node)].kind = "param"}
      below == [node \in named |-> pattern[Len(node)].text]
      grown == [trie EXCEPT !.nodes = @ \cup Passed(pattern), !.name = Over(below, @)]
  IN  IF IsOpen(pattern)
      THEN [grown EXCEPT !.rest =
              Put(@, End(pattern), [name |-> pattern[Len(pattern)].text, route |-> index])]
      ELSE [grown EXCEPT !.route = Put(@, End(pattern), index)]

(* serve: the trie of patterns, inserted in the order of their indexes.    *)
Trie(patterns, last) ==
  LET grown[n \in 0 .. last] ==
        IF n = 0 THEN EmptyTrie
        ELSE IF n \in DOMAIN patterns THEN Insert(grown[n - 1], patterns[n], n)
        ELSE grown[n - 1]
  IN  grown[last]

-----------------------------------------------------------------------------
(* Matching.  What was captured is a map, as the set of its entries.       *)
Bindings == SUBSET (STRING \X Seq(STRING))
Bind(params, name, value) == {p \in params : p[1] # name} \cup {<<name, value>>}
BugWithout(params, name) == params
Without(params, name) == {p \in params : p[1] # name}

Miss(params) == [route |-> None, params |-> params]

(* match_segments at a node, which is as deep as there are segments that   *)
(* were matched, with match for the calls of itself: a fixed segment before*)
(* a parameter before a catch-all, and what a branch in vain has captured  *)
(* taken back.                                                             *)
FixedAt(trie, match, node, seg, params) ==
  LET fixed == Append(node, Static(seg))
  IN  IF fixed \in trie.nodes THEN match[<<fixed, params>>] ELSE Miss(params)

ParamAt(trie, match, node, seg, params) ==
  LET below == Append(node, Param(""))
      name == trie.name[below]
      found == match[<<below, Bind(params, name, <<seg>>)>>]
  IN  IF below \notin trie.nodes THEN Miss(params)
      ELSE IF found.route # None THEN found
      ELSE Miss(Without(found.params, name))

RestAt(trie, path, node, params) ==
  LET star == Lookup(trie.rest, node)
  IN  IF star = None THEN Miss(params)
      ELSE [route |-> star.route,
            params |-> Bind(params, star.name, SubSeq(path, Len(node) + 1, Len(path)))]

MatchAt(trie, path, match, node, params) ==
  IF Len(node) >= Len(path) THEN [route |-> Lookup(trie.route, node), params |-> params]
  ELSE LET seg == path[Len(node) + 1]
           first == FixedAt(trie, match, node, seg, params)
           second == ParamAt(trie, match, node, seg, first.params)
       IN  IF first.route # None THEN first
           ELSE IF second.route # None THEN second
           ELSE RestAt(trie, path, node, second.params)

MatchSegments(trie, path) ==
  LET match[x \in trie.nodes \X Bindings] == MatchAt(trie, path, match, x[1], x[2])
  IN  match[<< <<>>, {} >>]

(* match_path.                                                             *)
MatchPath(trie, path) ==
  IF path # <<>> THEN MatchSegments(trie, path)
  ELSE LET root == Lookup(trie.route, <<Static("")>>)
           star == Lookup(trie.rest, <<>>)
       IN  IF root # None \/ star = None THEN [route |-> root, params |-> {}]
           ELSE [route |-> star.route, params |-> {<<star.name, <<>>>>}]

(* is_catch_all_only: whether the route found is to wait until built-in    *)
(* paths were tried.                                                       *)
OnlyAt(trie, path, only, node) ==
  IF Len(node) >= Len(path) THEN Lookup(trie.route, node) = None
  ELSE LET fixed == Append(node, Static(path[Len(node) + 1]))
           below == Append(node, Param(""))
       IN  /\ fixed \in trie.nodes => only[fixed]
           /\ below \in trie.nodes => only[below]
           /\ Lookup(trie.rest, node) # None

OnlySegments(trie, path) ==
  LET only[node \in trie.nodes] == OnlyAt(trie, path, only, node)
  IN  only[<<>>]

CatchAllOnly(trie, path) ==
  IF path # <<>> THEN OnlySegments(trie, path)
  ELSE Lookup(trie.route, <<Static("")>>) = None /\ Lookup(trie.rest, <<>>) # None

-----------------------------------------------------------------------------
(* What the trie stands for: each pattern on its own, and an order of      *)
(* preference among those that match (docs: fixed routes, then parameters, *)
(* then catch-alls).                                                       *)

(* RoutePattern::matches; a catch-all has at least one segment to take,    *)
(* unless it matches everything.                                           *)
Matches(pattern, path) ==
  LET n == Len(pattern)
      open == n > 0 /\ pattern[n].kind = "rest"
  IN  /\ IF open THEN Len(path) >= n \/ (path = <<>> /\ n = 1) ELSE Len(path) = n
      /\ \A i \in 1 .. n : pattern[i].kind = "static" => path[i] = pattern[i].text

(* What a pattern captures of a path it matches.                           *)
Captures(pattern, path) ==
  LET caught == {i \in DOMAIN pattern : pattern[i].kind # "static"}
  IN  [name \in {pattern[i].text : i \in caught} |->
         LET i == CHOOSE i \in caught :
                    /\ pattern[i].text = name
                    /\ \A j \in caught : pattern[j].text = name => j <= i
         IN  IF pattern[i].kind = "param" THEN <<path[i]>>
             ELSE SubSeq(path, i, Len(path))]

Weight(seg) == IF seg.kind = "static" THEN 0 ELSE IF seg.kind = "param" THEN 1 ELSE 2

(* Pattern p is preferred to pattern q: more specific where they differ,   *)
(* and the root itself preferred to a catch-all.                           *)
Preferred(p, q) ==
  \/ p = <<>> /\ q # <<>>
  \/ \E i \in DOMAIN p \cap DOMAIN q :
       /\ Weight(p[i]) < Weight(q[i])
       /\ \A j \in 1 .. i - 1 : Weight(p[j]) = Weight(q[j])

(* The last of the most specific of the patterns that match.               *)
Best(patterns, path) ==
  LET hits == {i \in DOMAIN patterns : Matches(patterns[i], path)}
      best == {i \in hits : \A j \in hits : ~Preferred(patterns[j], patterns[i])}
  IN  IF hits = {} THEN None ELSE CHOOSE i \in best : \A j \in best : j <= i

(* The entries of a map.                                                   *)
Entries(f) == {<<key, f[key]>> : key \in DOMAIN f}

(* Routes that share a parameter segment give it the same name.            *)
NamesAgree(patterns) ==
  \A i, j \in DOMAIN patterns :
    \A k \in DOMAIN patterns[i] \cap DOMAIN patterns[j] :
      (\A l \in 1 .. k : Edge(patterns[i][l]) = Edge(patterns[j][l]))
        => patterns[i][k] = patterns[j][k]

(* No route uses a name twice.                                             *)
NamesApart(patterns) ==
  \A i \in DOMAIN patterns :
    \A j, k \in {l \in DOMAIN patterns[i] : patterns[i][l].kind # "static"} :
      patterns[i][j].text = patterns[i][k].text => j = k
=============================================================================
