------------------------ MODULE HttpDispatch_proofs ------------------------
(***************************************************************************)
(* Proofs about Router, and about HttpDispatch, which sends requests where *)
(* the router says.                                                        *)
(***************************************************************************)
EXTENDS HttpDispatch, Induction, SequenceTheorems

-----------------------------------------------------------------------------
(***************************************************************************)
(* Proofs about Router, for any patterns and any path: the trie stands for *)
(* its patterns (TrieRepresents), the search in it finds the best of those *)
(* that match (MatchPathIsBest) and captures what that pattern captures    *)
(* alone (MatchPathCaptures), and a path that only catch-alls match is left*)
(* to built-in paths first (CatchAllsGiveWay).                             *)
(*                                                                         *)
(* Insertion is followed by induction over the indexes of the patterns, the*)
(* search by induction over the number of segments that are left: below a  *)
(* node it finds the best of the patterns that begin as the node does      *)
(* (Cand), since all that go on with a fixed segment are preferred to all  *)
(* that go on with a parameter, and these to a catch-all that ends there.  *)
(***************************************************************************)

(* What RoutePattern::parse makes of the text of a route.                  *)
Compiled(p) ==
  /\ p \in Seq(Segments) /\ ~(Len(p) = 1 /\ p[1] = Static(""))
  /\ \A i \in 1 .. Len(p) : p[i].kind = "rest" => i = Len(p)

(* Patterns of routes by their index.                                      *)
Numbered(P) == DOMAIN P \subseteq Nat /\ \A i \in DOMAIN P : Compiled(P[i])

(* Nodes of a trie: no edge is a catch-all.  The provers do not know that  *)
(* a literal is a string.                                                  *)
Texts == STRING \cup {""}
Labels == [kind : {"static", "param", "rest"}, text : Texts]
Nodes == {v \in Seq(Labels) : \A j \in 1 .. Len(v) : v[j].kind # "rest"}

(* The pattern begins as the node v does.                                  *)
Under(p, v) == Len(v) <= Len(p) /\ \A j \in 1 .. Len(v) : Edge(p[j]) = v[j]

LEMMA CompiledIs ==
  ASSUME NEW p, Compiled(p)
  PROVE  /\ p \in Seq(Segments) /\ Len(p) \in Nat
         /\ p # <<>> => Len(p) >= 1
         /\ \A i \in 1 .. Len(p) : p[i] \in Segments
         /\ \A i \in 1 .. Len(p) : p[i].kind = "rest" => i = Len(p)
<1>1. p \in Seq(Segments) BY DEF Compiled
<1>2. Len(p) \in Nat /\ \A i \in 1 .. Len(p) : p[i] \in Segments BY <1>1, LenProperties, ElementOfSeq
<1>3. p # <<>> => Len(p) >= 1 BY <1>1
<1>4. \A i \in 1 .. Len(p) : p[i].kind = "rest" => i = Len(p) BY Zenon DEF Compiled
<1> QED BY <1>1, <1>2, <1>3, <1>4

LEMMA NodeIs ==
  ASSUME NEW v \in Nodes
  PROVE  /\ v \in Seq(Labels) /\ Len(v) \in Nat
         /\ v # <<>> => Len(v) >= 1
         /\ \A j \in 1 .. Len(v) : v[j] \in Labels
         /\ \A j \in 1 .. Len(v) : v[j].kind # "rest"
<1>1. v \in Seq(Labels) BY DEF Nodes
<1>2. Len(v) \in Nat /\ \A j \in 1 .. Len(v) : v[j] \in Labels BY <1>1, LenProperties, ElementOfSeq
<1>3. v # <<>> => Len(v) >= 1 BY <1>1
<1>4. \A j \in 1 .. Len(v) : v[j].kind # "rest" BY DEF Nodes
<1> QED BY <1>1, <1>2, <1>3, <1>4

LEMMA Edges ==
  ASSUME NEW s \in Segments
  PROVE  /\ Edge(s) \in Labels /\ Edge(s).kind = s.kind
         /\ s.kind # "param" => Edge(s) = s
         /\ s.kind = "param" => Edge(s) = Param("")
BY DEF Edge, Param, Segments, Labels, Texts

LEMMA Ends ==
  ASSUME NEW p, Compiled(p)
  PROVE  /\ End(p) \in Seq(Labels)
         /\ p = <<>> => End(p) = <<Static("")>> /\ Len(End(p)) = 1 /\ ~IsOpen(p)
         /\ p # <<>> => Len(End(p)) = IF IsOpen(p) THEN Len(p) - 1 ELSE Len(p)
         /\ p # <<>> => \A j \in 1 .. Len(End(p)) : End(p)[j] = Edge(p[j])
<1>1. p \in Seq(Segments) BY CompiledIs
<1>2. CASE p = <<>>
  <2> DEFINE s == Static("")
  <2>1. s \in Labels BY DEF Static, Labels, Texts
  <2>2. End(p) = <<s>> BY <1>2 DEF End
  <2>3. ~IsOpen(p) BY <1>2 DEF IsOpen
  <2> HIDE DEF s
  <2>4. <<s>> \in Seq(Labels) /\ Len(<<s>>) = 1 BY <2>1
  <2> QED BY <1>2, <2>2, <2>3, <2>4 DEF s
<1>3. CASE p # <<>>
  <2> DEFINE n == IF IsOpen(p) THEN Len(p) - 1 ELSE Len(p)
  <2>1. n \in Nat /\ n <= Len(p)
    <3>1. Len(p) \in Nat /\ Len(p) >= 1 BY <1>1, <1>3
    <3> QED BY <3>1
  <2>2. \A j \in 1 .. n : Edge(p[j]) \in Labels
    <3> SUFFICES ASSUME NEW j \in 1 .. n PROVE Edge(p[j]) \in Labels OBVIOUS
    <3>1. j \in 1 .. Len(p) BY <2>1
    <3>2. p[j] \in Segments BY <1>1, <3>1, ElementOfSeq
    <3> QED BY <3>2, Edges
  <2>3. End(p) = [j \in 1 .. n |-> Edge(p[j])] BY <1>3 DEF End
  <2> HIDE DEF n
  <2>4. End(p) \in [1 .. n -> Labels] BY <2>2, <2>3
  <2>5. End(p) \in Seq(Labels) /\ Len(End(p)) = n BY <2>1, <2>4, SeqDef
  <2> QED BY <1>3, <2>3, <2>5 DEF n
<1> QED BY <1>2, <1>3

(* The nodes a pattern passes are those it begins with.                    *)
LEMMA PassedIsUnder ==
  ASSUME NEW p, Compiled(p), NEW v \in Nodes, v # <<>>
  PROVE  v \in Passed(p) <=> IF p = <<>> THEN v = <<Static("")>> ELSE Under(p, v)
<1>1. p \in Seq(Segments) /\ v \in Seq(Labels) /\ Len(p) \in Nat /\ Len(v) \in Nat /\ Len(v) >= 1
  BY CompiledIs, NodeIs
<1> DEFINE e == End(p)
<1>2. e \in Seq(Labels) /\ Len(e) \in Nat BY Ends, LenProperties
<1>3. v \in Passed(p) <=> Len(v) <= Len(e) /\ \A j \in 1 .. Len(v) : v[j] = e[j]
  <2>1. ASSUME v \in Passed(p) PROVE Len(v) <= Len(e) /\ \A j \in 1 .. Len(v) : v[j] = e[j]
    <3>1. PICK k \in 1 .. Len(e) : v = SubSeq(e, 1, k) BY <2>1 DEF Passed
    <3> HIDE DEF e
    <3>2. k \in Int /\ 1 <= k /\ k <= Len(e) BY <1>2, <3>1
    <3>3. Len(v) = k /\ \A j \in 1 .. k : v[j] = e[j] BY <1>2, <3>1, <3>2
    <3> QED BY <3>2, <3>3
  <2>2. ASSUME Len(v) <= Len(e), \A j \in 1 .. Len(v) : v[j] = e[j] PROVE v \in Passed(p)
    <3> DEFINE w == SubSeq(e, 1, Len(v))
    <3>1. w \in Seq(Labels) /\ Len(w) = Len(v) /\ \A j \in 1 .. Len(v) : w[j] = e[j]
      <4> HIDE DEF e
      <4> QED BY <1>1, <1>2, <2>2
    <3>2. v = w
      <4> HIDE DEF w
      <4> QED BY <1>1, <2>2, <3>1, SeqEqual
    <3>3. Len(v) \in 1 .. Len(e) BY <1>1, <1>2, <2>2
    <3> QED BY <3>2, <3>3 DEF Passed
  <2> QED BY <2>1, <2>2
<1>4. CASE p = <<>>
  <2>1. e = <<Static("")>> /\ Len(e) = 1 /\ e[1] = Static("")
    <3>1. e = <<Static("")>> /\ Len(e) = 1 BY <1>4, Ends
    <3> HIDE DEF e
    <3> DEFINE s == Static("")
    <3>2. e = <<s>> BY <3>1
    <3> HIDE DEF s
    <3>3. e[1] = s BY <3>2
    <3> QED BY <3>1, <3>3 DEF s
  <2> HIDE DEF e
  <2>2. ASSUME Len(v) <= 1, \A j \in 1 .. Len(v) : v[j] = e[j] PROVE v = <<Static("")>>
    <3>1. Len(v) = 1
      <4>1. Len(v) <= 1 BY <2>2
      <4>2. Len(v) \in Nat /\ Len(v) >= 1 BY <1>1
      <4>3. \A n \in Nat : n >= 1 /\ n <= 1 => n = 1 OBVIOUS
      <4> QED BY <4>1, <4>2, <4>3, Zenon
    <3>2. v[1] = Static("")
      <4>1. 1 \in 1 .. Len(v) BY <3>1
      <4>2. v[1] = e[1] BY <2>2, <4>1
      <4> QED BY <2>1, <4>2
    <3> DEFINE s == Static("")
    <3>3. v[1] = s BY <3>2
    <3> HIDE DEF s
    <3>4. v = <<s>> BY <1>1, <3>1, <3>3
    <3> QED BY <3>4 DEF s
  <2>3. ASSUME v = <<Static("")>> PROVE Len(v) <= 1 /\ \A j \in 1 .. Len(v) : v[j] = e[j]
    <3>1. v = e BY <2>1, <2>3
    <3>2. Len(v) = 1 /\ \A j \in 1 .. Len(v) : v[j] = e[j] BY <2>1, <3>1
    <3> QED BY <3>2
  <2> QED BY <1>3, <1>4, <2>1, <2>2, <2>3
<1>5. CASE p # <<>>
  <2>1. Len(e) = (IF IsOpen(p) THEN Len(p) - 1 ELSE Len(p)) /\ \A j \in 1 .. Len(e) : e[j] = Edge(p[j])
    BY <1>5, Ends
  <2> HIDE DEF e
  <2>2. ASSUME Under(p, v) PROVE Len(v) <= Len(e)
    <3>1. CASE IsOpen(p) /\ Len(v) = Len(p)
      <4>1. p[Len(p)] \in Segments BY <1>1, <3>1, ElementOfSeq
      <4>2. v[Len(v)].kind = "rest"
        <5>1. Edge(p[Len(p)]) = v[Len(p)] BY <1>1, <2>2, <3>1 DEF Under
        <5>2. Edge(p[Len(p)]).kind = p[Len(p)].kind BY <4>1, Edges
        <5> QED BY <3>1, <5>1, <5>2 DEF IsOpen
      <4> QED BY <1>1, <4>2, NodeIs
    <3>2. CASE ~(IsOpen(p) /\ Len(v) = Len(p)) BY <1>1, <2>1, <2>2, <3>2 DEF Under
    <3> QED BY <3>1, <3>2
  <2>3. ASSUME Len(v) <= Len(e), \A j \in 1 .. Len(v) : v[j] = e[j] PROVE Under(p, v)
    <3>1. Len(v) <= Len(p) BY <1>1, <1>2, <2>1, <2>3
    <3>2. \A j \in 1 .. Len(v) : j \in 1 .. Len(e) BY <1>1, <1>2, <2>3
    <3> QED BY <2>1, <2>3, <3>1, <3>2 DEF Under
  <2>4. ASSUME Under(p, v) PROVE \A j \in 1 .. Len(v) : v[j] = e[j]
    <3>1. \A j \in 1 .. Len(v) : j \in 1 .. Len(e) BY <1>1, <1>2, <2>2, <2>4
    <3> QED BY <2>1, <2>4, <3>1 DEF Under
  <2> QED BY <1>3, <1>5, <2>2, <2>3, <2>4
<1> QED BY <1>4, <1>5

(* The node where a pattern ends.                                          *)
LEMMA EndIsUnder ==
  ASSUME NEW p, Compiled(p), p # <<>>, NEW v \in Nodes
  PROVE  End(p) = v <=> Under(p, v) /\ Len(v) = IF IsOpen(p) THEN Len(p) - 1 ELSE Len(p)
<1>1. p \in Seq(Segments) /\ v \in Seq(Labels) /\ Len(p) \in Nat /\ Len(p) >= 1 /\ Len(v) \in Nat
  BY CompiledIs, NodeIs
<1> DEFINE e == End(p)
<1>2. /\ e \in Seq(Labels) /\ Len(e) = IF IsOpen(p) THEN Len(p) - 1 ELSE Len(p)
      /\ \A j \in 1 .. Len(e) : e[j] = Edge(p[j])
  BY Ends
<1> HIDE DEF e
<1>3. ASSUME e = v PROVE Under(p, v) BY <1>1, <1>2, <1>3 DEF Under
<1>4. ASSUME Under(p, v), Len(v) = Len(e) PROVE e = v BY <1>1, <1>2, <1>4, SeqEqual DEF Under
<1> QED BY <1>2, <1>3, <1>4 DEF e

(* No pattern ends below a catch-all.                                      *)
LEMMA EndIsNode ==
  ASSUME NEW p, Compiled(p)
  PROVE  End(p) \in Nodes /\ Passed(p) \subseteq Nodes \ {<<>>}
<1>1. p \in Seq(Segments) /\ Len(p) \in Nat BY CompiledIs
<1> DEFINE e == End(p)
<1>2. e \in Seq(Labels) /\ Len(e) \in Nat BY Ends, LenProperties
<1>3. \A j \in 1 .. Len(e) : e[j].kind # "rest"
  <2>1. CASE p = <<>>
    <3>1. e = <<Static("")>> BY <2>1, Ends
    <3> DEFINE s == Static("")
    <3>2. s.kind # "rest" BY DEF Static
    <3>3. e = <<s>> BY <3>1
    <3> HIDE DEF e, s
    <3>4. Len(e) = 1 /\ e[1] = s BY <3>3
    <3> QED BY <3>2, <3>4
  <2>2. CASE p # <<>>
    <3>1. Len(e) = (IF IsOpen(p) THEN Len(p) - 1 ELSE Len(p)) /\ \A j \in 1 .. Len(e) : e[j] = Edge(p[j])
      BY <2>2, Ends
    <3> HIDE DEF e
    <3> SUFFICES ASSUME NEW j \in 1 .. Len(e), e[j].kind = "rest" PROVE FALSE OBVIOUS
    <3>2. j \in 1 .. Len(p) BY <1>1, <1>2, <3>1
    <3>3. p[j] \in Segments BY <1>1, <3>2, ElementOfSeq
    <3>4. p[j].kind = "rest" BY <3>1, <3>3, Edges
    <3>5. j = Len(p) BY <3>2, <3>4, CompiledIs
    <3> QED BY <1>1, <2>2, <3>1, <3>4, <3>5 DEF IsOpen
  <2> QED BY <2>1, <2>2
<1>4. e \in Nodes BY <1>2, <1>3 DEF Nodes
<1> HIDE DEF e
<1>5. ASSUME NEW k \in 1 .. Len(e) PROVE SubSeq(e, 1, k) \in Nodes \ {<<>>}
  <2>1. k \in Nat /\ 1 <= k /\ k <= Len(e) BY <1>2
  <2>2. SubSeq(e, 1, k) \in Seq(Labels) /\ Len(SubSeq(e, 1, k)) = k BY <1>2, <2>1
  <2>3. \A j \in 1 .. k : SubSeq(e, 1, k)[j] = e[j] /\ j \in 1 .. Len(e) BY <1>2, <2>1
  <2> DEFINE w == SubSeq(e, 1, k)
  <2>4. w \in Seq(Labels) /\ Len(w) = k /\ \A j \in 1 .. k : w[j] = e[j] /\ j \in 1 .. Len(e)
    BY <2>2, <2>3
  <2> HIDE DEF w
  <2>5. \A j \in 1 .. Len(w) : w[j].kind # "rest" BY <1>3, <2>4
  <2>6. w # <<>> BY <2>1, <2>4
  <2>7. w \in Nodes \ {<<>>} BY <2>4, <2>5, <2>6 DEF Nodes
  <2> QED BY <2>7 DEF w
<1> QED BY <1>4, <1>5 DEF Passed, e

-----------------------------------------------------------------------------
(* The trie of the patterns of the routes I: a node for each beginning, at *)
(* each node the last of the routes that end there.                        *)
Ending(P, I, v) == {i \in I : ~IsOpen(P[i]) /\ End(P[i]) = v}
Opening(P, I, v) == {i \in I : IsOpen(P[i]) /\ End(P[i]) = v}
IsLast(S, i) == i \in S /\ \A j \in S : j <= i

HasNodes(t, P, I) == t.nodes = {<<>>} \cup UNION {Passed(P[i]) : i \in I}
HasRoutes(t, P, I) ==
  /\ \A v : v \in DOMAIN t.route <=> Ending(P, I, v) # {}
  /\ \A v \in DOMAIN t.route : IsLast(Ending(P, I, v), t.route[v])
HasRest(t, P, I) ==
  /\ \A v : v \in DOMAIN t.rest <=> Opening(P, I, v) # {}
  /\ \A v \in DOMAIN t.rest :
       \E i : IsLast(Opening(P, I, v), i) /\ t.rest[v] = [name |-> P[i][Len(P[i])].text, route |-> i]
HasNames(t, P, I) ==
  /\ \A v : v \in DOMAIN t.name <=> v \in t.nodes \ {<<>>} /\ v[Len(v)].kind = "param"
  /\ \A v \in DOMAIN t.name : \E i \in I : v \in Passed(P[i]) /\ t.name[v] = P[i][Len(v)].text

Represents(t, P, I) ==
  /\ t = [nodes |-> t.nodes, route |-> t.route, name |-> t.name, rest |-> t.rest]
  /\ HasNodes(t, P, I) /\ HasRoutes(t, P, I) /\ HasRest(t, P, I) /\ HasNames(t, P, I)

(* What insert does to each field of a trie.                               *)
LEMMA InsertFields ==
  ASSUME NEW t, t = [nodes |-> t.nodes, route |-> t.route, name |-> t.name, rest |-> t.rest],
         NEW p, NEW n
  PROVE  Insert(t, p, n) =
           [nodes |-> t.nodes \cup Passed(p),
            route |-> IF IsOpen(p) THEN t.route ELSE Put(t.route, End(p), n),
            name  |-> Over([v \in {v \in Passed(p) : v[Len(v)].kind = "param"} |-> p[Len(v)].text], t.name),
            rest  |-> IF IsOpen(p) THEN Put(t.rest, End(p), [name |-> p[Len(p)].text, route |-> n])
                      ELSE t.rest]
<1>1. PICK a, b, c, d : t = [nodes |-> a, route |-> b, name |-> c, rest |-> d] OBVIOUS
<1> QED BY <1>1 DEF Insert

(* An entry put for the last of routes.                                    *)
LEMMA LastOfEnding ==
  ASSUME NEW P, NEW I, I \subseteq Nat, NEW n \in Nat, \A i \in I : i < n, NEW v,
         NEW J, J = I \cup {n}
  PROVE  /\ ~IsOpen(P[n]) /\ End(P[n]) = v => IsLast(Ending(P, J, v), n)
         /\ IsOpen(P[n]) \/ End(P[n]) # v => Ending(P, J, v) = Ending(P, I, v)
         /\ IsOpen(P[n]) /\ End(P[n]) = v => IsLast(Opening(P, J, v), n)
         /\ ~IsOpen(P[n]) \/ End(P[n]) # v => Opening(P, J, v) = Opening(P, I, v)
<1>1. \A j \in J : j <= n OBVIOUS
<1>2. ~IsOpen(P[n]) /\ End(P[n]) = v => IsLast(Ending(P, J, v), n) BY <1>1 DEF IsLast, Ending
<1>3. IsOpen(P[n]) /\ End(P[n]) = v => IsLast(Opening(P, J, v), n) BY <1>1 DEF IsLast, Opening
<1>4. IsOpen(P[n]) \/ End(P[n]) # v => Ending(P, J, v) = Ending(P, I, v) BY DEF Ending
<1>5. ~IsOpen(P[n]) \/ End(P[n]) # v => Opening(P, J, v) = Opening(P, I, v) BY DEF Opening
<1> QED BY <1>2, <1>3, <1>4, <1>5

(* Insertion keeps a trie in step with the patterns.                       *)
LEMMA InsertStep ==
  ASSUME NEW P, NEW I, I \subseteq Nat, NEW n \in Nat, \A i \in I : i < n,
         Compiled(P[n]), NEW t, Represents(t, P, I)
  PROVE  Represents(Insert(t, P[n], n), P, I \cup {n})
<1> DEFINE p == P[n]  J == I \cup {n}  u == Insert(t, p, n)
           named == {v \in Passed(p) : v[Len(v)].kind = "param"}
           below == [v \in named |-> p[Len(v)].text]
           star == [name |-> p[Len(p)].text, route |-> n]
<1>1. u = [nodes |-> t.nodes \cup Passed(p),
           route |-> IF IsOpen(p) THEN t.route ELSE Put(t.route, End(p), n),
           name  |-> Over(below, t.name),
           rest  |-> IF IsOpen(p) THEN Put(t.rest, End(p), star) ELSE t.rest]
  BY InsertFields DEF Represents
<1> HIDE DEF u
<1>2. u = [nodes |-> u.nodes, route |-> u.route, name |-> u.name, rest |-> u.rest] BY <1>1
<1>3. /\ u.nodes = t.nodes \cup Passed(p)
      /\ u.name = Over(below, t.name)
      /\ u.route = IF IsOpen(p) THEN t.route ELSE Put(t.route, End(p), n)
      /\ u.rest = IF IsOpen(p) THEN Put(t.rest, End(p), star) ELSE t.rest
  BY <1>1
<1> HIDE DEF below, star
<1>4. HasNodes(u, P, J) BY <1>3 DEF HasNodes, Represents
<1>5. HasRoutes(u, P, J)
  <2>1. HasRoutes(t, P, I) BY DEF Represents
  <2>2. CASE IsOpen(p)
    <3>1. \A v : Ending(P, J, v) = Ending(P, I, v)
      <4> SUFFICES ASSUME NEW v PROVE Ending(P, J, v) = Ending(P, I, v) OBVIOUS
      <4>1. IsOpen(P[n]) BY <2>2
      <4>2. J = I \cup {n} OBVIOUS
      <4> HIDE DEF p, J
      <4> QED BY <4>1, <4>2 DEF Ending
    <3> QED BY <1>3, <2>1, <2>2, <3>1 DEF HasRoutes
  <2>3. CASE ~IsOpen(p)
    <3>1. \A v : v # End(p) => Ending(P, J, v) = Ending(P, I, v)
      <4> SUFFICES ASSUME NEW v, v # End(p) PROVE Ending(P, J, v) = Ending(P, I, v) OBVIOUS
      <4>1. End(P[n]) # v /\ J = I \cup {n} OBVIOUS
      <4> HIDE DEF p, J
      <4> QED BY <4>1 DEF Ending
    <3>2. IsLast(Ending(P, J, End(p)), n) BY <2>3, LastOfEnding
    <3>3. u.route = Put(t.route, End(p), n) BY <1>3, <2>3
    <3> HIDE DEF p, J
    <3>4. DOMAIN u.route = DOMAIN t.route \cup {End(p)} /\ u.route[End(p)] = n
          /\ \A v \in DOMAIN t.route : v # End(p) => u.route[v] = t.route[v]
      BY <3>3 DEF Put
    <3>5. Ending(P, J, End(p)) # {} BY <3>2 DEF IsLast
    <3> QED BY <2>1, <3>1, <3>2, <3>4, <3>5 DEF HasRoutes
  <2> QED BY <2>2, <2>3
<1>6. HasRest(u, P, J)
  <2>1. HasRest(t, P, I) BY DEF Represents
  <2>2. CASE ~IsOpen(p)
    <3>1. \A v : Opening(P, J, v) = Opening(P, I, v)
      <4> SUFFICES ASSUME NEW v PROVE Opening(P, J, v) = Opening(P, I, v) OBVIOUS
      <4>1. ~IsOpen(P[n]) BY <2>2
      <4>2. J = I \cup {n} OBVIOUS
      <4> HIDE DEF p, J
      <4> QED BY <4>1, <4>2 DEF Opening
    <3> QED BY <1>3, <2>1, <2>2, <3>1 DEF HasRest
  <2>3. CASE IsOpen(p)
    <3>1. \A v : v # End(p) => Opening(P, J, v) = Opening(P, I, v)
      <4> SUFFICES ASSUME NEW v, v # End(p) PROVE Opening(P, J, v) = Opening(P, I, v) OBVIOUS
      <4>1. End(P[n]) # v /\ J = I \cup {n} OBVIOUS
      <4> HIDE DEF p, J
      <4> QED BY <4>1 DEF Opening
    <3>2. IsLast(Opening(P, J, End(p)), n) BY <2>3, LastOfEnding
    <3>3. u.rest = Put(t.rest, End(p), star) BY <1>3, <2>3
    <3>4. star = [name |-> P[n][Len(P[n])].text, route |-> n] BY DEF star
    <3> HIDE DEF p, J
    <3>5. DOMAIN u.rest = DOMAIN t.rest \cup {End(p)} /\ u.rest[End(p)] = star
          /\ \A v \in DOMAIN t.rest : v # End(p) => u.rest[v] = t.rest[v]
      BY <3>3 DEF Put
    <3>6. Opening(P, J, End(p)) # {} BY <3>2 DEF IsLast
    <3>7. \A v : v \in DOMAIN u.rest <=> Opening(P, J, v) # {}
      BY <2>1, <3>1, <3>5, <3>6 DEF HasRest
    <3>8. ASSUME NEW v \in DOMAIN u.rest
          PROVE  \E i : IsLast(Opening(P, J, v), i) /\ u.rest[v] = [name |-> P[i][Len(P[i])].text, route |-> i]
      <4>1. CASE v = End(p) BY <3>2, <3>4, <3>5, <4>1
      <4>2. CASE v # End(p) BY <2>1, <3>1, <3>5, <4>2 DEF HasRest
      <4> QED BY <4>1, <4>2
    <3> QED BY <3>7, <3>8 DEF HasRest
  <2> QED BY <2>2, <2>3
<1>7. HasNames(u, P, J)
  <2>1. HasNames(t, P, I) BY DEF Represents
  <2>2. <<>> \notin Passed(p) BY EndIsNode
  <2>3. DOMAIN u.name = named \cup DOMAIN t.name /\ \A v \in DOMAIN u.name :
          u.name[v] = IF v \in named THEN p[Len(v)].text ELSE t.name[v]
    BY <1>3 DEF Over, below
  <2>4. named = {v \in Passed(p) : v[Len(v)].kind = "param"} OBVIOUS
  <2> HIDE DEF named
  <2>5. \A v : v \in DOMAIN u.name <=> v \in u.nodes \ {<<>>} /\ v[Len(v)].kind = "param"
    BY <1>3, <2>1, <2>2, <2>3, <2>4 DEF HasNames
  <2>6. \A v \in DOMAIN u.name : \E i \in J : v \in Passed(P[i]) /\ u.name[v] = P[i][Len(v)].text
    BY <2>1, <2>3, <2>4 DEF HasNames
  <2> QED BY <2>5, <2>6 DEF HasNames
<1>8. Represents(u, P, J)
  <2> HIDE DEF J
  <2> QED BY <1>2, <1>4, <1>5, <1>6, <1>7 DEF Represents
<1> QED BY <1>8 DEF u

LEMMA EmptyRepresents ==
  ASSUME NEW P
  PROVE  Represents(EmptyTrie, P, {})
<1>1. \A v : Ending(P, {}, v) = {} /\ Opening(P, {}, v) = {} BY DEF Ending, Opening
<1>2. EmptyTrie.nodes = {<<>>} /\ DOMAIN EmptyTrie.route = {} /\ DOMAIN EmptyTrie.name = {}
      /\ DOMAIN EmptyTrie.rest = {}
  BY DEF EmptyTrie
<1>3. EmptyTrie = [nodes |-> EmptyTrie.nodes, route |-> EmptyTrie.route,
                   name |-> EmptyTrie.name, rest |-> EmptyTrie.rest]
  BY DEF EmptyTrie
<1> QED BY <1>1, <1>2, <1>3 DEF Represents, HasNodes, HasRoutes, HasRest, HasNames

(* The first n steps of Trie.                                              *)
Grows(P, n, f) ==
  f = [k \in 0 .. n |-> IF k = 0 THEN EmptyTrie
                        ELSE IF k \in DOMAIN P THEN Insert(f[k - 1], P[k], k) ELSE f[k - 1]]

(* The tries of the first patterns, one by one.                            *)
LEMMA GrowsExists ==
  ASSUME NEW P, NEW last \in Nat
  PROVE  \E f : Grows(P, last, f)
<1> DEFINE T == {n \in Nat : \E f : Grows(P, n, f)}
<1>1. 0 \in T
  <2> DEFINE f == [k \in 0 .. 0 |-> EmptyTrie]
  <2>1. Grows(P, 0, f) BY DEF Grows
  <2> QED BY <2>1
<1>2. ASSUME NEW n \in T PROVE n + 1 \in T
  <2>1. PICK f : Grows(P, n, f) OBVIOUS
  <2> DEFINE e == IF n + 1 \in DOMAIN P THEN Insert(f[n], P[n + 1], n + 1) ELSE f[n]
             g == [k \in 0 .. n + 1 |-> IF k = n + 1 THEN e ELSE f[k]]
             Onward(h, k) == IF k = 0 THEN EmptyTrie
                             ELSE IF k \in DOMAIN P THEN Insert(h[k - 1], P[k], k) ELSE h[k - 1]
  <2>2. \A k \in 0 .. n : f[k] = Onward(f, k) BY <2>1 DEF Grows
  <2>3. g[n + 1] = e /\ \A k \in 0 .. n : g[k] = f[k]
    <3> HIDE DEF e
    <3> QED OBVIOUS
  <2>4. ASSUME NEW k \in 0 .. n + 1 PROVE g[k] = Onward(g, k)
    <3>1. CASE k = 0
      <4> HIDE DEF g
      <4> QED BY <2>2, <2>3, <3>1
    <3>2. CASE k \in 1 .. n
      <4>1. k - 1 \in 0 .. n /\ k \in 0 .. n /\ k # 0 BY <3>2
      <4>2. g[k] = f[k] /\ g[k - 1] = f[k - 1] BY <2>3, <4>1
      <4>3. f[k] = Onward(f, k) BY <2>2, <4>1
      <4> HIDE DEF g
      <4> QED BY <4>1, <4>2, <4>3
    <3>3. CASE k = n + 1
      <4>1. k - 1 = n /\ k # 0 /\ n \in 0 .. n BY <3>3
      <4>2. g[k] = e /\ g[k - 1] = f[n] BY <2>3, <3>3, <4>1
      <4> HIDE DEF g
      <4> QED BY <3>3, <4>1, <4>2
    <3> QED BY <3>1, <3>2, <3>3
  <2>5. g = [k \in 0 .. n + 1 |-> Onward(g, k)]
    <3>1. DOMAIN g = 0 .. n + 1
      <4> HIDE DEF e
      <4> QED OBVIOUS
    <3>2. \A h : (h = [k \in 0 .. n + 1 |-> g[k]]) => h = [k \in 0 .. n + 1 |-> Onward(g, k)]
      <4> HIDE DEF Onward, g
      <4> QED BY <2>4
    <3>3. g = [k \in 0 .. n + 1 |-> g[k]]
      <4> HIDE DEF e
      <4> QED OBVIOUS
    <3> QED BY <3>2, <3>3
  <2>6. Grows(P, n + 1, g) BY <2>5 DEF Grows
  <2> QED BY <2>6
<1> HIDE DEF T
<1>3. T = Nat
  <2>1. T \subseteq Nat BY DEF T
  <2> QED BY <1>1, <1>2, <2>1, InductionNat
<1> QED BY <1>3 DEF T

(* The trie of some patterns represents them.                              *)
LEMMA TrieRepresents ==
  ASSUME NEW P, Numbered(P), NEW last \in Nat, DOMAIN P \subseteq 1 .. last
  PROVE  Represents(Trie(P, last), P, DOMAIN P)
<1>1. PICK f : Grows(P, last, f) /\ Trie(P, last) = f[last]
  <2>1. Grows(P, last, CHOOSE f : Grows(P, last, f)) BY GrowsExists
  <2>2. Trie(P, last) = (CHOOSE f : Grows(P, last, f))[last] BY DEF Trie, Grows
  <2> QED BY <2>1, <2>2
<1>2. /\ f[0] = EmptyTrie
      /\ \A k \in 1 .. last :
           f[k] = IF k \in DOMAIN P THEN Insert(f[k - 1], P[k], k) ELSE f[k - 1]
  BY <1>1 DEF Grows
<1> DEFINE I(n) == {i \in DOMAIN P : i <= n}
           T == {n \in Nat : n <= last => Represents(f[n], P, I(n))}
<1>3. 0 \in T
  <2>1. I(0) = {} OBVIOUS
  <2> QED BY <1>2, <2>1, EmptyRepresents
<1>4. ASSUME NEW n \in T PROVE n + 1 \in T
  <2> SUFFICES ASSUME n + 1 <= last PROVE Represents(f[n + 1], P, I(n + 1)) OBVIOUS
  <2>1. Represents(f[n], P, I(n)) OBVIOUS
  <2>2. n + 1 \in 1 .. last /\ (n + 1) - 1 = n OBVIOUS
  <2>3. CASE n + 1 \in DOMAIN P
    <3>1. PICK m \in Nat : m = n + 1 OBVIOUS
    <3>2. f[m] = Insert(f[n], P[m], m) BY <1>2, <2>2, <2>3, <3>1
    <3>3. I(m) = I(n) \cup {m} BY <2>3, <3>1
    <3>4. Compiled(P[m]) BY <2>3, <3>1 DEF Numbered
    <3>5. I(n) \subseteq Nat /\ \A i \in I(n) : i < m BY <3>1
    <3> HIDE DEF I, T
    <3>6. Represents(Insert(f[n], P[m], m), P, I(n) \cup {m}) BY <2>1, <3>4, <3>5, InsertStep
    <3> QED BY <3>1, <3>2, <3>3, <3>6
  <2>4. CASE n + 1 \notin DOMAIN P
    <3>1. f[n + 1] = f[n] BY <1>2, <2>2, <2>4
    <3>2. I(n + 1) = I(n) BY <2>4
    <3> QED BY <2>1, <3>1, <3>2
  <2> QED BY <2>3, <2>4
<1>5. T = Nat
  <2> HIDE DEF T
  <2>1. T \subseteq Nat BY DEF T
  <2> QED BY <1>3, <1>4, <2>1, InductionNat
<1>6. last \in T BY <1>5
<1>7. I(last) = DOMAIN P OBVIOUS
<1> QED BY <1>1, <1>6, <1>7

-----------------------------------------------------------------------------
(* The best of a set of routes.                                            *)
IsBest(P, S, i) ==
  /\ i \in S
  /\ \A j \in S : ~Preferred(P[j], P[i])
  /\ \A j \in S : (\A k \in S : ~Preferred(P[k], P[j])) => j <= i
IsFound(P, S, r) == IF S = {} THEN r = None ELSE IsBest(P, S, r)

LEMMA FoundIsBest ==
  ASSUME NEW P, DOMAIN P \subseteq Nat, NEW path, NEW r,
         IsFound(P, {i \in DOMAIN P : Matches(P[i], path)}, r)
  PROVE  Best(P, path) = r
<1> DEFINE hits == {i \in DOMAIN P : Matches(P[i], path)}
           best == {i \in hits : \A j \in hits : ~Preferred(P[j], P[i])}
<1>1. Best(P, path) = IF hits = {} THEN None ELSE CHOOSE i \in best : \A j \in best : j <= i
  BY DEF Best
<1>2. hits \subseteq Nat OBVIOUS
<1>3. IsFound(P, hits, r) OBVIOUS
<1> HIDE DEF hits
<1>4. CASE hits = {} BY <1>1, <1>3, <1>4 DEF IsFound
<1>5. CASE hits # {}
  <2>1. r \in best /\ \A j \in best : j <= r BY <1>3, <1>5 DEF IsFound, IsBest
  <2>2. best \subseteq Nat BY <1>2
  <2> HIDE DEF best
  <2>3. \A i \in best : (\A j \in best : j <= i) => i = r BY <2>1, <2>2
  <2>4. (CHOOSE i \in best : \A j \in best : j <= i) = r BY <2>1, <2>3
  <2> QED BY <1>1, <1>5, <2>4
<1> QED BY <1>4, <1>5

LEMMA BestOfEquals ==
  ASSUME NEW P, NEW S, NEW i, IsLast(S, i), \A a, b \in S : ~Preferred(P[a], P[b])
  PROVE  IsFound(P, S, i)
BY DEF IsFound, IsBest, IsLast

(* Routes that are all preferred to others come before them.               *)
LEMMA BestOfTwo ==
  ASSUME NEW P, NEW A, NEW B, A \subseteq Nat, B \subseteq Nat,
         \A a \in A, b \in B : Preferred(P[a], P[b]) /\ ~Preferred(P[b], P[a]),
         NEW r, IsFound(P, A, r), NEW s, IsFound(P, B, s)
  PROVE  IsFound(P, A \cup B, IF r # None THEN r ELSE s)
<1>1. CASE A = {}
  <2>1. r = None /\ A \cup B = B BY <1>1 DEF IsFound
  <2> QED BY <2>1
<1>2. CASE A # {}
  <2>1. IsBest(P, A, r) BY <1>2 DEF IsFound
  <2>2. r \in A /\ r # None BY <2>1, NoneAssumption DEF IsBest
  <2>3. \A j \in A \cup B : ~Preferred(P[j], P[r]) BY <2>1, <2>2 DEF IsBest
  <2>4. ASSUME NEW j \in A \cup B, \A k \in A \cup B : ~Preferred(P[k], P[j]) PROVE j <= r
    <3>1. j \in A BY <2>2, <2>4
    <3> QED BY <2>1, <2>4, <3>1 DEF IsBest
  <2>5. IsBest(P, A \cup B, r) BY <2>2, <2>3, <2>4 DEF IsBest
  <2> QED BY <1>2, <2>2, <2>5 DEF IsFound
<1> QED BY <1>1, <1>2

LEMMA Weights ==
  ASSUME NEW s \in Segments
  PROVE  /\ Weight(Edge(s)) = Weight(s) /\ Weight(s) \in 0 .. 2
         /\ Weight(s) = 0 <=> s.kind = "static"
         /\ Weight(s) = 1 <=> s.kind = "param"
<1>1. Edge(s).kind = s.kind BY Edges
<1>2. Weight(Edge(s)) = Weight(s) BY <1>1, Zenon DEF Weight
<1>3. CASE s.kind = "static" BY <1>2, <1>3 DEF Weight
<1>4. CASE s.kind = "param" BY <1>2, <1>4 DEF Weight
<1>5. CASE s.kind # "static" /\ s.kind # "param" BY <1>2, <1>5 DEF Weight
<1> QED BY <1>3, <1>4, <1>5

(* Of patterns that begin alike, the one with the more specific segment    *)
(* next is preferred; patterns with the same end are never preferred.      *)
LEMMA MoreSpecific ==
  ASSUME NEW p, Compiled(p), NEW q, Compiled(q), NEW v \in Nodes, Under(p, v), Under(q, v),
         Len(p) > Len(v), Len(q) > Len(v), Weight(p[Len(v) + 1]) < Weight(q[Len(v) + 1])
  PROVE  Preferred(p, q) /\ ~Preferred(q, p)
<1> DEFINE d == Len(v)
<1>1. /\ d \in Nat /\ Len(p) \in Nat /\ Len(q) \in Nat
      /\ DOMAIN p = 1 .. Len(p) /\ DOMAIN q = 1 .. Len(q)
  BY NodeIs, CompiledIs, LenProperties
<1>2. \A i \in 1 .. Len(p) : Weight(p[i]) \in 0 .. 2 BY CompiledIs, Weights
<1>3. \A i \in 1 .. Len(q) : Weight(q[i]) \in 0 .. 2 BY CompiledIs, Weights
<1>4. ASSUME NEW j \in 1 .. d PROVE Weight(p[j]) = Weight(q[j])
  <2>1. j \in 1 .. Len(p) /\ j \in 1 .. Len(q) BY <1>1
  <2>2. Edge(p[j]) = Edge(q[j]) BY DEF Under
  <2> QED BY <2>1, <2>2, CompiledIs, Weights
<1>5. Weight(p[d + 1]) < Weight(q[d + 1]) /\ d + 1 \in 1 .. Len(p) /\ d + 1 \in 1 .. Len(q) BY <1>1
<1>6. p # <<>> /\ q # <<>>
  <2>1. \A w : w = <<>> => DOMAIN w = {} OBVIOUS
  <2> QED BY <1>1, <1>5, <2>1
<1> HIDE DEF d
<1>7. Preferred(p, q)
  <2>1. \A j \in 1 .. (d + 1) - 1 : Weight(p[j]) = Weight(q[j]) BY <1>1, <1>4
  <2>2. d + 1 \in DOMAIN p \cap DOMAIN q BY <1>1, <1>5
  <2> QED BY <1>5, <2>1, <2>2 DEF Preferred
<1>8. ASSUME Preferred(q, p) PROVE FALSE
  <2>1. PICK i \in DOMAIN q \cap DOMAIN p :
           Weight(q[i]) < Weight(p[i]) /\ \A j \in 1 .. i - 1 : Weight(q[j]) = Weight(p[j])
    BY <1>6, <1>8 DEF Preferred
  <2>2. i \in 1 .. Len(p) /\ i \in 1 .. Len(q) BY <1>1, <2>1
  <2>3. CASE i <= d
    <3>1. Weight(p[i]) = Weight(q[i]) BY <1>1, <1>4, <2>2, <2>3
    <3> QED BY <1>2, <2>1, <2>2, <3>1
  <2>4. CASE i = d + 1 BY <1>2, <1>3, <1>5, <2>1, <2>2, <2>4
  <2>5. CASE i > d + 1
    <3>1. d + 1 \in 1 .. i - 1 BY <1>1, <2>2, <2>5
    <3>2. Weight(p[d + 1]) = Weight(q[d + 1]) BY <2>1, <3>1
    <3> QED BY <1>2, <1>5, <3>2
  <2> QED BY <1>1, <2>2, <2>3, <2>4, <2>5
<1> QED BY <1>7, <1>8

LEMMA SameEnd ==
  ASSUME NEW p, Compiled(p), p # <<>>, NEW q, Compiled(q), q # <<>>,
         IsOpen(p) <=> IsOpen(q), End(p) = End(q)
  PROVE  ~Preferred(p, q)
<1> DEFINE v == End(p)
<1>1. v \in Nodes /\ Len(v) \in Nat BY EndIsNode, NodeIs
<1>2. Under(p, v) /\ Under(q, v) /\ Len(p) = Len(q)
  <2>1. End(p) = v /\ End(q) = v OBVIOUS
  <2> HIDE DEF v
  <2>2. Len(p) \in Nat /\ Len(q) \in Nat BY CompiledIs
  <2> QED BY <1>1, <2>1, <2>2, EndIsUnder
<1>3. Len(v) = IF IsOpen(p) THEN Len(p) - 1 ELSE Len(p)
  <2>1. End(p) = v OBVIOUS
  <2> HIDE DEF v
  <2> QED BY <1>1, <2>1, EndIsUnder
<1> HIDE DEF v
<1>4. ASSUME NEW i \in 1 .. Len(p) PROVE Weight(p[i]) = Weight(q[i]) /\ Weight(p[i]) \in 0 .. 2
  <2>1. p[i] \in Segments /\ q[i] \in Segments BY <1>2, CompiledIs
  <2>2. CASE i <= Len(v)
    <3>1. i \in 1 .. Len(v) BY <1>1, <2>2
    <3>2. Edge(p[i]) = Edge(q[i]) BY <1>2, <3>1 DEF Under
    <3> QED BY <2>1, <3>2, Weights
  <2>3. CASE i > Len(v)
    <3>1. IsOpen(p) /\ IsOpen(q) /\ i = Len(p) /\ i = Len(q)
      <4>1. Len(p) \in Nat BY CompiledIs
      <4> QED BY <1>1, <1>2, <1>3, <2>3, <4>1
    <3>2. p[i].kind = "rest" /\ q[i].kind = "rest" BY <3>1 DEF IsOpen
    <3> QED BY <2>1, <3>2 DEF Weight
  <2> QED BY <1>1, <2>2, <2>3
<1>5. DOMAIN p = 1 .. Len(p) BY CompiledIs, LenProperties
<1>6. ASSUME Preferred(p, q) PROVE FALSE
  <2>1. PICK i \in DOMAIN p : Weight(p[i]) < Weight(q[i]) BY <1>6 DEF Preferred
  <2> QED BY <1>4, <1>5, <2>1
<1> QED BY <1>6

-----------------------------------------------------------------------------
(* The routes that match a path and begin as a node does, and the nodes a  *)
(* path leads to.                                                          *)
IsPath(path) == path \in Seq(STRING) /\ ~(Len(path) = 1 /\ path[1] = "")
Cand(P, path, v) == {i \in DOMAIN P : Matches(P[i], path) /\ Under(P[i], v)}
Agrees(v, path) ==
  Len(v) <= Len(path) /\ \A j \in 1 .. Len(v) : v[j] = Static(path[j]) \/ v[j] = Param("")

(* The edge e is one that the path may follow from v.                      *)
Leads(v, path, e) ==
  Len(v) < Len(path) /\ (e = Static(path[Len(v) + 1]) \/ e = Param(""))

LEMMA PathIs ==
  ASSUME NEW path, IsPath(path)
  PROVE  /\ path \in Seq(STRING) /\ Len(path) \in Nat
         /\ \A j \in 1 .. Len(path) : path[j] \in STRING
         /\ path # <<>> => Len(path) >= 1
<1>1. path \in Seq(STRING) BY DEF IsPath
<1> QED BY <1>1, LenProperties, ElementOfSeq

(* Matches, of a path that is not empty.                                   *)
LEMMA MatchesIs ==
  ASSUME NEW p, Compiled(p), NEW path, IsPath(path), path # <<>>
  PROVE  Matches(p, path) <=>
           /\ p # <<>>
           /\ IF IsOpen(p) THEN Len(path) >= Len(p) ELSE Len(path) = Len(p)
           /\ \A i \in 1 .. Len(p) : p[i].kind = "static" => path[i] = p[i].text
<1>1. /\ Len(p) \in Nat /\ Len(path) \in Nat /\ Len(path) >= 1
      /\ p # <<>> => Len(p) >= 1
  BY CompiledIs, PathIs
<1>2. CASE p = <<>>
  <2>1. Len(p) = 0 BY <1>2
  <2> QED BY <1>1, <1>2, <2>1 DEF Matches
<1>3. CASE p # <<>> BY <1>1, <1>3 DEF Matches, IsOpen
<1> QED BY <1>2, <1>3

LEMMA EdgesDiffer ==
  ASSUME NEW a, NEW b
  PROVE  /\ Static(a).kind = "static" /\ Static(a).text = a /\ Param(a).kind = "param"
         /\ Static(a) # Param(b) /\ Static(a) = Static(b) => a = b
<1>1. Static(a).kind = "static" /\ Static(a).text = a /\ Static(b).text = b BY DEF Static
<1>2. Param(a).kind = "param" /\ Param(b).kind = "param" BY DEF Param
<1>3. Static(a) # Param(b)
  <2> SUFFICES ASSUME Static(a) = Param(b) PROVE FALSE OBVIOUS
  <2>1. Static(a).kind = Param(b).kind OBVIOUS
  <2> QED BY <1>1, <1>2, <2>1
<1>4. ASSUME Static(a) = Static(b) PROVE a = b
  <2>1. Static(a).text = Static(b).text BY <1>4
  <2> QED BY <1>1, <2>1
<1> QED BY <1>1, <1>2, <1>3, <1>4

LEMMA RootNode ==
  \A v : v = <<Static("")>> => Len(v) = 1 /\ v[1] = Static("") /\ 1 \in 1 .. Len(v)
<1>1. \A s : Len(<<s>>) = 1 /\ <<s>>[1] = s OBVIOUS
<1>2. 1 \in 1 .. 1 OBVIOUS
<1> QED BY <1>1, <1>2, Zenon

(* The child of a node the path leads to.                                  *)
LEMMA ChildIs ==
  ASSUME NEW v \in Nodes, NEW path, IsPath(path), Agrees(v, path), NEW e, Leads(v, path, e),
         NEW d \in Nat, d = Len(v)
  PROVE  /\ Append(v, e) \in Nodes /\ Len(Append(v, e)) = d + 1 /\ Append(v, e) # <<>>
         /\ Agrees(Append(v, e), path) /\ d + 1 <= Len(path)
         /\ Append(v, e)[d + 1] = e /\ \A j \in 1 .. d : Append(v, e)[j] = v[j]
<1> DEFINE u == Append(v, e)
<1>1. v \in Seq(Labels) /\ Len(path) \in Nat BY NodeIs, PathIs
<1>2. d + 1 <= Len(path) /\ d + 1 \in 1 .. Len(path) /\ (e = Static(path[d + 1]) \/ e = Param(""))
  <2>1. d < Len(path) /\ (e = Static(path[d + 1]) \/ e = Param("")) BY Zenon DEF Leads
  <2>2. PICK n \in Nat : n = Len(path) BY <1>1
  <2>3. d < n BY <2>1, <2>2, Zenon
  <2>4. d + 1 <= n /\ d + 1 \in 1 .. n BY <2>3
  <2> QED BY <2>1, <2>2, <2>4, Zenon
<1>3. e \in Labels /\ e.kind # "rest"
  <2>1. PICK s \in STRING : s = path[d + 1] BY <1>2, PathIs
  <2>2. e = Static(s) \/ e = Param("") BY <1>2, <2>1
  <2>3. Static(s) \in Labels BY DEF Static, Labels, Texts
  <2>4. Param("") \in Labels BY DEF Param, Labels, Texts
  <2>5. Static(s).kind = "static" /\ Param("").kind = "param" BY EdgesDiffer
  <2> QED BY <2>2, <2>3, <2>4, <2>5
<1>4. u \in Seq(Labels) /\ Len(u) = d + 1 /\ u[d + 1] = e /\ \A j \in 1 .. d : u[j] = v[j]
  BY <1>1, <1>3, AppendProperties
<1> HIDE DEF u
<1>5. \A j \in 1 .. d + 1 : j \in 1 .. d \/ j = d + 1 OBVIOUS
<1>6. u \in Nodes
  <2>1. \A j \in 1 .. d : u[j].kind # "rest" BY <1>4, NodeIs
  <2>2. \A j \in 1 .. Len(u) : u[j].kind # "rest" BY <1>3, <1>4, <1>5, <2>1
  <2> QED BY <1>4, <2>2 DEF Nodes
<1>7. Agrees(u, path)
  <2>1. Len(u) <= Len(path) BY <1>2, <1>4
  <2>2. \A j \in 1 .. d : v[j] = Static(path[j]) \/ v[j] = Param("") BY DEF Agrees
  <2>3. \A j \in 1 .. d + 1 : u[j] = Static(path[j]) \/ u[j] = Param("") BY <1>2, <1>4, <1>5, <2>2
  <2> QED BY <1>4, <2>1, <2>3 DEF Agrees
<1>8. u # <<>>
  <2>1. u \in Seq(Labels) /\ Len(u) = d + 1 BY <1>4
  <2> QED BY <2>1
<1> QED BY <1>2, <1>4, <1>6, <1>7, <1>8 DEF u

(* A pattern begins as a child does when it begins as the node and goes on *)
(* as the child.                                                           *)
LEMMA UnderChild ==
  ASSUME NEW v \in Nodes, NEW path, IsPath(path), Agrees(v, path), NEW e, Leads(v, path, e), NEW p, Compiled(p),
         NEW d \in Nat, d = Len(v)
  PROVE  Under(p, Append(v, e)) <=> Under(p, v) /\ Len(p) > d /\ Edge(p[d + 1]) = e
<1> DEFINE u == Append(v, e)
<1>1. d = Len(v) OBVIOUS
<1>2. Len(u) = d + 1 /\ u[d + 1] = e /\ (\A j \in 1 .. d : u[j] = v[j]) /\ Len(p) \in Nat
  BY <1>1, ChildIs, CompiledIs
<1> HIDE DEF u
<1>3. ASSUME Under(p, u) PROVE Under(p, v) /\ Len(p) > d /\ Edge(p[d + 1]) = e
  <2>1. Len(p) >= d + 1 BY <1>2, <1>3 DEF Under
  <2>2. \A j \in 1 .. d + 1 : Edge(p[j]) = u[j] BY <1>2, <1>3 DEF Under
  <2>3. d + 1 \in 1 .. d + 1 /\ \A j \in 1 .. d : j \in 1 .. d + 1 OBVIOUS
  <2>4. \A j \in 1 .. d : Edge(p[j]) = v[j] BY <1>2, <2>2, <2>3
  <2>5. Edge(p[d + 1]) = e BY <1>2, <2>2, <2>3
  <2>6. d <= Len(p) /\ Len(p) > d BY <1>2, <2>1
  <2> QED BY <1>1, <2>4, <2>5, <2>6 DEF Under
<1>4. ASSUME Under(p, v), Len(p) > d, Edge(p[d + 1]) = e PROVE Under(p, u)
  <2>1. d + 1 <= Len(p) BY <1>2, <1>4
  <2>2. \A j \in 1 .. d : Edge(p[j]) = v[j] BY <1>1, <1>4 DEF Under
  <2>3. \A j \in 1 .. d + 1 : j \in 1 .. d \/ j = d + 1 OBVIOUS
  <2>4. \A j \in 1 .. d + 1 : Edge(p[j]) = u[j] BY <1>2, <1>4, <2>2, <2>3
  <2> QED BY <1>2, <2>1, <2>4 DEF Under
<1> QED BY <1>1, <1>3, <1>4 DEF u

(* Fixed segments of a pattern that begins as a node agree with the path.  *)
LEMMA UnderAgrees ==
  ASSUME NEW v \in Nodes, NEW path, Agrees(v, path), NEW p, Compiled(p), Under(p, v),
         NEW j \in 1 .. Len(v), p[j].kind = "static"
  PROVE  path[j] = p[j].text
<1>1. j \in 1 .. Len(p)
  <2>1. Len(v) \in Nat /\ Len(p) \in Nat /\ Len(v) <= Len(p) BY NodeIs, CompiledIs DEF Under
  <2> QED BY <2>1
<1>2. p[j] \in Segments BY <1>1, CompiledIs
<1>3. Edge(p[j]) = p[j] BY <1>2, Edges
<1>4. Edge(p[j]) = v[j] BY DEF Under
<1>5. v[j] = Static(path[j]) \/ v[j] = Param("") BY DEF Agrees
<1>6. p[j] # Param("") BY EdgesDiffer
<1>7. p[j] = Static(path[j]) BY <1>3, <1>4, <1>5, <1>6
<1> QED BY <1>7, EdgesDiffer

(* Where the path ends, those that end.                                    *)
LEMMA CandAtEnd ==
  ASSUME NEW P, Numbered(P), NEW path, IsPath(path), path # <<>>,
         NEW v \in Nodes, Agrees(v, path), Len(v) = Len(path)
  PROVE  Cand(P, path, v) = Ending(P, DOMAIN P, v)
<1>1. Len(v) \in Nat /\ Len(path) \in Nat /\ Len(path) >= 1 BY NodeIs, PathIs
<1>2. ASSUME NEW i \in DOMAIN P PROVE Matches(P[i], path) /\ Under(P[i], v) <=> ~IsOpen(P[i]) /\ End(P[i]) = v
  <2> DEFINE p == P[i]
  <2>1. Compiled(p) BY DEF Numbered
  <2> HIDE DEF p
  <2>2. Len(p) \in Nat BY <2>1, CompiledIs
  <2>3. ASSUME Matches(p, path), Under(p, v) PROVE ~IsOpen(p) /\ End(p) = v
    <3>1. p # <<>> /\ IF IsOpen(p) THEN Len(path) >= Len(p) ELSE Len(path) = Len(p)
      BY <2>1, <2>3, MatchesIs
    <3>2. ~IsOpen(p)
      <4> SUFFICES ASSUME IsOpen(p) PROVE FALSE OBVIOUS
      <4>1. Len(p) = Len(v) BY <1>1, <2>2, <2>3, <3>1 DEF Under
      <4>2. Len(p) \in 1 .. Len(p) /\ Len(p) \in 1 .. Len(v) BY <1>1, <2>2, <4>1
      <4>3. Edge(p[Len(p)]) = v[Len(p)] BY <2>3, <4>2 DEF Under
      <4>4. p[Len(p)].kind = "rest" BY DEF IsOpen
      <4>5. p[Len(p)] \in Segments BY <2>1, <4>2, CompiledIs
      <4>6. v[Len(p)].kind = "rest" BY <4>3, <4>4, <4>5, Edges
      <4> QED BY <4>2, <4>6, NodeIs
    <3>3. Len(v) = Len(p) BY <3>1, <3>2
    <3> QED BY <2>1, <2>3, <3>1, <3>2, <3>3, EndIsUnder
  <2>4. ASSUME ~IsOpen(p), End(p) = v PROVE Matches(p, path) /\ Under(p, v)
    <3>1. p # <<>>
      <4> SUFFICES ASSUME p = <<>> PROVE FALSE OBVIOUS
      <4>1. v = <<Static("")>> BY <2>1, <2>4, Ends
      <4>2. Len(v) = 1 /\ v[1] = Static("") /\ 1 \in 1 .. Len(v) BY <4>1, RootNode
      <4>3. v[1] = Static(path[1]) \/ v[1] = Param("") BY <4>2 DEF Agrees
      <4>4. PICK x : x = path[1] OBVIOUS
      <4>5. Static("") = Static(x) BY <4>2, <4>3, <4>4, EdgesDiffer
      <4>6. path[1] = "" BY <4>4, <4>5, EdgesDiffer
      <4> QED BY <4>2, <4>6 DEF IsPath
    <3>2. Under(p, v) /\ Len(v) = Len(p) BY <2>1, <2>4, <3>1, EndIsUnder
    <3>3. \A j \in 1 .. Len(p) : p[j].kind = "static" => path[j] = p[j].text
      BY <2>1, <3>2, UnderAgrees
    <3> QED BY <2>1, <2>4, <3>1, <3>2, <3>3, MatchesIs
  <2> QED BY <2>3, <2>4 DEF p
<1> QED BY <1>2 DEF Cand, Ending

(* A node that is not in the trie: no pattern begins so.                   *)
LEMMA CandOfNoNode ==
  ASSUME NEW P, Numbered(P), NEW path, IsPath(path), path # <<>>, NEW t, HasNodes(t, P, DOMAIN P),
         NEW v \in Nodes, v # <<>>, v \notin t.nodes
  PROVE  Cand(P, path, v) = {}
<1> SUFFICES ASSUME NEW i \in DOMAIN P, Matches(P[i], path), Under(P[i], v) PROVE FALSE BY DEF Cand
<1>1. Compiled(P[i]) BY DEF Numbered
<1>2. P[i] # <<>> BY <1>1, MatchesIs
<1>3. v \in Passed(P[i]) BY <1>1, <1>2, PassedIsUnder
<1> QED BY <1>3 DEF HasNodes

(* What may follow a node, by the kind of the next segment: a fixed one, a *)
(* parameter or a catch-all.                                               *)
Follows(p, v, w) == Under(p, v) /\ Len(p) > Len(v) /\ Weight(p[Len(v) + 1]) = w

LEMMA FollowsOrdered ==
  ASSUME NEW v \in Nodes, NEW p, Compiled(p), NEW q, Compiled(q),
         NEW x \in Nat, NEW y \in Nat, x < y, Follows(p, v, x), Follows(q, v, y)
  PROVE  Preferred(p, q) /\ ~Preferred(q, p)
<1>1. Under(p, v) /\ Len(p) > Len(v) /\ Weight(p[Len(v) + 1]) = x BY DEF Follows
<1>2. Under(q, v) /\ Len(q) > Len(v) /\ Weight(q[Len(v) + 1]) = y BY DEF Follows
<1>3. Weight(p[Len(v) + 1]) < Weight(q[Len(v) + 1]) BY <1>1, <1>2, Zenon
<1> QED BY <1>1, <1>2, <1>3, MoreSpecific

LEMMA CandOfChild ==
  ASSUME NEW P, Numbered(P), NEW path, NEW v \in Nodes, IsPath(path), Agrees(v, path),
         NEW e, Leads(v, path, e), NEW i \in DOMAIN P
  PROVE  i \in Cand(P, path, Append(v, e)) <=>
           Matches(P[i], path) /\ Follows(P[i], v, Weight(e)) /\ Edge(P[i][Len(v) + 1]) = e
<1>1. PICK p : p = P[i] OBVIOUS
<1>2. Compiled(p) BY <1>1 DEF Numbered
<1>3. PICK d \in Nat : d = Len(v) BY NodeIs
<1>4. Under(p, Append(v, e)) <=> Under(p, v) /\ Len(p) > d /\ Edge(p[d + 1]) = e
  BY <1>2, <1>3, UnderChild
<1>5. ASSUME Len(p) > d, Edge(p[d + 1]) = e PROVE Weight(p[d + 1]) = Weight(e)
  <2>1. d + 1 \in 1 .. Len(p)
    <3>1. Len(p) \in Nat BY <1>2, CompiledIs
    <3> QED BY <1>5, <3>1
  <2>2. p[d + 1] \in Segments BY <1>2, <2>1, CompiledIs
  <2> QED BY <1>5, <2>2, Weights
<1>6. Under(p, Append(v, e)) <=> Follows(p, v, Weight(e)) /\ Edge(p[Len(v) + 1]) = e
  BY <1>3, <1>4, <1>5, Zenon DEF Follows
<1> QED BY <1>1, <1>6, Zenon DEF Cand

(* The catch-alls at a node match when the path has more segments.         *)
LEMMA OpeningFollows ==
  ASSUME NEW P, Numbered(P), NEW path, NEW v \in Nodes, IsPath(path), path # <<>>, Agrees(v, path),
         NEW e, Leads(v, path, e), NEW i \in Opening(P, DOMAIN P, v)
  PROVE  /\ Matches(P[i], path) /\ Follows(P[i], v, 2)
         /\ Len(P[i]) = Len(v) + 1 /\ P[i] # <<>>
<1>1. PICK p : p = P[i] OBVIOUS
<1>2. Compiled(p) /\ IsOpen(p) /\ End(p) = v BY <1>1 DEF Numbered, Opening
<1>3. PICK d \in Nat : d = Len(v) BY NodeIs
<1>4. PICK n \in Nat : n = Len(p) BY <1>2, CompiledIs
<1>5. p # <<>> BY <1>2 DEF IsOpen
<1>6. Under(p, v) /\ n = d + 1
  <2>1. Under(p, v) /\ Len(v) = Len(p) - 1 BY <1>2, <1>5, EndIsUnder
  <2>2. d = n - 1 BY <1>3, <1>4, <2>1, Zenon
  <2> QED BY <2>1, <2>2
<1>7. p[n].kind = "rest" BY <1>2, <1>4 DEF IsOpen
<1>8. Follows(p, v, 2)
  <2>1. Weight(p[n]) = 2 BY <1>7 DEF Weight
  <2>2. n > d BY <1>6
  <2> QED BY <1>3, <1>4, <1>6, <2>1, <2>2, Zenon DEF Follows
<1>9. Matches(p, path)
  <2>1. d + 1 <= Len(path) BY <1>3, ChildIs
  <2>2. ASSUME NEW j \in 1 .. Len(p), p[j].kind = "static" PROVE path[j] = p[j].text
    <3>1. j # n BY <1>7, <2>2
    <3>2. j \in 1 .. d
      <4>1. j \in 1 .. n BY <1>4, <2>2
      <4> QED BY <1>6, <3>1, <4>1
    <3>3. j \in 1 .. Len(v) BY <1>3, <3>2
    <3> QED BY <1>2, <1>6, <2>2, <3>3, UnderAgrees
  <2>3. Len(path) >= Len(p)
    <3>1. PICK k \in Nat : k = Len(path) BY PathIs
    <3>2. k >= n BY <1>6, <2>1, <3>1
    <3> QED BY <1>4, <3>1, <3>2, Zenon
  <2> QED BY <1>2, <1>5, <2>2, <2>3, MatchesIs
<1> QED BY <1>1, <1>3, <1>4, <1>5, <1>6, <1>8, <1>9

(* The edges that the path may follow from v.                              *)
Fork(v, path, f, b) == Len(v) < Len(path) /\ f = Static(path[Len(v) + 1]) /\ b = Param("")

LEMMA CandSplit ==
  ASSUME NEW P, Numbered(P), NEW path, NEW v \in Nodes, IsPath(path), path # <<>>, Agrees(v, path),
         NEW f, NEW b, Fork(v, path, f, b),
         NEW A, A = Cand(P, path, Append(v, f)), NEW B, B = Cand(P, path, Append(v, b)),
         NEW R, R = Opening(P, DOMAIN P, v)
  PROVE  /\ Cand(P, path, v) = A \cup (B \cup R)
         /\ \A i \in A, j \in B \cup R : Preferred(P[i], P[j]) /\ ~Preferred(P[j], P[i])
         /\ \A i \in B, j \in R : Preferred(P[i], P[j]) /\ ~Preferred(P[j], P[i])
         /\ \A i, j \in R : ~Preferred(P[i], P[j])
<1>0. /\ f = Static(path[Len(v) + 1]) /\ b = Param("")
      /\ Leads(v, path, f) /\ Leads(v, path, b)
  BY Zenon DEF Fork, Leads
<1>1. A \subseteq DOMAIN P /\ B \subseteq DOMAIN P /\ R \subseteq DOMAIN P BY DEF Cand, Opening
<1>2. \A i \in DOMAIN P : Compiled(P[i]) BY DEF Numbered
<1>3. Weight(f) = 0 /\ Weight(b) = 1
  <2>1. f.kind = "static" /\ b.kind = "param" BY <1>0, EdgesDiffer, Zenon
  <2> QED BY <2>1 DEF Weight
<1>4. \A i \in A : Follows(P[i], v, 0) /\ Matches(P[i], path)
  <2>1. Leads(v, path, f) BY <1>0
  <2>2. \A i \in A : Matches(P[i], path) /\ Follows(P[i], v, Weight(f)) BY <1>1, <2>1, CandOfChild
  <2> QED BY <1>3, <2>2, Zenon
<1>5. \A i \in B : Follows(P[i], v, 1) /\ Matches(P[i], path)
  <2>1. Leads(v, path, b) BY <1>0
  <2>2. \A i \in B : Matches(P[i], path) /\ Follows(P[i], v, Weight(b)) BY <1>1, <2>1, CandOfChild
  <2> QED BY <1>3, <2>2, Zenon
<1>6. \A i \in R : Follows(P[i], v, 2) /\ Matches(P[i], path) BY <1>0, OpeningFollows
<1>7. A \cup (B \cup R) \subseteq Cand(P, path, v) BY <1>1, <1>4, <1>5, <1>6 DEF Cand, Follows
<1>8. ASSUME NEW i \in Cand(P, path, v) PROVE i \in A \cup (B \cup R)
  <2>1. i \in DOMAIN P /\ Matches(P[i], path) /\ Under(P[i], v) BY DEF Cand
  <2>2. PICK p : p = P[i] OBVIOUS
  <2>3. Compiled(p) BY <1>2, <2>1, <2>2
  <2>4. PICK d \in Nat : d = Len(v) BY NodeIs
  <2>5. PICK n \in Nat : n = Len(p) BY <2>3, CompiledIs
  <2>6. n > d
    <3>1. p # <<>> /\ IF IsOpen(p) THEN Len(path) >= Len(p) ELSE Len(path) = Len(p)
      BY <2>1, <2>2, <2>3, MatchesIs
    <3>2. CASE ~IsOpen(p)
      <4>1. d + 1 <= Len(path) BY <1>0, <2>4, ChildIs
      <4>2. n = Len(path) BY <2>5, <3>1, <3>2
      <4> QED BY <4>1, <4>2
    <3>3. CASE IsOpen(p)
      <4>1. d <= n BY <2>1, <2>2, <2>4, <2>5, Zenon DEF Under
      <4>2. CASE n = d
        <5>1. n >= 1 BY <2>3, <2>5, <3>1, CompiledIs
        <5>2. n \in 1 .. n BY <5>1
        <5>3. Edge(p[n]) = v[n] BY <2>1, <2>2, <2>4, <4>2, <5>2 DEF Under
        <5>4. p[n].kind = "rest" BY <2>5, <3>3 DEF IsOpen
        <5>5. p[n] \in Segments BY <2>3, <2>5, <5>2, CompiledIs
        <5>6. v[n].kind = "rest" BY <5>3, <5>4, <5>5, Edges
        <5> QED BY <2>4, <4>2, <5>2, <5>6, NodeIs
      <4> QED BY <4>1, <4>2
    <3> QED BY <3>2, <3>3
  <2>7. d + 1 \in 1 .. n BY <2>6
  <2>8. p[d + 1] \in Segments BY <2>3, <2>5, <2>7, CompiledIs
  <2>9. Follows(p, v, Weight(p[d + 1])) BY <2>1, <2>2, <2>4, <2>5, <2>6, Zenon DEF Follows
  <2>10. CASE p[d + 1].kind = "static"
    <3>1. path[d + 1] = p[d + 1].text
      <4>1. p # <<>> /\ \A j \in 1 .. Len(p) : p[j].kind = "static" => path[j] = p[j].text
        BY <2>1, <2>2, <2>3, MatchesIs
      <4> QED BY <2>5, <2>7, <2>10, <4>1
    <3>2. p[d + 1] = Static(p[d + 1].text) BY <2>8, <2>10 DEF Static, Segments
    <3>3. f = p[d + 1] BY <1>0, <2>4, <3>1, <3>2, Zenon
    <3>4. Edge(p[d + 1]) = f BY <2>8, <2>10, <3>3, Edges
    <3>5. i \in A BY <1>0, <2>1, <2>2, <2>4, <2>9, <3>3, <3>4, CandOfChild
    <3> QED BY <3>5
  <2>11. CASE p[d + 1].kind = "param"
    <3>1. Edge(p[d + 1]) = b BY <1>0, <2>8, <2>11, Edges
    <3>2. Weight(p[d + 1]) = 1 BY <2>8, <2>11, Weights
    <3>3. i \in B BY <1>0, <1>3, <2>1, <2>2, <2>4, <2>9, <3>1, <3>2, CandOfChild
    <3> QED BY <3>3
  <2>12. CASE p[d + 1].kind = "rest"
    <3>1. d + 1 = n BY <2>3, <2>5, <2>7, <2>12, CompiledIs
    <3>2. p # <<>>
      <4>1. p \in Seq(Segments) /\ Len(p) >= 1 BY <2>3, <2>5, <2>7, CompiledIs
      <4> QED BY <4>1
    <3>3. IsOpen(p) BY <2>5, <2>12, <3>1, <3>2 DEF IsOpen
    <3>4. Len(v) = Len(p) - 1
      <4>1. d = n - 1 BY <3>1
      <4> QED BY <2>4, <2>5, <4>1, Zenon
    <3>5. End(p) = v BY <2>1, <2>2, <2>3, <3>2, <3>3, <3>4, EndIsUnder
    <3> QED BY <2>1, <2>2, <3>3, <3>5 DEF Opening
  <2> QED BY <2>8, <2>10, <2>11, <2>12 DEF Segments
<1>9. \A i \in A, j \in B \cup R : Preferred(P[i], P[j]) /\ ~Preferred(P[j], P[i])
  <2>1. 0 < 1 /\ 0 < 2 /\ 0 \in Nat /\ 1 \in Nat /\ 2 \in Nat OBVIOUS
  <2> QED BY <1>1, <1>2, <1>4, <1>5, <1>6, <2>1, FollowsOrdered
<1>10. \A i \in B, j \in R : Preferred(P[i], P[j]) /\ ~Preferred(P[j], P[i])
  <2>1. 1 < 2 /\ 1 \in Nat /\ 2 \in Nat OBVIOUS
  <2> QED BY <1>1, <1>2, <1>5, <1>6, <2>1, FollowsOrdered
<1>11. ASSUME NEW i \in R, NEW j \in R PROVE ~Preferred(P[i], P[j])
  <2>1. P[i] # <<>> /\ P[j] # <<>> BY <1>0, OpeningFollows
  <2>2. IsOpen(P[i]) /\ IsOpen(P[j]) /\ End(P[i]) = End(P[j]) BY DEF Opening
  <2> QED BY <1>1, <1>2, <2>1, <2>2, SameEnd
<1> QED BY <1>7, <1>8, <1>9, <1>10, <1>11

-----------------------------------------------------------------------------
(* What matching returns, and the types of a trie.                         *)
Results == [route : Nat \cup {None}, params : Bindings]

LEMMA TrieTypes ==
  ASSUME NEW P, Numbered(P), NEW t, Represents(t, P, DOMAIN P)
  PROVE  /\ t.nodes \subseteq Nodes /\ <<>> \in t.nodes
         /\ \A v \in DOMAIN t.route : t.route[v] \in Nat
         /\ \A v \in DOMAIN t.rest : t.rest[v] \in [name : STRING, route : Nat]
         /\ \A v \in t.nodes : v # <<>> /\ v[Len(v)].kind = "param" =>
              v \in DOMAIN t.name /\ t.name[v] \in STRING
<1>1. DOMAIN P \subseteq Nat /\ \A i \in DOMAIN P : Compiled(P[i]) BY DEF Numbered
<1>2. t.nodes \subseteq Nodes /\ <<>> \in t.nodes
  <2>1. <<>> \in Nodes
    <3>1. <<>> \in Seq(Labels) /\ Len(<<>>) = 0 OBVIOUS
    <3>2. \A j \in 1 .. 0 : FALSE OBVIOUS
    <3> QED BY <3>1, <3>2 DEF Nodes
  <2>2. \A i \in DOMAIN P : Passed(P[i]) \subseteq Nodes BY <1>1, EndIsNode
  <2> QED BY <2>1, <2>2 DEF Represents, HasNodes
<1>3. \A v \in DOMAIN t.route : t.route[v] \in Nat
  BY <1>1 DEF Represents, HasRoutes, IsLast, Ending
<1>4. ASSUME NEW v \in DOMAIN t.rest PROVE t.rest[v] \in [name : STRING, route : Nat]
  <2>1. PICK i : IsLast(Opening(P, DOMAIN P, v), i) /\ t.rest[v] = [name |-> P[i][Len(P[i])].text, route |-> i]
    BY DEF Represents, HasRest
  <2>2. i \in DOMAIN P /\ IsOpen(P[i]) BY <2>1 DEF IsLast, Opening
  <2>3. Compiled(P[i]) /\ i \in Nat /\ P[i] # <<>> BY <1>1, <2>2 DEF IsOpen
  <2>4. P[i][Len(P[i])].text \in STRING
    <3>1. PICK p : p = P[i] OBVIOUS
    <3>2. Len(p) \in Nat /\ Len(p) >= 1 BY <2>3, <3>1, CompiledIs
    <3>3. Len(p) \in 1 .. Len(p) BY <3>2
    <3>4. p[Len(p)] \in Segments BY <2>3, <3>1, <3>3, CompiledIs
    <3>5. p[Len(p)].text \in STRING BY <3>4 DEF Segments
    <3> QED BY <3>1, <3>5
  <2> QED BY <2>1, <2>3, <2>4
<1>5. ASSUME NEW v \in t.nodes, v # <<>>, v[Len(v)].kind = "param"
      PROVE  v \in DOMAIN t.name /\ t.name[v] \in STRING
  <2>1. v \in DOMAIN t.name BY <1>5 DEF Represents, HasNames
  <2>2. PICK i \in DOMAIN P : v \in Passed(P[i]) /\ t.name[v] = P[i][Len(v)].text
    BY <2>1 DEF Represents, HasNames
  <2>3. PICK p : p = P[i] OBVIOUS
  <2>4. Compiled(p) /\ v \in Nodes BY <1>1, <1>2, <2>3
  <2>5. p # <<>>
    <3> SUFFICES ASSUME p = <<>> PROVE FALSE OBVIOUS
    <3>1. v = <<Static("")>> BY <1>5, <2>2, <2>3, <2>4, PassedIsUnder
    <3>2. v[Len(v)].kind = "static" BY <3>1, RootNode, EdgesDiffer, Zenon
    <3> QED BY <1>5, <3>2
  <2>6. Under(p, v) BY <1>5, <2>2, <2>3, <2>4, <2>5, PassedIsUnder
  <2>7. Len(v) \in 1 .. Len(p)
    <3>1. Len(v) \in Nat /\ Len(v) >= 1 /\ Len(p) \in Nat BY <1>5, <2>4, NodeIs, CompiledIs
    <3>2. Len(v) <= Len(p) BY <2>6 DEF Under
    <3> QED BY <3>1, <3>2
  <2>8. p[Len(v)] \in Segments BY <2>4, <2>7, CompiledIs
  <2>9. p[Len(v)].text \in STRING BY <2>8 DEF Segments
  <2> QED BY <2>1, <2>2, <2>3, <2>9
<1> QED BY <1>2, <1>3, <1>4, <1>5

LEMMA BindingsClosed ==
  ASSUME NEW c \in Bindings, NEW name \in STRING, NEW value \in Seq(STRING)
  PROVE  Bind(c, name, value) \in Bindings
<1>1. \A x \in c : x \in STRING \X Seq(STRING) BY DEF Bindings
<1>2. <<name, value>> \in STRING \X Seq(STRING) OBVIOUS
<1>3. \A x \in Bind(c, name, value) : x \in c \/ x = <<name, value>> BY Zenon DEF Bind
<1> QED BY <1>1, <1>2, <1>3, Zenon DEF Bindings

LEMMA WithoutClosed ==
  ASSUME NEW c \in Bindings, NEW name
  PROVE  Without(c, name) \in Bindings
BY Zenon DEF Bindings, Without

LEMMA NotEmpty ==
  ASSUME NEW w, NEW d \in Nat, Len(w) = d + 1
  PROVE  w # <<>>
<1>1. Len(<<>>) = 0 OBVIOUS
<1>2. \A n \in Nat : n + 1 # 0 OBVIOUS
<1> QED BY <1>1, <1>2, Zenon

(* The child of a node of the trie that a parameter leads to has a name.   *)
LEMMA BelowHasName ==
  ASSUME NEW P, Numbered(P), NEW t, Represents(t, P, DOMAIN P), NEW v \in t.nodes,
         NEW u \in t.nodes, NEW b, b = Param(""), u = Append(v, b)
  PROVE  t.name[u] \in STRING
<1>1. v \in Seq(Labels) /\ b \in Labels /\ b.kind = "param"
  <2>1. v \in Nodes BY TrieTypes
  <2>2. b \in Labels BY DEF Param, Labels, Texts
  <2> QED BY <2>1, <2>2, NodeIs, EdgesDiffer
<1>2. PICK d \in Nat : d = Len(v) BY <1>1, LenProperties
<1>3. u \in Seq(Labels) /\ Len(u) = d + 1 /\ u[d + 1] = b BY <1>1, <1>2, AppendProperties
<1>4. u # <<>> BY <1>3, NotEmpty, Zenon
<1>5. u[Len(u)].kind = "param" BY <1>1, <1>3
<1> QED BY <1>4, <1>5, TrieTypes

(* What MatchAt returns is a result, and depends on the results at the     *)
(* children of the node alone.                                             *)
LEMMA MatchAtStep ==
  ASSUME NEW P, Numbered(P), NEW t, Represents(t, P, DOMAIN P), NEW path, IsPath(path),
         NEW f, NEW g \in [t.nodes \X Bindings -> Results], NEW v \in t.nodes, NEW c \in Bindings,
         \A u \in t.nodes, a \in Bindings :
           Len(v) < Len(path) /\ Len(u) = Len(v) + 1 => f[<<u, a>>] = g[<<u, a>>]
  PROVE  MatchAt(t, path, f, v, c) \in Results /\ MatchAt(t, path, f, v, c) = MatchAt(t, path, g, v, c)
<1>1. v \in Nodes /\ v \in Seq(Labels) BY TrieTypes, NodeIs
<1>2. PICK d \in Nat : d = Len(v) BY <1>1, NodeIs
<1>3. PICK n \in Nat : n = Len(path) BY PathIs
<1>4. \A r \in Results : r.route \in Nat \cup {None} /\ r.params \in Bindings BY DEF Results
<1>5. \A a \in Bindings : Miss(a) \in Results BY DEF Miss, Results
<1>6. CASE d >= n
  <2>1. MatchAt(t, path, f, v, c) = [route |-> Lookup(t.route, v), params |-> c]
        /\ MatchAt(t, path, g, v, c) = [route |-> Lookup(t.route, v), params |-> c]
    <3>1. Len(v) >= Len(path) BY <1>2, <1>3, <1>6, Zenon
    <3> QED BY <3>1, Zenon DEF MatchAt
  <2>2. Lookup(t.route, v) \in Nat \cup {None} BY TrieTypes DEF Lookup
  <2>3. [route |-> Lookup(t.route, v), params |-> c] \in Results
    <3>1. PICK r \in Nat \cup {None} : r = Lookup(t.route, v) BY <2>2
    <3>2. [route |-> r, params |-> c] \in Results BY DEF Results
    <3> QED BY <3>1, <3>2
  <2> QED BY <2>1, <2>3, Zenon
<1>7. CASE d < n
  <2>1. ~(Len(v) >= Len(path)) /\ Len(v) < Len(path)
    <3>1. ~(d >= n) /\ d < n BY <1>7
    <3> QED BY <1>2, <1>3, <3>1, Zenon
  <2>2. \A u \in t.nodes, a \in Bindings : Len(u) = d + 1 => f[<<u, a>>] = g[<<u, a>>]
    BY <1>2, <2>1, Zenon
  <2>3. PICK s \in STRING : s = path[Len(v) + 1]
    <3>1. d + 1 \in 1 .. n BY <1>7
    <3> QED BY <1>2, <1>3, <3>1, PathIs
  <2>4. PICK x : x = Static(s) OBVIOUS
  <2>5. PICK b : b = Param("") OBVIOUS
  <2>6. x \in Labels /\ b \in Labels
    <3>1. Static(s) \in Labels BY DEF Static, Labels, Texts
    <3>2. Param("") \in Labels BY DEF Param, Labels, Texts
    <3> QED BY <2>4, <2>5, <3>1, <3>2
  <2>7. Len(Append(v, x)) = d + 1 /\ Len(Append(v, b)) = d + 1 BY <1>1, <1>2, <2>6, AppendProperties
  <2>8. <<s>> \in Seq(STRING) BY <2>3
  <2>9. PICK q : q = FixedAt(t, f, v, s, c) OBVIOUS
  <2>10. q \in Results /\ q = FixedAt(t, g, v, s, c)
    <3>1. CASE Append(v, x) \in t.nodes
      <4>1. PICK u \in t.nodes : u = Append(v, x) BY <3>1
      <4>2. FixedAt(t, f, v, s, c) = f[<<u, c>>] /\ FixedAt(t, g, v, s, c) = g[<<u, c>>]
        BY <2>4, <4>1, Zenon DEF FixedAt
      <4>3. f[<<u, c>>] = g[<<u, c>>] BY <2>2, <2>7, <4>1, Zenon
      <4>4. g[<<u, c>>] \in Results OBVIOUS
      <4> QED BY <2>9, <4>2, <4>3, <4>4, Zenon
    <3>2. CASE Append(v, x) \notin t.nodes
      <4>1. FixedAt(t, f, v, s, c) = Miss(c) /\ FixedAt(t, g, v, s, c) = Miss(c)
        BY <2>4, <3>2, Zenon DEF FixedAt
      <4> QED BY <1>5, <2>9, <4>1, Zenon
    <3> QED BY <3>1, <3>2
  <2>11. PICK a \in Bindings : a = q.params BY <1>4, <2>10
  <2>12. PICK r : r = ParamAt(t, f, v, s, a) OBVIOUS
  <2>13. r \in Results /\ r = ParamAt(t, g, v, s, a)
    <3>1. CASE Append(v, b) \in t.nodes
      <4>1. PICK u \in t.nodes : u = Append(v, b) BY <3>1
      <4>2. PICK name \in STRING : name = t.name[u] BY <2>5, <4>1, BelowHasName
      <4>3. PICK e \in Bindings : e = Bind(a, name, <<s>>) BY <2>8, BindingsClosed
      <4>4. PICK m \in Results : m = g[<<u, e>>] OBVIOUS
      <4>5. m = f[<<u, e>>] BY <2>2, <2>7, <4>1, <4>4, Zenon
      <4>6. ParamAt(t, f, v, s, a) = (IF m.route # None THEN m ELSE Miss(Without(m.params, name)))
        BY <2>5, <4>1, <4>2, <4>3, <4>5, Zenon DEF ParamAt
      <4>7. ParamAt(t, g, v, s, a) = (IF m.route # None THEN m ELSE Miss(Without(m.params, name)))
        BY <2>5, <4>1, <4>2, <4>3, <4>4, Zenon DEF ParamAt
      <4>8. Miss(Without(m.params, name)) \in Results
        <5>1. PICK w \in Bindings : w = Without(m.params, name) BY <1>4, WithoutClosed
        <5> QED BY <1>5, <5>1
      <4>9. CASE m.route # None BY <2>12, <4>6, <4>7, <4>9, Zenon
      <4>10. CASE m.route = None BY <2>12, <4>6, <4>7, <4>8, <4>10, Zenon
      <4> QED BY <4>9, <4>10
    <3>2. CASE Append(v, b) \notin t.nodes
      <4>1. ParamAt(t, f, v, s, a) = Miss(a) /\ ParamAt(t, g, v, s, a) = Miss(a)
        BY <2>5, <3>2, Zenon DEF ParamAt
      <4> QED BY <1>5, <2>12, <4>1, Zenon
    <3> QED BY <3>1, <3>2
  <2>14. PICK k \in Bindings : k = r.params BY <1>4, <2>13
  <2>15. RestAt(t, path, v, k) \in Results
    <3>1. CASE v \in DOMAIN t.rest
      <4>1. PICK star \in [name : STRING, route : Nat] : star = t.rest[v] BY <3>1, TrieTypes
      <4>2. star.name \in STRING /\ star.route \in Nat OBVIOUS
      <4>3. star # None BY NoneAssumption
      <4>4. SubSeq(path, d + 1, n) \in Seq(STRING)
        <5>1. path \in Seq(STRING) /\ d + 1 \in 1 .. n /\ n = Len(path) BY <1>3, <1>7, PathIs
        <5> QED BY <5>1
      <4>5. PICK z \in Bindings : z = Bind(k, star.name, SubSeq(path, d + 1, n))
        BY <4>2, <4>4, BindingsClosed
      <4>6. RestAt(t, path, v, k) = [route |-> star.route, params |-> z]
        BY <1>2, <1>3, <3>1, <4>1, <4>3, <4>5, Zenon DEF RestAt, Lookup
      <4>7. PICK i \in Nat : i = star.route BY <4>2
      <4>8. [route |-> i, params |-> z] \in Results BY DEF Results
      <4> QED BY <4>6, <4>7, <4>8
    <3>2. CASE v \notin DOMAIN t.rest
      <4>1. RestAt(t, path, v, k) = Miss(k) BY <3>2, Zenon DEF RestAt, Lookup
      <4> QED BY <1>5, <4>1, Zenon
    <3> QED BY <3>1, <3>2
  <2>16. MatchAt(t, path, f, v, c) =
           IF q.route # None THEN q ELSE IF r.route # None THEN r ELSE RestAt(t, path, v, k)
    BY <2>1, <2>3, <2>9, <2>11, <2>12, <2>14, Zenon DEF MatchAt
  <2>17. MatchAt(t, path, g, v, c) =
           IF q.route # None THEN q ELSE IF r.route # None THEN r ELSE RestAt(t, path, v, k)
    BY <2>1, <2>3, <2>10, <2>11, <2>13, <2>14, Zenon DEF MatchAt
  <2>18. CASE q.route # None BY <2>10, <2>16, <2>17, <2>18, Zenon
  <2>19. CASE q.route = None /\ r.route # None BY <2>13, <2>16, <2>17, <2>19, Zenon
  <2>20. CASE q.route = None /\ r.route = None BY <2>15, <2>16, <2>17, <2>20, Zenon
  <2> QED BY <2>18, <2>19, <2>20
<1> QED BY <1>6, <1>7

(* The function that match_segments computes.                              *)
IsMatch(t, path, m) == m = [x \in t.nodes \X Bindings |-> MatchAt(t, path, m, x[1], x[2])]

(* match_segments computes a function of nodes and captures.               *)
LEMMA MatchExists ==
  ASSUME NEW P, Numbered(P), NEW t, Represents(t, P, DOMAIN P), NEW path, IsPath(path)
  PROVE  \E m \in [t.nodes \X Bindings -> Results] : IsMatch(t, path, m)
<1> DEFINE D == t.nodes \X Bindings
           measure == [x \in D |-> IF Len(x[1]) < Len(path) THEN Len(path) - Len(x[1]) ELSE 0]
           step == [f \in [D -> Results] |-> [x \in D |-> MatchAt(t, path, f, x[1], x[2])]]
<1>1. \A v \in t.nodes : Len(v) \in Nat BY TrieTypes, NodeIs
<1>2. Len(path) \in Nat BY PathIs
<1>3. measure \in [D -> Nat]
  <2> SUFFICES ASSUME NEW v \in t.nodes
               PROVE  (IF Len(v) < Len(path) THEN Len(path) - Len(v) ELSE 0) \in Nat
    OBVIOUS
  <2> QED BY <1>1, <1>2
<1>4. ASSUME NEW f \in [D -> Results], NEW g \in [D -> Results], NEW x \in D,
             \A y \in D : measure[y] < measure[x] => f[y] = g[y]
      PROVE  step[f][x] \in Results /\ step[f][x] = step[g][x]
  <2>1. PICK v \in t.nodes, c \in Bindings : x = <<v, c>> OBVIOUS
  <2>2. ASSUME NEW u \in t.nodes, NEW a \in Bindings, Len(v) < Len(path), Len(u) = Len(v) + 1
        PROVE  f[<<u, a>>] = g[<<u, a>>]
    <3>1. measure[<<u, a>>] = (IF Len(u) < Len(path) THEN Len(path) - Len(u) ELSE 0)
          /\ measure[x] = (IF Len(v) < Len(path) THEN Len(path) - Len(v) ELSE 0)
      BY <2>1
    <3> HIDE DEF measure
    <3>2. measure[<<u, a>>] < measure[x] BY <1>1, <1>2, <2>2, <3>1
    <3> QED BY <1>4, <3>2
  <2> HIDE DEF measure, step
  <2>3. MatchAt(t, path, f, v, c) \in Results /\ MatchAt(t, path, f, v, c) = MatchAt(t, path, g, v, c)
    <3>1. \A u \in t.nodes, a \in Bindings :
          Len(v) < Len(path) /\ Len(u) = Len(v) + 1 => f[<<u, a>>] = g[<<u, a>>]
      BY <2>2
    <3>2. g \in [t.nodes \X Bindings -> Results] OBVIOUS
    <3> HIDE DEF D
    <3> QED BY <3>1, <3>2, MatchAtStep, ZenonT(60)
  <2> USE DEF step
  <2> QED BY <2>1, <2>3
<1>5. Results # {}
  <2>1. {} \in Bindings BY DEF Bindings
  <2>2. Miss({}) \in Results BY <2>1 DEF Miss, Results
  <2> QED BY <2>2
<1>6. step \in [[D -> Results] -> [D -> Results]]
  <2> SUFFICES ASSUME NEW f \in [D -> Results], NEW x \in D PROVE step[f][x] \in Results
    OBVIOUS
  <2> HIDE DEF D, measure, step
  <2> QED BY <1>4
<1>7. \A f \in [D -> Results] : step[f] = [x \in D |-> MatchAt(t, path, f, x[1], x[2])] OBVIOUS
<1> HIDE DEF measure, step
<1>8. Recursive(D, Results, measure, step)
  <2> HIDE DEF D
  <2> QED BY <1>3, <1>4, <1>5, <1>6 DEF Recursive
<1>9. PICK m \in [D -> Results] : \A x \in D : m[x] = step[m][x]
  <2> HIDE DEF D
  <2> QED BY <1>8, Recursion
<1>10. m = [x \in D |-> MatchAt(t, path, m, x[1], x[2])]
  <2>1. step[m] \in [D -> Results] BY <1>6
  <2>2. m = step[m] BY <1>9, <2>1
  <2> QED BY <1>7, <2>2
<1> QED BY <1>10 DEF IsMatch

LEMMA MatchTyped ==
  ASSUME NEW P, Numbered(P), NEW t, Represents(t, P, DOMAIN P), NEW path, IsPath(path),
         NEW m, IsMatch(t, path, m)
  PROVE  m \in [t.nodes \X Bindings -> Results]
<1> DEFINE D == t.nodes \X Bindings
<1>1. PICK g \in [D -> Results] : IsMatch(t, path, g) BY MatchExists
<1>2. \A v \in t.nodes, c \in Bindings : m[<<v, c>>] = MatchAt(t, path, m, v, c) BY DEF IsMatch
<1>3. \A v \in t.nodes, c \in Bindings : g[<<v, c>>] = MatchAt(t, path, g, v, c) BY <1>1 DEF IsMatch
<1>4. \A v \in t.nodes : Len(v) \in Nat BY TrieTypes, NodeIs
<1>5. PICK n \in Nat : n = Len(path) BY PathIs
<1> DEFINE T == {k \in Nat : \A v \in t.nodes, c \in Bindings :
                               Len(v) + k >= n => m[<<v, c>>] = g[<<v, c>>]}
<1>6. 0 \in T
  <2> SUFFICES ASSUME NEW v \in t.nodes, NEW c \in Bindings, Len(v) + 0 >= n
               PROVE  m[<<v, c>>] = g[<<v, c>>]
    OBVIOUS
  <2>1. ~(Len(v) < Len(path)) BY <1>4, <1>5
  <2>2. MatchAt(t, path, m, v, c) = MatchAt(t, path, g, v, c)
    <3>1. \A u \in t.nodes, a \in Bindings :
          Len(v) < Len(path) /\ Len(u) = Len(v) + 1 => m[<<u, a>>] = g[<<u, a>>]
      BY <2>1
    <3>2. g \in [t.nodes \X Bindings -> Results] OBVIOUS
    <3> HIDE DEF D, T
    <3> QED BY <3>1, <3>2, MatchAtStep, ZenonT(60)
  <2> QED BY <1>2, <1>3, <2>2, Zenon
<1>7. ASSUME NEW k \in T PROVE k + 1 \in T
  <2> SUFFICES ASSUME NEW v \in t.nodes, NEW c \in Bindings, Len(v) + (k + 1) >= n
               PROVE  m[<<v, c>>] = g[<<v, c>>]
    OBVIOUS
  <2>1. ASSUME NEW u \in t.nodes, NEW a \in Bindings, Len(v) < Len(path), Len(u) = Len(v) + 1
        PROVE  m[<<u, a>>] = g[<<u, a>>]
    <3>1. Len(u) + k >= n BY <1>4, <2>1
    <3> QED BY <3>1
  <2>2. MatchAt(t, path, m, v, c) = MatchAt(t, path, g, v, c)
    <3>1. \A u \in t.nodes, a \in Bindings :
          Len(v) < Len(path) /\ Len(u) = Len(v) + 1 => m[<<u, a>>] = g[<<u, a>>]
      BY <2>1
    <3>2. g \in [t.nodes \X Bindings -> Results] OBVIOUS
    <3> HIDE DEF D, T
    <3> QED BY <3>1, <3>2, MatchAtStep, ZenonT(60)
  <2> QED BY <1>2, <1>3, <2>2, Zenon
<1>8. T = Nat
  <2>1. T \subseteq Nat OBVIOUS
  <2> HIDE DEF T
  <2> QED BY <1>6, <1>7, <2>1, InductionNat
<1>9. \A v \in t.nodes, c \in Bindings : m[<<v, c>>] = g[<<v, c>>]
  <2> SUFFICES ASSUME NEW v \in t.nodes, NEW c \in Bindings PROVE m[<<v, c>>] = g[<<v, c>>]
    OBVIOUS
  <2>1. n \in T BY <1>8
  <2>2. Len(v) + n >= n BY <1>4
  <2> QED BY <2>1, <2>2
<1>10. DOMAIN m = D /\ m = [x \in D |-> m[x]] BY DEF IsMatch
<1>11. \A x \in D : m[x] \in Results BY <1>9
<1> QED BY <1>10, <1>11

Computes(t, path, m) ==
  /\ m \in [t.nodes \X Bindings -> Results] /\ IsMatch(t, path, m)
  /\ MatchSegments(t, path) = m[<< <<>>, {} >>]

LEMMA MatchSegmentsIs ==
  ASSUME NEW P, Numbered(P), NEW t, Represents(t, P, DOMAIN P), NEW path, IsPath(path)
  PROVE  \E m : Computes(t, path, m)
<1> DEFINE m == CHOOSE m : IsMatch(t, path, m)
<1>1. IsMatch(t, path, m) BY MatchExists
<1>2. MatchSegments(t, path) = m[<< <<>>, {} >>] BY DEF MatchSegments, IsMatch
<1> HIDE DEF m
<1>3. m \in [t.nodes \X Bindings -> Results] BY <1>1, MatchTyped
<1> QED BY <1>1, <1>2, <1>3, Zenon DEF Computes

-----------------------------------------------------------------------------
(* Matching from a node finds the best of the routes that begin as it does.*)
Finds(P, path, m, v) ==
  \A c \in Bindings : IsFound(P, Cand(P, path, v), m[<<v, c>>].route)

(* At the depth of the path, the route that ends there.                    *)
LEMMA FindsAtEnd ==
  ASSUME NEW P, Numbered(P), NEW t, Represents(t, P, DOMAIN P), NEW path, IsPath(path), path # <<>>,
         NEW m, IsMatch(t, path, m), NEW v \in t.nodes, Agrees(v, path), Len(v) = Len(path)
  PROVE  Finds(P, path, m, v)
<1>1. v \in Nodes /\ Len(v) \in Nat BY TrieTypes, NodeIs
<1>2. Cand(P, path, v) = Ending(P, DOMAIN P, v) BY <1>1, CandAtEnd
<1>3. \A c \in Bindings : m[<<v, c>>] = [route |-> Lookup(t.route, v), params |-> c]
  <2>1. Len(v) >= Len(path) BY <1>1
  <2>2. \A c \in Bindings : m[<<v, c>>] = MatchAt(t, path, m, v, c) BY DEF IsMatch
  <2> QED BY <2>1, <2>2, Zenon DEF MatchAt
<1>4. \A c \in Bindings : m[<<v, c>>].route = Lookup(t.route, v)
  <2>1. PICK k : k = Lookup(t.route, v) OBVIOUS
  <2>2. \A c : [route |-> k, params |-> c].route = k OBVIOUS
  <2> QED BY <1>3, <2>1, <2>2, Zenon
<1>5. CASE v \in DOMAIN t.route
  <2>1. IsLast(Ending(P, DOMAIN P, v), t.route[v]) BY <1>5 DEF Represents, HasRoutes
  <2>2. ASSUME NEW i \in Ending(P, DOMAIN P, v), NEW j \in Ending(P, DOMAIN P, v)
        PROVE  ~Preferred(P[i], P[j])
    <3>1. i \in Cand(P, path, v) /\ j \in Cand(P, path, v) BY <1>2
    <3>2. Compiled(P[i]) /\ Compiled(P[j]) BY DEF Numbered, Ending
    <3>3. Matches(P[i], path) /\ Matches(P[j], path) BY <3>1 DEF Cand
    <3>4. P[i] # <<>> /\ P[j] # <<>> BY <3>2, <3>3, MatchesIs
    <3>5. ~IsOpen(P[i]) /\ ~IsOpen(P[j]) /\ End(P[i]) = v /\ End(P[j]) = v BY DEF Ending
    <3> QED BY <3>2, <3>4, <3>5, SameEnd
  <2>3. IsFound(P, Ending(P, DOMAIN P, v), t.route[v]) BY <2>1, <2>2, BestOfEquals
  <2>4. Lookup(t.route, v) = t.route[v] BY <1>5 DEF Lookup
  <2> QED BY <1>2, <1>4, <2>3, <2>4, Zenon DEF Finds
<1>6. CASE v \notin DOMAIN t.route
  <2>1. Ending(P, DOMAIN P, v) = {} BY <1>6 DEF Represents, HasRoutes
  <2>2. Lookup(t.route, v) = None BY <1>6 DEF Lookup
  <2> QED BY <1>2, <1>4, <2>1, <2>2, Zenon DEF Finds, IsFound
<1> QED BY <1>5, <1>6

(* Above it, the best of the three branches.                               *)
LEMMA FindsInside ==
  ASSUME NEW P, Numbered(P), NEW t, Represents(t, P, DOMAIN P), NEW path, IsPath(path), path # <<>>,
         NEW m \in [t.nodes \X Bindings -> Results], IsMatch(t, path, m),
         NEW v \in t.nodes, Agrees(v, path), Len(v) < Len(path),
         \A u \in t.nodes : Agrees(u, path) /\ Len(u) = Len(v) + 1 => Finds(P, path, m, u)
  PROVE  Finds(P, path, m, v)
<1>1. v \in Nodes /\ DOMAIN P \subseteq Nat BY TrieTypes DEF Numbered
<1>2. PICK d \in Nat : d = Len(v) BY <1>1, NodeIs
<1>3. PICK s : s = path[Len(v) + 1] OBVIOUS
<1>4. s \in STRING
  <2>1. PICK n \in Nat : n = Len(path) BY PathIs
  <2>2. d < n BY <1>2, <2>1, Zenon
  <2>3. d + 1 \in 1 .. n BY <2>2
  <2> QED BY <1>2, <1>3, <2>1, <2>3, PathIs
<1>5. PICK x : x = Static(s) OBVIOUS
<1>6. PICK b : b = Param("") OBVIOUS
<1>7. Fork(v, path, x, b) /\ Leads(v, path, x) /\ Leads(v, path, b)
  BY <1>3, <1>5, <1>6, Zenon DEF Fork, Leads
<1>8. PICK A : A = Cand(P, path, Append(v, x)) OBVIOUS
<1>9. PICK B : B = Cand(P, path, Append(v, b)) OBVIOUS
<1>10. PICK R : R = Opening(P, DOMAIN P, v) OBVIOUS
<1>11. A \subseteq Nat /\ B \subseteq Nat /\ R \subseteq Nat BY <1>1, <1>8, <1>9, <1>10 DEF Cand, Opening
<1>12. /\ Cand(P, path, v) = A \cup (B \cup R)
       /\ \A i \in A, j \in B \cup R : Preferred(P[i], P[j]) /\ ~Preferred(P[j], P[i])
       /\ \A i \in B, j \in R : Preferred(P[i], P[j]) /\ ~Preferred(P[j], P[i])
       /\ \A i, j \in R : ~Preferred(P[i], P[j])
  BY <1>1, <1>7, <1>8, <1>9, <1>10, CandSplit
<1>13. \A u, e : u = Append(v, e) /\ Leads(v, path, e) =>
         u \in Nodes /\ u # <<>> /\ Agrees(u, path) /\ Len(u) = Len(v) + 1
  <2> SUFFICES ASSUME NEW u, NEW e, u = Append(v, e), Leads(v, path, e)
               PROVE  u \in Nodes /\ u # <<>> /\ Agrees(u, path) /\ Len(u) = Len(v) + 1
    BY Zenon
  <2>1. Append(v, e) \in Nodes /\ Len(Append(v, e)) = d + 1 /\ Append(v, e) # <<>> /\ Agrees(Append(v, e), path)
    BY <1>1, <1>2, ChildIs
  <2> QED BY <1>2, <2>1, Zenon
<1>14. \A z \in Results : z.params \in Bindings BY DEF Results
<1>15. \A a \in Bindings : Miss(a).route = None /\ Miss(a).params = a BY DEF Miss
<1>16. \A u \in Nodes : u # <<>> /\ u \notin t.nodes => Cand(P, path, u) = {}
  BY CandOfNoNode DEF Represents
<1>17. SUFFICES ASSUME NEW c \in Bindings PROVE IsFound(P, Cand(P, path, v), m[<<v, c>>].route)
  BY DEF Finds
<1>18. PICK q : q = FixedAt(t, m, v, s, c) OBVIOUS
<1>19. IsFound(P, A, q.route) /\ q.params \in Bindings
  <2>1. PICK u : u = Append(v, x) OBVIOUS
  <2>2. u \in Nodes /\ u # <<>> /\ Agrees(u, path) /\ Len(u) = Len(v) + 1 BY <1>7, <1>13, <2>1
  <2>3. CASE u \in t.nodes
    <3>1. q = m[<<u, c>>] BY <1>5, <1>18, <2>1, <2>3, Zenon DEF FixedAt
    <3>2. IsFound(P, A, m[<<u, c>>].route) BY <1>8, <2>1, <2>2, <2>3, Zenon DEF Finds
    <3>3. m[<<u, c>>] \in Results BY <2>3
    <3> QED BY <1>14, <3>1, <3>2, <3>3, Zenon
  <2>4. CASE u \notin t.nodes
    <3>1. q = Miss(c) BY <1>5, <1>18, <2>1, <2>4, Zenon DEF FixedAt
    <3>2. A = {} BY <1>8, <1>16, <2>1, <2>2, <2>4
    <3> QED BY <1>15, <3>1, <3>2, Zenon DEF IsFound
  <2> QED BY <2>3, <2>4
<1>20. PICK a \in Bindings : a = q.params BY <1>19
<1>21. PICK r : r = ParamAt(t, m, v, s, a) OBVIOUS
<1>22. IsFound(P, B, r.route) /\ r.params \in Bindings
  <2>1. PICK u : u = Append(v, b) OBVIOUS
  <2>2. u \in Nodes /\ u # <<>> /\ Agrees(u, path) /\ Len(u) = Len(v) + 1 BY <1>7, <1>13, <2>1
  <2>3. CASE u \in t.nodes
    <3>1. PICK name \in STRING : name = t.name[u] BY <1>6, <2>1, <2>3, BelowHasName
    <3>2. PICK e \in Bindings : e = Bind(a, name, <<s>>) 
      <4>1. <<s>> \in Seq(STRING) BY <1>4
      <4> QED BY <4>1, BindingsClosed
    <3>3. PICK z \in Results : z = m[<<u, e>>] BY <2>3
    <3>4. r = (IF z.route # None THEN z ELSE Miss(Without(z.params, name)))
      BY <1>6, <1>21, <2>1, <2>3, <3>1, <3>2, <3>3, Zenon DEF ParamAt
    <3>5. IsFound(P, B, z.route) BY <1>9, <2>1, <2>2, <2>3, <3>3, Zenon DEF Finds
    <3>6. PICK w \in Bindings : w = Without(z.params, name) BY <1>14, WithoutClosed
    <3>7. CASE z.route # None BY <1>14, <3>4, <3>5, <3>7, Zenon
    <3>8. CASE z.route = None BY <1>15, <3>4, <3>5, <3>6, <3>8, Zenon
    <3> QED BY <3>7, <3>8
  <2>4. CASE u \notin t.nodes
    <3>1. r = Miss(a) BY <1>6, <1>21, <2>1, <2>4, Zenon DEF ParamAt
    <3>2. B = {} BY <1>9, <1>16, <2>1, <2>2, <2>4
    <3> QED BY <1>15, <3>1, <3>2, Zenon DEF IsFound
  <2> QED BY <2>3, <2>4
<1>23. PICK k \in Bindings : k = r.params BY <1>22
<1>24. PICK w : w = RestAt(t, path, v, k) OBVIOUS
<1>25. IsFound(P, R, w.route)
  <2>1. CASE v \in DOMAIN t.rest
    <3>1. PICK i : IsLast(R, i) /\ t.rest[v] = [name |-> P[i][Len(P[i])].text, route |-> i]
      BY <1>10, <2>1 DEF Represents, HasRest
    <3>2. PICK star \in [name : STRING, route : Nat] : star = t.rest[v] BY <2>1, TrieTypes
    <3>3. star # None /\ star.route = i BY <3>1, <3>2, NoneAssumption
    <3>4. w = [route |-> star.route,
               params |-> Bind(k, star.name, SubSeq(path, Len(v) + 1, Len(path)))]
      BY <1>24, <2>1, <3>2, <3>3, Zenon DEF RestAt, Lookup
    <3>5. w.route = i BY <3>3, <3>4
    <3> QED BY <1>12, <3>1, <3>5, BestOfEquals
  <2>2. CASE v \notin DOMAIN t.rest
    <3>1. R = {} BY <1>10, <2>2 DEF Represents, HasRest
    <3>2. w = Miss(k) BY <1>24, <2>2, Zenon DEF RestAt, Lookup
    <3> QED BY <1>15, <3>1, <3>2, Zenon DEF IsFound
  <2> QED BY <2>1, <2>2
<1>26. m[<<v, c>>] = IF q.route # None THEN q ELSE IF r.route # None THEN r ELSE w
  <2>1. m[<<v, c>>] = MatchAt(t, path, m, v, c) BY DEF IsMatch
  <2>2. ~(Len(v) >= Len(path))
    <3>1. PICK n \in Nat : n = Len(path) BY PathIs
    <3>2. d < n BY <1>2, <3>1, Zenon
    <3>3. ~(d >= n) BY <3>2
    <3> QED BY <1>2, <3>1, <3>3, Zenon
  <2> QED BY <1>3, <1>18, <1>20, <1>21, <1>23, <1>24, <2>1, <2>2, Zenon DEF MatchAt
<1>27. PICK y : y = IF r.route # None THEN r.route ELSE w.route OBVIOUS
<1>28. IsFound(P, B \cup R, y) BY <1>11, <1>12, <1>22, <1>25, <1>27, BestOfTwo
<1>29. IsFound(P, A \cup (B \cup R), IF q.route # None THEN q.route ELSE y)
  <2>1. B \cup R \subseteq Nat BY <1>11
  <2> QED BY <1>11, <1>12, <1>19, <1>28, <2>1, BestOfTwo
<1>30. m[<<v, c>>].route = IF q.route # None THEN q.route ELSE y
  <2>1. CASE q.route # None BY <1>26, <2>1, Zenon
  <2>2. CASE q.route = None /\ r.route # None BY <1>26, <1>27, <2>2, Zenon
  <2>3. CASE q.route = None /\ r.route = None BY <1>26, <1>27, <2>3, Zenon
  <2> QED BY <2>1, <2>2, <2>3
<1> QED BY <1>12, <1>29, <1>30, Zenon

(* The search from the root finds the best of all that match.              *)
LEMMA MatchFinds ==
  ASSUME NEW P, Numbered(P), NEW t, Represents(t, P, DOMAIN P), NEW path, IsPath(path), path # <<>>,
         NEW m \in [t.nodes \X Bindings -> Results], IsMatch(t, path, m)
  PROVE  Finds(P, path, m, <<>>)
<1>1. PICK n \in Nat : n = Len(path) BY PathIs
<1>2. \A v \in t.nodes : Len(v) \in Nat BY TrieTypes, NodeIs
<1> DEFINE T == {k \in Nat : \A v \in t.nodes :
                               Agrees(v, path) /\ Len(v) + k = n => Finds(P, path, m, v)}
<1>3. 0 \in T
  <2> SUFFICES ASSUME NEW v \in t.nodes, Agrees(v, path), Len(v) + 0 = n PROVE Finds(P, path, m, v)
    OBVIOUS
  <2>1. Len(v) = Len(path) BY <1>1, <1>2
  <2> QED BY <2>1, FindsAtEnd
<1>4. ASSUME NEW k \in T PROVE k + 1 \in T
  <2> SUFFICES ASSUME NEW v \in t.nodes, Agrees(v, path), Len(v) + (k + 1) = n
               PROVE  Finds(P, path, m, v)
    OBVIOUS
  <2>1. Len(v) < Len(path) BY <1>1, <1>2
  <2>2. ASSUME NEW u \in t.nodes, Agrees(u, path), Len(u) = Len(v) + 1 PROVE Finds(P, path, m, u)
    <3>1. Len(u) + k = n BY <1>2, <2>2
    <3> QED BY <2>2, <3>1
  <2> HIDE DEF T
  <2> QED BY <2>1, <2>2, FindsInside
<1>5. T = Nat
  <2>1. T \subseteq Nat OBVIOUS
  <2> HIDE DEF T
  <2> QED BY <1>3, <1>4, <2>1, InductionNat
<1>6. n \in T BY <1>5
<1>7. <<>> \in t.nodes /\ Len(<<>>) = 0 BY TrieTypes
<1>8. Agrees(<<>>, path) 
  <2>1. 0 <= Len(path) /\ \A j \in 1 .. 0 : FALSE BY <1>1
  <2> QED BY <1>7, <2>1 DEF Agrees
<1> QED BY <1>6, <1>7, <1>8

(* The empty path: the root, and the catch-alls that match everything.     *)
LEMMA RootOrStar ==
  ASSUME NEW p, Compiled(p)
  PROVE  /\ Matches(p, <<>>) <=> p = <<>> \/ (IsOpen(p) /\ End(p) = <<>>)
         /\ p = <<>> <=> ~IsOpen(p) /\ End(p) = <<Static("")>>
         /\ IsOpen(p) => p # <<>> /\ Preferred(<<>>, p) /\ ~Preferred(p, <<>>)
         /\ IsOpen(p) /\ End(p) = <<>> => Len(p) = 1
<1>1. p \in Seq(Segments) /\ Len(p) \in Nat /\ (p # <<>> => Len(p) >= 1) BY CompiledIs
<1>2. IsOpen(p) <=> p # <<>> /\ p[Len(p)].kind = "rest" BY DEF IsOpen
<1>3. <<>> \in Nodes /\ Len(<<>>) = 0
  <2>1. <<>> \in Seq(Labels) /\ Len(<<>>) = 0 OBVIOUS
  <2>2. \A j \in 1 .. 0 : FALSE OBVIOUS
  <2> QED BY <2>1, <2>2 DEF Nodes
<1>4. Under(p, <<>>)
  <2>1. 0 <= Len(p) /\ \A j \in 1 .. 0 : FALSE BY <1>1
  <2> QED BY <1>3, <2>1 DEF Under
<1>5. IsOpen(p) => (End(p) = <<>> <=> Len(p) = 1)
  <2> SUFFICES ASSUME IsOpen(p) PROVE End(p) = <<>> <=> Len(p) = 1 OBVIOUS
  <2>1. \A v \in Nodes : End(p) = v <=> Under(p, v) /\ Len(v) = Len(p) - 1 BY <1>2, EndIsUnder
  <2>2. End(p) = <<>> <=> 0 = Len(p) - 1 BY <1>3, <1>4, <2>1, Zenon
  <2> QED BY <1>1, <2>2
<1>6. CASE p = <<>>
  <2>1. Len(p) = 0 BY <1>6
  <2>2. Matches(p, <<>>) BY <1>3, <2>1 DEF Matches
  <2>3. End(p) = <<Static("")>> BY <1>6 DEF End
  <2> QED BY <1>2, <1>6, <2>2, <2>3
<1>7. CASE p # <<>> /\ ~IsOpen(p)
  <2>1. ~Matches(p, <<>>) BY <1>1, <1>2, <1>3, <1>7 DEF Matches
  <2>2. ASSUME NEW w, w = <<Static("")>>, End(p) = w PROVE FALSE
    <3>1. Len(w) = 1 /\ w[1] = Static("") BY <2>2, RootNode
    <3>2. w \in Nodes BY <2>2, EndIsNode
    <3>3. Under(p, w) /\ Len(w) = Len(p) BY <1>7, <2>2, <3>2, EndIsUnder
    <3>4. 1 \in 1 .. Len(w) /\ 1 \in 1 .. Len(p)
      <4>1. Len(p) = 1 BY <3>1, <3>3, Zenon
      <4>2. 1 \in 1 .. 1 OBVIOUS
      <4> QED BY <3>1, <4>1, <4>2, Zenon
    <3>5. Edge(p[1]) = Static("") BY <3>1, <3>3, <3>4 DEF Under
    <3>6. p[1] \in Segments BY <1>1, <3>4
    <3>7. p[1].kind = "static" /\ Edge(p[1]) = p[1]
      <4>1. Static("").kind = "static" BY EdgesDiffer
      <4>2. Edge(p[1]).kind = p[1].kind BY <3>6, Edges
      <4>3. p[1].kind = "static" BY <3>5, <4>1, <4>2, Zenon
      <4> QED BY <3>6, <4>3, Edges
    <3>8. Len(p) = 1 BY <3>1, <3>3
    <3> QED BY <3>5, <3>7, <3>8, Zenon DEF Compiled
  <2> QED BY <1>7, <2>1, <2>2
<1>8. CASE p # <<>> /\ IsOpen(p)
  <2>1. Matches(p, <<>>) <=> Len(p) = 1
    <3>1. Matches(p, <<>>) => Len(p) = 1 BY <1>1, <1>2, <1>3, <1>8 DEF Matches
    <3>2. ASSUME Len(p) = 1 PROVE Matches(p, <<>>)
      <4>1. \A i \in 1 .. 1 : p[i].kind = "rest" BY <1>2, <1>8, <3>2
      <4> QED BY <1>8, <3>2, <4>1 DEF Matches
    <3> QED BY <3>1, <3>2
  <2>2. DOMAIN <<>> = {} OBVIOUS
  <2>3. Preferred(<<>>, p) /\ ~Preferred(p, <<>>) BY <1>8, <2>2, Zenon DEF Preferred
  <2> QED BY <1>5, <1>8, <2>1, <2>3
<1> QED BY <1>6, <1>7, <1>8

(* match_path finds the best of the routes that match, or none where none  *)
(* does.                                                                   *)
LEMMA MatchPathFinds ==
  ASSUME NEW P, Numbered(P), NEW last \in Nat, DOMAIN P \subseteq 1 .. last,
         NEW path, IsPath(path)
  PROVE  IsFound(P, {i \in DOMAIN P : Matches(P[i], path)}, MatchPath(Trie(P, last), path).route)
<1>1. PICK t : t = Trie(P, last) OBVIOUS
<1>2. Represents(t, P, DOMAIN P) BY <1>1, TrieRepresents
<1>3. DOMAIN P \subseteq Nat /\ \A i \in DOMAIN P : Compiled(P[i]) BY DEF Numbered
<1>4. CASE path # <<>>
  <2>0. PICK m : Computes(t, path, m) BY <1>2, MatchSegmentsIs, Zenon
  <2>1. /\ m \in [t.nodes \X Bindings -> Results] /\ IsMatch(t, path, m)
        /\ MatchSegments(t, path) = m[<< <<>>, {} >>]
    BY <2>0, Zenon DEF Computes
  <2>2. Finds(P, path, m, <<>>) BY <1>2, <1>4, <2>1, MatchFinds
  <2>3. {} \in Bindings BY DEF Bindings
  <2>4. IsFound(P, Cand(P, path, <<>>), MatchSegments(t, path).route) BY <2>1, <2>2, <2>3, Zenon DEF Finds
  <2>5. Cand(P, path, <<>>) = {i \in DOMAIN P : Matches(P[i], path)}
    <3>1. ASSUME NEW i \in DOMAIN P PROVE Under(P[i], <<>>)
      <4>1. Len(P[i]) \in Nat BY <1>3, CompiledIs
      <4>2. Len(<<>>) = 0 /\ 0 <= Len(P[i]) /\ \A j \in 1 .. 0 : FALSE BY <4>1
      <4> QED BY <4>2 DEF Under
    <3> QED BY <3>1 DEF Cand
  <2>6. MatchPath(t, path) = MatchSegments(t, path) BY <1>4, Zenon DEF MatchPath
  <2> QED BY <1>1, <2>4, <2>5, <2>6, Zenon
<1>5. CASE path = <<>>
  <2>1. PICK w : w = <<Static("")>> OBVIOUS
  <2>2. PICK A : A = Ending(P, DOMAIN P, w) OBVIOUS
  <2>3. PICK R : R = Opening(P, DOMAIN P, <<>>) OBVIOUS
  <2>4. A \subseteq Nat /\ R \subseteq Nat BY <1>3, <2>2, <2>3 DEF Ending, Opening
  <2>5. \A i \in A : P[i] = <<>> BY <1>3, <2>1, <2>2, RootOrStar, Zenon DEF Ending
  <2>6. \A i \in R : IsOpen(P[i]) /\ P[i] # <<>> BY <1>3, <2>3, RootOrStar, Zenon DEF Opening
  <2>7. \A i \in A, j \in R : Preferred(P[i], P[j]) /\ ~Preferred(P[j], P[i])
    <3>1. \A j \in R : Compiled(P[j]) BY <1>3, <2>3 DEF Opening
    <3> QED BY <2>5, <2>6, <3>1, RootOrStar, Zenon
  <2>8. \A i, j \in A : ~Preferred(P[i], P[j])
    <3>1. DOMAIN <<>> = {} OBVIOUS
    <3> QED BY <2>5, <3>1, Zenon DEF Preferred
  <2>9. ASSUME NEW i \in R, NEW j \in R PROVE ~Preferred(P[i], P[j])
    <3>1. Compiled(P[i]) /\ Compiled(P[j]) BY <1>3, <2>3 DEF Opening
    <3>2. End(P[i]) = End(P[j]) BY <2>3 DEF Opening
    <3> QED BY <2>6, <3>1, <3>2, SameEnd
  <2>10. A \cup R = {i \in DOMAIN P : Matches(P[i], path)}
    <3>1. \A i \in DOMAIN P : i \in A <=> P[i] = <<>>
      BY <1>3, <2>1, <2>2, RootOrStar, Zenon DEF Ending
    <3>2. \A i \in DOMAIN P : i \in R <=> IsOpen(P[i]) /\ End(P[i]) = <<>>
      BY <2>3, Zenon DEF Opening
    <3>3. \A i \in DOMAIN P : Matches(P[i], path) <=> i \in A \/ i \in R
      BY <1>3, <1>5, <3>1, <3>2, RootOrStar, Zenon
    <3>4. A \subseteq DOMAIN P /\ R \subseteq DOMAIN P BY <2>2, <2>3, Zenon DEF Ending, Opening
    <3> QED BY <3>3, <3>4, Zenon
  <2>11. PICK root : root = Lookup(t.route, w) OBVIOUS
  <2>12. IsFound(P, A, root)
    <3>1. CASE w \in DOMAIN t.route
      <4>1. IsLast(A, t.route[w]) BY <1>2, <2>2, <3>1 DEF Represents, HasRoutes
      <4>2. root = t.route[w] BY <2>11, <3>1, Zenon DEF Lookup
      <4> QED BY <2>8, <4>1, <4>2, BestOfEquals
    <3>2. CASE w \notin DOMAIN t.route
      <4>1. A = {} BY <1>2, <2>2, <3>2 DEF Represents, HasRoutes
      <4>2. root = None BY <2>11, <3>2, Zenon DEF Lookup
      <4> QED BY <4>1, <4>2 DEF IsFound
    <3> QED BY <3>1, <3>2
  <2>13. PICK star : star = Lookup(t.rest, <<>>) OBVIOUS
  <2>14. IsFound(P, R, IF star = None THEN None ELSE star.route)
    <3>1. CASE <<>> \in DOMAIN t.rest
      <4>1. PICK i : IsLast(R, i) /\ t.rest[<<>>] = [name |-> P[i][Len(P[i])].text, route |-> i]
        BY <1>2, <2>3, <3>1 DEF Represents, HasRest
      <4>2. star = t.rest[<<>>] /\ star \in [name : STRING, route : Nat]
        BY <1>2, <2>13, <3>1, TrieTypes DEF Lookup
      <4>3. star # None /\ star.route = i BY <4>1, <4>2, NoneAssumption
      <4>4. IsFound(P, R, i) BY <2>9, <4>1, BestOfEquals
      <4> QED BY <4>3, <4>4, Zenon
    <3>2. CASE <<>> \notin DOMAIN t.rest
      <4>1. R = {} BY <1>2, <2>3, <3>2 DEF Represents, HasRest
      <4>2. star = None BY <2>13, <3>2, Zenon DEF Lookup
      <4> QED BY <4>1, <4>2, Zenon DEF IsFound
    <3> QED BY <3>1, <3>2
  <2>15. PICK s : s = IF star = None THEN None ELSE star.route OBVIOUS
  <2>16. IsFound(P, A \cup R, IF root # None THEN root ELSE s)
    <3>1. IsFound(P, R, s) BY <2>14, <2>15, Zenon
    <3> QED BY <2>4, <2>7, <2>12, <3>1, BestOfTwo
  <2>18. MatchPath(t, path) =
           IF root # None \/ star = None THEN [route |-> root, params |-> {}]
           ELSE [route |-> star.route, params |-> {<<star.name, <<>>>>}]
    BY <1>5, <2>1, <2>11, <2>13, Zenon DEF MatchPath
  <2>19. MatchPath(t, path).route = IF root # None THEN root ELSE s
    <3>1. \A r, p : [route |-> r, params |-> p].route = r OBVIOUS
    <3>2. CASE root # None \/ star = None BY <2>15, <2>18, <3>1, <3>2, Zenon
    <3>3. CASE root = None /\ star # None BY <2>15, <2>18, <3>1, <3>3, Zenon
    <3> QED BY <3>2, <3>3
  <2> QED BY <1>1, <2>10, <2>16, <2>19, Zenon
<1> QED BY <1>4, <1>5

(* match_path returns the route that the documented order of preference    *)
(* picks, whatever the routes: at each node a fixed segment, a parameter   *)
(* and a catch-all are tried in turn and a branch in vain is left.         *)
THEOREM MatchPathIsBest ==
  ASSUME NEW P, Numbered(P), NEW last \in Nat, DOMAIN P \subseteq 1 .. last,
         NEW path, IsPath(path)
  PROVE  MatchPath(Trie(P, last), path).route = Best(P, path)
<1>1. DOMAIN P \subseteq Nat BY DEF Numbered
<1> QED BY <1>1, MatchPathFinds, FoundIsBest, Zenon

-----------------------------------------------------------------------------
(* Captures.  No two segments of the pattern capture under one name.       *)
Apart(p) ==
  \A j, k \in {l \in DOMAIN p : p[l].kind # "static"} : p[j].text = p[k].text => j = k

(* What the parameters among the first d segments of a pattern capture.    *)
Caught(p, d, path) == {<<p[j].text, <<path[j]>>>> : j \in {k \in 1 .. d : p[k].kind = "param"}}

LEMMA CaughtNext ==
  ASSUME NEW p, NEW path, NEW d \in Nat
  PROVE  Caught(p, d + 1, path) =
           IF p[d + 1].kind = "param" THEN Caught(p, d, path) \cup {<<p[d + 1].text, <<path[d + 1]>>>>}
           ELSE Caught(p, d, path)
<1>1. \A j : j \in 1 .. d + 1 <=> j \in 1 .. d \/ j = d + 1 OBVIOUS
<1>2. PICK e : e = d + 1 OBVIOUS
<1> QED BY <1>1, <1>2, Zenon DEF Caught

LEMMA CaughtNone ==
  ASSUME NEW p, NEW path
  PROVE  Caught(p, 0, path) = {}
<1>1. \A j : j \notin 1 .. 0 OBVIOUS
<1> QED BY <1>1, Zenon DEF Caught

LEMMA CaughtApart ==
  ASSUME NEW p, Compiled(p), Apart(p), NEW path, NEW d \in Nat, d + 1 <= Len(p), p[d + 1].kind # "static",
         NEW x \in Caught(p, d, path)
  PROVE  x[1] # p[d + 1].text
<1>1. PICK j \in 1 .. d : p[j].kind = "param" /\ x = <<p[j].text, <<path[j]>>>> BY Zenon DEF Caught
<1>2. x[1] = p[j].text BY <1>1
<1>3. j \in 1 .. Len(p) /\ d + 1 \in 1 .. Len(p) /\ j # d + 1
  <2>1. Len(p) \in Nat BY CompiledIs
  <2> QED BY <2>1
<1>4. DOMAIN p = 1 .. Len(p) BY CompiledIs, LenProperties
<1>5. p[j].kind # "static" BY <1>1
<1> QED BY <1>2, <1>3, <1>4, <1>5, Zenon DEF Apart

LEMMA BindFresh ==
  ASSUME NEW c, NEW name, NEW value, \A x \in c : x[1] # name
  PROVE  Bind(c, name, value) = c \cup {<<name, value>>} /\ Without(Bind(c, name, value), name) = c
<1>1. Bind(c, name, value) = c \cup {<<name, value>>} BY DEF Bind
<1>2. \A v : <<name, v>>[1] = name OBVIOUS
<1> QED BY <1>1, <1>2, Zenon DEF Without

(* The entries of Captures, when no name is used twice.                    *)
LEMMA CapturesAre ==
  ASSUME NEW p, Compiled(p), Apart(p), NEW path
  PROVE  /\ ~IsOpen(p) => Entries(Captures(p, path)) = Caught(p, Len(p), path)
         /\ \A d \in Nat : IsOpen(p) /\ Len(p) = d + 1 =>
              Entries(Captures(p, path)) =
                Caught(p, d, path) \cup {<<p[d + 1].text, SubSeq(path, d + 1, Len(path))>>}
<1>1. p \in Seq(Segments) /\ Len(p) \in Nat /\ DOMAIN p = 1 .. Len(p)
  BY CompiledIs, LenProperties
<1> DEFINE caught == {j \in DOMAIN p : p[j].kind # "static"}
           value(j) == IF p[j].kind = "param" THEN <<path[j]>> ELSE SubSeq(path, j, Len(path))
           f == Captures(p, path)
<1>2. f = [name \in {p[j].text : j \in caught} |->
             value(CHOOSE j \in caught : /\ p[j].text = name
                                         /\ \A k \in caught : p[k].text = name => k <= j)]
  BY DEF Captures
<1>3. ASSUME NEW j \in caught
      PROVE  j = CHOOSE i \in caught : /\ p[i].text = p[j].text
                                       /\ \A k \in caught : p[k].text = p[j].text => k <= i
  <2>1. \A k \in caught : p[k].text = p[j].text => k = j BY Zenon DEF Apart
  <2>2. j \in Nat BY <1>1
  <2>3. j <= j BY <2>2
  <2> HIDE DEF caught
  <2>4. \E i \in caught : p[i].text = p[j].text /\ \A k \in caught : p[k].text = p[j].text => k <= i
    BY <2>1, <2>3, Zenon
  <2> QED BY <2>1, <2>4, Zenon
<1>4. \A j \in caught : f[p[j].text] = value(j)
  <2> HIDE DEF caught, value, f
  <2> QED BY <1>2, <1>3, Zenon
<1>5. DOMAIN f = {p[j].text : j \in caught}
  <2> HIDE DEF caught, value, f
  <2> QED BY <1>2, Zenon
<1>6. Entries(f) = {<<p[j].text, value(j)>> : j \in caught}
  <2> HIDE DEF caught, value, f
  <2>1. ASSUME NEW x \in Entries(f) PROVE \E j \in caught : x = <<p[j].text, value(j)>>
    <3>1. PICK key \in DOMAIN f : x = <<key, f[key]>> BY Zenon DEF Entries
    <3>2. PICK j \in caught : key = p[j].text BY <1>5, <3>1, Zenon
    <3> QED BY <1>4, <3>1, <3>2, Zenon
  <2>2. ASSUME NEW j \in caught PROVE <<p[j].text, value(j)>> \in Entries(f)
    <3>1. PICK key \in DOMAIN f : key = p[j].text BY <1>5, Zenon
    <3>2. <<key, f[key]>> \in Entries(f) BY <3>1, Zenon DEF Entries
    <3> QED BY <1>4, <3>1, <3>2, Zenon
  <2> QED BY <2>1, <2>2, Zenon
<1>7. \A j \in caught : p[j].kind = "param" \/ (p[j].kind = "rest" /\ j = Len(p))
  <2> SUFFICES ASSUME NEW j \in 1 .. Len(p), p[j].kind # "static"
               PROVE  p[j].kind = "param" \/ (p[j].kind = "rest" /\ j = Len(p))
    BY <1>1
  <2>1. p[j] \in Segments BY CompiledIs
  <2>2. p[j].kind \in {"static", "param", "rest"} BY <2>1 DEF Segments
  <2> QED BY <2>2, CompiledIs
<1>8. \A j : j \in caught <=> j \in 1 .. Len(p) /\ p[j].kind # "static" BY <1>1, Zenon
<1>9. \A j : p[j].kind = "param" => value(j) = <<path[j]>> /\ p[j].kind # "static" BY Zenon
<1>10. \A j : p[j].kind = "rest" => value(j) = SubSeq(path, j, Len(path)) /\ p[j].kind # "static" /\ p[j].kind # "param"
  BY Zenon
<1> HIDE DEF caught, value
<1>11. ASSUME ~IsOpen(p) PROVE Entries(f) = Caught(p, Len(p), path)
  <2>1. \A j \in caught : p[j].kind = "param"
    <3>1. Len(p) \in 1 .. Len(p) => p # <<>> OBVIOUS
    <3> QED BY <1>7, <1>8, <1>11, <3>1, Zenon DEF IsOpen
  <2>2. \A j : j \in caught <=> j \in {k \in 1 .. Len(p) : p[k].kind = "param"}
    BY <1>8, <1>9, <2>1, Zenon
  <2>3. caught = {k \in 1 .. Len(p) : p[k].kind = "param"} BY <2>2, Zenon
  <2> QED BY <1>6, <1>9, <2>1, <2>3, Zenon DEF Caught
<1>12. ASSUME NEW d \in Nat, IsOpen(p), Len(p) = d + 1
       PROVE  Entries(f) = Caught(p, d, path) \cup {<<p[d + 1].text, SubSeq(path, d + 1, Len(path))>>}
  <2>1. PICK e : e = d + 1 OBVIOUS
  <2>2. p[e].kind = "rest" BY <1>12, <2>1 DEF IsOpen
  <2>3. \A j : j \in 1 .. e <=> j \in 1 .. d \/ j = e BY <2>1
  <2>4. \A j \in 1 .. d : j # e BY <2>1
  <2>5. \A j : j \in caught <=> j \in {k \in 1 .. d : p[k].kind = "param"} \/ j = e
    <3>1. \A j : j \in caught => j \in 1 .. e BY <1>8, <1>12, <2>1, Zenon
    <3>2. \A j : j \in caught => j \in {k \in 1 .. d : p[k].kind = "param"} \/ j = e
      BY <1>7, <1>12, <2>1, <2>3, <3>1, Zenon
    <3>3. \A j : j \in {k \in 1 .. d : p[k].kind = "param"} \/ j = e => j \in caught
      BY <1>8, <1>9, <1>10, <1>12, <2>1, <2>2, <2>3, Zenon
    <3> QED BY <3>2, <3>3, Zenon
  <2>6. value(e) = SubSeq(path, e, Len(path)) BY <1>10, <2>2, Zenon
  <2>7. \A j \in {k \in 1 .. d : p[k].kind = "param"} : value(j) = <<path[j]>> BY <1>9, Zenon
  <2>8. {<<p[j].text, value(j)>> : j \in caught} =
          {<<p[j].text, <<path[j]>>>> : j \in {k \in 1 .. d : p[k].kind = "param"}}
             \cup {<<p[e].text, SubSeq(path, e, Len(path))>>}
    BY <2>5, <2>6, <2>7, Zenon
  <2> QED BY <1>6, <2>1, <2>8, Zenon DEF Caught
<1> QED BY <1>11, <1>12

(* A parameter's node has the name that all patterns passing it use.       *)
LEMMA NodeName ==
  ASSUME NEW P, Numbered(P), NamesAgree(P), NEW t, Represents(t, P, DOMAIN P),
         NEW u \in t.nodes, u # <<>>, u[Len(u)].kind = "param"
  PROVE  /\ \E i \in DOMAIN P : P[i] # <<>> /\ Under(P[i], u)
         /\ \A i \in DOMAIN P : Under(P[i], u) => P[i][Len(u)].text = t.name[u]
<1>1. u \in Nodes BY TrieTypes
<1>2. u \in DOMAIN t.name BY Zenon DEF Represents, HasNames
<1>3. PICK i \in DOMAIN P : u \in Passed(P[i]) /\ t.name[u] = P[i][Len(u)].text
  BY <1>2, Zenon DEF Represents, HasNames
<1>4. PICK p : p = P[i] OBVIOUS
<1>5. Compiled(p) BY <1>3, <1>4 DEF Numbered
<1>6. p # <<>>
  <2> SUFFICES ASSUME p = <<>> PROVE FALSE OBVIOUS
  <2>1. u = <<Static("")>> BY <1>1, <1>3, <1>4, <1>5, PassedIsUnder
  <2>2. u[Len(u)].kind = "static" BY <2>1, RootNode, EdgesDiffer, Zenon
  <2> QED BY <2>2
<1>7. Under(p, u) BY <1>1, <1>3, <1>4, <1>5, <1>6, PassedIsUnder
<1>8. PICK k \in Nat : k = Len(u) BY <1>1, NodeIs
<1>9. k >= 1 BY <1>1, <1>8, NodeIs
<1>10. ASSUME NEW j \in DOMAIN P, Under(P[j], u) PROVE P[j][k].text = t.name[u]
  <2>1. PICK q : q = P[j] OBVIOUS
  <2>2. Compiled(q) /\ Under(q, u) BY <1>10, <2>1 DEF Numbered
  <2>3. DOMAIN p = 1 .. Len(p) /\ DOMAIN q = 1 .. Len(q) /\ Len(p) \in Nat /\ Len(q) \in Nat
    BY <1>5, <2>2, CompiledIs, LenProperties
  <2>4. k <= Len(p) /\ k <= Len(q) BY <1>7, <1>8, <2>2 DEF Under
  <2>5. k \in DOMAIN p \cap DOMAIN q BY <1>9, <2>3, <2>4
  <2>6. \A l \in 1 .. k : Edge(p[l]) = Edge(q[l]) BY <1>7, <1>8, <2>2 DEF Under
  <2>7. p[k] = q[k] BY <1>3, <1>4, <1>10, <2>1, <2>5, <2>6, Zenon DEF NamesAgree
  <2> QED BY <1>3, <1>4, <1>8, <2>1, <2>7, Zenon
<1> QED BY <1>3, <1>4, <1>6, <1>7, <1>8, <1>10, Zenon

(* What is captured on the way to a node, and what matching from there is  *)
(* to return.                                                              *)
Holds(P, path, v, c) ==
  \A i \in DOMAIN P : P[i] # <<>> /\ Under(P[i], v) => c = Caught(P[i], Len(v), path)
Right(P, path, c, z) ==
  z.params = IF z.route = None THEN c ELSE Entries(Captures(P[z.route], path))
Capturing(P, path, m, v) ==
  \A c \in Bindings : Holds(P, path, v, c) => Right(P, path, c, m[<<v, c>>])

(* Captures at the depth of the path, and above it.                        *)
LEMMA CapturingAtEnd ==
  ASSUME NEW P, Numbered(P), NamesApart(P), NEW t, Represents(t, P, DOMAIN P),
         NEW path, IsPath(path), path # <<>>,
         NEW m, IsMatch(t, path, m), NEW v \in t.nodes, Agrees(v, path), Len(v) = Len(path)
  PROVE  Capturing(P, path, m, v)
<1>1. v \in Nodes /\ Len(v) \in Nat BY TrieTypes, NodeIs
<1>2. SUFFICES ASSUME NEW c \in Bindings, Holds(P, path, v, c) PROVE Right(P, path, c, m[<<v, c>>])
  BY DEF Capturing
<1>3. PICK k : k = Lookup(t.route, v) OBVIOUS
<1>4. m[<<v, c>>] = [route |-> k, params |-> c]
  <2>1. Len(v) >= Len(path) BY <1>1
  <2>2. m[<<v, c>>] = MatchAt(t, path, m, v, c) BY DEF IsMatch
  <2> QED BY <1>3, <2>1, <2>2, Zenon DEF MatchAt
<1>5. m[<<v, c>>].route = k /\ m[<<v, c>>].params = c BY <1>4
<1>6. CASE k = None BY <1>5, <1>6, Zenon DEF Right
<1>7. CASE k # None
  <2>1. v \in DOMAIN t.route /\ k = t.route[v] BY <1>3, <1>7, Zenon DEF Lookup
  <2>2. k \in Ending(P, DOMAIN P, v) BY <2>1 DEF Represents, HasRoutes, IsLast
  <2>3. PICK p : p = P[k] OBVIOUS
  <2>4. Compiled(p) /\ Apart(p) /\ k \in DOMAIN P
    <3>1. k \in DOMAIN P BY <2>2 DEF Ending
    <3>2. Compiled(p) BY <2>3, <3>1, Zenon DEF Numbered
    <3>3. Apart(p) BY <2>3, <3>1, ZenonT(60) DEF NamesApart, Apart
    <3> QED BY <3>1, <3>2, <3>3
  <2>5. k \in Cand(P, path, v) BY <1>1, <2>2, CandAtEnd
  <2>6. Matches(p, path) /\ Under(p, v) BY <2>3, <2>5 DEF Cand
  <2>7. p # <<>> BY <2>4, <2>6, MatchesIs
  <2>8. ~IsOpen(p) /\ End(p) = v BY <2>2, <2>3 DEF Ending
  <2>9. Len(v) = Len(p) BY <1>1, <2>4, <2>7, <2>8, EndIsUnder
  <2>10. c = Caught(p, Len(p), path) BY <1>2, <2>3, <2>4, <2>6, <2>7, <2>9, Zenon DEF Holds
  <2>11. c = Entries(Captures(p, path)) BY <2>4, <2>8, <2>10, CapturesAre
  <2> QED BY <1>5, <1>7, <2>3, <2>11, Zenon DEF Right
<1> QED BY <1>6, <1>7

(* Patterns that begin as a child begin as the node, and a fixed segment   *)
(* captures nothing.                                                       *)
LEMMA UnderAbove ==
  ASSUME NEW path, IsPath(path), NEW v \in Nodes, Agrees(v, path), NEW e, Leads(v, path, e),
         NEW p, Compiled(p), Under(p, Append(v, e)), NEW d \in Nat, d = Len(v)
  PROVE  Under(p, v) /\ d + 1 <= Len(p) /\ p[d + 1].kind = e.kind
<1>1. Under(p, v) /\ Len(p) > d /\ Edge(p[d + 1]) = e BY UnderChild
<1>2. d + 1 <= Len(p) /\ d + 1 \in 1 .. Len(p)
  <2>1. Len(p) \in Nat BY CompiledIs
  <2> QED BY <1>1, <2>1
<1>3. p[d + 1] \in Segments BY <1>2, CompiledIs
<1> QED BY <1>1, <1>2, <1>3, Edges

LEMMA HoldsBelow ==
  ASSUME NEW P, Numbered(P), NEW path, IsPath(path), NEW v \in Nodes, Agrees(v, path),
         NEW e, Leads(v, path, e), NEW u, u = Append(v, e), NEW c, Holds(P, path, v, c),
         e.kind = "static"
  PROVE  Holds(P, path, u, c)
<1> SUFFICES ASSUME NEW i \in DOMAIN P, P[i] # <<>>, Under(P[i], u)
             PROVE  c = Caught(P[i], Len(u), path)
  BY Zenon DEF Holds
<1>1. PICK d \in Nat : d = Len(v) BY NodeIs
<1>2. Len(u) = d + 1 BY <1>1, ChildIs
<1>3. PICK p : p = P[i] OBVIOUS
<1>4. Compiled(p) /\ Under(p, Append(v, e)) BY <1>3 DEF Numbered
<1>5. Under(p, v) /\ p[d + 1].kind = e.kind BY <1>1, <1>4, UnderAbove
<1>6. c = Caught(p, d, path) BY <1>1, <1>3, <1>5, Zenon DEF Holds
<1>7. p[d + 1].kind # "param" BY <1>5
<1>8. Caught(p, d + 1, path) = Caught(p, d, path) BY <1>7, CaughtNext
<1> QED BY <1>2, <1>3, <1>6, <1>8, Zenon

LEMMA CapturingInside ==
  ASSUME NEW P, Numbered(P), NamesAgree(P), NamesApart(P), NEW t, Represents(t, P, DOMAIN P),
         NEW path, IsPath(path), path # <<>>,
         NEW m \in [t.nodes \X Bindings -> Results], IsMatch(t, path, m),
         NEW v \in t.nodes, Agrees(v, path), Len(v) < Len(path),
         \A u \in t.nodes : Agrees(u, path) /\ Len(u) = Len(v) + 1 => Capturing(P, path, m, u)
  PROVE  Capturing(P, path, m, v)
<1>0. \A i \in DOMAIN P : Compiled(P[i]) /\ Apart(P[i]) BY Zenon DEF Numbered, NamesApart, Apart
<1>1. v \in Nodes BY TrieTypes
<1>2. PICK d \in Nat : d = Len(v) BY <1>1, NodeIs
<1>3. PICK s : s = path[Len(v) + 1] OBVIOUS
<1>4. s \in STRING
  <2>1. PICK n \in Nat : n = Len(path) BY PathIs
  <2>2. d < n BY <1>2, <2>1, Zenon
  <2>3. d + 1 \in 1 .. n BY <2>2
  <2> QED BY <1>2, <1>3, <2>1, <2>3, PathIs
<1>5. PICK x : x = Static(s) OBVIOUS
<1>6. PICK b : b = Param("") OBVIOUS
<1>7. Leads(v, path, x) /\ Leads(v, path, b) /\ x.kind = "static" /\ b.kind = "param"
  BY <1>3, <1>5, <1>6, EdgesDiffer, Zenon DEF Leads
<1>8. \A u, e : u = Append(v, e) /\ Leads(v, path, e) =>
        u \in Nodes /\ u # <<>> /\ Agrees(u, path) /\ Len(u) = Len(v) + 1 /\ u[Len(u)] = e
  <2> SUFFICES ASSUME NEW u, NEW e, u = Append(v, e), Leads(v, path, e)
               PROVE  u \in Nodes /\ u # <<>> /\ Agrees(u, path) /\ Len(u) = Len(v) + 1 /\ u[Len(u)] = e
    BY Zenon
  <2>1. /\ Append(v, e) \in Nodes /\ Len(Append(v, e)) = d + 1 /\ Append(v, e) # <<>>
        /\ Agrees(Append(v, e), path) /\ Append(v, e)[d + 1] = e
    BY <1>1, <1>2, ChildIs
  <2> QED BY <1>2, <2>1, Zenon
<1>9. \A z \in Results : z.params \in Bindings BY DEF Results
<1>10. \A a : Miss(a).route = None /\ Miss(a).params = a BY DEF Miss
<1>11. SUFFICES ASSUME NEW c \in Bindings, Holds(P, path, v, c) PROVE Right(P, path, c, m[<<v, c>>])
  BY DEF Capturing
<1>12. PICK q : q = FixedAt(t, m, v, s, c) OBVIOUS
<1>13. Right(P, path, c, q)
  <2>1. PICK u : u = Append(v, x) OBVIOUS
  <2>2. u \in Nodes /\ u # <<>> /\ Agrees(u, path) /\ Len(u) = Len(v) + 1 BY <1>7, <1>8, <2>1
  <2>3. CASE u \in t.nodes
    <3>1. q = m[<<u, c>>] BY <1>5, <1>12, <2>1, <2>3, Zenon DEF FixedAt
    <3>2. Holds(P, path, u, c) BY <1>1, <1>7, <1>11, <2>1, HoldsBelow
    <3> QED BY <2>2, <2>3, <3>1, <3>2, Zenon DEF Capturing
  <2>4. CASE u \notin t.nodes
    <3>1. q = Miss(c) BY <1>5, <1>12, <2>1, <2>4, Zenon DEF FixedAt
    <3> QED BY <1>10, <3>1, Zenon DEF Right
  <2> QED BY <2>3, <2>4
<1>14. PICK r : r = ParamAt(t, m, v, s, c) OBVIOUS
<1>15. Right(P, path, c, r)
  <2>1. PICK u : u = Append(v, b) OBVIOUS
  <2>2. u \in Nodes /\ u # <<>> /\ Agrees(u, path) /\ Len(u) = Len(v) + 1 /\ u[Len(u)] = b
    BY <1>7, <1>8, <2>1
  <2>3. CASE u \in t.nodes
    <3>1. PICK name \in STRING : name = t.name[u] BY <1>6, <2>1, <2>3, BelowHasName
    <3>2. <<s>> \in Seq(STRING) BY <1>4
    <3>3. PICK e \in Bindings : e = Bind(c, name, <<s>>) BY <3>2, BindingsClosed
    <3>4. PICK z \in Results : z = m[<<u, e>>] BY <2>3
    <3>5. r = (IF z.route # None THEN z ELSE Miss(Without(z.params, name)))
      BY <1>6, <1>14, <2>1, <2>3, <3>1, <3>3, <3>4, Zenon DEF ParamAt
    <3>6. u[Len(u)].kind = "param" BY <1>7, <2>2, Zenon
    <3>7. /\ \E i \in DOMAIN P : P[i] # <<>> /\ Under(P[i], u)
          /\ \A i \in DOMAIN P : Under(P[i], u) => P[i][d + 1].text = name
      <4>1. /\ \E i \in DOMAIN P : P[i] # <<>> /\ Under(P[i], u)
            /\ \A i \in DOMAIN P : Under(P[i], u) => P[i][Len(u)].text = t.name[u]
        BY <2>2, <2>3, <3>6, NodeName
      <4> QED BY <1>2, <2>2, <3>1, <4>1, Zenon
    <3>8. ASSUME NEW i \in DOMAIN P, P[i] # <<>>, Under(P[i], u)
          PROVE  (\A y \in c : y[1] # name) /\ c \cup {<<name, <<s>>>>} = Caught(P[i], d + 1, path)
      <4>1. PICK p : p = P[i] OBVIOUS
      <4>2. Compiled(p) /\ Apart(p) BY <1>0, <4>1, Zenon
      <4>3. Under(p, v) /\ d + 1 <= Len(p) /\ p[d + 1].kind = b.kind
        <5>1. Under(p, Append(v, b)) BY <2>1, <3>8, <4>1, Zenon
        <5> QED BY <1>1, <1>2, <1>7, <4>2, <5>1, UnderAbove
      <4>4. d + 1 <= Len(p) /\ p[d + 1].kind = "param" /\ c = Caught(p, d, path)
        BY <1>2, <1>7, <1>11, <3>8, <4>1, <4>3, Zenon DEF Holds
      <4>5. p[d + 1].text = name BY <3>7, <3>8, <4>1, Zenon
      <4>6. \A y \in c : y[1] # name
        <5>1. p[d + 1].kind # "static" BY <4>4
        <5>2. \A y \in Caught(p, d, path) : y[1] # p[d + 1].text BY <4>2, <4>4, <5>1, CaughtApart
        <5> QED BY <4>4, <4>5, <5>2, Zenon
      <4>7. Caught(p, d + 1, path) = Caught(p, d, path) \cup {<<p[d + 1].text, <<path[d + 1]>>>>}
        BY <4>4, CaughtNext
      <4> QED BY <1>2, <1>3, <4>1, <4>4, <4>5, <4>6, <4>7, Zenon
    <3>9. \A y \in c : y[1] # name BY <3>7, <3>8, Zenon
    <3>10. e = c \cup {<<name, <<s>>>>} /\ Without(e, name) = c BY <3>3, <3>9, BindFresh, Zenon
    <3>11. Holds(P, path, u, e)
      <4>1. Len(u) = d + 1 BY <1>2, <2>2, Zenon
      <4> QED BY <3>8, <3>10, <4>1, Zenon DEF Holds
    <3>12. Right(P, path, e, z) BY <2>2, <2>3, <3>4, <3>11, Zenon DEF Capturing
    <3>13. CASE z.route # None BY <3>5, <3>12, <3>13, Zenon DEF Right
    <3>14. CASE z.route = None
      <4>1. z.params = e BY <3>12, <3>14, Zenon DEF Right
      <4>2. r = Miss(c) BY <3>5, <3>10, <3>14, <4>1, Zenon
      <4> QED BY <1>10, <4>2, Zenon DEF Right
    <3> QED BY <3>13, <3>14
  <2>4. CASE u \notin t.nodes
    <3>1. r = Miss(c) BY <1>6, <1>14, <2>1, <2>4, Zenon DEF ParamAt
    <3> QED BY <1>10, <3>1, Zenon DEF Right
  <2> QED BY <2>3, <2>4
<1>16. PICK w : w = RestAt(t, path, v, c) OBVIOUS
<1>17. Right(P, path, c, w)
  <2>1. CASE v \in DOMAIN t.rest
    <3>1. PICK i : i \in Opening(P, DOMAIN P, v) /\ t.rest[v] = [name |-> P[i][Len(P[i])].text, route |-> i]
      BY <2>1 DEF Represents, HasRest, IsLast
    <3>2. PICK star \in [name : STRING, route : Nat] : star = t.rest[v] BY <2>1, TrieTypes
    <3>3. star # None /\ star.route = i /\ star.name = P[i][Len(P[i])].text BY <3>1, <3>2, NoneAssumption
    <3>4. PICK f : f = Bind(c, star.name, SubSeq(path, Len(v) + 1, Len(path))) OBVIOUS
    <3>5. w = [route |-> star.route, params |-> f]
      BY <1>16, <2>1, <3>2, <3>3, <3>4, Zenon DEF RestAt, Lookup
    <3>6. w.route = i /\ w.params = f BY <3>3, <3>5
    <3>7. PICK p : p = P[i] OBVIOUS
    <3>8. Compiled(p) /\ Apart(p) /\ i \in DOMAIN P /\ IsOpen(p)
      <4>1. i \in DOMAIN P /\ IsOpen(p) BY <3>1, <3>7, Zenon DEF Opening
      <4> QED BY <1>0, <3>7, <4>1, Zenon
    <3>9. Follows(P[i], v, 2) /\ Len(P[i]) = Len(v) + 1 /\ P[i] # <<>> BY <1>1, <1>7, <3>1, OpeningFollows
    <3>10. Under(p, v) /\ Len(p) = d + 1 /\ p # <<>> BY <1>2, <3>7, <3>9, Zenon DEF Follows
    <3>11. c = Caught(p, d, path) BY <1>2, <1>11, <3>7, <3>8, <3>10, Zenon DEF Holds
    <3>12. p[d + 1].kind # "static" /\ d + 1 <= Len(p)
      <4>1. p[d + 1].kind = "rest" BY <3>8, <3>10 DEF IsOpen
      <4> QED BY <3>10, <4>1
    <3>13. \A y \in c : y[1] # p[d + 1].text BY <3>8, <3>11, <3>12, CaughtApart
    <3>14. star.name = p[d + 1].text BY <3>3, <3>7, <3>10, Zenon
    <3>15. f = c \cup {<<p[d + 1].text, SubSeq(path, d + 1, Len(path))>>}
      <4>1. PICK name : name = p[d + 1].text OBVIOUS
      <4>2. PICK value : value = SubSeq(path, d + 1, Len(path)) OBVIOUS
      <4>3. \A y \in c : y[1] # name BY <3>13, <4>1, Zenon
      <4>4. Bind(c, name, value) = c \cup {<<name, value>>} BY <4>3, BindFresh
      <4>5. f = Bind(c, name, value) BY <1>2, <3>4, <3>14, <4>1, <4>2, Zenon
      <4> QED BY <4>1, <4>2, <4>4, <4>5, Zenon
    <3>16. f = Entries(Captures(p, path))
      <4>1. Entries(Captures(p, path)) =
              Caught(p, d, path) \cup {<<p[d + 1].text, SubSeq(path, d + 1, Len(path))>>}
        BY <3>8, <3>10, CapturesAre
      <4> QED BY <3>11, <3>15, <4>1, Zenon
    <3>17. i # None
      <4>1. i \in Nat BY <3>8 DEF Numbered
      <4> QED BY <4>1, NoneAssumption
    <3> QED BY <3>6, <3>7, <3>16, <3>17, Zenon DEF Right
  <2>2. CASE v \notin DOMAIN t.rest
    <3>1. w = Miss(c) BY <1>16, <2>2, Zenon DEF RestAt, Lookup
    <3> QED BY <1>10, <3>1, Zenon DEF Right
  <2> QED BY <2>1, <2>2
<1>18. CASE q.route # None
  <2>1. m[<<v, c>>] = q
    <3>1. m[<<v, c>>] = MatchAt(t, path, m, v, c) BY DEF IsMatch
    <3>2. ~(Len(v) >= Len(path))
      <4>1. PICK n \in Nat : n = Len(path) BY PathIs
      <4>2. d < n BY <1>2, <4>1, Zenon
      <4>3. ~(d >= n) BY <4>2
      <4> QED BY <1>2, <4>1, <4>3, Zenon
    <3> QED BY <1>3, <1>12, <1>18, <3>1, <3>2, Zenon DEF MatchAt
  <2> QED BY <1>13, <2>1, Zenon
<1>19. CASE q.route = None
  <2>1. q.params = c BY <1>13, <1>19, Zenon DEF Right
  <2>2. m[<<v, c>>] = IF r.route # None THEN r ELSE RestAt(t, path, v, r.params)
    <3>1. m[<<v, c>>] = MatchAt(t, path, m, v, c) BY DEF IsMatch
    <3>2. ~(Len(v) >= Len(path))
      <4>1. PICK n \in Nat : n = Len(path) BY PathIs
      <4>2. d < n BY <1>2, <4>1, Zenon
      <4>3. ~(d >= n) BY <4>2
      <4> QED BY <1>2, <4>1, <4>3, Zenon
    <3> QED BY <1>3, <1>12, <1>14, <1>19, <2>1, <3>1, <3>2, Zenon DEF MatchAt
  <2>3. CASE r.route # None BY <1>15, <2>2, <2>3, Zenon
  <2>4. CASE r.route = None
    <3>1. r.params = c BY <1>15, <2>4, Zenon DEF Right
    <3> QED BY <1>16, <1>17, <2>2, <2>4, <3>1, Zenon
  <2> QED BY <2>3, <2>4
<1> QED BY <1>18, <1>19

(* The search from the root captures what its route captures.              *)
LEMMA MatchCaptures ==
  ASSUME NEW P, Numbered(P), NamesAgree(P), NamesApart(P), NEW t, Represents(t, P, DOMAIN P),
         NEW path, IsPath(path), path # <<>>,
         NEW m \in [t.nodes \X Bindings -> Results], IsMatch(t, path, m)
  PROVE  Capturing(P, path, m, <<>>)
<1>1. PICK n \in Nat : n = Len(path) BY PathIs
<1>2. \A v \in t.nodes : Len(v) \in Nat BY TrieTypes, NodeIs
<1> DEFINE T == {k \in Nat : \A v \in t.nodes :
                               Agrees(v, path) /\ Len(v) + k = n => Capturing(P, path, m, v)}
<1>3. 0 \in T
  <2> SUFFICES ASSUME NEW v \in t.nodes, Agrees(v, path), Len(v) + 0 = n PROVE Capturing(P, path, m, v)
    OBVIOUS
  <2>1. Len(v) = Len(path) BY <1>1, <1>2
  <2> QED BY <2>1, CapturingAtEnd
<1>4. ASSUME NEW k \in T PROVE k + 1 \in T
  <2> SUFFICES ASSUME NEW v \in t.nodes, Agrees(v, path), Len(v) + (k + 1) = n
               PROVE  Capturing(P, path, m, v)
    OBVIOUS
  <2>1. Len(v) < Len(path) BY <1>1, <1>2
  <2>2. ASSUME NEW u \in t.nodes, Agrees(u, path), Len(u) = Len(v) + 1 PROVE Capturing(P, path, m, u)
    <3>1. Len(u) + k = n BY <1>2, <2>2
    <3> QED BY <2>2, <3>1
  <2> HIDE DEF T
  <2> QED BY <2>1, <2>2, CapturingInside
<1>5. T = Nat
  <2>1. T \subseteq Nat OBVIOUS
  <2> HIDE DEF T
  <2> QED BY <1>3, <1>4, <2>1, InductionNat
<1>6. n \in T BY <1>5
<1>7. <<>> \in t.nodes /\ Len(<<>>) = 0 BY TrieTypes
<1>8. Agrees(<<>>, path)
  <2>1. 0 <= Len(path) /\ \A j \in 1 .. 0 : FALSE BY <1>1
  <2> QED BY <1>7, <2>1 DEF Agrees
<1> QED BY <1>6, <1>7, <1>8

(* Path parameters are those of the route that was found, each under its   *)
(* own name, and nothing is left of the branches that were tried in vain,  *)
(* when routes agree on the names of segments they share and none uses a   *)
(* name twice.                                                             *)
THEOREM MatchPathCaptures ==
  ASSUME NEW P, Numbered(P), NamesAgree(P), NamesApart(P),
         NEW last \in Nat, DOMAIN P \subseteq 1 .. last, NEW path, IsPath(path),
         NEW hit, hit = MatchPath(Trie(P, last), path)
  PROVE  hit.params = IF hit.route = None THEN {} ELSE Entries(Captures(P[hit.route], path))
<1>1. PICK t : t = Trie(P, last) OBVIOUS
<1>2. Represents(t, P, DOMAIN P) BY <1>1, TrieRepresents
<1>3. \A i \in DOMAIN P : Compiled(P[i]) /\ Apart(P[i]) /\ i \in Nat
  BY Zenon DEF Numbered, NamesApart, Apart
<1>4. CASE path # <<>>
  <2>1. PICK m : Computes(t, path, m) BY <1>2, MatchSegmentsIs, Zenon
  <2>2. /\ m \in [t.nodes \X Bindings -> Results] /\ IsMatch(t, path, m)
        /\ MatchSegments(t, path) = m[<< <<>>, {} >>]
    BY <2>1, Zenon DEF Computes
  <2>3. Capturing(P, path, m, <<>>) BY <1>2, <1>4, <2>2, MatchCaptures
  <2>4. {} \in Bindings BY DEF Bindings
  <2>5. Holds(P, path, <<>>, {})
    <3>1. Len(<<>>) = 0 OBVIOUS
    <3> QED BY <3>1, CaughtNone, Zenon DEF Holds
  <2>6. Right(P, path, {}, MatchSegments(t, path)) BY <2>2, <2>3, <2>4, <2>5, Zenon DEF Capturing
  <2>7. hit = MatchSegments(t, path) BY <1>1, <1>4, Zenon DEF MatchPath
  <2> QED BY <2>6, <2>7, Zenon DEF Right
<1>5. CASE path = <<>>
  <2>1. PICK root : root = Lookup(t.route, <<Static("")>>) OBVIOUS
  <2>2. PICK star : star = Lookup(t.rest, <<>>) OBVIOUS
  <2>3. hit = IF root # None \/ star = None THEN [route |-> root, params |-> {}]
              ELSE [route |-> star.route, params |-> {<<star.name, <<>>>>}]
    BY <1>1, <1>5, <2>1, <2>2, Zenon DEF MatchPath
  <2>4. \A r, p : [route |-> r, params |-> p].route = r /\ [route |-> r, params |-> p].params = p
    OBVIOUS
  <2>5. CASE root # None
    <3>1. PICK w : w = <<Static("")>> OBVIOUS
    <3>2. w \in DOMAIN t.route /\ root = t.route[w] BY <2>1, <2>5, <3>1, Zenon DEF Lookup
    <3>3. root \in Ending(P, DOMAIN P, w) BY <1>2, <3>2 DEF Represents, HasRoutes, IsLast
    <3>4. PICK p : p = P[root] OBVIOUS
    <3>5. Compiled(p) /\ Apart(p) /\ ~IsOpen(p) /\ End(p) = w BY <1>3, <3>3, <3>4 DEF Ending
    <3>6. p = <<>> BY <3>1, <3>5, RootOrStar, Zenon
    <3>7. Len(p) = 0 BY <3>6
    <3>8. Entries(Captures(p, path)) = Caught(p, Len(p), path) BY <3>5, CapturesAre
    <3>9. Entries(Captures(p, path)) = {} BY <3>7, <3>8, CaughtNone, Zenon
    <3>10. hit = [route |-> root, params |-> {}] BY <2>3, <2>5
    <3>11. hit.route = root /\ hit.params = {} BY <3>10
    <3> QED BY <2>5, <3>4, <3>9, <3>11, Zenon
  <2>6. CASE root = None /\ star = None BY <2>3, <2>4, <2>6, Zenon
  <2>7. CASE root = None /\ star # None
    <3>1. <<>> \in DOMAIN t.rest /\ star = t.rest[<<>>] BY <2>2, <2>7, Zenon DEF Lookup
    <3>2. PICK i : /\ i \in Opening(P, DOMAIN P, <<>>)
                   /\ t.rest[<<>>] = [name |-> P[i][Len(P[i])].text, route |-> i]
      BY <1>2, <3>1 DEF Represents, HasRest, IsLast
    <3>3. PICK p : p = P[i] OBVIOUS
    <3>4. IsOpen(p) /\ End(p) = <<>> /\ i \in DOMAIN P BY <3>2, <3>3 DEF Opening
    <3>5. Compiled(p) /\ Apart(p) /\ i \in Nat BY <1>3, <3>3, <3>4, Zenon
    <3>6. Len(p) = 1 BY <3>4, <3>5, RootOrStar, Zenon
    <3>7. star.route = i /\ star.name = p[1].text BY <3>1, <3>2, <3>3, <3>6
    <3>8. Entries(Captures(p, path)) = {<<star.name, <<>>>>}
      <4>1. Len(p) = 0 + 1 /\ 0 \in Nat /\ 0 + 1 = 1 BY <3>6
      <4>2. Entries(Captures(p, path)) =
              Caught(p, 0, path) \cup {<<p[0 + 1].text, SubSeq(path, 0 + 1, Len(path))>>}
        BY <3>4, <3>5, <4>1, CapturesAre
      <4>3. SubSeq(path, 1, Len(path)) = <<>>
        <5>1. SubSeq(<<>>, 1, Len(<<>>)) = <<>> OBVIOUS
        <5> QED BY <1>5, <5>1, Zenon
      <4> QED BY <3>7, <4>1, <4>2, <4>3, CaughtNone, Zenon
    <3>9. i # None BY <3>5, NoneAssumption
    <3>10. PICK e : e = {<<star.name, <<>>>>} OBVIOUS
    <3>11. hit = [route |-> star.route, params |-> e] BY <2>3, <2>7, <3>10, Zenon
    <3>12. hit.route = i /\ hit.params = e BY <3>7, <3>11
    <3> QED BY <3>3, <3>8, <3>9, <3>10, <3>12, Zenon
  <2> QED BY <2>5, <2>6, <2>7
<1> QED BY <1>4, <1>5

-----------------------------------------------------------------------------
(* Catch-alls give way.                                                    *)
IsOnly(t, path, only) == only = [node \in t.nodes |-> OnlyAt(t, path, only, node)]

(* is_catch_all_only looks at deeper nodes alone.                          *)
LEMMA OnlyAtStep ==
  ASSUME NEW t, NEW path, NEW f, NEW g, NEW v \in t.nodes, v \in Seq(Labels),
         path \in Seq(STRING), \A u \in t.nodes : f[u] \in BOOLEAN,
         \A u \in t.nodes : Len(v) < Len(path) /\ Len(u) = Len(v) + 1 => f[u] = g[u]
  PROVE  OnlyAt(t, path, f, v) \in BOOLEAN /\ OnlyAt(t, path, f, v) = OnlyAt(t, path, g, v)
<1>1. PICK d \in Nat : d = Len(v) OBVIOUS
<1>2. PICK n \in Nat : n = Len(path) OBVIOUS
<1>3. CASE d >= n
  <2>1. Len(v) >= Len(path) BY <1>1, <1>2, <1>3, Zenon
  <2> QED BY <2>1, Zenon DEF OnlyAt
<1>4. CASE d < n
  <2>1. ~(Len(v) >= Len(path)) /\ Len(v) < Len(path)
    <3>1. ~(d >= n) /\ d < n BY <1>4
    <3> QED BY <1>1, <1>2, <3>1, Zenon
  <2>2. PICK s : s = path[Len(v) + 1] OBVIOUS
  <2>3. s \in STRING
    <3>1. d + 1 \in 1 .. n BY <1>4
    <3> QED BY <1>1, <1>2, <2>2, <3>1
  <2>4. PICK x : x = Static(s) OBVIOUS
  <2>5. PICK b : b = Param("") OBVIOUS
  <2>6. x \in Labels /\ b \in Labels
    <3>1. Static(s) \in Labels BY <2>3 DEF Static, Labels, Texts
    <3>2. Param("") \in Labels BY DEF Param, Labels, Texts
    <3> QED BY <2>4, <2>5, <3>1, <3>2
  <2>7. Len(Append(v, x)) = d + 1 /\ Len(Append(v, b)) = d + 1 BY <1>1, <2>6, AppendProperties
  <2>8. PICK u : u = Append(v, x) OBVIOUS
  <2>9. PICK w : w = Append(v, b) OBVIOUS
  <2>10. u \in t.nodes => f[u] = g[u] BY <1>1, <2>1, <2>7, <2>8, Zenon
  <2>11. w \in t.nodes => f[w] = g[w] BY <1>1, <2>1, <2>7, <2>9, Zenon
  <2>12. OnlyAt(t, path, f, v) = (/\ u \in t.nodes => f[u]
                                  /\ w \in t.nodes => f[w]
                                  /\ Lookup(t.rest, v) # None)
    BY <2>1, <2>2, <2>4, <2>5, <2>8, <2>9, Zenon DEF OnlyAt
  <2>13. OnlyAt(t, path, g, v) = (/\ u \in t.nodes => g[u]
                                  /\ w \in t.nodes => g[w]
                                  /\ Lookup(t.rest, v) # None)
    BY <2>1, <2>2, <2>4, <2>5, <2>8, <2>9, Zenon DEF OnlyAt
  <2> QED BY <2>10, <2>11, <2>12, <2>13, Zenon
<1> QED BY <1>1, <1>2, <1>3, <1>4

(* is_catch_all_only computes a function of nodes.                         *)
LEMMA OnlyExists ==
  ASSUME NEW P, Numbered(P), NEW t, Represents(t, P, DOMAIN P), NEW path, IsPath(path)
  PROVE  \E only : IsOnly(t, path, only)
<1> DEFINE D == t.nodes
           measure == [v \in D |-> IF Len(v) < Len(path) THEN Len(path) - Len(v) ELSE 0]
           step == [f \in [D -> BOOLEAN] |-> [v \in D |-> OnlyAt(t, path, f, v)]]
<1>1. \A v \in t.nodes : v \in Seq(Labels) /\ Len(v) \in Nat BY TrieTypes, NodeIs
<1>2. path \in Seq(STRING) /\ Len(path) \in Nat BY PathIs
<1>3. measure \in [D -> Nat]
  <2> SUFFICES ASSUME NEW v \in t.nodes
               PROVE  (IF Len(v) < Len(path) THEN Len(path) - Len(v) ELSE 0) \in Nat
    OBVIOUS
  <2> QED BY <1>1, <1>2
<1>4. ASSUME NEW f \in [D -> BOOLEAN], NEW g \in [D -> BOOLEAN], NEW v \in D,
             \A u \in D : measure[u] < measure[v] => f[u] = g[u]
      PROVE  step[f][v] \in BOOLEAN /\ step[f][v] = step[g][v]
  <2>1. \A u \in t.nodes : Len(v) < Len(path) /\ Len(u) = Len(v) + 1 => f[u] = g[u]
    <3> SUFFICES ASSUME NEW u \in t.nodes, Len(v) < Len(path), Len(u) = Len(v) + 1
                 PROVE  f[u] = g[u]
      OBVIOUS
    <3>1. measure[u] = (IF Len(u) < Len(path) THEN Len(path) - Len(u) ELSE 0)
          /\ measure[v] = (IF Len(v) < Len(path) THEN Len(path) - Len(v) ELSE 0)
      OBVIOUS
    <3> HIDE DEF measure
    <3>2. measure[u] < measure[v] BY <1>1, <1>2, <3>1
    <3> QED BY <1>4, <3>2
  <2>2. \A u \in t.nodes : f[u] \in BOOLEAN OBVIOUS
  <2>3. step[f][v] = OnlyAt(t, path, f, v) /\ step[g][v] = OnlyAt(t, path, g, v) OBVIOUS
  <2> HIDE DEF measure, step
  <2>4. OnlyAt(t, path, f, v) \in BOOLEAN /\ OnlyAt(t, path, f, v) = OnlyAt(t, path, g, v)
    BY <1>1, <1>2, <2>1, <2>2, OnlyAtStep
  <2> QED BY <2>3, <2>4, Zenon
<1>5. step \in [[D -> BOOLEAN] -> [D -> BOOLEAN]]
  <2> SUFFICES ASSUME NEW f \in [D -> BOOLEAN], NEW v \in D PROVE step[f][v] \in BOOLEAN
    OBVIOUS
  <2> HIDE DEF D, measure, step
  <2> QED BY <1>4
<1>6. \A f \in [D -> BOOLEAN] : step[f] = [v \in D |-> OnlyAt(t, path, f, v)] OBVIOUS
<1> HIDE DEF measure, step
<1>7. Recursive(D, BOOLEAN, measure, step)
  <2> HIDE DEF D
  <2> QED BY <1>3, <1>4, <1>5 DEF Recursive
<1>8. PICK f \in [D -> BOOLEAN] : \A v \in D : f[v] = step[f][v]
  <2> HIDE DEF D
  <2> QED BY <1>7, Recursion
<1>9. f = [v \in D |-> OnlyAt(t, path, f, v)]
  <2>1. step[f] \in [D -> BOOLEAN] BY <1>5
  <2>2. f = step[f] BY <1>8, <2>1
  <2> QED BY <1>6, <2>2
<1> QED BY <1>9 DEF IsOnly

(* The path has a first segment, and the pattern begins with it or with a  *)
(* parameter.                                                              *)
Starts(path) == path # <<>> /\ path[1] # ""
Claims(p, path) == p # <<>> /\ (p[1].kind = "param" \/ p[1] = Static(path[1]))

(* A path that no fixed segment and no parameter claims is left to the     *)
(* built-in paths before a catch-all takes it: is_catch_all_only.          *)
THEOREM CatchAllsGiveWay ==
  ASSUME NEW P, Numbered(P), NEW last \in Nat, DOMAIN P \subseteq 1 .. last,
         NEW path, IsPath(path), Starts(path),
         \A i \in DOMAIN P : ~Claims(P[i], path), \E i \in DOMAIN P : Matches(P[i], path)
  PROVE  CatchAllOnly(Trie(P, last), path)
<1>0. path # <<>> BY Zenon DEF Starts
<1>1. PICK t : t = Trie(P, last) OBVIOUS
<1>2. Represents(t, P, DOMAIN P) BY <1>1, TrieRepresents
<1>3. \A i \in DOMAIN P : Compiled(P[i]) /\ i \in Nat BY DEF Numbered
<1> DEFINE only == CHOOSE only : IsOnly(t, path, only)
<1>4. IsOnly(t, path, only) BY <1>2, OnlyExists
<1>5. CatchAllOnly(t, path) = only[<<>>]
  <2>1. CatchAllOnly(t, path) = OnlySegments(t, path) BY <1>0, Zenon DEF CatchAllOnly
  <2> QED BY <2>1 DEF OnlySegments, IsOnly
<1> HIDE DEF only
<1>6. only[<<>>] = OnlyAt(t, path, only, <<>>) BY <1>2, <1>4, TrieTypes DEF IsOnly
<1>7. PICK x : x = Static(path[1]) OBVIOUS
<1>8. PICK b : b = Param("") OBVIOUS
<1>9. x \in Labels /\ b \in Labels /\ x.kind = "static" /\ b.kind = "param"
  <2>1. path[1] \in STRING
    <3>1. Len(path) \in Nat /\ Len(path) >= 1 BY <1>0, PathIs
    <3>2. 1 \in 1 .. Len(path) BY <3>1
    <3> QED BY <3>2, PathIs
  <2>2. Static(path[1]) \in Labels BY <2>1 DEF Static, Labels, Texts
  <2>3. Param("") \in Labels BY DEF Param, Labels, Texts
  <2> QED BY <1>7, <1>8, <2>2, <2>3, EdgesDiffer, Zenon
<1>10. \A e \in {x, b} : Append(<<>>, e) \notin t.nodes
  <2> SUFFICES ASSUME NEW e \in {x, b}, Append(<<>>, e) \in t.nodes PROVE FALSE OBVIOUS
  <2>1. PICK u : u = Append(<<>>, e) OBVIOUS
  <2>2. u \in Nodes /\ Len(u) = 1 /\ u[1] = e
    <3>1. e \in Labels BY <1>9
    <3>2. Len(Append(<<>>, e)) = 1 /\ Append(<<>>, e)[1] = e BY <3>1
    <3> QED BY <1>2, <2>1, <3>2, TrieTypes
  <2>3. u # <<>>
    <3>1. 1 = 0 + 1 /\ 0 \in Nat OBVIOUS
    <3> QED BY <2>2, <3>1, NotEmpty, Zenon
  <2>4. PICK i \in DOMAIN P : u \in Passed(P[i]) BY <1>2, <2>1, <2>3 DEF Represents, HasNodes
  <2>5. PICK p : p = P[i] OBVIOUS
  <2>6. Compiled(p) /\ ~Claims(p, path) BY <1>3, <2>5
  <2>7. CASE p = <<>>
    <3>1. u = <<Static("")>> BY <2>2, <2>3, <2>4, <2>5, <2>6, <2>7, PassedIsUnder
    <3>2. e = Static("") BY <2>2, <3>1, RootNode, Zenon
    <3>3. e = x \/ e = b OBVIOUS
    <3>4. Static(path[1]) # Static("") BY EdgesDiffer, Zenon DEF Starts
    <3> QED BY <1>7, <1>8, <3>2, <3>3, <3>4, EdgesDiffer, Zenon
  <2>8. CASE p # <<>>
    <3>1. Under(p, u) BY <2>2, <2>3, <2>4, <2>5, <2>6, <2>8, PassedIsUnder
    <3>2. 1 \in 1 .. Len(p)
      <4>1. Len(p) \in Nat /\ Len(p) >= 1 BY <2>6, <2>8, CompiledIs
      <4> QED BY <4>1
    <3>3. Edge(p[1]) = e
      <4>1. 1 \in 1 .. Len(u) BY <2>2
      <4> QED BY <2>2, <3>1, <4>1, Zenon DEF Under
    <3>4. p[1] \in Segments BY <2>6, <3>2, CompiledIs
    <3>5. p[1].kind # "param" => p[1] = e BY <3>3, <3>4, Edges
    <3>6. e = x \/ e = b OBVIOUS
    <3>7. e = b => p[1].kind = "param"
      <4>1. Edge(p[1]).kind = p[1].kind BY <3>4, Edges
      <4> QED BY <1>9, <3>3, <4>1, Zenon
    <3> QED BY <1>7, <2>6, <2>8, <3>5, <3>6, <3>7, Zenon DEF Claims
  <2> QED BY <2>7, <2>8
<1>11. <<>> \in DOMAIN t.rest
  <2>1. PICK i \in DOMAIN P : Matches(P[i], path) OBVIOUS
  <2>2. PICK p : p = P[i] OBVIOUS
  <2>3. Compiled(p) /\ ~Claims(p, path) BY <1>3, <2>2
  <2>4. /\ p # <<>> /\ (IF IsOpen(p) THEN Len(path) >= Len(p) ELSE Len(path) = Len(p))
        /\ \A j \in 1 .. Len(p) : p[j].kind = "static" => path[j] = p[j].text
    BY <1>0, <2>1, <2>2, <2>3, MatchesIs
  <2>5. Len(p) \in Nat /\ 1 \in 1 .. Len(p) /\ p[1] \in Segments
    <3>1. Len(p) \in Nat /\ Len(p) >= 1 BY <2>3, <2>4, CompiledIs
    <3>2. 1 \in 1 .. Len(p) BY <3>1
    <3> QED BY <2>3, <3>1, <3>2, CompiledIs
  <2>6. p[1].kind # "static"
    <3> SUFFICES ASSUME p[1].kind = "static" PROVE FALSE OBVIOUS
    <3>1. path[1] = p[1].text BY <2>4, <2>5
    <3>2. p[1] = Static(p[1].text) BY <2>5 DEF Segments, Static
    <3> QED BY <2>3, <2>4, <3>1, <3>2, Zenon DEF Claims
  <2>7. p[1].kind # "param" BY <2>3, <2>4, Zenon DEF Claims
  <2>8. p[1].kind = "rest" BY <2>5, <2>6, <2>7 DEF Segments
  <2>9. Len(p) = 1 BY <2>3, <2>5, <2>8, CompiledIs
  <2>10. IsOpen(p) BY <2>4, <2>8, <2>9 DEF IsOpen
  <2>11. End(p) = <<>>
    <3>1. Len(End(p)) = 0
      <4>1. p # <<>> BY <2>4
      <4>2. Len(End(p)) = Len(p) - 1 BY <2>3, <2>10, <4>1, Ends
      <4> QED BY <2>9, <4>2
    <3>2. End(p) \in Seq(Labels) BY <2>3, Ends
    <3> QED BY <3>1, <3>2
  <2>12. i \in Opening(P, DOMAIN P, <<>>) BY <2>2, <2>10, <2>11, Zenon DEF Opening
  <2> QED BY <1>2, <2>12 DEF Represents, HasRest
<1>12. Lookup(t.rest, <<>>) # None
  <2>1. PICK star \in [name : STRING, route : Nat] : star = t.rest[<<>>] BY <1>2, <1>11, TrieTypes
  <2>2. star # None BY NoneAssumption
  <2> QED BY <1>11, <2>1, <2>2, Zenon DEF Lookup
<1>13. OnlyAt(t, path, only, <<>>)
  <2>1. Len(<<>>) + 1 = 1 /\ Len(<<>>) = 0 OBVIOUS
  <2>2. ~(0 >= Len(path))
    <3>1. Len(path) \in Nat /\ Len(path) >= 1 BY <1>0, PathIs
    <3> QED BY <3>1
  <2>3. Append(<<>>, x) \notin t.nodes /\ Append(<<>>, b) \notin t.nodes BY <1>10
  <2> QED BY <1>7, <1>8, <1>12, <2>1, <2>2, <2>3, Zenon DEF OnlyAt
<1> QED BY <1>1, <1>5, <1>6, <1>13, Zenon

-----------------------------------------------------------------------------
(***************************************************************************)
(* Proofs about HttpDispatch, for any services, requests and origins: its  *)
(* five safety properties.                                                 *)
(*                                                                         *)
(* Three things come together.  The application that service() builds is   *)
(* well-formed (IsBuilt): no name is that of two services, and what the    *)
(* table and the routes lead to are leaves of the services.  The tables of *)
(* run() are determined by it: the limiter knows the policy of a handler   *)
(* (PoliciesAre), the hooks of a binary handler and those of a route are   *)
(* the ones of its service (HandlerHooksAre, NamedHooksAre), and the tries *)
(* find what the first part says they find.  The inductive invariant Inv   *)
(* carries this along a request: what it was sent to is what its path asks *)
(* for (Aimed), and what ran is what it was sent to, checked against the   *)
(* policy of that handler (RanAsCalled).                                   *)
(***************************************************************************)

(* Sequences.                                                              *)
LEMMA SeqIs ==
  ASSUME NEW S, NEW s \in Seq(S)
  PROVE  /\ Len(s) \in Nat /\ DOMAIN s = 1 .. Len(s) /\ s \in [1 .. Len(s) -> S]
         /\ \A i \in 1 .. Len(s) : s[i] \in S
OBVIOUS

LEMMA OneToOne == 1 \in 1 .. 1
OBVIOUS

LEMMA UpToNext ==
  ASSUME NEW n \in Nat
  PROVE  \A k \in 1 .. n + 1 : k \in 1 .. n \/ k = n + 1
OBVIOUS

LEMMA EmptySeqIs ==
  ASSUME NEW S
  PROVE  <<>> \in Seq(S)
OBVIOUS

LEMMA IsSeq ==
  ASSUME NEW S, NEW n \in Nat, NEW s \in [1 .. n -> S]
  PROVE  s \in Seq(S) /\ Len(s) = n
OBVIOUS

LEMMA SingleIs ==
  ASSUME NEW S, NEW s \in Seq(S), Len(s) = 1
  PROVE  s = <<s[1]>>
OBVIOUS

LEMMA SubSeqIs ==
  ASSUME NEW S, NEW s \in Seq(S), NEW n \in 1 .. Len(s)
  PROVE  /\ SubSeq(s, 1, n) \in Seq(S) /\ Len(SubSeq(s, 1, n)) = n
         /\ \A i \in 1 .. n : SubSeq(s, 1, n)[i] = s[i]
OBVIOUS

LEMMA ConcatIs ==
  ASSUME NEW S, NEW s \in Seq(S), NEW t \in Seq(S)
  PROVE  /\ s \o t \in Seq(S) /\ Len(s \o t) = Len(s) + Len(t)
         /\ \A i \in 1 .. Len(s) : (s \o t)[i] = s[i]
         /\ \A i \in 1 .. Len(t) : (s \o t)[Len(s) + i] = t[i]
OBVIOUS

LEMMA RangeIs ==
  ASSUME NEW S, NEW s \in Seq(S)
  PROVE  /\ Range(s) \subseteq S
         /\ \A i \in 1 .. Len(s) : s[i] \in Range(s)
         /\ \A x \in Range(s) : \E i \in 1 .. Len(s) : x = s[i]
BY DEF Range

LEMMA RangeConcat ==
  ASSUME NEW S, NEW s \in Seq(S), NEW t \in Seq(S)
  PROVE  Range(s \o t) = Range(s) \cup Range(t)
<1>1. s \o t \in Seq(S) /\ Len(s) \in Nat /\ Len(t) \in Nat /\ Len(s \o t) = Len(s) + Len(t) BY ConcatIs
<1>2. ASSUME NEW x \in Range(s \o t) PROVE x \in Range(s) \cup Range(t)
  <2>1. PICK i \in 1 .. Len(s \o t) : x = (s \o t)[i] BY <1>1, RangeIs
  <2>2. CASE i <= Len(s)
    <3>1. i \in 1 .. Len(s) BY <2>2
    <3> QED BY <2>1, <3>1, ConcatIs, RangeIs
  <2>3. CASE i > Len(s)
    <3>1. PICK j \in 1 .. Len(t) : i = Len(s) + j
      <4>1. i - Len(s) \in 1 .. Len(t) /\ i = Len(s) + (i - Len(s)) BY <1>1, <2>1, <2>3
      <4> QED BY <4>1
    <3>2. x = t[j] BY <2>1, <3>1, ConcatIs
    <3> QED BY <3>2, RangeIs
  <2> QED BY <1>1, <2>2, <2>3
<1>3. ASSUME NEW x \in Range(s) PROVE x \in Range(s \o t)
  <2>1. PICK i \in 1 .. Len(s) : x = s[i] BY RangeIs
  <2>2. i \in 1 .. Len(s \o t) /\ x = (s \o t)[i] BY <1>1, <2>1, ConcatIs
  <2> QED BY <1>1, <2>2, RangeIs
<1>4. ASSUME NEW x \in Range(t) PROVE x \in Range(s \o t)
  <2>1. PICK i \in 1 .. Len(t) : x = t[i] BY RangeIs
  <2>2. Len(s) + i \in 1 .. Len(s \o t) /\ x = (s \o t)[Len(s) + i] BY <1>1, <2>1, ConcatIs
  <2> QED BY <1>1, <2>2, RangeIs
<1> QED BY <1>2, <1>3, <1>4

LEMMA RangeAppend ==
  ASSUME NEW S, NEW s \in Seq(S), NEW e \in S
  PROVE  Append(s, e) \in Seq(S) /\ Range(Append(s, e)) = Range(s) \cup {e}
<1>1. Append(s, e) = s \o <<e>> /\ <<e>> \in Seq(S) OBVIOUS
<1>2. Range(<<e>>) = {e} BY DEF Range
<1>3. Range(s \o <<e>>) = Range(s) \cup Range(<<e>>) BY <1>1, RangeConcat, SMTT(60)
<1>4. Append(s, e) \in Seq(S) OBVIOUS
<1> QED BY <1>1, <1>2, <1>3, <1>4, Zenon

(* The greatest of a finite set of numbers.                                *)
LEMMA MaxIs ==
  ASSUME NEW n \in Nat, NEW S \in SUBSET (1 .. n), S # {}
  PROVE  Max(S) \in S /\ \A i \in S : i <= Max(S)
<1> DEFINE T == {n - i : i \in S}
<1>1. T \in SUBSET Nat /\ T # {}
  <2>1. \A i \in S : n - i \in Nat OBVIOUS
  <2>2. PICK i \in S : TRUE OBVIOUS
  <2>3. n - i \in T OBVIOUS
  <2> QED BY <2>1, <2>3
<1>2. PICK k \in T : \A j \in T : k <= j
  <2> HIDE DEF T
  <2> QED BY <1>1, LeastNat
<1>3. PICK m \in S : k = n - m OBVIOUS
<1>4. \A i \in S : m >= i
  <2> SUFFICES ASSUME NEW i \in S PROVE m >= i OBVIOUS
  <2>1. n - i \in T OBVIOUS
  <2> HIDE DEF T
  <2>2. k <= n - i BY <1>2, <2>1
  <2> QED BY <1>3, <2>2
<1> HIDE DEF T
<1>5. \E x \in S : \A y \in S : x >= y BY <1>4
<1> QED BY <1>5 DEF Max

(* Pick takes elements of the sequence, and no others.                     *)
LEMMA Positions ==
  ASSUME NEW n \in Nat, NEW S \in SUBSET (1 .. n)
  PROVE  /\ IsFiniteSet(S) /\ Cardinality(S) \in Nat
         /\ \A k \in 1 .. Cardinality(S) : \E i \in S : Cardinality({j \in S : j < i}) = k - 1
<1> DEFINE At(R, k) == \E i \in R : Cardinality({j \in R : j < i}) = k - 1
           T == {m \in Nat : \A R \in SUBSET (1 .. m), k \in Nat : 1 <= k /\ k <= Cardinality(R) => At(R, k)}
<1>1. \A m \in Nat : \A R \in SUBSET (1 .. m) : IsFiniteSet(R) /\ Cardinality(R) \in Nat
  <2> SUFFICES ASSUME NEW m \in Nat, NEW R \in SUBSET (1 .. m)
               PROVE  IsFiniteSet(R) /\ Cardinality(R) \in Nat
    OBVIOUS
  <2>1. IsFiniteSet(1 .. m) BY FS_Interval
  <2>2. IsFiniteSet(R) BY <2>1, FS_Subset
  <2> QED BY <2>2, FS_CardinalityType
<1>2. 0 \in T
  <2> SUFFICES ASSUME NEW R \in SUBSET (1 .. 0), NEW k \in Nat, 1 <= k, k <= Cardinality(R) PROVE FALSE
    OBVIOUS
  <2>1. R = {} OBVIOUS
  <2>2. Cardinality(R) = 0 BY <2>1, FS_EmptySet
  <2> QED BY <2>2
<1>3. ASSUME NEW m \in T PROVE m + 1 \in T
  <2> SUFFICES ASSUME NEW R \in SUBSET (1 .. m + 1), NEW k \in Nat, 1 <= k, k <= Cardinality(R)
               PROVE  At(R, k)
    OBVIOUS
  <2>1. CASE m + 1 \notin R
    <3>1. R \in SUBSET (1 .. m) BY <2>1
    <3> QED BY <3>1
  <2>2. CASE m + 1 \in R
    <3> DEFINE Q == R \ {m + 1}
    <3>1. Q \in SUBSET (1 .. m) OBVIOUS
    <3>2. Cardinality(Q) = Cardinality(R) - 1 /\ Cardinality(Q) \in Nat /\ Cardinality(R) \in Nat
      <4>1. IsFiniteSet(R) /\ Cardinality(R) \in Nat
        <5>1. m + 1 \in Nat OBVIOUS
        <5> QED BY <1>1, <5>1
      <4>2. Cardinality(Q) = Cardinality(R) - 1 BY <2>2, <4>1, FS_RemoveElement
      <4>3. Cardinality(Q) \in Nat BY <1>1, <3>1
      <4> QED BY <4>1, <4>2, <4>3
    <3>3. CASE k = Cardinality(R)
      <4>1. {j \in R : j < m + 1} = Q
        <5>1. m \in Nat /\ \A j \in R : j \in 1 .. m + 1 OBVIOUS
        <5> HIDE DEF T
        <5>2. \A j \in R : j < m + 1 <=> j # m + 1 BY <5>1
        <5> QED BY <5>2
      <4> HIDE DEF Q
      <4>2. Cardinality({j \in R : j < m + 1}) = k - 1 BY <3>2, <3>3, <4>1
      <4> QED BY <2>2, <4>2
    <3>4. CASE k # Cardinality(R)
      <4>1. k <= Cardinality(Q)
        <5> HIDE DEF Q
        <5> QED BY <3>2, <3>4
      <4>2. PICK i \in Q : Cardinality({j \in Q : j < i}) = k - 1
        <5> HIDE DEF Q
        <5> QED BY <3>1, <4>1
      <4>3. {j \in Q : j < i} = {j \in R : j < i} BY <3>1, <4>2
      <4>4. Cardinality({j \in R : j < i}) = k - 1 BY <4>2, <4>3
      <4> QED BY <4>2, <4>4
    <3> QED BY <3>3, <3>4
  <2> QED BY <2>1, <2>2
<1> HIDE DEF T
<1>4. T = Nat
  <2>1. T \subseteq Nat BY DEF T
  <2> QED BY <1>2, <1>3, <2>1, InductionNat
<1>5. \A k \in Nat : 1 <= k /\ k <= Cardinality(S) => At(S, k) BY <1>4 DEF T
<1>6. IsFiniteSet(S) /\ Cardinality(S) \in Nat BY <1>1
<1> HIDE DEF At
<1>7. \A k \in 1 .. Cardinality(S) : At(S, k) BY <1>5, <1>6
<1> QED BY <1>6, <1>7 DEF At

(* What Pick takes are elements of the sequence.                           *)
LEMMA PickIs ==
  ASSUME NEW A, NEW s \in Seq(A), NEW S \in SUBSET (1 .. Len(s))
  PROVE  /\ Pick(s, S) \in Seq(A) /\ Len(Pick(s, S)) \in Nat
         /\ \A k \in 1 .. Len(Pick(s, S)) : \E i \in S : Pick(s, S)[k] = s[i]
<1> DEFINE c == Cardinality(S)
           place(k) == CHOOSE i \in S : Cardinality({j \in S : j < i}) = k - 1
<1>0. Len(s) \in Nat OBVIOUS
<1>1. c \in Nat BY <1>0, Positions
<1>2. \A k \in 1 .. c : place(k) \in S
  <2> SUFFICES ASSUME NEW k \in 1 .. c PROVE place(k) \in S OBVIOUS
  <2>1. \E i \in S : Cardinality({j \in S : j < i}) = k - 1 BY <1>0, Positions
  <2> QED BY <2>1
<1>3. Pick(s, S) = [k \in 1 .. c |-> s[place(k)]] BY DEF Pick
<1> HIDE DEF c, place
<1>4. \A k \in 1 .. c : s[place(k)] \in A BY <1>2, SeqIs
<1>5. Pick(s, S) \in [1 .. c -> A] BY <1>3, <1>4
<1>6. Pick(s, S) \in Seq(A) /\ Len(Pick(s, S)) = c BY <1>1, <1>5
<1> QED BY <1>1, <1>2, <1>3, <1>6

-----------------------------------------------------------------------------
(* Patterns.                                                               *)
LEMMA ParseIsCompiled ==
  ASSUME NEW p \in Written
  PROVE  Compiled(Parse(p))
<1>1. p \in Seq(Segments) /\ p # <<Static("")>> BY Zenon DEF Written
<1>2. Len(p) \in Nat /\ DOMAIN p = 1 .. Len(p) BY <1>1, SeqIs, Zenon
<1>3. PICK stars : stars = {i \in DOMAIN p : p[i].kind = "rest"} OBVIOUS
<1>4. CASE stars = {}
  <2>1. Parse(p) = p BY <1>3, <1>4, Zenon DEF Parse
  <2>2. ~(Len(p) = 1 /\ p[1] = Static("")) BY <1>1, SingleIs, Zenon
  <2>3. \A i \in 1 .. Len(p) : p[i].kind # "rest" BY <1>2, <1>3, <1>4, Zenon
  <2> QED BY <1>1, <2>1, <2>2, <2>3, Zenon DEF Compiled
<1>5. CASE stars # {}
  <2>1. PICK i : i = CHOOSE k \in stars : \A j \in stars : k <= j OBVIOUS
  <2>2. i \in stars /\ \A j \in stars : i <= j
    <3>1. stars \in SUBSET Nat BY <1>2, <1>3
    <3> QED BY <1>5, <2>1, <3>1, LeastNat
  <2>3. i \in 1 .. Len(p) /\ p[i].kind = "rest" BY <1>2, <1>3, <2>2, Zenon
  <2>4. PICK q : q = SubSeq(p, 1, i) OBVIOUS
  <2>5. Parse(p) = q BY <1>3, <1>5, <2>1, <2>4, Zenon DEF Parse
  <2>6. q \in Seq(Segments) /\ Len(q) = i /\ \A j \in 1 .. i : q[j] = p[j]
    BY <1>1, <2>3, <2>4, SubSeqIs, Zenon
  <2>7. \A j \in 1 .. Len(q) : q[j].kind = "rest" => j = Len(q)
    <3> SUFFICES ASSUME NEW j \in 1 .. i, q[j].kind = "rest" PROVE j = i BY <2>6
    <3>1. j \in stars
      <4>1. j \in 1 .. Len(p) BY <1>2, <2>3
      <4>2. p[j].kind = "rest" BY <2>6
      <4> QED BY <1>2, <1>3, <4>1, <4>2
    <3>2. i <= j BY <2>2, <3>1
    <3> QED BY <1>2, <2>3, <3>2
  <2>8. ~(Len(q) = 1 /\ q[1] = Static(""))
    <3> SUFFICES ASSUME Len(q) = 1, q[1] = Static("") PROVE FALSE OBVIOUS
    <3>1. i = 1 /\ 1 \in 1 .. i
      <4>1. i = 1 BY <2>6, Zenon
      <4> QED BY <4>1, OneToOne, Zenon
    <3>2. Static("").kind = "static" BY DEF Static
    <3>3. p[1] = Static("") BY <2>6, <3>1, Zenon
    <3>4. "static" # "rest" OBVIOUS
    <3> QED BY <2>3, <3>1, <3>2, <3>3, <3>4, Zenon
  <2> QED BY <2>5, <2>6, <2>7, <2>8, Zenon DEF Compiled
<1> QED BY <1>4, <1>5

LEMMA StaticIs ==
  ASSUME NEW text \in STRING \ {""}
  PROVE  Static(text) \in Segments /\ Static(text).kind = "static" /\ Static(text) # Static("")
BY DEF Static, Segments

LEMMA GroupedIsCompiled ==
  ASSUME NEW groups \in Groups, NEW p, Compiled(p)
  PROVE  Compiled(Map(Static, groups) \o p)
<1>1. groups \in Seq(STRING \ {""}) BY DEF Groups
<1>2. PICK g : g = Map(Static, groups) OBVIOUS
<1>3. /\ g \in Seq(Segments) /\ Len(g) = Len(groups)
      /\ \A i \in 1 .. Len(g) : g[i].kind = "static" /\ g[i] # Static("")
  <2>1. g = [i \in DOMAIN groups |-> Static(groups[i])] BY <1>2 DEF Map
  <2>2. \A i \in 1 .. Len(groups) : groups[i] \in STRING \ {""} BY <1>1, SeqIs, Zenon
  <2>3. DOMAIN groups = 1 .. Len(groups) /\ Len(groups) \in Nat BY <1>1, SeqIs, Zenon
  <2>4. \A i \in 1 .. Len(groups) : /\ Static(groups[i]) \in Segments
                                     /\ Static(groups[i]).kind = "static"
                                     /\ Static(groups[i]) # Static("")
    BY <2>2, StaticIs, Zenon
  <2>5. g \in [1 .. Len(groups) -> Segments] BY <2>1, <2>3, <2>4, Zenon
  <2>6. g \in Seq(Segments) /\ Len(g) = Len(groups) BY <2>3, <2>5, IsSeq, Zenon
  <2>7. \A i \in 1 .. Len(groups) : g[i] = Static(groups[i]) BY <2>1, <2>3, Zenon
  <2> QED BY <2>4, <2>6, <2>7, Zenon
<1>4. /\ p \in Seq(Segments) /\ ~(Len(p) = 1 /\ p[1] = Static(""))
      /\ \A i \in 1 .. Len(p) : p[i].kind = "rest" => i = Len(p)
  BY Zenon DEF Compiled
<1>5. PICK q : q = g \o p OBVIOUS
<1>6. /\ q \in Seq(Segments) /\ Len(q) = Len(g) + Len(p)
      /\ \A i \in 1 .. Len(g) : q[i] = g[i]
      /\ \A i \in 1 .. Len(p) : q[Len(g) + i] = p[i]
  <2>1. g \in Seq(Segments) /\ p \in Seq(Segments) BY <1>3, <1>4, Zenon
  <2> QED BY <1>5, <2>1, ConcatIs
<1>7. PICK m \in Nat : m = Len(g) BY <1>3, SeqIs, Zenon
<1>8. PICK n \in Nat : n = Len(p) BY <1>4, SeqIs, Zenon
<1>9. ASSUME NEW i \in 1 .. Len(q), q[i].kind = "rest" PROVE i = Len(q)
  <2>1. CASE i <= m
    <3>1. i \in 1 .. m BY <2>1, <1>9
    <3>2. q[i].kind = "static" BY <1>3, <1>6, <1>7, <3>1, Zenon
    <3>3. "static" # "rest" OBVIOUS
    <3> QED BY <1>9, <3>2, <3>3, Zenon
  <2>2. CASE i > m
    <3>1. Len(q) = m + n BY <1>6, <1>7, <1>8, Zenon
    <3>2. PICK j \in 1 .. n : i = m + j
      <4>1. i - m \in 1 .. n /\ i = m + (i - m) BY <3>1, <2>2
      <4> QED BY <4>1
    <3>3. q[i] = p[j] BY <1>6, <1>7, <1>8, <3>2, Zenon
    <3>4. j = n BY <1>4, <1>8, <1>9, <3>3, Zenon
    <3> QED BY <3>1, <3>2, <3>4
  <2>3. i \in Nat BY <1>6
  <2> QED BY <2>1, <2>2, <2>3
<1>10. ASSUME Len(q) = 1, q[1] = Static("") PROVE FALSE
  <2>1. m + n = 1 BY <1>6, <1>7, <1>8, <1>10, Zenon
  <2>2. CASE m = 0
    <3>1. n = 1 /\ 1 \in 1 .. n /\ m + 1 = 1 BY <2>1, <2>2
    <3>2. q[m + 1] = p[1] BY <1>6, <1>7, <1>8, <3>1, Zenon
    <3>3. q[1] = p[1] BY <3>1, <3>2, Zenon
    <3> QED BY <1>4, <1>8, <1>10, <3>1, <3>3, Zenon
  <2>3. CASE m # 0
    <3>1. 1 \in 1 .. m BY <2>3
    <3> QED BY <1>3, <1>6, <1>7, <1>10, <3>1, Zenon
  <2> QED BY <2>2, <2>3
<1> QED BY <1>2, <1>5, <1>6, <1>9, <1>10, Zenon DEF Compiled

-----------------------------------------------------------------------------
(* What the application builder collects.                                  *)
Compileds == {p \in Seq(Segments) : Compiled(p)}
RouteRecords == [method : STRING, pattern : Compileds, service : STRING, of : Handlers]
SocketRecords == [pattern : Compileds, service : STRING, of : Sockets]
HandlerTables == UNION {[I -> Handlers] : I \in SUBSET (STRING \X STRING)}
Apps ==
  [services : Seq(ServiceRecords), table : HandlerTables, routes : Seq(RouteRecords),
   ws : Seq(SocketRecords), sse : Seq(SocketRecords)]

LEMMA CompiledsAre ==
  ASSUME NEW p
  PROVE  p \in Compileds <=> Compiled(p)
BY Zenon DEF Compileds, Compiled

LEMMA ServiceIs ==
  ASSUME NEW svc \in ServiceRecords
  PROVE  /\ svc.name \in STRING /\ svc.leaves \in Seq(Handlers) /\ svc.hooks \in Seq(STRING)
         /\ svc.ws \in Seq(Sockets) /\ svc.sse \in Seq(Sockets)
BY DEF ServiceRecords

LEMMA HandlerIs ==
  ASSUME NEW leaf \in Handlers
  PROVE  /\ leaf.fn \in STRING /\ leaf.groups \in Groups /\ leaf.method \in STRING
         /\ leaf.pattern \in Written /\ leaf.policy \in STRING \cup {None}
BY DEF Handlers

LEMMA BinaryIdsAre ==
  ASSUME NEW svc \in ServiceRecords
  PROVE  /\ BinaryIds(svc) \in SUBSET (STRING \X STRING)
         /\ \A id \in BinaryIds(svc) : id[1] = svc.name
         /\ \A id : id \in BinaryIds(svc) <=>
                      \E leaf \in Range(svc.leaves) : Binary(leaf) /\ id = StableId(svc.name, leaf)
<1>1. svc.leaves \in Seq(Handlers) /\ svc.name \in STRING BY ServiceIs
<1>2. Range(svc.leaves) \subseteq Handlers BY <1>1, RangeIs
<1>3. \A leaf \in Range(svc.leaves) : leaf.fn \in STRING BY <1>2, HandlerIs
<1>4. \A id : id \in BinaryIds(svc) <=>
                \E leaf \in Range(svc.leaves) : Binary(leaf) /\ id = StableId(svc.name, leaf)
  BY DEF BinaryIds
<1>5. ASSUME NEW id \in BinaryIds(svc) PROVE id \in STRING \X STRING /\ id[1] = svc.name
  <2>1. PICK leaf \in Range(svc.leaves) : id = StableId(svc.name, leaf) BY <1>4
  <2>2. id = <<svc.name, leaf.fn>> BY <2>1 DEF StableId
  <2> QED BY <1>1, <1>3, <2>2
<1> QED BY <1>4, <1>5

(* The table keeps what it had under other ids, and takes leaves of the    *)
(* service under those of the service.                                     *)
LEMMA TableIs ==
  ASSUME NEW svc \in ServiceRecords, NEW table \in HandlerTables
  PROVE  /\ BuildTable(table, svc) \in HandlerTables
         /\ DOMAIN BuildTable(table, svc) = BinaryIds(svc) \cup DOMAIN table
         /\ \A id \in BinaryIds(svc) : BuildTable(table, svc)[id] \in Range(svc.leaves)
         /\ \A id \in DOMAIN table \ BinaryIds(svc) : BuildTable(table, svc)[id] = table[id]
<1> DEFINE of(id) == {j \in DOMAIN svc.leaves :
                        Binary(svc.leaves[j]) /\ StableId(svc.name, svc.leaves[j]) = id}
           own == [id \in BinaryIds(svc) |-> svc.leaves[Max(of(id))]]
<1>1. BuildTable(table, svc) = Over(own, table) BY DEF BuildTable
<1>2. svc.leaves \in Seq(Handlers) BY ServiceIs
<1>3. Len(svc.leaves) \in Nat /\ DOMAIN svc.leaves = 1 .. Len(svc.leaves) BY <1>2, SeqIs
<1>4. ASSUME NEW id \in BinaryIds(svc) PROVE own[id] \in Range(svc.leaves)
  <2>1. PICK leaf \in Range(svc.leaves) : Binary(leaf) /\ id = StableId(svc.name, leaf) BY BinaryIdsAre
  <2>2. PICK j \in 1 .. Len(svc.leaves) : leaf = svc.leaves[j] BY <1>2, RangeIs
  <2>3. of(id) # {} BY <1>3, <2>1, <2>2
  <2>4. of(id) \in SUBSET (1 .. Len(svc.leaves)) BY <1>3
  <2>5. own[id] = svc.leaves[Max(of(id))] OBVIOUS
  <2> HIDE DEF of, own
  <2>6. Max(of(id)) \in 1 .. Len(svc.leaves) BY <1>3, <2>3, <2>4, MaxIs
  <2> QED BY <1>2, <2>5, <2>6, RangeIs
<1>5. DOMAIN own = BinaryIds(svc) OBVIOUS
<1> HIDE DEF of, own
<1>6. PICK I \in SUBSET (STRING \X STRING) : table \in [I -> Handlers] BY DEF HandlerTables
<1>7. /\ DOMAIN Over(own, table) = BinaryIds(svc) \cup I
      /\ \A id \in BinaryIds(svc) \cup I :
           Over(own, table)[id] = IF id \in BinaryIds(svc) THEN own[id] ELSE table[id]
  BY <1>5, <1>6 DEF Over
<1>8. Range(svc.leaves) \subseteq Handlers BY <1>2, RangeIs
<1>9. \A id \in BinaryIds(svc) \cup I : Over(own, table)[id] \in Handlers BY <1>4, <1>6, <1>7, <1>8
<1>10. Over(own, table) \in [BinaryIds(svc) \cup I -> Handlers]
  <2>1. Over(own, table) = [id \in BinaryIds(svc) \cup I |-> Over(own, table)[id]]
    BY <1>5, <1>6 DEF Over
  <2> QED BY <1>9, <2>1
<1>11. BinaryIds(svc) \cup I \in SUBSET (STRING \X STRING) BY BinaryIdsAre
<1>12. Over(own, table) \in HandlerTables BY <1>10, <1>11 DEF HandlerTables
<1> QED BY <1>1, <1>4, <1>6, <1>7, <1>12

LEMMA RouteIs ==
  ASSUME NEW service \in STRING, NEW leaf \in Handlers, NEW p, Compiled(p)
  PROVE  Route(service, leaf, p) \in RouteRecords /\ Route(service, leaf, p).of = leaf
<1>1. p \in Compileds BY CompiledsAre
<1>2. leaf.method \in STRING BY HandlerIs
<1> QED BY <1>1, <1>2 DEF Route, RouteRecords

(* Routes made of leaves of the service.                                   *)
RoutesOf(svc, s) == s \in Seq(RouteRecords) /\ \A r \in Range(s) : r.of \in Range(svc.leaves)

FromLeaves(svc, l, s) ==
  /\ DOMAIN s = DOMAIN l /\ s = [i \in DOMAIN s |-> s[i]]
  /\ \A i \in DOMAIN s : \E p : Compiled(p) /\ s[i] = Route(svc.name, l[i], p)

(* Routes made of leaves are routes of the service.                        *)
LEMMA RoutesFromLeaves ==
  ASSUME NEW svc \in ServiceRecords, NEW S \in SUBSET (1 .. Len(svc.leaves)), NEW s,
         FromLeaves(svc, Pick(svc.leaves, S), s)
  PROVE  RoutesOf(svc, s)
<1>1. svc.leaves \in Seq(Handlers) /\ svc.name \in STRING BY ServiceIs
<1>2. PICK l : l = Pick(svc.leaves, S) OBVIOUS
<1>0. FromLeaves(svc, l, s) BY <1>2
<1>3. l \in Seq(Handlers) /\ \A k \in 1 .. Len(l) : \E i \in S : l[k] = svc.leaves[i] BY <1>1, <1>2, PickIs
<1>4. DOMAIN s = 1 .. Len(l) /\ Len(l) \in Nat BY <1>0, <1>3, SeqIs DEF FromLeaves
<1>5. ASSUME NEW k \in 1 .. Len(l) PROVE s[k] \in RouteRecords /\ s[k].of \in Range(svc.leaves)
  <2>1. l[k] \in Handlers BY <1>3, SeqIs
  <2>2. PICK p : Compiled(p) /\ s[k] = Route(svc.name, l[k], p) BY <1>0, <1>4 DEF FromLeaves
  <2>3. s[k] \in RouteRecords /\ s[k].of = l[k]
    <3>1. PICK name \in STRING : name = svc.name BY <1>1
    <3>2. PICK leaf \in Handlers : leaf = l[k] BY <2>1
    <3>3. Route(name, leaf, p) \in RouteRecords /\ Route(name, leaf, p).of = leaf BY <2>2, RouteIs
    <3> QED BY <2>2, <3>1, <3>2, <3>3, Zenon
  <2>4. PICK i \in S : l[k] = svc.leaves[i] BY <1>3
  <2> QED BY <1>1, <2>3, <2>4, RangeIs
<1>6. s \in [1 .. Len(l) -> RouteRecords] BY <1>0, <1>4, <1>5 DEF FromLeaves
<1>7. s \in Seq(RouteRecords) /\ Len(s) = Len(l) BY <1>4, <1>6, IsSeq
<1>8. \A r \in Range(s) : \E k \in 1 .. Len(l) : r = s[k] BY <1>7, RangeIs
<1> QED BY <1>5, <1>7, <1>8 DEF RoutesOf

LEMMA OwnRoutesAre ==
  ASSUME NEW svc \in ServiceRecords
  PROVE  RoutesOf(svc, OwnRoutes(svc))
<1>1. svc.leaves \in Seq(Handlers) /\ svc.name \in STRING BY ServiceIs
<1> DEFINE S == {j \in DOMAIN svc.leaves : Ordinary(svc.leaves[j]) /\ TopLevel(svc.leaves[j])}
<1>2. S \in SUBSET (1 .. Len(svc.leaves)) BY <1>1, SeqIs
<1> DEFINE l == Pick(svc.leaves, S)
<1>3. OwnRoutes(svc) = [i \in DOMAIN l |-> Route(svc.name, l[i], Parse(l[i].pattern))]
  BY DEF OwnRoutes, Map
<1> HIDE DEF S
<1>4. l \in Seq(Handlers) BY <1>1, <1>2, PickIs
<1>5. \A i \in DOMAIN l : Compiled(Parse(l[i].pattern)) BY <1>4, SeqIs, HandlerIs, ParseIsCompiled
<1>6. DOMAIN OwnRoutes(svc) = DOMAIN l BY <1>3
<1>7. \A i \in DOMAIN l : OwnRoutes(svc)[i] = Route(svc.name, l[i], Parse(l[i].pattern)) BY <1>3
<1>8. OwnRoutes(svc) = [i \in DOMAIN OwnRoutes(svc) |-> OwnRoutes(svc)[i]] BY <1>3
<1>9. \A i \in DOMAIN OwnRoutes(svc) : \E p : Compiled(p) /\ OwnRoutes(svc)[i] = Route(svc.name, l[i], p)
  BY <1>5, <1>6, <1>7, Zenon
<1>10. FromLeaves(svc, l, OwnRoutes(svc)) BY <1>6, <1>8, <1>9, Zenon DEF FromLeaves
<1> QED BY <1>2, <1>10, RoutesFromLeaves

LEMMA FromTreeAre ==
  ASSUME NEW svc \in ServiceRecords
  PROVE  RoutesOf(svc, FromTree(svc))
<1>1. svc.leaves \in Seq(Handlers) /\ svc.name \in STRING BY ServiceIs
<1> DEFINE S == {j \in DOMAIN svc.leaves : Ordinary(svc.leaves[j])}
<1>2. S \in SUBSET (1 .. Len(svc.leaves)) BY <1>1, SeqIs
<1> DEFINE l == Pick(svc.leaves, S)
           full(leaf) == Map(Static, leaf.groups) \o Parse(leaf.pattern)
<1>3. FromTree(svc) = [i \in DOMAIN l |-> Route(svc.name, l[i], full(l[i]))] BY DEF FromTree, Map
<1>4. \A leaf \in Handlers : Compiled(full(leaf))
  BY HandlerIs, ParseIsCompiled, GroupedIsCompiled
<1> HIDE DEF S, full
<1>5. l \in Seq(Handlers) BY <1>1, <1>2, PickIs
<1>6. \A i \in DOMAIN l : Compiled(full(l[i])) BY <1>4, <1>5, SeqIs
<1>7. DOMAIN FromTree(svc) = DOMAIN l BY <1>3
<1>8. \A i \in DOMAIN l : FromTree(svc)[i] = Route(svc.name, l[i], full(l[i])) BY <1>3
<1>9. FromTree(svc) = [i \in DOMAIN FromTree(svc) |-> FromTree(svc)[i]] BY <1>3
<1>10. \A i \in DOMAIN FromTree(svc) : \E p : Compiled(p) /\ FromTree(svc)[i] = Route(svc.name, l[i], p)
  BY <1>6, <1>7, <1>8, Zenon
<1>11. FromLeaves(svc, l, FromTree(svc)) BY <1>7, <1>9, <1>10, Zenon DEF FromLeaves
<1> QED BY <1>2, <1>11, RoutesFromLeaves

LEMMA SocketRoutesAre ==
  ASSUME NEW svc \in ServiceRecords, NEW routes \in Seq(Sockets)
  PROVE  SocketRoutes(svc, routes) \in Seq(SocketRecords)
<1>1. SocketRoutes(svc, routes) =
        [i \in DOMAIN routes |-> [pattern |-> Parse(routes[i].pattern), service |-> svc.name,
                                  of |-> routes[i]]]
  BY DEF SocketRoutes, Map
<1>2. Len(routes) \in Nat /\ DOMAIN routes = 1 .. Len(routes) /\ \A i \in 1 .. Len(routes) : routes[i] \in Sockets
  BY SeqIs
<1>3. ASSUME NEW i \in DOMAIN routes
      PROVE  [pattern |-> Parse(routes[i].pattern), service |-> svc.name, of |-> routes[i]] \in SocketRecords
  <2>1. routes[i] \in Sockets BY <1>2
  <2>2. routes[i].pattern \in Written BY <2>1 DEF Sockets
  <2>3. Parse(routes[i].pattern) \in Compileds BY <2>2, ParseIsCompiled, CompiledsAre
  <2> QED BY <2>1, <2>3, ServiceIs DEF SocketRecords
<1>4. SocketRoutes(svc, routes) \in [1 .. Len(routes) -> SocketRecords] BY <1>1, <1>2, <1>3
<1> QED BY <1>2, <1>4, IsSeq

-----------------------------------------------------------------------------
(* An application as service() builds it: no name is used by two services, *)
(* and what the table and the routes lead to are leaves of its services.   *)
NamesDiffer(services) ==
  \A i, j \in DOMAIN services :
    services[i].name = services[j].name /\ services[i].name # "" => i = j

IsBuilt(a) ==
  /\ a \in Apps
  /\ NamesDiffer(a.services)
  /\ \A id \in DOMAIN a.table :
       \E svc \in Range(a.services) : id \in BinaryIds(svc) /\ a.table[id] \in Range(svc.leaves)
  /\ \A r \in Range(a.routes) : \E svc \in Range(a.services) : r.of \in Range(svc.leaves)

LEMMA AppIs ==
  ASSUME NEW a \in Apps
  PROVE  /\ a.services \in Seq(ServiceRecords) /\ a.table \in HandlerTables
         /\ a.routes \in Seq(RouteRecords) /\ a.ws \in Seq(SocketRecords) /\ a.sse \in Seq(SocketRecords)
BY DEF Apps

(* The application before the first service is well-formed.                *)
LEMMA EmptyIsBuilt == IsBuilt(EmptyApp)
<1>1. <<>> \in HandlerTables
  <2>1. <<>> \in [{} -> Handlers] OBVIOUS
  <2> QED BY <2>1 DEF HandlerTables
<1>2. \A S : <<>> \in Seq(S) OBVIOUS
<1>3. DOMAIN <<>> = {} /\ Range(<<>>) = {} BY DEF Range
<1>4. /\ EmptyApp.services = <<>> /\ EmptyApp.table = <<>> /\ EmptyApp.routes = <<>>
      /\ EmptyApp \in Apps
  BY <1>1, <1>2 DEF EmptyApp, Apps
<1> QED BY <1>3, <1>4, Zenon DEF IsBuilt, NamesDiffer

(* What collect_routes leaves alone and what it adds.                      *)
LEMMA CollectedAre ==
  ASSUME NEW a \in Apps, NEW svc \in ServiceRecords, NEW c, c = CollectRoutes(a, svc)
  PROVE  /\ c \in Apps /\ c.services = a.services
         /\ c.table = BuildTable(a.table, svc)
         /\ \A r \in Range(c.routes) : r \in Range(a.routes) \/ r.of \in Range(svc.leaves)
<1>1. PICK own : own = OwnRoutes(svc) OBVIOUS
<1>2. PICK tree : tree = FromTree(svc) OBVIOUS
<1>3. PICK ws : ws = SocketRoutes(svc, svc.ws) OBVIOUS
<1>4. PICK sse : sse = SocketRoutes(svc, svc.sse) OBVIOUS
<1>5. PICK table : table = BuildTable(a.table, svc) OBVIOUS
<1>6. c = [a EXCEPT !.table = table, !.routes = a.routes \o own \o tree,
                    !.ws = a.ws \o ws, !.sse = a.sse \o sse]
  BY <1>1, <1>2, <1>3, <1>4, <1>5 DEF CollectRoutes
<1>7. RoutesOf(svc, own) /\ RoutesOf(svc, tree) BY <1>1, <1>2, OwnRoutesAre, FromTreeAre
<1>8. ws \in Seq(SocketRecords) /\ sse \in Seq(SocketRecords) BY <1>3, <1>4, ServiceIs, SocketRoutesAre
<1>9. table \in HandlerTables BY <1>5, AppIs, TableIs
<1>10. own \in Seq(RouteRecords) /\ tree \in Seq(RouteRecords) /\ a.routes \in Seq(RouteRecords)
  BY <1>7, AppIs DEF RoutesOf
<1>11. PICK routes : routes = a.routes \o own \o tree OBVIOUS
<1>12. /\ routes \in Seq(RouteRecords)
       /\ Range(routes) = Range(a.routes) \cup Range(own) \cup Range(tree)
  <2>1. PICK r \in Seq(RouteRecords) : r = a.routes \o own BY <1>10, ConcatIs
  <2>2. Range(r) = Range(a.routes) \cup Range(own) BY <1>10, <2>1, RangeConcat
  <2>3. routes \in Seq(RouteRecords) /\ Range(routes) = Range(r) \cup Range(tree)
    <3>1. routes = r \o tree BY <1>11, <2>1
    <3>2. r \o tree \in Seq(RouteRecords) BY <1>10, <2>1, ConcatIs
    <3>3. Range(r \o tree) = Range(r) \cup Range(tree) BY <1>10, <2>1, RangeConcat, ZenonT(60)
    <3> QED BY <3>1, <3>2, <3>3
  <2> QED BY <2>2, <2>3
<1>13. PICK u : u = a.ws \o ws OBVIOUS
<1>14. PICK v : v = a.sse \o sse OBVIOUS
<1>15. u \in Seq(SocketRecords) /\ v \in Seq(SocketRecords) BY <1>8, <1>13, <1>14, AppIs, ConcatIs
<1>16. c = [a EXCEPT !.table = table, !.routes = routes, !.ws = u, !.sse = v]
  BY <1>6, <1>11, <1>13, <1>14, Zenon
<1>17. c \in Apps /\ c.services = a.services /\ c.table = table /\ c.routes = routes
  BY <1>9, <1>12, <1>15, <1>16 DEF Apps
<1>18. \A r \in Range(own) \cup Range(tree) : r.of \in Range(svc.leaves) BY <1>7 DEF RoutesOf
<1> QED BY <1>5, <1>12, <1>17, <1>18

(* The services with one more: each of them is there, with all its leaves. *)
Covers(grown, services, svc) ==
  /\ grown \in Seq(ServiceRecords) /\ NamesDiffer(grown)
  /\ \A s \in Range(services) \cup {svc} :
       \E t \in Range(grown) : t.name = s.name /\ Range(s.leaves) \subseteq Range(t.leaves)

IsNew(services, svc) ==
  \A i \in DOMAIN services : ~(svc.name # "" /\ services[i].name = svc.name)

(* A service is added at the end, or merged into the one of its name.      *)
LEMMA AppendCovers ==
  ASSUME NEW services \in Seq(ServiceRecords), NamesDiffer(services), NEW svc \in ServiceRecords,
         IsNew(services, svc)
  PROVE  Covers(Append(services, svc), services, svc)
<1>1. PICK grown : grown = Append(services, svc) OBVIOUS
<1>2. grown \in Seq(ServiceRecords) /\ Range(grown) = Range(services) \cup {svc} BY <1>1, RangeAppend
<1>3. PICK n \in Nat : n = Len(services) BY SeqIs
<1>4. /\ DOMAIN services = 1 .. n /\ DOMAIN grown = 1 .. n + 1
      /\ \A i \in 1 .. n : grown[i] = services[i]
      /\ grown[n + 1] = svc
  BY <1>1, <1>3
<1>5. \A i \in 1 .. n : ~(svc.name # "" /\ services[i].name = svc.name) BY <1>4, Zenon DEF IsNew
<1>6. \A i, j \in 1 .. n : services[i].name = services[j].name /\ services[i].name # "" => i = j
  BY <1>4, Zenon DEF NamesDiffer
<1>7. ASSUME NEW i \in 1 .. n + 1, NEW j \in 1 .. n + 1, grown[i].name = grown[j].name, grown[i].name # ""
      PROVE  i = j
  <2>1. \A k \in 1 .. n + 1 : k \in 1 .. n \/ k = n + 1 BY UpToNext
  <2>2. (i \in 1 .. n \/ i = n + 1) /\ (j \in 1 .. n \/ j = n + 1) BY <2>1, Zenon
  <2> QED BY <1>4, <1>5, <1>6, <1>7, <2>1, <2>2, Zenon
<1>8. NamesDiffer(grown) BY <1>4, <1>7, Zenon DEF NamesDiffer
<1> QED BY <1>1, <1>2, <1>8 DEF Covers

LEMMA MergeCovers ==
  ASSUME NEW services \in Seq(ServiceRecords), NamesDiffer(services), NEW svc \in ServiceRecords,
         NEW i \in DOMAIN services, services[i].name = svc.name
  PROVE  Covers([services EXCEPT ![i] = [services[i] EXCEPT !.leaves = @ \o svc.leaves,
                                            !.ws = @ \o svc.ws, !.sse = @ \o svc.sse]],
                services, svc)
<1>1. PICK old : old = services[i] OBVIOUS
<1>2. PICK merged : merged = [old EXCEPT !.leaves = old.leaves \o svc.leaves, !.ws = old.ws \o svc.ws,
                                         !.sse = old.sse \o svc.sse]
  OBVIOUS
<1>3. PICK grown : grown = [services EXCEPT ![i] = merged] OBVIOUS
<1>4. Len(services) \in Nat /\ DOMAIN services = 1 .. Len(services) /\ old \in ServiceRecords
  BY <1>1, SeqIs
<1>5. PICK leaves : leaves = old.leaves \o svc.leaves OBVIOUS
<1>6. leaves \in Seq(Handlers) /\ Range(leaves) = Range(old.leaves) \cup Range(svc.leaves)
  BY <1>4, <1>5, ServiceIs, ConcatIs, RangeConcat
<1>7. PICK u : u = old.ws \o svc.ws OBVIOUS
<1>8. PICK v : v = old.sse \o svc.sse OBVIOUS
<1>9. u \in Seq(Sockets) /\ v \in Seq(Sockets) BY <1>4, <1>7, <1>8, ServiceIs, ConcatIs
<1>10. merged = [old EXCEPT !.leaves = leaves, !.ws = u, !.sse = v] BY <1>2, <1>5, <1>7, <1>8, Zenon
<1>11. merged \in ServiceRecords /\ merged.name = old.name /\ merged.leaves = leaves
  BY <1>4, <1>6, <1>9, <1>10 DEF ServiceRecords
<1>12. /\ grown \in Seq(ServiceRecords) /\ DOMAIN grown = DOMAIN services
       /\ grown[i] = merged /\ \A j \in DOMAIN services : j # i => grown[j] = services[j]
  BY <1>3, <1>11
<1>13. \A j \in DOMAIN services : grown[j].name = services[j].name BY <1>1, <1>11, <1>12
<1>14. NamesDiffer(grown) BY <1>12, <1>13, Zenon DEF NamesDiffer
<1>15. \A j \in DOMAIN services : grown[j] \in Range(grown) BY <1>12 DEF Range
<1>16. ASSUME NEW s \in Range(services) \cup {svc}
       PROVE  \E t \in Range(grown) : t.name = s.name /\ Range(s.leaves) \subseteq Range(t.leaves)
  <2>1. CASE s = svc
    <3>1. merged \in Range(grown) BY <1>12, <1>15
    <3> QED BY <1>1, <1>6, <1>11, <2>1, <3>1
  <2>2. CASE s \in Range(services)
    <3>1. PICK j \in DOMAIN services : s = services[j] BY <2>2 DEF Range
    <3>2. CASE j = i BY <1>1, <1>6, <1>11, <1>12, <1>15, <3>1, <3>2
    <3>3. CASE j # i BY <1>12, <1>15, <3>1, <3>3
    <3> QED BY <3>2, <3>3
  <2> QED BY <2>1, <2>2
<1>17. Covers(grown, services, svc) BY <1>12, <1>14, <1>16 DEF Covers
<1> QED BY <1>1, <1>2, <1>3, <1>17

(* service() keeps the application well-formed.                            *)
LEMMA AddIsBuilt ==
  ASSUME NEW a, IsBuilt(a), NEW svc \in ServiceRecords
  PROVE  IsBuilt(AddService(a, svc))
<1>1. a \in Apps /\ NamesDiffer(a.services) BY DEF IsBuilt
<1>2. PICK c : c = CollectRoutes(a, svc) OBVIOUS
<1>3. /\ c \in Apps /\ c.services = a.services /\ c.table = BuildTable(a.table, svc)
      /\ \A r \in Range(c.routes) : r \in Range(a.routes) \/ r.of \in Range(svc.leaves)
  BY <1>1, <1>2, CollectedAre
<1>4. PICK b : b = AddService(a, svc) OBVIOUS
<1>5. \E grown : Covers(grown, a.services, svc) /\ b = [c EXCEPT !.services = grown]
  <2>1. PICK same : same = {i \in DOMAIN a.services : svc.name # "" /\ a.services[i].name = svc.name}
    OBVIOUS
  <2>2. a.services \in Seq(ServiceRecords) BY <1>1, AppIs
  <2>3. CASE same = {}
    <3>1. b = [c EXCEPT !.services = Append(@, svc)] BY <1>2, <1>4, <2>1, <2>3, Zenon DEF AddService
    <3>2. PICK grown : grown = Append(a.services, svc) OBVIOUS
    <3>3. b = [c EXCEPT !.services = grown] BY <1>3, <3>1, <3>2
    <3>4. IsNew(a.services, svc) BY <2>1, <2>3, Zenon DEF IsNew
    <3>5. Covers(grown, a.services, svc) BY <1>1, <2>2, <3>2, <3>4, AppendCovers
    <3> QED BY <3>3, <3>5
  <2>4. CASE same # {}
    <3>1. PICK i : i = CHOOSE k \in same : TRUE OBVIOUS
    <3>2. i \in same BY <2>4, <3>1
    <3>3. i \in DOMAIN a.services /\ a.services[i].name = svc.name BY <2>1, <3>2
    <3>0. PICK merged : merged = [a.services[i] EXCEPT !.leaves = @ \o svc.leaves,
                                     !.ws = @ \o svc.ws, !.sse = @ \o svc.sse]
      OBVIOUS
    <3>4. PICK grown : grown = [a.services EXCEPT ![i] = merged] OBVIOUS
    <3>5. Covers(grown, a.services, svc) BY <1>1, <2>2, <3>0, <3>3, <3>4, MergeCovers
    <3>6. b = [c EXCEPT !.services[i] = merged]
      BY <1>2, <1>4, <2>1, <2>4, <3>0, <3>1, Zenon DEF AddService
    <3>7. b = [c EXCEPT !.services = grown] BY <1>3, <3>4, <3>6
    <3> QED BY <3>5, <3>7
  <2> QED BY <2>3, <2>4
<1>6. PICK grown : Covers(grown, a.services, svc) /\ b = [c EXCEPT !.services = grown] BY <1>5
<1>7. /\ b \in Apps /\ b.services = grown /\ b.table = c.table /\ b.routes = c.routes
  <2>1. grown \in Seq(ServiceRecords) BY <1>6 DEF Covers
  <2> QED BY <1>3, <1>6, <2>1 DEF Apps
<1>8. \A s \in Range(a.services) \cup {svc} :
        \E t \in Range(b.services) : t.name = s.name /\ Range(s.leaves) \subseteq Range(t.leaves)
  BY <1>6, <1>7 DEF Covers
<1>9. \A s \in Range(a.services) \cup {svc} : s \in ServiceRecords BY <1>1, AppIs, RangeIs
<1>10. \A t \in Range(b.services) : t \in ServiceRecords BY <1>7, AppIs, RangeIs
<1>11. ASSUME NEW s \in Range(a.services) \cup {svc}, NEW leaf \in Range(s.leaves), NEW id \in BinaryIds(s)
       PROVE  \E t \in Range(b.services) : id \in BinaryIds(t) /\ leaf \in Range(t.leaves)
  <2>1. PICK t \in Range(b.services) : t.name = s.name /\ Range(s.leaves) \subseteq Range(t.leaves) BY <1>8
  <2>2. PICK own \in Range(s.leaves) : Binary(own) /\ id = StableId(s.name, own) BY <1>9, BinaryIdsAre
  <2>3. id \in BinaryIds(t) BY <1>10, <2>1, <2>2, BinaryIdsAre
  <2> QED BY <2>1, <2>3
<1>12. ASSUME NEW id \in DOMAIN b.table
       PROVE  \E t \in Range(b.services) : id \in BinaryIds(t) /\ b.table[id] \in Range(t.leaves)
  <2>1. /\ DOMAIN b.table = BinaryIds(svc) \cup DOMAIN a.table
        /\ \A k \in BinaryIds(svc) : b.table[k] \in Range(svc.leaves)
        /\ \A k \in DOMAIN a.table \ BinaryIds(svc) : b.table[k] = a.table[k]
    <3>1. PICK t \in HandlerTables : t = a.table BY <1>1, AppIs
    <3>2. b.table = BuildTable(t, svc) BY <1>3, <1>7, <3>1, Zenon
    <3> QED BY <3>1, <3>2, TableIs, ZenonT(60)
  <2>2. CASE id \in BinaryIds(svc) BY <1>11, <2>1, <2>2
  <2>3. CASE id \notin BinaryIds(svc)
    <3>1. id \in DOMAIN a.table /\ b.table[id] = a.table[id] BY <2>1, <2>3
    <3>2. PICK s \in Range(a.services) : id \in BinaryIds(s) /\ a.table[id] \in Range(s.leaves)
      BY <3>1 DEF IsBuilt
    <3> QED BY <1>11, <3>1, <3>2
  <2> QED BY <2>2, <2>3
<1>13. ASSUME NEW r \in Range(b.routes) PROVE \E t \in Range(b.services) : r.of \in Range(t.leaves)
  <2>1. \E s \in Range(a.services) \cup {svc} : r.of \in Range(s.leaves) BY <1>3, <1>7 DEF IsBuilt
  <2> QED BY <1>8, <2>1
<1>14. NamesDiffer(b.services) BY <1>6, <1>7 DEF Covers
<1> QED BY <1>4, <1>7, <1>12, <1>13, <1>14 DEF IsBuilt

-----------------------------------------------------------------------------
(* The policies the limiter knows.                                         *)
LEMMA PoliciesAre ==
  ASSUME NEW a, a.services \in Seq(ServiceRecords), NEW svc \in Range(a.services),
         NEW leaf \in Range(svc.leaves), Limited(leaf),
         \A s \in Range(a.services) : \A l \in Range(s.leaves) :
           l.fn = leaf.fn => l.policy \in {None, leaf.policy}
  PROVE  Lookup(Policies(a), leaf.fn) = leaf.policy
<1>1. PICK fn : fn = leaf.fn OBVIOUS
<1>2. PICK S : S = {i \in DOMAIN a.services : Limits(a.services[i], fn) # {}} OBVIOUS
<1>3. Len(a.services) \in Nat /\ DOMAIN a.services = 1 .. Len(a.services) BY SeqIs
<1>4. \A s \in Range(a.services) : s \in ServiceRecords BY RangeIs
<1>5. \A s \in Range(a.services) :
        /\ s.leaves \in Seq(Handlers) /\ Len(s.leaves) \in Nat
        /\ DOMAIN s.leaves = 1 .. Len(s.leaves)
  BY <1>4, ServiceIs, SeqIs
<1>6. S # {}
  <2>1. PICK i \in 1 .. Len(a.services) : svc = a.services[i] BY RangeIs
  <2>2. PICK j \in 1 .. Len(svc.leaves) : leaf = svc.leaves[j] BY <1>5, RangeIs
  <2>3. j \in Limits(svc, fn) BY <1>1, <1>5, <2>2 DEF Limits
  <2> QED BY <1>2, <1>3, <2>1, <2>3
<1>7. S \in SUBSET (1 .. Len(a.services)) BY <1>2, <1>3
<1>8. PICK i : i = Max(S) OBVIOUS
<1>9. i \in S BY <1>3, <1>6, <1>7, <1>8, MaxIs
<1>10. PICK s : s = a.services[i] OBVIOUS
<1>11. s \in Range(a.services) /\ Limits(s, fn) # {} BY <1>2, <1>9, <1>10 DEF Range
<1>12. PICK j : j = Max(Limits(s, fn)) OBVIOUS
<1>13. j \in Limits(s, fn)
  <2>1. Limits(s, fn) \in SUBSET (1 .. Len(s.leaves)) BY <1>5, <1>11 DEF Limits
  <2>2. Len(s.leaves) \in Nat BY <1>5, <1>11
  <2> QED BY <1>11, <1>12, <2>1, <2>2, MaxIs
<1>14. PICK l : l = s.leaves[j] OBVIOUS
<1>15. l \in Range(s.leaves) /\ Limited(l) /\ l.fn = fn BY <1>13, <1>14 DEF Limits, Range
<1>16. l.policy = leaf.policy
  <2>1. l.policy \in {None, leaf.policy} BY <1>1, <1>11, <1>15
  <2>2. l.policy # None BY <1>15 DEF Limited
  <2> QED BY <2>1, <2>2
<1>17. fn \in DOMAIN Policies(a) /\ Policies(a)[fn] = l.policy
  <2> DEFINE leaves == UNION {Range(t.leaves) : t \in Range(a.services)}
             last(f) == Max({k \in DOMAIN a.services : Limits(a.services[k], f) # {}})
             names == {m.fn : m \in {k \in leaves : Limited(k)}}
  <2>1. Policies(a) = [f \in names |->
                         a.services[last(f)].leaves[Max(Limits(a.services[last(f)], f))].policy]
    BY DEF Policies
  <2>2. fn \in names BY <1>1
  <2>3. last(fn) = i BY <1>2, <1>8
  <2> HIDE DEF names, last
  <2> QED BY <1>10, <1>12, <1>14, <2>1, <2>2, <2>3
<1> QED BY <1>1, <1>16, <1>17, Zenon DEF Lookup

-----------------------------------------------------------------------------
(* Hooks of binary handlers.                                               *)
LEMMA HooksOfIs ==
  ASSUME NEW svc \in ServiceRecords
  PROVE  HooksOf(svc) \in Seq(STRING)
BY HooksAssumption, ServiceIs, ConcatIs DEF HooksOf

(* A binary handler of a service with a name runs under its hooks.         *)
LEMMA HandlerHooksAre ==
  ASSUME NEW a, a.services \in Seq(ServiceRecords), NEW id
  PROVE  /\ Kept(HandlerHooks(a), id) \in Seq(STRING)
         /\ \A svc \in Range(a.services) :
              NamesDiffer(a.services) /\ svc.name # "" /\ id[1] = svc.name
              /\ (\E s \in Range(a.services) : id \in BinaryIds(s))
                => Kept(HandlerHooks(a), id) = HooksOf(svc)
<1> DEFINE ids == UNION {BinaryIds(s) : s \in Range(a.services)}
           with(k) == {i \in DOMAIN a.services : k \in BinaryIds(a.services[i])}
<1>1. HandlerHooks(a) = [k \in ids |-> HooksOf(a.services[Max(with(k))])] BY DEF HandlerHooks
<1>2. id \in ids <=> \E s \in Range(a.services) : id \in BinaryIds(s) OBVIOUS
<1>3. PICK S : S = with(id) OBVIOUS
<1>4. Len(a.services) \in Nat /\ DOMAIN a.services = 1 .. Len(a.services) BY SeqIs
<1>5. S \in SUBSET (1 .. Len(a.services)) BY <1>3, <1>4
<1>6. id \in ids => S # {}
  <2> SUFFICES ASSUME id \in ids PROVE S # {} OBVIOUS
  <2>1. PICK s \in Range(a.services) : id \in BinaryIds(s) OBVIOUS
  <2>2. PICK i \in 1 .. Len(a.services) : s = a.services[i] BY RangeIs
  <2> QED BY <1>3, <1>4, <2>1, <2>2
<1>7. \A i \in S : i \in DOMAIN a.services /\ id \in BinaryIds(a.services[i]) BY <1>3
<1>8. id \in ids => HandlerHooks(a)[id] = HooksOf(a.services[Max(S)]) BY <1>1, <1>3
<1>9. DOMAIN HandlerHooks(a) = ids BY <1>1
<1> HIDE DEF ids, with
<1>10. CASE id \notin ids
  <2>1. Kept(HandlerHooks(a), id) = <<>> BY <1>9, <1>10, Zenon DEF Kept
  <2>2. <<>> \in Seq(STRING) OBVIOUS
  <2> QED BY <1>2, <1>10, <2>1, <2>2, Zenon
<1>11. CASE id \in ids
  <2>1. PICK i : i = Max(S) OBVIOUS
  <2>2. i \in S BY <1>4, <1>5, <1>6, <1>11, <2>1, MaxIs
  <2>3. Kept(HandlerHooks(a), id) = HooksOf(a.services[i]) BY <1>8, <1>9, <1>11, <2>1, Zenon DEF Kept
  <2>4. i \in DOMAIN a.services /\ id \in BinaryIds(a.services[i]) BY <1>7, <2>2
  <2>5. a.services[i] \in ServiceRecords BY <1>4, <2>4, SeqIs
  <2>6. id[1] = a.services[i].name BY <2>4, <2>5, BinaryIdsAre
  <2>7. ASSUME NEW svc \in Range(a.services), NamesDiffer(a.services), svc.name # "", id[1] = svc.name
        PROVE  a.services[i] = svc
    <3>1. PICK j \in DOMAIN a.services : svc = a.services[j] BY DEF Range
    <3>2. i = j BY <2>4, <2>6, <2>7, <3>1, Zenon DEF NamesDiffer
    <3> QED BY <3>1, <3>2
  <2> QED BY <2>3, <2>5, <2>7, HooksOfIs
<1> QED BY <1>10, <1>11

-----------------------------------------------------------------------------
(* Hooks of paths.                                                         *)
LEMMA TimesIs ==
  ASSUME NEW S, NEW seq \in Seq(S), NEW n \in Nat
  PROVE  /\ Times(seq, n) \in Seq(S)
         /\ n = 0 => Times(seq, n) = <<>>
         /\ n = 1 => Times(seq, n) = seq
<1>1. PICK l \in Nat : l = Len(seq) BY SeqIs
<1>2. PICK m \in Nat : m = n * l
  <2>1. n * l \in Nat OBVIOUS
  <2> QED BY <2>1
<1>3. Times(seq, n) = [i \in 1 .. m |-> seq[((i - 1) % l) + 1]] BY <1>1, <1>2 DEF Times
<1>4. l = 0 => m = 0 BY <1>2
<1>5. ASSUME NEW i \in 1 .. m PROVE ((i - 1) % l) + 1 \in 1 .. l
  <2>1. l >= 1 /\ i - 1 \in Nat BY <1>4
  <2>2. (i - 1) % l \in 0 .. l - 1 BY <2>1
  <2> QED BY <2>2
<1>6. \A i \in 1 .. l : seq[i] \in S BY <1>1, SeqIs
<1>7. \A i \in 1 .. m : seq[((i - 1) % l) + 1] \in S BY <1>5, <1>6
<1>8. Times(seq, n) \in [1 .. m -> S] BY <1>3, <1>7
<1>9. Times(seq, n) \in Seq(S) /\ Len(Times(seq, n)) = m BY <1>8, IsSeq
<1>10. ASSUME n = 0 PROVE Times(seq, n) = <<>>
  <2>1. m = 0 BY <1>2, <1>10
  <2> QED BY <1>9, <2>1
<1>11. ASSUME n = 1 PROVE Times(seq, n) = seq
  <2>1. m = l BY <1>2, <1>11
  <2>2. ASSUME NEW i \in 1 .. l PROVE ((i - 1) % l) + 1 = i
    <3>1. l >= 1 /\ i - 1 \in 0 .. l - 1 OBVIOUS
    <3>2. (i - 1) % l = i - 1 BY <3>1
    <3> QED BY <3>2
  <2>3. Times(seq, n) = [i \in 1 .. l |-> seq[i]] BY <1>3, <2>1, <2>2
  <2>4. seq = [i \in 1 .. l |-> seq[i]] BY <1>1
  <2> QED BY <2>3, <2>4, Zenon
<1> QED BY <1>9, <1>10, <1>11

(* f[k] is what the first k parts add up to.                               *)
Concats(parts, n, f) ==
  f = [k \in 0 .. n |-> IF k = 0 THEN <<>> ELSE f[k - 1] \o parts[k]]

(* The concatenation of the first parts, part by part.                     *)
LEMMA ConcatsExist ==
  ASSUME NEW S, NEW n \in Nat, NEW parts \in [1 .. n -> Seq(S)]
  PROVE  \E f : Concats(parts, n, f)
<1> DEFINE D == 0 .. n
           V == Seq(S)
           measure == [k \in D |-> k]
           step == [f \in [D -> V] |-> [k \in D |-> IF k = 0 THEN <<>> ELSE f[k - 1] \o parts[k]]]
<1>1. V # {} /\ <<>> \in V
  <2>1. <<>> \in V BY EmptySeqIs, Zenon
  <2> QED BY <2>1, Zenon
<1>2. measure \in [D -> Nat] OBVIOUS
<1>3. ASSUME NEW f \in [D -> V], NEW k \in D
      PROVE  (IF k = 0 THEN <<>> ELSE f[k - 1] \o parts[k]) \in V
  <2>1. CASE k = 0 BY <1>1, <2>1
  <2>2. CASE k # 0
    <3>1. k - 1 \in D /\ k \in 1 .. n BY <2>2
    <3>2. f[k - 1] \in Seq(S) /\ parts[k] \in Seq(S) BY <3>1
    <3>3. f[k - 1] \o parts[k] \in Seq(S) BY <3>2, ConcatIs
    <3> QED BY <2>2, <3>3
  <2> QED BY <2>1, <2>2
<1>4. step \in [[D -> V] -> [D -> V]]
  <2> SUFFICES ASSUME NEW f \in [D -> V], NEW k \in D
               PROVE  (IF k = 0 THEN <<>> ELSE f[k - 1] \o parts[k]) \in V
    OBVIOUS
  <2> QED BY <1>3
<1>5. ASSUME NEW f \in [D -> V], NEW g \in [D -> V], NEW k \in D,
             \A j \in D : measure[j] < measure[k] => f[j] = g[j]
      PROVE  step[f][k] = step[g][k]
  <2>1. step[f][k] = (IF k = 0 THEN <<>> ELSE f[k - 1] \o parts[k])
        /\ step[g][k] = (IF k = 0 THEN <<>> ELSE g[k - 1] \o parts[k])
    OBVIOUS
  <2>2. ASSUME k # 0 PROVE f[k - 1] = g[k - 1]
    <3>1. k - 1 \in D /\ k - 1 < k BY <2>2
    <3>2. measure[k - 1] < measure[k] BY <3>1
    <3> HIDE DEF measure, step
    <3> QED BY <1>5, <3>1, <3>2
  <2> HIDE DEF step, measure
  <2> QED BY <2>1, <2>2
<1>6. \A f \in [D -> V] : step[f] = [k \in D |-> IF k = 0 THEN <<>> ELSE f[k - 1] \o parts[k]] OBVIOUS
<1> HIDE DEF measure, step
<1>7. Recursive(D, V, measure, step)
  <2> HIDE DEF D, V
  <2> QED BY <1>1, <1>2, <1>4, <1>5 DEF Recursive
<1>8. PICK f \in [D -> V] : \A k \in D : f[k] = step[f][k]
  <2> HIDE DEF D, V
  <2> QED BY <1>7, Recursion
<1>9. f = step[f]
  <2> HIDE DEF D, V
  <2>1. step[f] \in [D -> V] BY <1>4
  <2> QED BY <1>8, <2>1
<1>10. f = [k \in D |-> IF k = 0 THEN <<>> ELSE f[k - 1] \o parts[k]]
  <2> HIDE DEF D, V
  <2> QED BY <1>6, <1>9, Zenon
<1> QED BY <1>10, Zenon DEF Concats

LEMMA ConcatSteps ==
  ASSUME NEW n \in Nat, NEW parts, NEW f, Concats(parts, n, f)
  PROVE  f[0] = <<>> /\ \A k \in 1 .. n : f[k] = f[k - 1] \o parts[k]
<1>1. \A k \in 0 .. n : f[k] = IF k = 0 THEN <<>> ELSE f[k - 1] \o parts[k]
  BY DEF Concats
<1>2. 0 \in 0 .. n /\ \A k \in 1 .. n : k \in 0 .. n /\ k # 0 OBVIOUS
<1>3. f[0] = <<>> BY <1>1, <1>2, Zenon
<1>4. \A k \in 1 .. n : f[k] = f[k - 1] \o parts[k] BY <1>1, <1>2, Zenon
<1> QED BY <1>3, <1>4

LEMMA ConcatsAre ==
  ASSUME NEW S, NEW n \in Nat, NEW parts \in [1 .. n -> Seq(S)], NEW f, Concats(parts, n, f)
  PROVE  \A k \in 0 .. n : f[k] \in Seq(S)
<1>1. f[0] = <<>> /\ \A k \in 1 .. n : f[k] = f[k - 1] \o parts[k] BY ConcatSteps
<1> DEFINE T == {k \in Nat : k <= n => f[k] \in Seq(S)}
<1>2. 0 \in T
  <2>1. f[0] \in Seq(S) BY <1>1, EmptySeqIs, Zenon
  <2> QED BY <2>1
<1>3. ASSUME NEW k \in T PROVE k + 1 \in T
  <2> SUFFICES ASSUME k + 1 <= n PROVE f[k + 1] \in Seq(S) OBVIOUS
  <2>1. k + 1 \in 1 .. n /\ (k + 1) - 1 = k OBVIOUS
  <2>2. f[k] \in Seq(S) /\ parts[k + 1] \in Seq(S) BY <2>1
  <2>3. f[k + 1] = f[k] \o parts[k + 1] BY <1>1, <2>1
  <2> HIDE DEF T
  <2> QED BY <2>2, <2>3, ConcatIs
<1>4. T = Nat
  <2> HIDE DEF T
  <2>1. T \subseteq Nat BY DEF T
  <2> QED BY <1>2, <1>3, <2>1, InductionNat
<1> QED BY <1>4

(* A part that is alone is all there is.                                   *)
Alone(parts, n, m) == m \in 1 .. n /\ \A k \in 1 .. n : k # m => parts[k] = <<>>

LEMMA ConcatsAlone ==
  ASSUME NEW S, NEW n \in Nat, NEW parts \in [1 .. n -> Seq(S)], NEW f, Concats(parts, n, f),
         NEW m, Alone(parts, n, m)
  PROVE  f[n] = parts[m]
<1>1. f[0] = <<>> /\ \A k \in 1 .. n : f[k] = f[k - 1] \o parts[k] BY ConcatSteps
<1>2. \A k \in 0 .. n : f[k] \in Seq(S) BY ConcatsAre, Zenon
<1>3. m \in 1 .. n /\ \A k \in 1 .. n : k # m => parts[k] = <<>> BY Zenon DEF Alone
<1> DEFINE W == {k \in Nat : k <= n => f[k] = IF k < m THEN <<>> ELSE parts[m]}
<1>4. 0 \in W BY <1>1, <1>3
<1>5. ASSUME NEW k \in W PROVE k + 1 \in W
  <2> SUFFICES ASSUME k + 1 <= n PROVE f[k + 1] = IF k + 1 < m THEN <<>> ELSE parts[m] OBVIOUS
  <2>1. k + 1 \in 1 .. n /\ (k + 1) - 1 = k OBVIOUS
  <2>2. f[k] = IF k < m THEN <<>> ELSE parts[m] OBVIOUS
  <2>3. f[k + 1] = f[k] \o parts[k + 1] BY <1>1, <2>1
  <2>4. parts[m] \in Seq(S) BY <1>3
  <2>5. \A s \in Seq(S) : <<>> \o s = s /\ s \o <<>> = s OBVIOUS
  <2>6. k \in Nat OBVIOUS
  <2> HIDE DEF W
  <2>7. CASE k + 1 = m
    <3>1. k < m /\ ~(k + 1 < m) BY <2>6, <2>7
    <3>2. f[k + 1] = <<>> \o parts[m] BY <2>2, <2>3, <2>7, <3>1
    <3> QED BY <2>4, <2>5, <3>1, <3>2
  <2>8. CASE k + 1 # m
    <3>1. parts[k + 1] = <<>> BY <1>3, <2>1, <2>8
    <3>2. k < m <=> k + 1 < m BY <1>3, <2>6, <2>8
    <3>3. f[k] \in Seq(S)
      <4>1. k \in 0 .. n BY <2>1, <2>6
      <4> QED BY <1>2, <4>1
    <3>4. f[k + 1] = f[k] BY <2>3, <2>5, <3>1, <3>3
    <3> QED BY <2>2, <3>2, <3>4
  <2> QED BY <2>7, <2>8
<1> HIDE DEF W
<1>6. W = Nat
  <2>1. W \subseteq Nat BY DEF W
  <2> QED BY <1>4, <1>5, <2>1, InductionNat
<1> QED BY <1>3, <1>6 DEF W

(* How many times hooks are added is a number.                             *)
LEMMA AddsIs ==
  ASSUME NEW a, NEW svc \in ServiceRecords, NEW p
  PROVE  /\ Cardinality(SocketsOf(svc, p)) \in Nat /\ Adds(a, svc, p) \in Nat
         /\ SocketsOf(svc, p) = {} => Cardinality(SocketsOf(svc, p)) = 0
<1>1. PICK s \in Seq(Sockets) : s = svc.ws \o svc.sse BY ServiceIs, ConcatIs
<1>2. Len(s) \in Nat /\ DOMAIN s = 1 .. Len(s) BY SeqIs
<1>3. SocketsOf(svc, p) \in SUBSET (1 .. Len(s)) BY <1>1, <1>2 DEF SocketsOf
<1>4. Cardinality(SocketsOf(svc, p)) \in Nat BY <1>2, <1>3, Positions
<1>5. Adds(a, svc, p) \in Nat
  <2>1. PICK c \in Nat : c = Cardinality(SocketsOf(svc, p)) BY <1>4
  <2>2. Adds(a, svc, p) = (IF OrdinaryOf(a, svc, p) # {} THEN 1 ELSE 0) + c BY <2>1, Zenon DEF Adds
  <2> QED BY <2>2
<1>6. Cardinality({}) = 0 BY FS_EmptySet
<1> QED BY <1>4, <1>5, <1>6, Zenon

(* Only one service adds hooks under a key of its name.                    *)
LEMMA HooksAtAre ==
  ASSUME NEW a, a.services \in Seq(ServiceRecords), NEW key
  PROVE  /\ HooksAt(a, key) \in Seq(STRING)
         /\ \A svc \in Range(a.services) :
              NamesDiffer(a.services) /\ svc.name # "" /\ key[1] = svc.name /\ Adds(a, svc, key[2]) = 1
                => HooksAt(a, key) = HooksOf(svc)
<1> DEFINE added(svc) ==
             IF svc.name = key[1] THEN Times(HooksOf(svc), Adds(a, svc, key[2])) ELSE <<>>
           n == Len(a.services)
           parts == [k \in 1 .. n |-> added(a.services[k])]
<1>1. n \in Nat /\ DOMAIN a.services = 1 .. n /\ \A k \in 1 .. n : a.services[k] \in ServiceRecords
  BY SeqIs
<1>2. ASSUME NEW svc \in ServiceRecords PROVE added(svc) \in Seq(STRING)
  <2>1. Times(HooksOf(svc), Adds(a, svc, key[2])) \in Seq(STRING) BY HooksOfIs, AddsIs, TimesIs
  <2>2. <<>> \in Seq(STRING) BY EmptySeqIs
  <2> QED BY <2>1, <2>2, Zenon
<1>3. parts \in [1 .. n -> Seq(STRING)]
  <2> HIDE DEF added
  <2> QED BY <1>1, <1>2
<1>4. \E f : Concats(parts, n, f) /\ HooksAt(a, key) = f[n]
  <2> DEFINE hooks == CHOOSE f : f = [k \in 0 .. n |-> IF k = 0 THEN <<>>
                                                       ELSE f[k - 1] \o added(a.services[k])]
  <2>1. HooksAt(a, key) = hooks[n] BY DEF HooksAt
  <2> HIDE DEF added
  <2>2. PICK g : Concats(parts, n, g)
    <3> HIDE DEF parts, n
    <3> QED BY <1>1, <1>3, ConcatsExist
  <2>3. \A f : Concats(parts, n, f) <=>
                 f = [k \in 0 .. n |-> IF k = 0 THEN <<>> ELSE f[k - 1] \o added(a.services[k])]
    <3> SUFFICES ASSUME NEW f
                 PROVE  [k \in 0 .. n |-> IF k = 0 THEN <<>> ELSE f[k - 1] \o parts[k]]
                          = [k \in 0 .. n |-> IF k = 0 THEN <<>> ELSE f[k - 1] \o added(a.services[k])]
      BY Zenon DEF Concats
    <3>1. ASSUME NEW k \in 0 .. n
          PROVE  (IF k = 0 THEN <<>> ELSE f[k - 1] \o parts[k])
                   = (IF k = 0 THEN <<>> ELSE f[k - 1] \o added(a.services[k]))
      <4>1. k # 0 => k \in 1 .. n BY <1>1
      <4>2. k # 0 => parts[k] = added(a.services[k]) BY <4>1
      <4> HIDE DEF parts
      <4> QED BY <4>2, Zenon
    <3> HIDE DEF parts, n
    <3> QED BY <3>1, Zenon
  <2>4. Concats(parts, n, hooks)
    <3> HIDE DEF parts, n
    <3> QED BY <2>2, <2>3, Zenon
  <2> HIDE DEF hooks
  <2> QED BY <2>1, <2>4, Zenon
<1>5. PICK f : Concats(parts, n, f) /\ HooksAt(a, key) = f[n] BY <1>4, Zenon
<1>6. \A k \in 1 .. n : parts[k] = added(a.services[k]) BY Zenon
<1> HIDE DEF parts, n
<1>7. f[n] \in Seq(STRING) /\ \A i : Alone(parts, n, i) => f[n] = parts[i]
  <2>1. Concats(parts, n, f) BY <1>5
  <2>2. n \in Nat BY <1>1
  <2>3. f[n] \in Seq(STRING)
    <3>1. \A k \in 0 .. n : f[k] \in Seq(STRING) BY <1>3, <2>1, <2>2, ConcatsAre
    <3> QED BY <2>2, <3>1
  <2>4. ASSUME NEW i, Alone(parts, n, i) PROVE f[n] = parts[i] BY <1>3, <2>1, <2>2, <2>4, ConcatsAlone
  <2> QED BY <2>3, <2>4, Zenon
<1>8. ASSUME NEW svc \in Range(a.services), NamesDiffer(a.services), svc.name # "", key[1] = svc.name,
             Adds(a, svc, key[2]) = 1
      PROVE  f[n] = HooksOf(svc)
  <2>1. PICK m \in 1 .. n : svc = a.services[m] BY DEF n, Range, SeqIs
  <2>2. svc \in ServiceRecords BY <1>1, <2>1
  <2>3. HooksOf(svc) \in Seq(STRING) BY <2>2, HooksOfIs
  <2>4. parts[m] = HooksOf(svc)
    <3>1. Times(HooksOf(svc), Adds(a, svc, key[2])) = HooksOf(svc) BY <1>8, <2>3, TimesIs
    <3> QED BY <1>6, <1>8, <2>1, <3>1, Zenon
  <2>5. ASSUME NEW k \in 1 .. n, k # m PROVE parts[k] = <<>>
    <3>1. a.services[k].name # key[1]
      <4> SUFFICES ASSUME a.services[k].name = key[1] PROVE FALSE OBVIOUS
      <4>1. a.services[k].name = a.services[m].name /\ a.services[k].name # "" BY <1>8, <2>1, Zenon
      <4> QED BY <1>1, <1>8, <2>5, <4>1, Zenon DEF NamesDiffer
    <3> QED BY <1>6, <3>1, Zenon
  <2>6. f[n] = parts[m]
    <3>1. Alone(parts, n, m) BY <2>1, <2>5, Zenon DEF Alone
    <3> QED BY <1>7, <3>1, Zenon
  <2> QED BY <2>4, <2>6, Zenon
<1> QED BY <1>5, <1>7, <1>8, Zenon

(* A route of a service with a name runs under its hooks.                  *)
LEMMA NamedHooksAre ==
  ASSUME NEW a, a.services \in Seq(ServiceRecords), a.routes \in Seq(RouteRecords), NEW key
  PROVE  /\ Kept(NamedHooks(a), key) \in Seq(STRING)
         /\ \A svc \in Range(a.services) : \A p :
              NamesDiffer(a.services) /\ svc.name # "" /\ key = Key(svc.name, p) /\ Adds(a, svc, p) = 1
                => Kept(NamedHooks(a), key) = HooksOf(svc)
<1> DEFINE patterns(svc) == {r.pattern : r \in {q \in Range(a.routes) : q.service = svc.name}}
                              \cup {Parse(r.pattern) : r \in Range(svc.ws \o svc.sse)}
           keys == UNION {{Key(svc.name, p) : p \in patterns(svc)} : svc \in Range(a.services)}
<1>1. NamedHooks(a) = [k \in keys |-> HooksAt(a, k)] BY DEF NamedHooks
<1>2. ASSUME NEW svc \in Range(a.services), NEW p, Adds(a, svc, p) = 1 PROVE Key(svc.name, p) \in keys
  <2>1. svc \in ServiceRecords BY RangeIs
  <2>2. p \in patterns(svc)
    <3>1. CASE OrdinaryOf(a, svc, p) # {}
      <4>1. PICK i \in DOMAIN a.routes : a.routes[i].service = svc.name /\ a.routes[i].pattern = p
        BY <3>1 DEF OrdinaryOf
      <4>2. a.routes[i] \in Range(a.routes) BY DEF Range
      <4> QED BY <4>1, <4>2
    <3>2. CASE OrdinaryOf(a, svc, p) = {}
      <4>1. PICK c \in Nat : c = Cardinality(SocketsOf(svc, p)) BY <2>1, AddsIs
      <4>2. c = 1
        <5>1. Adds(a, svc, p) = 0 + c BY <3>2, <4>1, Zenon DEF Adds
        <5> QED BY <1>2, <5>1
      <4>3. SocketsOf(svc, p) # {}
        <5> SUFFICES ASSUME SocketsOf(svc, p) = {} PROVE FALSE OBVIOUS
        <5>1. c = 0 BY <2>1, <4>1, AddsIs, Zenon
        <5> QED BY <4>2, <5>1
      <4>4. PICK s : s = svc.ws \o svc.sse OBVIOUS
      <4>5. PICK i \in DOMAIN s : Parse(s[i].pattern) = p BY <4>3, <4>4 DEF SocketsOf
      <4>6. s[i] \in Range(s) BY <4>5 DEF Range
      <4> QED BY <4>4, <4>5, <4>6
    <3> QED BY <3>1, <3>2
  <2> HIDE DEF patterns
  <2> QED BY <2>2
<1> HIDE DEF keys
<1>3. DOMAIN NamedHooks(a) = keys /\ \A k \in keys : NamedHooks(a)[k] = HooksAt(a, k) BY <1>1
<1>4. Kept(NamedHooks(a), key) = IF key \in keys THEN HooksAt(a, key) ELSE <<>> BY <1>3, Zenon DEF Kept
<1>5. Kept(NamedHooks(a), key) \in Seq(STRING) BY <1>4, HooksAtAre, EmptySeqIs, Zenon
<1>6. ASSUME NEW svc \in Range(a.services), NEW p, NamesDiffer(a.services), svc.name # "",
             key = Key(svc.name, p), Adds(a, svc, p) = 1
      PROVE  Kept(NamedHooks(a), key) = HooksOf(svc)
  <2>1. key \in keys BY <1>2, <1>6
  <2>2. key[1] = svc.name /\ key[2] = p BY <1>6 DEF Key
  <2>3. HooksAt(a, key) = HooksOf(svc) BY <1>6, <2>2, HooksAtAre
  <2> QED BY <1>4, <2>1, <2>3, Zenon
<1> QED BY <1>5, <1>6, Zenon

-----------------------------------------------------------------------------
(* The inductive invariant.                                                *)

(* What a request is sent to, by the patterns alone, when the application  *)
(* is a, the request r and the target x.                                   *)
ToTheBest(a, r, x) ==
  LET P == PatternsOf(a.routes, r.method)
      best == Best(P, r.path)
  IN  /\ x.kind = "ordinary" =>
           /\ x.route = best
           /\ NamesAgree(P) /\ NamesApart(P) =>
                x.params = Entries(Captures(a.routes[x.route].pattern, r.path))
      /\ x.kind = "none" => best = None
      /\ x.kind = "sse" => x.route = Best(Patterns(a.sse), r.path)
      /\ x.kind = "ws" => x.route = Best(Patterns(a.ws), r.path)

(* The built-in path, or a route that claims its place.                    *)
ToTheBuiltin(a, r, x) ==
  First(r.path) \in Builtins =>
    \/ x.kind = First(r.path)
    \/ \E p \in Range(PatternsOf(a.routes, r.method)) :
         p # <<>> /\ (p[1].kind = "param" \/ p[1] = Static(First(r.path)))
    \/ \E p \in Range(Patterns(a.sse)) \cup Range(Patterns(a.ws)) :
         p # <<>> /\ (p[1].kind # "static" \/ p[1] = Static(First(r.path)))

(* A route that exists.                                                    *)
ToARoute(a, x) ==
  /\ x.kind = "ordinary" => x.route \in DOMAIN a.routes
  /\ x.kind = "sse" => x.route \in DOMAIN a.sse
  /\ x.kind = "ws" => x.route \in DOMAIN a.ws

IsAim(a, r, x) == ToTheBest(a, r, x) /\ ToTheBuiltin(a, r, x) /\ ToARoute(a, x)

HasHandler ==
  \/ target.kind \in {"ordinary", "sse", "ws"}
  \/ target.kind = "_api" /\ ApiFound
Policy == IF LimitApplies THEN Lookup(tables.policies, Called.fn) ELSE None
Preflighted == [status |-> 204, by |-> "server", cors |-> TRUE]

(* The application being built and the tables are what service() and run() *)
(* make.                                                                   *)
TablesBuilt ==
  /\ tables = None => IsBuilt(app)
  /\ tables # None => IsBuilt(tables.app) /\ tables = Tables(tables.app)

Handling == at # "idle" => tables # None /\ req \in Requests

Aimed ==
  at \notin {"idle", "route"} =>
    IsAim(tables.app, req, target) \/ (at = "answered" /\ resp = Preflighted)

(* Nothing is called but a handler, checked against its own policy.        *)
Admitted == at \in {"before", "call", "after"} => HasHandler /\ checked = Policy
RanAsCalled ==
  ran # None =>
    /\ at \in {"after", "answered"} /\ HasHandler /\ checked = Policy
    /\ ran = Called /\ IsAim(tables.app, req, target)

ClosedAsKept ==
  /\ guards \in Seq(STRING)
  /\ at = "answered" /\ resp.by = "handler" =>
       \E told : closed = [i \in DOMAIN ToClose |-> [hook |-> ToClose[i], told |-> told]]

Inv == TablesBuilt /\ Handling /\ Aimed /\ Admitted /\ RanAsCalled /\ ClosedAsKept

-----------------------------------------------------------------------------
(* Where requests are sent.                                                *)
LEMMA RequestIs ==
  ASSUME NEW r \in Requests
  PROVE  r.method \in Methods /\ r.path \in Seq(STRING) /\ IsPath(r.path)
<1>1. r.method \in Methods /\ r.path \in Seq(STRING) /\ r.path # <<"">> BY Zenon, RequestsAssumption
<1>2. ~(Len(r.path) = 1 /\ r.path[1] = "") BY <1>1, SingleIs, Zenon
<1> QED BY <1>1, <1>2, Zenon DEF IsPath

(* The routes of a trie, and a trie of them.                               *)
IsTable(P, last) == Numbered(P) /\ last \in Nat /\ DOMAIN P \subseteq 1 .. last

LEMMA PatternIs ==
  ASSUME NEW routes, NEW last, last = Len(routes),
         routes \in Seq(RouteRecords) \/ routes \in Seq(SocketRecords)
  PROVE  /\ last \in Nat /\ DOMAIN routes = 1 .. last
         /\ \A i \in 1 .. last : Compiled(routes[i].pattern)
<1>1. last \in Nat /\ DOMAIN routes = 1 .. last
  BY SeqIs
<1>2. ASSUME NEW i \in 1 .. last PROVE routes[i].pattern \in Compileds
  <2>1. routes[i] \in RouteRecords \/ routes[i] \in SocketRecords BY SeqIs
  <2>2. PICK x : x = routes[i] OBVIOUS
  <2>3. x.pattern \in Compileds BY <2>1, <2>2 DEF RouteRecords, SocketRecords
  <2> QED BY <2>2, <2>3, Zenon
<1> QED BY <1>1, <1>2, CompiledsAre, Zenon

LEMMA PatternsOfIs ==
  ASSUME NEW routes \in Seq(RouteRecords), NEW m, NEW P, P = PatternsOf(routes, m),
         NEW last, last = Len(routes)
  PROVE  /\ IsTable(P, last)
         /\ \A i \in DOMAIN P : i \in DOMAIN routes /\ P[i] = routes[i].pattern
<1>1. last \in Nat /\ DOMAIN routes = 1 .. last /\ \A i \in 1 .. last : Compiled(routes[i].pattern)
  BY PatternIs, Zenon
<1>2. DOMAIN P \subseteq DOMAIN routes /\ \A i \in DOMAIN P : P[i] = routes[i].pattern
  BY DEF PatternsOf
<1>3. \A i \in DOMAIN P : Compiled(P[i]) BY <1>1, <1>2, Zenon
<1>4. DOMAIN P \subseteq 1 .. last /\ DOMAIN P \subseteq Nat BY <1>1, <1>2
<1> QED BY <1>1, <1>2, <1>3, <1>4, Zenon DEF IsTable, Numbered

LEMMA PatternsAre ==
  ASSUME NEW routes \in Seq(SocketRecords), NEW P, P = Patterns(routes), NEW last, last = Len(routes)
  PROVE  /\ IsTable(P, last)
         /\ DOMAIN P = DOMAIN routes /\ \A i \in DOMAIN P : P[i] = routes[i].pattern
<1>1. last \in Nat /\ DOMAIN routes = 1 .. last /\ \A i \in 1 .. last : Compiled(routes[i].pattern)
  BY PatternIs, Zenon
<1>2. DOMAIN P = DOMAIN routes /\ \A i \in DOMAIN P : P[i] = routes[i].pattern BY DEF Patterns
<1>3. \A i \in DOMAIN P : Compiled(P[i]) BY <1>1, <1>2, Zenon
<1>4. DOMAIN P \subseteq 1 .. last /\ DOMAIN P \subseteq Nat BY <1>1, <1>2
<1> QED BY <1>1, <1>2, <1>3, <1>4, Zenon DEF IsTable, Numbered

(* What is found is the best of what matches.                              *)
Hits(P, path, hit) ==
  /\ hit.route = Best(P, path)
  /\ hit.route # None => hit.route \in DOMAIN P /\ Matches(P[hit.route], path)
  /\ NamesAgree(P) /\ NamesApart(P) /\ hit.route # None =>
       hit.params = Entries(Captures(P[hit.route], path))

LEMMA HitIs ==
  ASSUME NEW P, NEW last, IsTable(P, last), NEW path, IsPath(path),
         NEW hit, hit = MatchPath(Trie(P, last), path)
  PROVE  Hits(P, path, hit)
<1>1. Numbered(P) /\ last \in Nat /\ DOMAIN P \subseteq 1 .. last BY Zenon DEF IsTable
<1>2. hit.route = Best(P, path) BY <1>1, MatchPathIsBest, Zenon
<1>3. PICK S : S = {i \in DOMAIN P : Matches(P[i], path)} OBVIOUS
<1>4. IsFound(P, S, hit.route) BY <1>1, <1>3, MatchPathFinds, Zenon
<1>5. hit.route # None => hit.route \in S BY <1>4, Zenon DEF IsFound, IsBest
<1>6. hit.route # None => hit.route \in DOMAIN P /\ Matches(P[hit.route], path) BY <1>3, <1>5, Zenon
<1>7. ASSUME NamesAgree(P), NamesApart(P), hit.route # None
      PROVE  hit.params = Entries(Captures(P[hit.route], path))
  <2>1. hit.params = IF hit.route = None THEN {} ELSE Entries(Captures(P[hit.route], path))
    BY <1>1, <1>7, MatchPathCaptures, Zenon
  <2> QED BY <1>7, <2>1, Zenon
<1> QED BY <1>2, <1>6, <1>7, Zenon DEF Hits

(* A pattern that matches a path of segments has a first segment, which is *)
(* no fixed text but the first of the path.                                *)
LEMMA FirstOfMatch ==
  ASSUME NEW p, Compiled(p), NEW path, IsPath(path), path # <<>>, Matches(p, path),
         NEW name, name = First(path)
  PROVE  p # <<>> /\ (p[1].kind # "static" \/ p[1] = Static(name))
<1>1. path \in Seq(STRING) BY Zenon DEF IsPath
<1>2. name = path[1] /\ Len(path) # 0
  <2>1. Len(path) # 0 BY <1>1
  <2>2. name = Head(path) BY Zenon DEF First
  <2>3. Head(path) = path[1] BY <1>1, <2>1
  <2> QED BY <2>1, <2>2, <2>3, Zenon
<1>3. p \in Seq(Segments) /\ Len(p) \in Nat BY CompiledIs
<1>4. Len(p) # 0
  <2> SUFFICES ASSUME Len(p) = 0 PROVE FALSE OBVIOUS
  <2>1. ~(Len(p) > 0) BY <1>3
  <2>2. Len(path) = Len(p) BY <2>1, Zenon DEF Matches
  <2> QED BY <1>2, <2>2
<1>5. 1 \in 1 .. Len(p) BY <1>3, <1>4
<1>6. p[1].kind = "static" => path[1] = p[1].text BY <1>5, Zenon DEF Matches
<1>7. p[1] \in Segments BY <1>3, <1>5
<1>8. p # <<>> BY <1>3, <1>4
<1>9. ASSUME p[1].kind = "static" PROVE p[1] = Static(name)
  <2>1. PICK s \in Segments : s = p[1] BY <1>7
  <2>2. s.text = name BY <1>2, <1>6, <1>9, <2>1, Zenon
  <2>3. s.kind = "static" BY <1>9, <2>1, Zenon
  <2> HIDE <1>9
  <2>4. s = [kind |-> "static", text |-> name] BY <2>2, <2>3 DEF Segments
  <2> QED BY <2>1, <2>4, Zenon DEF Static
<1> QED BY <1>8, <1>9, Zenon

(* What run() makes of an application.                                     *)
LEMMA TablesAre ==
  ASSUME NEW a, NEW t, t = Tables(a)
  PROVE  /\ t.app = a /\ t.byId = HandlerHooks(a) /\ t.byKey = NamedHooks(a)
         /\ t.policies = Policies(a)
         /\ \A m \in Methods : t.tries[m] = Trie(PatternsOf(a.routes, m), Len(a.routes))
         /\ t.ws = Trie(Patterns(a.ws), Len(a.ws)) /\ t.sse = Trie(Patterns(a.sse), Len(a.sse))
BY DEF Tables

(* What Target can be.                                                     *)
Sent(kind, hit, x) ==
  x.kind = kind /\ x.route = hit.route /\ x.params = hit.params /\ hit.route # None
Chosen(r, deferred, hit, sse, ws, x) ==
  \/ Sent("ordinary", hit, x) /\ (First(r.path) \notin Builtins \/ ~deferred)
  \/ Sent("sse", sse, x)
  \/ Sent("ws", ws, x)
  \/ x.kind = First(r.path) /\ First(r.path) \in Builtins
  \/ x.kind = "none" /\ hit.route = None /\ First(r.path) \notin Builtins

LEMMA SentIs ==
  ASSUME NEW kind, NEW hit, hit.route # None
  PROVE  Sent(kind, hit, To(kind, hit))
BY DEF To, Sent

LEMMA NothingIs ==
  ASSUME NEW kind
  PROVE  Nothing.kind = "none" /\ [Nothing EXCEPT !.kind = kind].kind = kind
BY DEF Nothing

LEMMA TargetIs ==
  ASSUME NEW hit, hit = Hit, NEW sse, sse = MatchPath(tables.sse, req.path),
         NEW ws, ws = MatchPath(tables.ws, req.path), NEW x, x = Target
  PROVE  Chosen(req, Deferred, hit, sse, ws, x)
<1>1. \/ /\ x = To("ordinary", hit) /\ hit.route # None
         /\ First(req.path) \notin Builtins \/ ~Deferred
      \/ x = To("sse", sse) /\ sse.route # None
      \/ x = To("ws", ws) /\ ws.route # None
      \/ x = [Nothing EXCEPT !.kind = First(req.path)] /\ First(req.path) \in Builtins
      \/ x = Nothing /\ hit.route = None /\ First(req.path) \notin Builtins
  BY Zenon DEF Target, Fallback
<1>2. CASE /\ x = To("ordinary", hit) /\ hit.route # None
           /\ First(req.path) \notin Builtins \/ ~Deferred
  <2>1. Sent("ordinary", hit, To("ordinary", hit)) BY <1>2, SentIs
  <2> QED BY <1>2, <2>1, Zenon DEF Chosen
<1>3. CASE x = To("sse", sse) /\ sse.route # None
  <2>1. Sent("sse", sse, To("sse", sse)) BY <1>3, SentIs
  <2> QED BY <1>3, <2>1, Zenon DEF Chosen
<1>4. CASE x = To("ws", ws) /\ ws.route # None
  <2>1. Sent("ws", ws, To("ws", ws)) BY <1>4, SentIs
  <2> QED BY <1>4, <2>1, Zenon DEF Chosen
<1>5. CASE x = [Nothing EXCEPT !.kind = First(req.path)] /\ First(req.path) \in Builtins
  <2>1. x.kind = First(req.path) BY <1>5, NothingIs
  <2> QED BY <1>5, <2>1, Zenon DEF Chosen
<1>6. CASE x = Nothing /\ hit.route = None /\ First(req.path) \notin Builtins
  <2>1. x.kind = "none" BY <1>6, NothingIs
  <2> QED BY <1>6, <2>1, Zenon DEF Chosen
<1> QED BY <1>1, <1>2, <1>3, <1>4, <1>5, <1>6, Zenon

(* A built-in name begins a path of at least one segment.                  *)
LEMMA BuiltinStarts ==
  ASSUME NEW path, IsPath(path), First(path) \in Builtins
  PROVE  Starts(path) /\ First(path) = path[1]
<1>1. path \in Seq(STRING) BY Zenon DEF IsPath
<1>2. First(path) # "" BY DEF Builtins
<1>3. path # <<>> BY <1>2, Zenon DEF First
<1>4. Head(path) = path[1] BY <1>1, <1>3
<1>5. First(path) = path[1] BY <1>3, <1>4, Zenon DEF First
<1> QED BY <1>2, <1>3, <1>5, Zenon DEF Starts

(* An ordinary route that takes a built-in path claims it.                 *)
Claimed(P, path) ==
  \E p \in Range(P) : p # <<>> /\ (p[1].kind = "param" \/ p[1] = Static(First(path)))

LEMMA ClaimedByOrdinary ==
  ASSUME NEW P, NEW last, IsTable(P, last), NEW path, IsPath(path), First(path) \in Builtins,
         ~CatchAllOnly(Trie(P, last), path), MatchPath(Trie(P, last), path).route # None
  PROVE  Claimed(P, path)
<1>1. Starts(path) /\ First(path) = path[1] BY BuiltinStarts
<1>2. Numbered(P) /\ last \in Nat /\ DOMAIN P \subseteq 1 .. last BY Zenon DEF IsTable
<1>3. PICK hit : hit = MatchPath(Trie(P, last), path) OBVIOUS
<1>4. hit.route \in DOMAIN P /\ Matches(P[hit.route], path)
  <2>1. Hits(P, path, hit) BY <1>3, HitIs
  <2> QED BY <1>3, <2>1, Zenon DEF Hits
<1>5. PICK i \in DOMAIN P : Claims(P[i], path) BY <1>1, <1>2, <1>4, CatchAllsGiveWay, Zenon
<1>6. P[i] \in Range(P) BY DEF Range
<1> QED BY <1>1, <1>5, <1>6, Zenon DEF Claims, Claimed

LEMMA ClaimedBySocket ==
  ASSUME NEW routes \in Seq(SocketRecords), NEW P, P = Patterns(routes),
         NEW path, IsPath(path), First(path) \in Builtins,
         NEW i \in DOMAIN P, Matches(P[i], path)
  PROVE  \E p \in Range(P) : p # <<>> /\ (p[1].kind # "static" \/ p[1] = Static(First(path)))
<1>1. path # <<>> BY BuiltinStarts, Zenon DEF Starts
<1>2. Compiled(P[i]) BY PatternsAre, Zenon DEF IsTable, Numbered
<1>3. PICK p : p = P[i] OBVIOUS
<1>4. p # <<>> /\ (p[1].kind # "static" \/ p[1] = Static(First(path)))
  BY <1>1, <1>2, <1>3, FirstOfMatch, Zenon
<1>5. p \in Range(P) BY <1>3 DEF Range
<1> QED BY <1>4, <1>5

(* What is chosen is what the path asks for.                               *)
LEMMA ChosenIsAim ==
  ASSUME NEW a, IsBuilt(a), NEW r \in Requests, NEW P, P = PatternsOf(a.routes, r.method),
         NEW E, E = Patterns(a.sse), NEW W, W = Patterns(a.ws), NEW n, n = Len(a.routes),
         NEW hit, hit = MatchPath(Trie(P, n), r.path),
         NEW sse, sse = MatchPath(Trie(E, Len(a.sse)), r.path),
         NEW ws, ws = MatchPath(Trie(W, Len(a.ws)), r.path),
         NEW x, Chosen(r, CatchAllOnly(Trie(P, n), r.path), hit, sse, ws, x)
  PROVE  IsAim(a, r, x)
<1>1. /\ a.routes \in Seq(RouteRecords) /\ a.ws \in Seq(SocketRecords) /\ a.sse \in Seq(SocketRecords)
  BY AppIs DEF IsBuilt
<1>2. r.method \in Methods /\ IsPath(r.path) BY RequestIs
<1>7. /\ IsTable(P, n)
      /\ \A i \in DOMAIN P : i \in DOMAIN a.routes /\ P[i] = a.routes[i].pattern
  BY <1>1, PatternsOfIs
<1>8. IsTable(E, Len(a.sse)) /\ DOMAIN E = DOMAIN a.sse BY <1>1, PatternsAre, Zenon
<1>9. IsTable(W, Len(a.ws)) /\ DOMAIN W = DOMAIN a.ws BY <1>1, PatternsAre, Zenon
<1>13. Hits(P, r.path, hit) BY <1>2, <1>7, HitIs
<1>14. Hits(E, r.path, sse) BY <1>2, <1>8, HitIs
<1>15. Hits(W, r.path, ws) BY <1>2, <1>9, HitIs
<1> DEFINE ordinary ==
             \E p \in Range(P) : p # <<>> /\ (p[1].kind = "param" \/ p[1] = Static(First(r.path)))
           socket ==
             \E p \in Range(E) \cup Range(W) :
               p # <<>> /\ (p[1].kind # "static" \/ p[1] = Static(First(r.path)))
<1> HIDE DEF ordinary, socket
<1>19. /\ ToTheBuiltin(a, r, x) <=>
            (First(r.path) \in Builtins => x.kind = First(r.path) \/ ordinary \/ socket)
  BY Zenon DEF ToTheBuiltin, ordinary, socket
<1>20. CASE /\ Sent("ordinary", hit, x)
            /\ First(r.path) \notin Builtins \/ ~CatchAllOnly(Trie(P, n), r.path)
  <2>0. hit.route # None BY <1>20, Zenon DEF Sent
  <2>1. x.kind = "ordinary" /\ x.route = hit.route /\ x.params = hit.params BY <1>20, Zenon DEF Sent
  <2>2. x.kind # "none" /\ x.kind # "sse" /\ x.kind # "ws" BY <2>1
  <2>3. x.route \in DOMAIN P BY <1>13, <2>0, <2>1, Zenon DEF Hits
  <2>4. P[x.route] = a.routes[x.route].pattern BY <1>7, <2>3, Zenon
  <2>5. ToTheBest(a, r, x)
    <3>1. x.route = Best(P, r.path) BY <1>13, <2>1, Zenon DEF Hits
    <3>2. ASSUME NamesAgree(P), NamesApart(P)
          PROVE  x.params = Entries(Captures(a.routes[x.route].pattern, r.path))
      BY <1>13, <2>0, <2>1, <2>4, <3>2, Zenon DEF Hits
    <3> QED BY <2>2, <3>1, <3>2, Zenon DEF ToTheBest
  <2>6. ToARoute(a, x) BY <1>7, <2>2, <2>3, Zenon DEF ToARoute
  <2>7. ASSUME First(r.path) \in Builtins PROVE ordinary
    <3>1. ~CatchAllOnly(Trie(P, n), r.path) BY <1>20, <2>7
    <3>2. Claimed(P, r.path) BY <1>2, <1>7, <2>0, <2>7, <3>1, ClaimedByOrdinary
    <3> QED BY <3>2, Zenon DEF Claimed, ordinary
  <2> QED BY <1>19, <2>5, <2>6, <2>7, Zenon DEF IsAim
<1>21. CASE Sent("sse", sse, x)
  <2>0. sse.route \in DOMAIN E /\ Matches(E[sse.route], r.path) /\ sse.route = Best(E, r.path)
    BY <1>14, <1>21, Zenon DEF Hits, Sent
  <2>1. x.kind = "sse" /\ x.route = sse.route BY <1>21, Zenon DEF Sent
  <2>2. x.kind # "none" /\ x.kind # "ordinary" /\ x.kind # "ws" BY <2>1
  <2>3. ToTheBest(a, r, x) BY <2>0, <2>1, <2>2, Zenon DEF ToTheBest
  <2>4. ToARoute(a, x) BY <1>8, <2>0, <2>1, <2>2, Zenon DEF ToARoute
  <2>5. ASSUME First(r.path) \in Builtins PROVE socket
    <3>1. \E p \in Range(E) : p # <<>> /\ (p[1].kind # "static" \/ p[1] = Static(First(r.path)))
      BY <1>1, <1>2, <2>0, <2>5, ClaimedBySocket, Zenon
    <3> QED BY <3>1, Zenon DEF socket
  <2> QED BY <1>19, <2>3, <2>4, <2>5, Zenon DEF IsAim
<1>22. CASE Sent("ws", ws, x)
  <2>0. ws.route \in DOMAIN W /\ Matches(W[ws.route], r.path) /\ ws.route = Best(W, r.path)
    BY <1>15, <1>22, Zenon DEF Hits, Sent
  <2>1. x.kind = "ws" /\ x.route = ws.route BY <1>22, Zenon DEF Sent
  <2>2. x.kind # "none" /\ x.kind # "ordinary" /\ x.kind # "sse" BY <2>1
  <2>3. ToTheBest(a, r, x) BY <2>0, <2>1, <2>2, Zenon DEF ToTheBest
  <2>4. ToARoute(a, x) BY <1>9, <2>0, <2>1, <2>2, Zenon DEF ToARoute
  <2>5. ASSUME First(r.path) \in Builtins PROVE socket
    <3>1. \E p \in Range(W) : p # <<>> /\ (p[1].kind # "static" \/ p[1] = Static(First(r.path)))
      BY <1>1, <1>2, <2>0, <2>5, ClaimedBySocket, Zenon
    <3> QED BY <3>1, Zenon DEF socket
  <2> QED BY <1>19, <2>3, <2>4, <2>5, Zenon DEF IsAim
<1>23. CASE x.kind = First(r.path) /\ First(r.path) \in Builtins
  <2>1. x.kind = First(r.path) BY <1>23
  <2>2. x.kind # "none" /\ x.kind # "ordinary" /\ x.kind # "sse" /\ x.kind # "ws"
    <3>1. x.kind \in Builtins BY <1>23, <2>1, Zenon
    <3> QED BY <3>1 DEF Builtins
  <2>3. ToTheBest(a, r, x) /\ ToARoute(a, x) BY <2>2, Zenon DEF ToTheBest, ToARoute
  <2> QED BY <1>19, <2>1, <2>3, Zenon DEF IsAim
<1>24. CASE x.kind = "none" /\ hit.route = None /\ First(r.path) \notin Builtins
  <2>1. x.kind = "none" BY <1>24
  <2>2. x.kind # "ordinary" /\ x.kind # "sse" /\ x.kind # "ws" BY <2>1
  <2>3. ToTheBest(a, r, x) /\ ToARoute(a, x)
    BY <1>13, <1>24, <2>2, Zenon DEF ToTheBest, ToARoute, Hits
  <2> QED BY <1>19, <1>24, <2>3, Zenon DEF IsAim
<1> QED BY <1>20, <1>21, <1>22, <1>23, <1>24, Zenon DEF Chosen

LEMMA TargetIsAim ==
  ASSUME NEW a, IsBuilt(a), tables = Tables(a), req \in Requests
  PROVE  IsAim(a, req, Target)
<1>1. PICK P : P = PatternsOf(a.routes, req.method) OBVIOUS
<1>2. PICK E : E = Patterns(a.sse) OBVIOUS
<1>3. PICK W : W = Patterns(a.ws) OBVIOUS
<1>4. PICK n : n = Len(a.routes) OBVIOUS
<1>5. req.method \in Methods BY RequestIs
<1>6. tables.tries[req.method] = Trie(P, n) BY <1>1, <1>4, <1>5, TablesAre
<1>7. tables.sse = Trie(E, Len(a.sse)) /\ tables.ws = Trie(W, Len(a.ws)) BY <1>2, <1>3, TablesAre
<1>8. PICK hit : hit = Hit OBVIOUS
<1>9. PICK sse : sse = MatchPath(tables.sse, req.path) OBVIOUS
<1>10. PICK ws : ws = MatchPath(tables.ws, req.path) OBVIOUS
<1>11. hit = MatchPath(Trie(P, n), req.path) BY <1>6, <1>8 DEF Hit
<1>12. sse = MatchPath(Trie(E, Len(a.sse)), req.path) /\ ws = MatchPath(Trie(W, Len(a.ws)), req.path)
  BY <1>7, <1>9, <1>10
<1>13. Deferred = CatchAllOnly(Trie(P, n), req.path) BY <1>6 DEF Deferred
<1>14. Chosen(req, Deferred, hit, sse, ws, Target) BY <1>8, <1>9, <1>10, TargetIs
<1>15. Chosen(req, CatchAllOnly(Trie(P, n), req.path), hit, sse, ws, Target) BY <1>13, <1>14, Zenon
<1> QED BY <1>1, <1>2, <1>3, <1>4, <1>11, <1>12, <1>15, ChosenIsAim

-----------------------------------------------------------------------------
(* The invariant is inductive.                                             *)
LEMMA Unchanged ==
  ASSUME tables' = tables, req' = req, target' = target
  PROVE  /\ Policy' = Policy /\ Called' = Called /\ (HasHandler' <=> HasHandler)
         /\ IsAim(tables.app, req, target)' <=> IsAim(tables.app, req, target)
<1>1. Called' = Called BY DEF Called, Found
<1>2. Policy' = Policy BY <1>1 DEF Policy, LimitApplies
<1>3. HasHandler' <=> HasHandler BY DEF HasHandler, ApiFound
<1>4. IsAim(tables.app, req, target)' <=> IsAim(tables.app, req, target) OBVIOUS
<1> QED BY <1>1, <1>2, <1>3, <1>4

LEMMA KeepsTables ==
  ASSUME TablesBuilt, app' = app, tables' = tables
  PROVE  TablesBuilt'
BY DEF TablesBuilt

LEMMA KeepsHandling ==
  ASSUME Handling, at # "idle", tables' = tables, req' = req
  PROVE  Handling'
BY DEF Handling

LEMMA KeepsAim ==
  ASSUME Aimed, at \in {"limit", "before", "call", "after"},
         tables' = tables, req' = req, target' = target
  PROVE  IsAim(tables.app, req, target)'
<1>1. at \notin {"idle", "route"} /\ at # "answered" OBVIOUS
<1>2. IsAim(tables.app, req, target) BY <1>1, Zenon DEF Aimed
<1> QED BY <1>2, Unchanged

(* A refusal, wherever it comes from.                                      *)
LEMMA RefuseKeeps ==
  ASSUME Inv, at \in {"limit", "before"}, NEW s, Refuse(s)
  PROVE  Inv'
<1>1. /\ app' = app /\ tables' = tables /\ req' = req /\ target' = target /\ guards' = guards
      /\ ran' = ran /\ at' = "answered" /\ resp'.by = "server"
  BY DEF Refuse, Answer
<1>2. TablesBuilt /\ Handling /\ Aimed /\ RanAsCalled /\ ClosedAsKept BY DEF Inv
<1>3. TablesBuilt' BY <1>1, <1>2, KeepsTables
<1>4. Handling'
  <2>1. at # "idle" OBVIOUS
  <2> QED BY <1>1, <1>2, <2>1, KeepsHandling
<1>5. Aimed'
  <2>1. at \in {"limit", "before", "call", "after"} OBVIOUS
  <2>2. IsAim(tables.app, req, target)' BY <1>1, <1>2, <2>1, KeepsAim
  <2> QED BY <2>2 DEF Aimed
<1>6. Admitted' BY <1>1 DEF Admitted
<1>7. RanAsCalled'
  <2>1. ~(at \in {"after", "answered"}) OBVIOUS
  <2>2. ran = None BY <1>2, <2>1 DEF RanAsCalled
  <2> QED BY <1>1, <2>2 DEF RanAsCalled
<1>8. ClosedAsKept'
  <2>1. guards' \in Seq(STRING) BY <1>1, <1>2 DEF ClosedAsKept
  <2>2. resp'.by # "handler" BY <1>1
  <2> QED BY <2>1, <2>2 DEF ClosedAsKept
<1> QED BY <1>3, <1>4, <1>5, <1>6, <1>7, <1>8 DEF Inv

LEMMA InitHolds == Init => Inv
<1> SUFFICES ASSUME Init PROVE Inv OBVIOUS
<1>1. app = EmptyApp /\ tables = None /\ at = "idle" /\ guards = <<>> /\ ran = None BY DEF Init
<1>2. TablesBuilt BY <1>1, EmptyIsBuilt DEF TablesBuilt
<1>3. Handling /\ Aimed /\ Admitted BY <1>1 DEF Handling, Aimed, Admitted
<1>4. RanAsCalled BY <1>1 DEF RanAsCalled
<1>5. ClosedAsKept
  <2>1. guards \in Seq(STRING) BY <1>1, EmptySeqIs
  <2>2. at # "answered" BY <1>1
  <2> QED BY <2>1, <2>2 DEF ClosedAsKept
<1> QED BY <1>2, <1>3, <1>4, <1>5 DEF Inv

(* Steps before a request comes.                                           *)
LEMMA IdleKeeps ==
  ASSUME Inv, at' = at, req' = req, target' = target, guards' = guards, ran' = ran,
         checked' = checked, closed' = closed, resp' = resp, at = "idle" \/ tables = None,
         TablesBuilt'
  PROVE  Inv'
<1>1. at = "idle" BY DEF Inv, Handling
<1>2. ran = None BY <1>1 DEF Inv, RanAsCalled
<1>3. Handling' /\ Aimed' /\ Admitted' BY <1>1 DEF Handling, Aimed, Admitted
<1>4. RanAsCalled' BY <1>2 DEF RanAsCalled
<1>5. ClosedAsKept'
  <2>1. guards' \in Seq(STRING) BY DEF Inv, ClosedAsKept
  <2>2. at' # "answered" BY <1>1
  <2> QED BY <2>1, <2>2 DEF ClosedAsKept
<1> QED BY <1>3, <1>4, <1>5 DEF Inv

LEMMA AddKeeps ==
  ASSUME Inv, NEW svc \in Services, Add(svc)
  PROVE  Inv'
<1>1. tables = None /\ tables' = tables /\ app' = AddService(app, svc) BY DEF Add
<1>2. IsBuilt(app) BY <1>1 DEF Inv, TablesBuilt
<1>3. svc \in ServiceRecords BY ServicesAssumption
<1>4. IsBuilt(AddService(app, svc)) BY <1>2, <1>3, AddIsBuilt
<1>5. TablesBuilt' BY <1>1, <1>4 DEF TablesBuilt
<1>6. /\ at' = at /\ req' = req /\ target' = target /\ guards' = guards /\ ran' = ran
      /\ checked' = checked /\ closed' = closed /\ resp' = resp
  BY DEF Add
<1> QED BY <1>1, <1>5, <1>6, IdleKeeps

LEMMA RunKeeps ==
  ASSUME Inv, Run
  PROVE  Inv'
<1>1. tables = None /\ tables' = Tables(app) /\ app' = EmptyApp BY DEF Run
<1>2. IsBuilt(app) BY <1>1 DEF Inv, TablesBuilt
<1>3. Tables(app).app = app BY TablesAre
<1>4. TablesBuilt' BY <1>1, <1>2, <1>3, EmptyIsBuilt DEF TablesBuilt
<1>5. /\ at' = at /\ req' = req /\ target' = target /\ guards' = guards /\ ran' = ran
      /\ checked' = checked /\ closed' = closed /\ resp' = resp
  BY DEF Run
<1> QED BY <1>1, <1>4, <1>5, IdleKeeps

(* Steps of a request before it has a handler.                             *)
LEMMA ReceiveKeeps ==
  ASSUME Inv, NEW r \in Requests, Receive(r)
  PROVE  Inv'
<1>1. /\ tables # None /\ at = "idle" /\ req' = r /\ at' = "route"
      /\ app' = app /\ tables' = tables /\ guards' = guards /\ ran' = ran
  BY DEF Receive
<1>2. TablesBuilt' BY <1>1, KeepsTables DEF Inv
<1>3. Handling' /\ Aimed' /\ Admitted' BY <1>1 DEF Handling, Aimed, Admitted
<1>4. ran = None BY <1>1 DEF Inv, RanAsCalled
<1>5. RanAsCalled' BY <1>1, <1>4 DEF RanAsCalled
<1>6. ClosedAsKept'
  <2>1. guards' \in Seq(STRING) BY <1>1 DEF Inv, ClosedAsKept
  <2>2. at' # "answered" BY <1>1
  <2> QED BY <2>1, <2>2 DEF ClosedAsKept
<1> QED BY <1>2, <1>3, <1>5, <1>6 DEF Inv

LEMMA PreflightKeeps ==
  ASSUME Inv, Preflight
  PROVE  Inv'
<1>1. /\ at = "route" /\ at' = "answered" /\ app' = app /\ tables' = tables /\ req' = req
      /\ guards' = guards /\ ran' = ran
  BY DEF Preflight, Answer
<1>2. resp' = Preflighted /\ resp'.by = "server"
  <2>1. (TRUE /\ AllowedOrigin) = TRUE BY DEF Preflight
  <2>2. resp' = [status |-> 204, by |-> "server", cors |-> TRUE]
    BY <2>1, Zenon DEF Preflight, Answer
  <2> QED BY <2>2 DEF Preflighted
<1>3. TablesBuilt' BY <1>1, KeepsTables DEF Inv
<1>4. Handling'
  <2>1. Handling /\ at # "idle" BY <1>1 DEF Inv
  <2> QED BY <1>1, <2>1, KeepsHandling
<1>5. Aimed'
  <2>1. resp' = Preflighted' BY <1>2 DEF Preflighted
  <2> QED BY <1>1, <2>1 DEF Aimed
<1>6. Admitted' BY <1>1 DEF Admitted
<1>7. ran = None BY <1>1 DEF Inv, RanAsCalled
<1>8. RanAsCalled' BY <1>1, <1>7 DEF RanAsCalled
<1>9. ClosedAsKept'
  <2>1. guards' \in Seq(STRING) BY <1>1 DEF Inv, ClosedAsKept
  <2>2. resp'.by # "handler" BY <1>2
  <2> QED BY <2>1, <2>2 DEF ClosedAsKept
<1> QED BY <1>3, <1>4, <1>5, <1>6, <1>8, <1>9 DEF Inv

LEMMA DispatchKeeps ==
  ASSUME Inv, Dispatch
  PROVE  Inv'
<1>1. /\ at = "route" /\ at' = "limit" /\ target' = Target /\ app' = app /\ tables' = tables
      /\ req' = req /\ guards' = guards /\ ran' = ran
  BY DEF Dispatch
<1>2. TablesBuilt' BY <1>1, KeepsTables DEF Inv
<1>3. Handling'
  <2>1. Handling /\ at # "idle" BY <1>1 DEF Inv
  <2> QED BY <1>1, <2>1, KeepsHandling
<1>4. Aimed'
  <2>1. tables # None /\ req \in Requests BY <1>1 DEF Inv, Handling
  <2>2. IsBuilt(tables.app) /\ tables = Tables(tables.app) BY <2>1 DEF Inv, TablesBuilt
  <2>3. PICK a : a = tables.app OBVIOUS
  <2>4. IsAim(a, req, Target) BY <2>1, <2>2, <2>3, TargetIsAim
  <2>5. IsAim(tables.app, req, target)' BY <1>1, <2>3, <2>4
  <2> QED BY <2>5 DEF Aimed
<1>5. Admitted' BY <1>1 DEF Admitted
<1>6. ran = None BY <1>1 DEF Inv, RanAsCalled
<1>7. RanAsCalled' BY <1>1, <1>6 DEF RanAsCalled
<1>8. ClosedAsKept'
  <2>1. guards' \in Seq(STRING) BY <1>1 DEF Inv, ClosedAsKept
  <2>2. at' # "answered" BY <1>1
  <2> QED BY <2>1, <2>2 DEF ClosedAsKept
<1> QED BY <1>2, <1>3, <1>4, <1>5, <1>7, <1>8 DEF Inv

(* Steps between two stages of a request that is on its way.               *)
LEMMA StageKeeps ==
  ASSUME Inv, at \in {"limit", "before", "call"}, at' \in {"before", "call", "after"},
         app' = app, tables' = tables, req' = req, target' = target,
         Admitted', RanAsCalled', guards' \in Seq(STRING)
  PROVE  Inv'
<1>1. TablesBuilt' BY KeepsTables DEF Inv
<1>2. Handling'
  <2>1. Handling /\ at # "idle" BY DEF Inv
  <2> QED BY <2>1, KeepsHandling
<1>3. Aimed'
  <2>1. Aimed /\ at \in {"limit", "before", "call", "after"} BY DEF Inv
  <2>2. IsAim(tables.app, req, target)' BY <2>1, KeepsAim
  <2> QED BY <2>2 DEF Aimed
<1>4. ClosedAsKept' BY DEF ClosedAsKept
<1> QED BY <1>1, <1>2, <1>3, <1>4 DEF Inv

LEMMA LimitKeeps ==
  ASSUME Inv, Limit
  PROVE  Inv'
<1>1. /\ at = "limit" /\ app' = app /\ tables' = tables /\ req' = req /\ target' = target
      /\ guards' = guards /\ ran' = ran
  BY DEF Limit
<1>2. HasHandler
  <2>1. target.kind \in {"ordinary", "ws", "sse", "_api"} /\ (target.kind = "_api" => ApiFound)
    BY DEF Limit
  <2> QED BY <2>1 DEF HasHandler
<1>3. checked' = Policy BY Zenon DEF Limit, Policy
<1>4. at' = "before" \/ (at' = "answered" /\ resp'.by = "server")
  <2>1. at' = "before" \/ Answer(429, "server", FALSE) BY Zenon DEF Limit
  <2>2. Answer(429, "server", FALSE) => at' = "answered" /\ resp'.by = "server" BY DEF Answer
  <2> QED BY <2>1, <2>2
<1>5. guards' \in Seq(STRING) BY <1>1 DEF Inv, ClosedAsKept
<1>6. ran = None BY <1>1 DEF Inv, RanAsCalled
<1>7. RanAsCalled' BY <1>1, <1>6 DEF RanAsCalled
<1>8. Policy' = Policy /\ HasHandler' BY <1>1, <1>2, Unchanged
<1>9. Admitted' BY <1>3, <1>8 DEF Admitted
<1>10. CASE at' = "before"
  <2>1. at \in {"limit", "before", "call"} /\ at' \in {"before", "call", "after"} BY <1>1, <1>10
  <2> QED BY <1>1, <1>5, <1>7, <1>9, <2>1, StageKeeps
<1>11. CASE at' = "answered" /\ resp'.by = "server"
  <2>1. TablesBuilt' BY <1>1, KeepsTables DEF Inv
  <2>2. Handling'
    <3>1. Handling /\ at # "idle" BY <1>1 DEF Inv
    <3> QED BY <1>1, <3>1, KeepsHandling
  <2>3. Aimed'
    <3>1. Aimed /\ at \in {"limit", "before", "call", "after"} BY <1>1 DEF Inv
    <3>2. IsAim(tables.app, req, target)' BY <1>1, <3>1, KeepsAim
    <3> QED BY <3>2 DEF Aimed
  <2>4. ClosedAsKept'
    <3>1. resp'.by # "handler" BY <1>11
    <3> QED BY <1>5, <3>1 DEF ClosedAsKept
  <2> QED BY <1>7, <1>9, <2>1, <2>2, <2>3, <2>4 DEF Inv
<1> QED BY <1>4, <1>10, <1>11

(* Hooks are a sequence of names.                                          *)
LEMMA HooksAre ==
  ASSUME tables # None, TablesBuilt
  PROVE  Hooks \in Seq(STRING)
<1>1. PICK a : a = tables.app OBVIOUS
<1>2. IsBuilt(a) /\ tables = Tables(a) BY <1>1 DEF TablesBuilt
<1>3. a.services \in Seq(ServiceRecords) /\ a.routes \in Seq(RouteRecords) BY <1>2, AppIs DEF IsBuilt
<1>4. tables.byId = HandlerHooks(a) /\ tables.byKey = NamedHooks(a) BY <1>2, TablesAre
<1>5. \A id : Kept(HandlerHooks(a), id) \in Seq(STRING) BY <1>3, HandlerHooksAre
<1>6. \A key : Kept(NamedHooks(a), key) \in Seq(STRING) BY <1>3, NamedHooksAre
<1> QED BY <1>4, <1>5, <1>6, Zenon DEF Hooks

LEMMA BeforeKeeps ==
  ASSUME Inv, Before
  PROVE  Inv'
<1>1. /\ at = "before" /\ at' = "call" /\ app' = app /\ tables' = tables /\ req' = req
      /\ target' = target /\ ran' = ran /\ checked' = checked
  BY DEF Before
<1>2. PICK kept \in SUBSET DOMAIN Hooks : guards' = Pick(Hooks, kept) BY DEF Before
<1>3. tables # None /\ TablesBuilt BY <1>1 DEF Inv, Handling
<1>4. PICK hooks \in Seq(STRING) : hooks = Hooks BY <1>3, HooksAre
<1>5. kept \in SUBSET (1 .. Len(hooks)) BY <1>2, <1>4
<1>6. guards' \in Seq(STRING) BY <1>2, <1>4, <1>5, PickIs
<1>7. ran = None BY <1>1 DEF Inv, RanAsCalled
<1>8. RanAsCalled' BY <1>1, <1>7 DEF RanAsCalled
<1>9. Admitted'
  <2>1. HasHandler /\ checked = Policy BY <1>1 DEF Inv, Admitted
  <2>2. HasHandler' /\ checked' = Policy' BY <1>1, <2>1, Unchanged
  <2> QED BY <2>2 DEF Admitted
<1>10. at \in {"limit", "before", "call"} /\ at' \in {"before", "call", "after"} BY <1>1
<1> QED BY <1>1, <1>6, <1>8, <1>9, <1>10, StageKeeps

LEMMA CallKeeps ==
  ASSUME Inv, Call
  PROVE  Inv'
<1>1. /\ at = "call" /\ at' = "after" /\ app' = app /\ tables' = tables /\ req' = req
      /\ target' = target /\ guards' = guards /\ checked' = checked
  BY DEF Call
<1>2. ran' = Called \/ ran' = None BY DEF Call
<1>3. guards' \in Seq(STRING) BY <1>1 DEF Inv, ClosedAsKept
<1>4. HasHandler /\ checked = Policy BY <1>1 DEF Inv, Admitted
<1>5. HasHandler' /\ checked' = Policy' /\ Called' = Called BY <1>1, <1>4, Unchanged
<1>6. Admitted' BY <1>5 DEF Admitted
<1>7. IsAim(tables.app, req, target)'
  <2>1. Aimed /\ at \in {"limit", "before", "call", "after"} BY <1>1 DEF Inv
  <2> QED BY <1>1, <2>1, KeepsAim
<1>8. RanAsCalled' BY <1>1, <1>2, <1>5, <1>7 DEF RanAsCalled
<1>9. at \in {"limit", "before", "call"} /\ at' \in {"before", "call", "after"} BY <1>1
<1> QED BY <1>1, <1>3, <1>6, <1>8, <1>9, StageKeeps

LEMMA AfterKeeps ==
  ASSUME Inv, After
  PROVE  Inv'
<1>1. /\ at = "after" /\ at' = "answered" /\ app' = app /\ tables' = tables /\ req' = req
      /\ target' = target /\ guards' = guards /\ ran' = ran /\ checked' = checked
  BY DEF After, Answer
<1>2. TablesBuilt' BY <1>1, KeepsTables DEF Inv
<1>3. Handling'
  <2>1. Handling /\ at # "idle" BY <1>1 DEF Inv
  <2> QED BY <1>1, <2>1, KeepsHandling
<1>4. IsAim(tables.app, req, target)'
  <2>1. Aimed /\ at \in {"limit", "before", "call", "after"} BY <1>1 DEF Inv
  <2> QED BY <1>1, <2>1, KeepsAim
<1>5. Aimed' BY <1>4 DEF Aimed
<1>6. Admitted' BY <1>1 DEF Admitted
<1>7. RanAsCalled'
  <2>1. HasHandler /\ checked = Policy BY <1>1 DEF Inv, Admitted
  <2>2. HasHandler' /\ checked' = Policy' /\ Called' = Called BY <1>1, <2>1, Unchanged
  <2>3. ran # None => ran = Called BY DEF Inv, RanAsCalled
  <2> QED BY <1>1, <1>4, <2>2, <2>3 DEF RanAsCalled
<1>8. ClosedAsKept'
  <2>1. guards' \in Seq(STRING) BY <1>1 DEF Inv, ClosedAsKept
  <2>2. ToClose' = ToClose BY <1>1 DEF ToClose
  <2>3. closed' = [i \in DOMAIN ToClose |-> [hook |-> ToClose[i], told |-> resp.by]]
    BY DEF After, Map
  <2>4. PICK told : told = resp.by OBVIOUS
  <2>5. closed' = [i \in DOMAIN ToClose' |-> [hook |-> ToClose'[i], told |-> told]]
    BY <2>2, <2>3, <2>4, Zenon
  <2> QED BY <2>1, <2>5 DEF ClosedAsKept
<1> QED BY <1>2, <1>3, <1>5, <1>6, <1>7, <1>8 DEF Inv

LEMMA DoneKeeps ==
  ASSUME Inv, Done
  PROVE  Inv'
<1>1. /\ at' = "idle" /\ app' = app /\ tables' = tables /\ guards' = <<>> /\ ran' = None
  BY DEF Done
<1>2. TablesBuilt' BY <1>1, KeepsTables DEF Inv
<1>3. Handling' /\ Aimed' /\ Admitted' BY <1>1 DEF Handling, Aimed, Admitted
<1>4. RanAsCalled' BY <1>1 DEF RanAsCalled
<1>5. ClosedAsKept'
  <2>1. guards' \in Seq(STRING) BY <1>1, EmptySeqIs
  <2>2. at' # "answered" BY <1>1
  <2> QED BY <2>1, <2>2 DEF ClosedAsKept
<1> QED BY <1>2, <1>3, <1>4, <1>5 DEF Inv

(* What a request is refused with before a handler, or answered with       *)
(* without one.                                                            *)
LEMMA RefusedIs ==
  ASSUME ApiRefused \/ WsRefused \/ Builtin
  PROVE  at \in {"limit", "before"} /\ \E s : Refuse(s)
<1>1. CASE ApiRefused BY <1>1, ZenonT(60) DEF ApiRefused
<1>2. CASE WsRefused BY <1>2, ZenonT(60) DEF WsRefused
<1>3. CASE Code BY <1>3, ZenonT(60) DEF Code
<1>4. CASE Doc BY <1>4, ZenonT(60) DEF Doc
<1>5. CASE Upgrade BY <1>5, ZenonT(60) DEF Upgrade
<1>6. CASE NotFound BY <1>6, ZenonT(60) DEF NotFound
<1> QED BY <1>1, <1>2, <1>3, <1>4, <1>5, <1>6 DEF Builtin

LEMMA StepHolds == Inv /\ [Next]_vars => Inv'
<1> SUFFICES ASSUME Inv, [Next]_vars PROVE Inv' OBVIOUS
<1>1. ASSUME NEW svc \in Services, Add(svc) PROVE Inv' BY <1>1, AddKeeps
<1>2. CASE Run BY <1>2, RunKeeps
<1>3. ASSUME NEW r \in Requests, Receive(r) PROVE Inv' BY <1>3, ReceiveKeeps
<1>4. CASE Preflight BY <1>4, PreflightKeeps
<1>5. CASE Dispatch BY <1>5, DispatchKeeps
<1>6. CASE ApiRefused \/ WsRefused \/ Builtin BY <1>6, RefusedIs, RefuseKeeps
<1>7. CASE Limit BY <1>7, LimitKeeps
<1>8. CASE Before BY <1>8, BeforeKeeps
<1>9. CASE Call BY <1>9, CallKeeps
<1>10. CASE After BY <1>10, AfterKeeps
<1>11. CASE Done BY <1>11, DoneKeeps
<1>12. CASE UNCHANGED vars
  <2>1. /\ app' = app /\ tables' = tables /\ req' = req /\ at' = at /\ target' = target
        /\ guards' = guards /\ ran' = ran /\ checked' = checked /\ closed' = closed /\ resp' = resp
    BY <1>12 DEF vars
  <2>2. TablesBuilt' BY <2>1, KeepsTables DEF Inv
  <2>3. Handling' BY <2>1 DEF Inv, Handling
  <2>4. /\ Policy' = Policy /\ Called' = Called /\ (HasHandler' <=> HasHandler)
        /\ IsAim(tables.app, req, target)' <=> IsAim(tables.app, req, target)
    BY <2>1, Unchanged
  <2>5. Aimed' BY <2>1, <2>4 DEF Inv, Aimed, Preflighted
  <2>6. Admitted' /\ RanAsCalled' BY <2>1, <2>4 DEF Inv, Admitted, RanAsCalled
  <2>7. ToClose' = ToClose BY <2>1 DEF ToClose
  <2>8. ClosedAsKept' BY <2>1, <2>7 DEF Inv, ClosedAsKept
  <2> QED BY <2>2, <2>3, <2>5, <2>6, <2>8 DEF Inv
<1> QED
  BY <1>1, <1>2, <1>3, <1>4, <1>5, <1>6, <1>7, <1>8, <1>9, <1>10, <1>11, <1>12 DEF Next, Handled

(* Inv is an inductive invariant of dispatch.                              *)
THEOREM Inductive == Spec => []Inv
<1> QED BY InitHolds, StepHolds, PTL DEF Spec

-----------------------------------------------------------------------------
(* The properties of dispatch.                                             *)

(* A request is sent to the best of all routes that match, the last of     *)
(* equal ones, with the path parameters of that route alone, or to nothing *)
(* when none matches (http.rs, ordinary.rs).                               *)
THEOREM Routing == Spec => []RoutedToBest
<1>1. Inv => RoutedToBest
  <2> SUFFICES ASSUME Inv, Routed PROVE RoutedToBest BY DEF RoutedToBest
  <2>1. IsAim(tables.app, req, target) BY Zenon DEF Inv, Aimed, Routed, Preflighted, Stages
  <2>2. ToTheBest(tables.app, req, target) BY <2>1 DEF IsAim
  <2> QED BY <2>2, Zenon DEF RoutedToBest, ToTheBest, Ordinaries
<1> QED BY <1>1, Inductive, PTL

(* A built-in path is served by the framework unless an ordinary route     *)
(* claims its first segment by more than a catch-all, or a WebSocket or SSE*)
(* route, which is asked first, by anything (http.rs).                     *)
THEOREM BuiltinsAreReached == Spec => []BuiltinReachable
<1>1. Inv => BuiltinReachable
  <2> SUFFICES ASSUME Inv, Routed PROVE BuiltinReachable BY DEF BuiltinReachable
  <2>1. IsAim(tables.app, req, target) BY Zenon DEF Inv, Aimed, Routed, Preflighted, Stages
  <2>2. ToTheBuiltin(tables.app, req, target) BY <2>1 DEF IsAim
  <2> QED BY <2>2, Zenon DEF BuiltinReachable, ToTheBuiltin, Ordinaries
<1> QED BY <1>1, Inductive, PTL

(* Each guard that a hook returned is told of the outcome once, and those  *)
(* of binary handlers in reverse order (http.rs, app/mod.rs).              *)
THEOREM GuardsAreTold == Spec => []GuardsPaired
<1>1. Inv => GuardsPaired
  <2> SUFFICES ASSUME Inv, at = "answered", target.kind \in {"ordinary", "_api"}, resp.by = "handler"
               PROVE  /\ Len(closed) = Len(guards)
                      /\ \A i \in DOMAIN guards :
                           /\ \E j \in DOMAIN closed : closed[j].hook = guards[i]
                           /\ target.kind = "_api" => closed[Len(guards) + 1 - i].hook = guards[i]
    BY DEF GuardsPaired
  <2>1. PICK told : closed = [i \in DOMAIN ToClose |-> [hook |-> ToClose[i], told |-> told]]
    BY DEF Inv, ClosedAsKept
  <2>2. PICK g \in Seq(STRING) : g = guards BY DEF Inv, ClosedAsKept
  <2>3. PICK n \in Nat : n = Len(g) OBVIOUS
  <2>4. PICK c : c = ToClose OBVIOUS
  <2>5. DOMAIN closed = DOMAIN c /\ \A i \in DOMAIN c : closed[i].hook = c[i] BY <2>1, <2>4
  <2>6. DOMAIN c = 1 .. n => Len(closed) = n
    <3> SUFFICES ASSUME DOMAIN c = 1 .. n PROVE Len(closed) = n OBVIOUS
    <3>1. closed = [i \in 1 .. n |-> [hook |-> c[i], told |-> told]] BY <2>1, <2>4
    <3> QED BY <3>1
  <2>7. CASE target.kind = "_api"
    <3>1. c = [i \in 1 .. n |-> g[(n - i) + 1]] BY <2>2, <2>3, <2>4, <2>7 DEF ToClose, Reverse
    <3>2. ASSUME NEW i \in 1 .. n PROVE n + 1 - i \in 1 .. n /\ c[n + 1 - i] = g[i]
      <4>1. PICK j \in 1 .. n : j = n + 1 - i OBVIOUS
      <4>2. (n - j) + 1 = i BY <4>1
      <4>3. c[j] = g[(n - j) + 1] BY <3>1
      <4> QED BY <4>1, <4>2, <4>3
    <3>3. DOMAIN c = 1 .. n BY <3>1
    <3>4. \A i \in 1 .. n : n + 1 - i \in DOMAIN closed /\ closed[n + 1 - i].hook = g[i]
      BY <2>5, <3>2, <3>3
    <3>5. DOMAIN g = 1 .. n BY <2>3
    <3> QED BY <2>2, <2>3, <2>6, <3>3, <3>4, <3>5
  <2>8. CASE target.kind = "ordinary"
    <3>1. c = g BY <2>2, <2>4, <2>8 DEF ToClose
    <3>2. DOMAIN g = 1 .. n BY <2>3
    <3>3. \A i \in 1 .. n : i \in DOMAIN closed /\ closed[i].hook = g[i] BY <2>5, <3>1, <3>2
    <3>4. Len(closed) = n BY <2>6, <3>1, <3>2
    <3>5. target.kind # "_api" BY <2>8
    <3> QED BY <2>2, <2>3, <3>2, <3>3, <3>4, <3>5
  <2> QED BY <2>7, <2>8
<1> QED BY <1>1, Inductive, PTL

(* The handler of a request that has one: a leaf of a service, or a        *)
(* WebSocket or SSE route, which has no policy.                            *)
LEMMA CalledIs ==
  ASSUME NEW a, a = tables.app, IsBuilt(a), HasHandler, ToARoute(a, target), NEW leaf, leaf = Called
  PROVE  \/ /\ target.kind \in {"ordinary", "_api"}
            /\ \E svc \in Range(a.services) : leaf \in Range(svc.leaves)
         \/ leaf.policy = None
<1>1. a \in Apps BY DEF IsBuilt
<1>2. /\ a.routes \in Seq(RouteRecords) /\ a.ws \in Seq(SocketRecords) /\ a.sse \in Seq(SocketRecords)
  BY <1>1, AppIs
<1>3. CASE target.kind = "_api"
  <2>1. req.body \in DOMAIN a.table BY <1>3 DEF HasHandler, ApiFound
  <2>2. leaf = a.table[req.body] BY <1>3, Zenon DEF Called
  <2>3. \E svc \in Range(a.services) : leaf \in Range(svc.leaves) BY <2>1, <2>2, Zenon DEF IsBuilt
  <2> QED BY <1>3, <2>3
<1>4. CASE target.kind = "ordinary"
  <2>1. PICK i : i = target.route OBVIOUS
  <2>2. i \in DOMAIN a.routes BY <1>4, <2>1 DEF ToARoute
  <2>3. target.kind # "_api" BY <1>4
  <2>4. leaf = a.routes[i].of BY <1>4, <2>1, <2>3, Zenon DEF Called, Found
  <2>5. PICK r : r = a.routes[i] OBVIOUS
  <2>6. r \in Range(a.routes) BY <2>2, <2>5 DEF Range
  <2>7. \E svc \in Range(a.services) : r.of \in Range(svc.leaves) BY <2>6, Zenon DEF IsBuilt
  <2>8. \E svc \in Range(a.services) : leaf \in Range(svc.leaves) BY <2>4, <2>5, <2>7, Zenon
  <2> QED BY <1>4, <2>8
<1>5. CASE target.kind \in {"sse", "ws"}
  <2>1. PICK s \in Seq(SocketRecords) : s = IF target.kind = "sse" THEN a.sse ELSE a.ws BY <1>2
  <2>2. PICK i : i = target.route OBVIOUS
  <2>3. i \in DOMAIN s BY <1>5, <2>1, <2>2 DEF ToARoute
  <2>4. target.kind # "_api" /\ target.kind # "ordinary" BY <1>5
  <2>5. leaf = s[i].of BY <2>1, <2>2, <2>4, Zenon DEF Called, Found
  <2>6. s[i] \in SocketRecords BY <2>3
  <2>7. leaf \in Sockets
    <3>1. PICK x \in SocketRecords : x = s[i] BY <2>6
    <3>2. x.of \in Sockets BY DEF SocketRecords
    <3> QED BY <2>5, <3>1, <3>2, Zenon
  <2>8. leaf.policy = None BY <2>7 DEF Sockets
  <2> QED BY <2>8
<1> QED BY <1>3, <1>4, <1>5 DEF HasHandler

(* A handler with a rate limit of its own never runs unchecked, whichever  *)
(* way it was reached (http.rs, app/mod.rs).                               *)
THEOREM LimitsAreChecked == Spec => []LimitedBeforeRun
<1>1. Inv => LimitedBeforeRun
  <2> SUFFICES ASSUME Inv, ran # None, ran.policy # None, TopLevel(ran),
                      \A svc \in Range(tables.app.services) : \A leaf \in Range(svc.leaves) :
                        leaf.fn = ran.fn => leaf.policy \in {None, ran.policy}
               PROVE  checked = ran.policy
    BY Zenon DEF LimitedBeforeRun
  <2>1. /\ HasHandler /\ checked = Policy /\ ran = Called /\ IsAim(tables.app, req, target)
        /\ at # "idle"
    BY DEF Inv, RanAsCalled
  <2>2. PICK a : a = tables.app OBVIOUS
  <2>3. IsBuilt(a) /\ tables = Tables(a)
    <3>1. tables # None BY <2>1 DEF Inv, Handling
    <3> QED BY <2>2, <3>1 DEF Inv, TablesBuilt
  <2>4. ToARoute(a, target) BY <2>1, <2>2 DEF IsAim
  <2>5. PICK leaf : leaf = Called OBVIOUS
  <2>6. ran = leaf /\ leaf.policy # None BY <2>1, <2>5
  <2>7. /\ target.kind \in {"ordinary", "_api"}
        /\ \E svc \in Range(a.services) : leaf \in Range(svc.leaves)
    BY <2>1, <2>2, <2>3, <2>4, <2>5, <2>6, CalledIs
  <2>8. PICK svc \in Range(a.services) : leaf \in Range(svc.leaves) BY <2>7
  <2>9. a.services \in Seq(ServiceRecords) BY <2>3, AppIs DEF IsBuilt
  <2>10. Limited(leaf) BY <2>6, Zenon DEF Limited
  <2>11. \A s \in Range(a.services) : \A l \in Range(s.leaves) :
           l.fn = leaf.fn => l.policy \in {None, leaf.policy}
    BY <2>2, <2>6, Zenon
  <2>12. Lookup(Policies(a), leaf.fn) = leaf.policy BY <2>8, <2>9, <2>10, <2>11, PoliciesAre
  <2>13. tables.policies = Policies(a) BY <2>3, TablesAre
  <2>14. LimitApplies BY <2>7 DEF LimitApplies
  <2>15. Policy = Lookup(Policies(a), leaf.fn) BY <2>5, <2>13, <2>14, Zenon DEF Policy
  <2> QED BY <2>1, <2>6, <2>12, <2>15, Zenon
<1> QED BY <1>1, Inductive, PTL

(* A route that is alone on its path adds the hooks of its service once.   *)
LEMMA AddedOnce ==
  ASSUME NEW a, a = tables.app, IsBuilt(a), HasHandler, ToARoute(a, target), target.kind # "_api",
         NEW svc \in Range(a.services), NEW p, p = Found.pattern, Found.service = svc.name,
         AloneAt(svc, p)
  PROVE  Adds(a, svc, p) = 1
<1>1. a.services \in Seq(ServiceRecords) BY AppIs DEF IsBuilt
<1>2. svc \in ServiceRecords BY <1>1, RangeIs
<1>3. PICK c \in Nat : c = Cardinality(SocketsOf(svc, p)) BY <1>2, AddsIs
<1>4. Adds(a, svc, p) = (IF OrdinaryOf(a, svc, p) # {} THEN 1 ELSE 0) + c BY <1>3, Zenon DEF Adds
<1>5. CASE target.kind = "ordinary"
  <2>1. PICK i : i = target.route OBVIOUS
  <2>2. i \in DOMAIN a.routes BY <1>5, <2>1 DEF ToARoute
  <2>3. Found = a.routes[i] BY <1>5, <2>1, Zenon DEF Found
  <2>4. i \in OrdinaryOf(a, svc, p) BY <2>2, <2>3 DEF OrdinaryOf
  <2>5. SocketsOf(svc, p) = {} BY <1>5, Zenon DEF AloneAt
  <2>6. c = 0 BY <1>2, <1>3, <2>5, AddsIs, Zenon
  <2>7. OrdinaryOf(a, svc, p) # {} BY <2>4, Zenon
  <2> QED BY <1>4, <2>6, <2>7
<1>6. CASE target.kind # "ordinary"
  <2>1. OrdinaryOf(a, svc, p) = {} /\ c = 1 BY <1>3, <1>6, Zenon DEF AloneAt
  <2> QED BY <1>4, <2>1
<1> QED BY <1>5, <1>6

(* The hooks a handler of a service with a name runs under are the global  *)
(* ones and those of that service, each once (app/mod.rs).                 *)
THEOREM HooksRun == Spec => []HooksRunOnce
<1>1. Inv => HooksRunOnce
  <2> SUFFICES ASSUME Inv, at = "call", NEW svc \in Range(tables.app.services), svc.name # "",
                      IF target.kind = "_api" THEN req.body[1] = svc.name
                      ELSE Found.service = svc.name /\ AloneAt(svc, Found.pattern)
               PROVE  Hooks = HooksOf(svc)
    BY Zenon DEF HooksRunOnce
  <2>1. HasHandler BY DEF Inv, Admitted
  <2>2. PICK a : a = tables.app OBVIOUS
  <2>3. IsBuilt(a) /\ tables = Tables(a)
    <3>1. tables # None BY DEF Inv, Handling
    <3> QED BY <2>2, <3>1 DEF Inv, TablesBuilt
  <2>4. ToARoute(a, target)
    <3>1. at \notin {"idle", "route"} /\ at # "answered" OBVIOUS
    <3>2. IsAim(tables.app, req, target) BY <3>1, Zenon DEF Inv, Aimed
    <3> QED BY <2>2, <3>2 DEF IsAim
  <2>5. a.services \in Seq(ServiceRecords) /\ a.routes \in Seq(RouteRecords) /\ NamesDiffer(a.services)
    BY <2>3, AppIs DEF IsBuilt
  <2>6. tables.byId = HandlerHooks(a) /\ tables.byKey = NamedHooks(a) BY <2>3, TablesAre
  <2>7. CASE target.kind = "_api"
    <3>1. PICK id : id = req.body OBVIOUS
    <3>2. id \in DOMAIN a.table BY <2>1, <2>2, <2>7, <3>1 DEF HasHandler, ApiFound
    <3>3. \E s \in Range(a.services) : id \in BinaryIds(s) BY <2>3, <3>2, Zenon DEF IsBuilt
    <3>4. id[1] = svc.name BY <2>7, <3>1
    <3>5. svc \in Range(a.services) BY <2>2
    <3>6. Kept(HandlerHooks(a), id) = HooksOf(svc)
      BY <2>5, <3>3, <3>4, <3>5, HandlerHooksAre
    <3> QED BY <2>6, <2>7, <3>1, <3>6, Zenon DEF Hooks
  <2>8. CASE target.kind # "_api"
    <3>1. PICK p : p = Found.pattern OBVIOUS
    <3>2. Found.service = svc.name /\ AloneAt(svc, p) BY <2>8, <3>1
    <3>3. svc \in Range(a.services) BY <2>2
    <3>4. Adds(a, svc, p) = 1 BY <2>1, <2>2, <2>3, <2>4, <2>8, <3>1, <3>2, <3>3, AddedOnce
    <3>5. PICK key : key = Key(svc.name, p) OBVIOUS
    <3>6. Kept(NamedHooks(a), key) = HooksOf(svc) BY <2>5, <3>3, <3>4, <3>5, NamedHooksAre
    <3>7. Hooks = Kept(tables.byKey, key) BY <2>8, <3>1, <3>2, <3>5, Zenon DEF Hooks
    <3> QED BY <2>6, <3>6, <3>7, Zenon
  <2> QED BY <2>7, <2>8
<1> QED BY <1>1, Inductive, PTL
=============================================================================
