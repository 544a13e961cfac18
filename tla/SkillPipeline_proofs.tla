------------------------ MODULE SkillPipeline_proofs ------------------------
(***************************************************************************)
(* The path the motion planner returns is safe, for every set of           *)
(* configurations, every straight line between them and every query; and   *)
(* what the pipeline makes of it moves the items only where a plan says,   *)
(* never two of them to one slot, and all of them if it is a success.      *)
(***************************************************************************)
EXTENDS SkillPipeline, TLAPS, WellFoundedInduction, SequenceTheorems, FiniteSetTheorems

\* p leads from a to b, without a jump and clear of B.
Route(p, a, b, B) ==
    /\ p \in Seq(Configs) /\ p # <<>>
    /\ p[1] = a /\ p[Len(p)] = b
    /\ \A i \in 1..Len(p) : p[i] \notin B
    /\ LinksUp(p)

\* A node of the tree with that root: only the root itself may collide.
Branch(n, root, B) ==
    /\ n \in Seq(Configs) /\ n # <<>>
    /\ n[1] = root
    /\ LinksUp(n)
    /\ n = <<root>> \/ \A i \in 1..Len(n) : n[i] \notin B

-----------------------------------------------------------------------------
(* Lines, and what becomes of paths that are cut, joined and reversed.     *)

LEMMA LinksAreSymmetric ==
    ASSUME NEW a, NEW b, <<a, b>> \in Links
    PROVE  <<b, a>> \in Links
<1>1. CASE <<a, b>> \in LineLinks
  <2>1. <<<<a, b>>[2], <<a, b>>[1]>> \in Links
    BY <1>1 DEF Links
  <2>2. QED
    BY <2>1
<1>2. CASE <<a, b>> \in {<<xy[2], xy[1]>> : xy \in LineLinks}
  <2>1. PICK xy \in LineLinks : <<a, b>> = <<xy[2], xy[1]>>
    BY <1>2
  <2>2. xy = <<xy[1], xy[2]>>
    BY <2>1 DEF LineLinks
  <2>3. QED
    BY <2>1, <2>2 DEF Links
<1>3. CASE <<a, b>> \in {<<c, c>> : c \in Configs}
  BY <1>3 DEF Links
<1>4. QED
  BY <1>1, <1>2, <1>3 DEF Links

LEMMA LinksOfLine ==
    ASSUME NEW a \in Configs, NEW b \in Configs
    PROVE  /\ extend_ee_l2(a, b) \in Seq(Configs)
           /\ LinksUp(extend_ee_l2(a, b))
           /\ extend_ee_l2(a, b) = <<>> => a = b
           /\ extend_ee_l2(a, b) # <<>> =>
                 extend_ee_l2(a, b)[1] = a /\ extend_ee_l2(a, b)[Len(extend_ee_l2(a, b))] = b
<1>1. extend_ee_l2(a, b) = Extend[<<a, b>>] /\ <<a, b>> \in Configs \X Configs
  BY DEF extend_ee_l2
<1>2. extend_ee_l2(a, b) \in Seq(Configs)
  BY <1>1, MotionAssumption
<1>3. LinksUp(extend_ee_l2(a, b))
  BY <1>1 DEF LinksUp, Links, LineLinks
<1>4. QED
  BY <1>2, <1>3, MotionAssumption DEF Last

LEMMA LinksOfConcat ==
    ASSUME NEW p \in Seq(Configs), NEW q \in Seq(Configs),
           LinksUp(p), LinksUp(q),
           p = <<>> \/ q = <<>> \/ <<p[Len(p)], q[1]>> \in Links
    PROVE  LinksUp(p \o q)
<1> SUFFICES ASSUME NEW i \in 1..(Len(p \o q) - 1)
             PROVE  <<(p \o q)[i], (p \o q)[i + 1]>> \in Links
  BY DEF LinksUp
<1>1. CASE i < Len(p)
  <2>1. (p \o q)[i] = p[i] /\ (p \o q)[i + 1] = p[i + 1] /\ i \in 1..(Len(p) - 1)
    BY <1>1
  <2>2. QED
    BY <2>1 DEF LinksUp
<1>2. CASE i = Len(p)
  <2>1. (p \o q)[i] = p[Len(p)] /\ (p \o q)[i + 1] = q[1] /\ p # <<>> /\ q # <<>>
    BY <1>2
  <2>2. QED
    BY <2>1
<1>3. CASE i > Len(p)
  <2>1. /\ (p \o q)[i] = q[i - Len(p)] /\ (p \o q)[i + 1] = q[(i - Len(p)) + 1]
        /\ i - Len(p) \in 1..(Len(q) - 1)
    BY <1>3
  <2>2. QED
    BY <2>1 DEF LinksUp
<1>4. i \in Int /\ Len(p) \in Int
  OBVIOUS
<1>5. i < Len(p) \/ i = Len(p) \/ i > Len(p)
  BY <1>4
<1>6. QED
  BY <1>1, <1>2, <1>3, <1>5, Zenon

LEMMA LinksOfSubSeq ==
    ASSUME NEW p \in Seq(Configs), LinksUp(p),
           NEW m \in 1..(Len(p) + 1), NEW n \in 0..Len(p)
    PROVE  /\ SubSeq(p, m, n) \in Seq(Configs)
           /\ LinksUp(SubSeq(p, m, n))
<1>1. SubSeq(p, m, n) \in Seq(Configs)
  OBVIOUS
<1>2. ASSUME NEW i \in 1..(Len(SubSeq(p, m, n)) - 1)
      PROVE  <<SubSeq(p, m, n)[i], SubSeq(p, m, n)[i + 1]>> \in Links
  <2>1. /\ SubSeq(p, m, n)[i] = p[m + i - 1] /\ SubSeq(p, m, n)[i + 1] = p[(m + i - 1) + 1]
        /\ m + i - 1 \in 1..(Len(p) - 1)
    OBVIOUS
  <2>2. QED
    BY <2>1 DEF LinksUp
<1>3. QED
  BY <1>1, <1>2 DEF LinksUp

LEMMA LinksOfReverse ==
    ASSUME NEW p \in Seq(Configs), LinksUp(p)
    PROVE  /\ Reverse(p) \in Seq(Configs) /\ Len(Reverse(p)) = Len(p)
           /\ \A i \in 1..Len(p) : Reverse(p)[i] = p[(Len(p) - i) + 1]
           /\ LinksUp(Reverse(p))
<1>1. Reverse(p) \in Seq(Configs) /\ Len(Reverse(p)) = Len(p)
  BY DEF Reverse
<1>2. \A i \in 1..Len(p) : Reverse(p)[i] = p[(Len(p) - i) + 1]
  BY DEF Reverse
<1>3. ASSUME NEW i \in 1..(Len(Reverse(p)) - 1)
      PROVE  <<Reverse(p)[i], Reverse(p)[i + 1]>> \in Links
  <2>1. /\ Len(p) - i \in 1..(Len(p) - 1)
        /\ Reverse(p)[i] = p[(Len(p) - i) + 1] /\ Reverse(p)[i + 1] = p[Len(p) - i]
    BY <1>1, <1>2
  <2>2. <<p[Len(p) - i], p[(Len(p) - i) + 1]>> \in Links
    BY <2>1 DEF LinksUp
  <2>3. QED
    BY <2>1, <2>2, LinksAreSymmetric
<1>4. QED
  BY <1>1, <1>2, <1>3 DEF LinksUp

\* Two paths of which the second starts next to where the first ends.
LEMMA RoutesLink ==
    ASSUME NEW a, NEW b, NEW c, NEW d, NEW B, NEW p, NEW q,
           Route(p, a, b, B), Route(q, c, d, B), <<b, c>> \in Links
    PROVE  Route(p \o q, a, d, B)
<1>1. p \in Seq(Configs) /\ q \in Seq(Configs) /\ p # <<>> /\ q # <<>>
  BY DEF Route
<1>2. LinksUp(p \o q)
  BY <1>1, LinksOfConcat DEF Route
<1>3. /\ p \o q \in Seq(Configs) /\ p \o q # <<>>
      /\ (p \o q)[1] = a /\ (p \o q)[Len(p \o q)] = d
  BY <1>1 DEF Route
<1>4. \A i \in 1..Len(p \o q) : (p \o q)[i] \notin B
  <2> SUFFICES ASSUME NEW i \in 1..Len(p \o q) PROVE (p \o q)[i] \notin B
    OBVIOUS
  <2>1. CASE i \in 1..Len(p)
    BY <1>1, <2>1 DEF Route
  <2>2. CASE i > Len(p)
    <3>1. (p \o q)[i] = q[i - Len(p)] /\ i - Len(p) \in 1..Len(q)
      BY <1>1, <2>2
    <3>2. QED
      BY <3>1 DEF Route
  <2>3. QED
    BY <1>1, <2>1, <2>2
<1>5. QED
  BY <1>2, <1>3, <1>4 DEF Route

LEMMA StayingIsALink == \A c \in Configs : <<c, c>> \in Links
BY DEF Links

\* Legs follow each other.
LEMMA RoutesJoin ==
    ASSUME NEW a, NEW b, NEW c, NEW B, NEW p, NEW q,
           Route(p, a, b, B), Route(q, b, c, B)
    PROVE  Route(p \o q, a, c, B)
<1>1. b \in Configs
  BY DEF Route
<1>2. QED
  BY <1>1, StayingIsALink, RoutesLink

LEMMA SubSeqIsRoute ==
    ASSUME NEW a, NEW b, NEW B, NEW p, Route(p, a, b, B),
           NEW m \in 1..Len(p), NEW n \in 1..Len(p), m =< n
    PROVE  Route(SubSeq(p, m, n), p[m], p[n], B)
<1> DEFINE s == SubSeq(p, m, n)
<1>1. p \in Seq(Configs) /\ LinksUp(p) /\ \A i \in 1..Len(p) : p[i] \notin B
  BY DEF Route
<1>2. /\ s \in Seq(Configs) /\ Len(s) = (n - m) + 1 /\ Len(s) >= 1
      /\ \A i \in 1..Len(s) : s[i] = p[(m + i) - 1] /\ (m + i) - 1 \in 1..Len(p)
  BY <1>1
<1>3. LinksUp(s)
  BY <1>1, LinksOfSubSeq
<1> HIDE DEF s
<1>4. s # <<>> /\ s[1] = p[m] /\ s[Len(s)] = p[n]
  BY <1>2
<1>5. \A i \in 1..Len(s) : s[i] \notin B
  BY <1>1, <1>2
<1>6. Route(s, p[m], p[n], B)
  BY <1>2, <1>3, <1>4, <1>5 DEF Route
<1>7. QED
  BY <1>6 DEF s

LEMMA ReverseIsRoute ==
    ASSUME NEW a, NEW b, NEW B, NEW p, Route(p, a, b, B)
    PROVE  Route(Reverse(p), b, a, B)
<1> DEFINE r == Reverse(p)
<1>1. /\ p \in Seq(Configs) /\ LinksUp(p) /\ Len(p) >= 1
      /\ p[1] = a /\ p[Len(p)] = b /\ \A i \in 1..Len(p) : p[i] \notin B
  BY DEF Route
<1>2. /\ r \in Seq(Configs) /\ Len(r) = Len(p) /\ LinksUp(r)
      /\ \A i \in 1..Len(p) : r[i] = p[(Len(p) - i) + 1]
  BY <1>1, LinksOfReverse
<1> HIDE DEF r
<1>3. /\ 1 \in 1..Len(p) /\ Len(p) \in 1..Len(p)
      /\ (Len(p) - 1) + 1 = Len(p) /\ (Len(p) - Len(p)) + 1 = 1
  BY <1>1
<1>4. r # <<>> /\ r[1] = b /\ r[Len(r)] = a
  BY <1>1, <1>2, <1>3
<1>5. \A i \in 1..Len(r) : r[i] \notin B
  <2> SUFFICES ASSUME NEW i \in 1..Len(r) PROVE r[i] \notin B
    OBVIOUS
  <2>1. i \in 1..Len(p) /\ (Len(p) - i) + 1 \in 1..Len(p)
    BY <1>1, <1>2
  <2>2. QED
    BY <1>1, <1>2, <2>1
<1>6. Route(r, b, a, B)
  BY <1>2, <1>4, <1>5 DEF Route
<1>7. QED
  BY <1>6 DEF r

\* A line that collides nowhere is a path.
LEMMA LineIsRoute ==
    ASSUME NEW a \in Configs, NEW b \in Configs, NEW B, extend_ee_l2(a, b) # <<>>,
           \A i \in 1..Len(extend_ee_l2(a, b)) : extend_ee_l2(a, b)[i] \notin B
    PROVE  Route(extend_ee_l2(a, b), a, b, B)
BY LinksOfLine DEF Route

-----------------------------------------------------------------------------
(* direct_path and the greedy extension of a tree.                         *)

LEMMA DirectPathIsRoute ==
    ASSUME NEW a \in Configs, NEW b \in Configs, DirectPath(a, b) # <<>>
    PROVE  Route(DirectPath(a, b), a, b, query.blocked)
<1> DEFINE l == extend_ee_l2(a, b)
           B == query.blocked
<1>1. /\ a \notin B /\ b \notin B /\ \A i \in 1..Len(l) : l[i] \notin B
      /\ DirectPath(a, b) = <<a>> \o l
  <2>1. l \in Seq(Configs) /\ DOMAIN l = 1..Len(l)
    BY LinksOfLine
  <2>2. ~(Collides(a) \/ Collides(b) \/ \E i \in DOMAIN l : Collides(l[i]))
    BY DEF DirectPath
  <2>3. DirectPath(a, b) = <<a>> \o l
    BY <2>2 DEF DirectPath
  <2>4. QED
    BY <2>1, <2>2, <2>3 DEF Collides
<1>2. Route(<<a>>, a, a, B)
  BY <1>1 DEF Route, LinksUp
<1>3. CASE l = <<>>
  <2>1. <<a>> \o l = <<a>> /\ a = b
    BY <1>3, LinksOfLine
  <2>2. QED
    BY <1>1, <1>2, <2>1
<1>4. CASE l # <<>>
  BY <1>1, <1>2, <1>4, LineIsRoute, RoutesJoin
<1>5. QED
  BY <1>3, <1>4

\* The loop of the greedy extension stops somewhere.
LEMMA ClearPrefixStops ==
    ASSUME NEW a \in Configs, NEW b \in Configs
    PROVE  \E n \in 0..Len(extend_ee_l2(a, b)) :
              /\ \A i \in 1..n : ~Collides(extend_ee_l2(a, b)[i])
              /\ n < Len(extend_ee_l2(a, b)) => Collides(extend_ee_l2(a, b)[n + 1])
<1> DEFINE l == extend_ee_l2(a, b)
           T == {j \in Nat : j >= Len(l) \/ Collides(l[j + 1])}
           Stops(j) == /\ \A i \in 1..j : ~Collides(l[i])
                       /\ j < Len(l) => Collides(l[j + 1])
<1>1. l \in Seq(Configs)
  BY LinksOfLine
<1> HIDE DEF l
<1>2. \E j \in 0..Len(l) : Stops(j)
  <2>1. Len(l) \in T /\ T \subseteq Nat
    BY <1>1
  <2>2. PICK j \in T : \A m \in T : ~(<<m, j>> \in OpToRel(<, Nat))
    BY <2>1, NatLessThanWellFounded, WFMin
  <2>3. \A m \in T : ~(m < j)
    BY <2>1, <2>2 DEF OpToRel
  <2>4. j \in 0..Len(l)
    BY <1>1, <2>1, <2>3
  <2>5. ASSUME NEW i \in 1..j PROVE ~Collides(l[i])
    <3>1. i - 1 \in Nat /\ i - 1 < j /\ (i - 1) + 1 = i
      BY <2>4
    <3>2. i - 1 \notin T
      BY <2>3, <3>1
    <3>3. QED
      BY <3>1, <3>2
  <2>6. j < Len(l) => Collides(l[j + 1])
    <3>1. j \in Nat /\ (j >= Len(l) \/ Collides(l[j + 1]))
      BY <2>2
    <3>2. QED
      BY <1>1, <3>1
  <2>7. QED
    BY <2>4, <2>5, <2>6
<1>3. QED
  BY <1>2 DEF l

LEMMA ClearPrefixIsClear ==
    ASSUME NEW a \in Configs, NEW b \in Configs
    PROVE  LET p == ClearPrefix(a, b) IN
           /\ p \in Seq(Configs) /\ LinksUp(p)
           /\ \A i \in 1..Len(p) : p[i] \notin query.blocked
           /\ p # <<>> => p[1] = a
<1> DEFINE l == extend_ee_l2(a, b)
           Stops(j) == /\ \A i \in 1..j : ~Collides(l[i])
                       /\ j < Len(l) => Collides(l[j + 1])
           n == CHOOSE j \in 0..Len(l) : Stops(j)
<1>1. l \in Seq(Configs) /\ LinksUp(l) /\ (l # <<>> => l[1] = a)
  BY LinksOfLine
<1> HIDE DEF l
<1>2. \E j \in 0..Len(l) : Stops(j)
  BY ClearPrefixStops DEF l
<1>3. n \in 0..Len(l) /\ Stops(n)
  BY <1>2
<1>4. ClearPrefix(a, b) = SubSeq(l, 1, n)
  BY DEF ClearPrefix, l
<1> HIDE DEF n
<1>5. SubSeq(l, 1, n) \in Seq(Configs) /\ LinksUp(SubSeq(l, 1, n))
  BY <1>1, <1>3, LinksOfSubSeq
<1>6. /\ Len(SubSeq(l, 1, n)) = n
      /\ \A i \in 1..n : SubSeq(l, 1, n)[i] = l[i]
  BY <1>1, <1>3
<1>7. QED
  BY <1>1, <1>3, <1>4, <1>5, <1>6 DEF Collides
-----------------------------------------------------------------------------
(* Trees.                                                                  *)

\* A branch grows by samples that collide nowhere, and only if its end does not.
LEMMA BranchGrows ==
    ASSUME NEW root, NEW n, Branch(n, root, query.blocked), NEW q \in Configs
    PROVE  /\ Branch(Reached(n, q), root, query.blocked)
           /\ \A m \in Added(n, q) : Branch(m, root, query.blocked)
<1> DEFINE a == n[Len(n)]
           p == ClearPrefix(a, q)
           B == query.blocked
<1>1. n \in Seq(Configs) /\ Len(n) >= 1 /\ a \in Configs /\ LinksUp(n) /\ n[1] = root
  BY DEF Branch
<1>2. /\ p \in Seq(Configs) /\ LinksUp(p)
      /\ \A i \in 1..Len(p) : p[i] \notin B
      /\ p # <<>> => p[1] = a
  BY <1>1, ClearPrefixIsClear
<1>3. Reached(n, q) = n \o p /\ Added(n, q) = {n \o SubSeq(p, 1, i) : i \in 1..Len(p)}
  BY DEF Reached, Added, Last
<1> HIDE DEF p
<1>4. ASSUME NEW s \in Seq(Configs), LinksUp(s), s # <<>> => s[1] = a,
             \A i \in 1..Len(s) : s[i] \notin B
      PROVE  Branch(n \o s, root, B)
  <2>1. n \o s \in Seq(Configs) /\ n \o s # <<>> /\ (n \o s)[1] = root
    BY <1>1, <1>4
  <2>2. LinksUp(n \o s)
    BY <1>1, <1>4, StayingIsALink, LinksOfConcat
  <2>3. CASE s = <<>>
    <3>1. n \o s = n
      BY <1>1, <2>3
    <3>2. QED
      BY <3>1
  <2>4. CASE s # <<>>
    <3>1. a \notin B
      BY <1>4, <2>4
    <3>2. \A i \in 1..Len(n) : n[i] \notin B
      BY <1>1, <3>1 DEF Branch
    <3>3. \A i \in 1..Len(n \o s) : (n \o s)[i] \notin B
      <4> SUFFICES ASSUME NEW i \in 1..Len(n \o s) PROVE (n \o s)[i] \notin B
        OBVIOUS
      <4>1. CASE i \in 1..Len(n)
        BY <1>1, <1>4, <3>2, <4>1
      <4>2. CASE i > Len(n)
        <5>1. (n \o s)[i] = s[i - Len(n)] /\ i - Len(n) \in 1..Len(s)
          BY <1>1, <1>4, <4>2
        <5>2. QED
          BY <1>4, <5>1
      <4>3. QED
        BY <1>1, <1>4, <4>1, <4>2
    <3>4. QED
      BY <2>1, <2>2, <3>3 DEF Branch
  <2>5. QED
    BY <2>3, <2>4
<1>5. Branch(n \o p, root, B)
  BY <1>2, <1>4
<1>6. ASSUME NEW i \in 1..Len(p) PROVE Branch(n \o SubSeq(p, 1, i), root, B)
  <2> DEFINE s == SubSeq(p, 1, i)
  <2>1. s \in Seq(Configs) /\ LinksUp(s)
    BY <1>2, LinksOfSubSeq
  <2>2. Len(s) = i /\ \A j \in 1..i : s[j] = p[j] /\ j \in 1..Len(p)
    BY <1>2
  <2> HIDE DEF s
  <2>3. s # <<>> => s[1] = a
    BY <1>2, <2>2
  <2>4. \A j \in 1..Len(s) : s[j] \notin B
    BY <1>2, <2>2
  <2>5. Branch(n \o s, root, B)
    BY <1>4, <2>1, <2>3, <2>4
  <2>6. QED
    BY <2>5 DEF s
<1>7. QED
  BY <1>3, <1>5, <1>6

\* Two branches that meet join into a path, the root of one being the goal.
LEMMA BranchesJoin ==
    ASSUME NEW a, NEW b, NEW B, NEW p, NEW q,
           Branch(p, a, B), Branch(q, b, B), b \notin B, Last(p) = Last(q)
    PROVE  Route(Joined(p, q), a, b, B)
<1>1. /\ p \in Seq(Configs) /\ Len(p) >= 1 /\ q \in Seq(Configs) /\ Len(q) >= 1
      /\ p[1] = a /\ q[1] = b /\ p[Len(p)] = q[Len(q)] /\ LinksUp(p) /\ LinksUp(q)
      /\ Joined(p, q) = SubSeq(p, 1, Len(p) - 1) \o Reverse(q)
  BY DEF Branch, Joined, Last, Front
<1>2. \A i \in 1..Len(q) : q[i] \notin B
  BY DEF Branch
<1>3. \A i \in 1..Len(p) : p[i] \notin B
  BY <1>1, <1>2 DEF Branch
<1>4. Route(p, a, p[Len(p)], B) /\ Route(q, b, q[Len(q)], B)
  BY <1>1, <1>2, <1>3 DEF Route
<1>5. Route(Reverse(q), p[Len(p)], b, B)
  BY <1>1, <1>4, ReverseIsRoute
<1>6. CASE Len(p) = 1
  <2>1. SubSeq(p, 1, Len(p) - 1) = <<>>
    BY <1>1, <1>6
  <2>2. Reverse(q) \in Seq(Configs)
    BY <1>5 DEF Route
  <2>3. SubSeq(p, 1, Len(p) - 1) \o Reverse(q) = Reverse(q)
    BY <2>1, <2>2, ConcatEmptySeq
  <2>4. QED
    BY <1>1, <1>5, <1>6, <2>3
<1>7. CASE Len(p) > 1
  <2>1. Len(p) - 1 \in 1..Len(p) /\ 1 \in 1..Len(p) /\ 1 =< Len(p) - 1
    BY <1>1, <1>7
  <2>2. Route(SubSeq(p, 1, Len(p) - 1), a, p[Len(p) - 1], B)
    BY <1>1, <1>4, <2>1, SubSeqIsRoute
  <2>3. <<p[Len(p) - 1], p[Len(p)]>> \in Links
    <3>1. Len(p) - 1 \in 1..(Len(p) - 1) /\ (Len(p) - 1) + 1 = Len(p)
      BY <1>1, <1>7
    <3>2. QED
      BY <1>1, <3>1 DEF LinksUp
  <2>4. QED
    BY <1>1, <1>5, <2>2, <2>3, RoutesLink
<1>8. Len(p) = 1 \/ Len(p) > 1
  <2>1. Len(p) \in Nat /\ Len(p) >= 1
    BY <1>1, LenProperties
  <2>2. \A j \in Nat : j >= 1 => j = 1 \/ j > 1
    OBVIOUS
  <2>3. QED
    BY <2>1, <2>2, Zenon
<1>9. QED
  BY <1>6, <1>7, <1>8

\* A shortcut of a path leads where the path leads.
LEMMA ShortcutIsRoute ==
    ASSUME NEW a, NEW b, Route(line, a, b, query.blocked),
           NEW i \in 1..(Len(line) - 1), NEW j \in 1..(Len(line) - 1), i < j
    PROVE  Route(Shortcut(i, j), a, b, query.blocked)
<1> DEFINE B == query.blocked
           cut == extend_ee_l2(line[i], line[j])
           head == SubSeq(line, 1, i)
           tail == SubSeq(line, j + 1, Len(line))
<1>1. /\ line \in Seq(Configs) /\ LinksUp(line) /\ line[1] = a /\ line[Len(line)] = b
      /\ \A m \in 1..Len(line) : line[m] \notin B
      /\ line[i] \in Configs /\ line[j] \in Configs
  BY DEF Route
<1>2. CASE Shortcut(i, j) = line
  BY <1>2
<1>3. CASE /\ Shortcut(i, j) = head \o cut \o tail
           /\ \A m \in DOMAIN cut : ~Collides(cut[m])
  <2>1. Route(head, a, line[i], B)
    BY <1>1, SubSeqIsRoute
  <2>2. Route(tail, line[j + 1], b, B)
    <3>1. j + 1 \in 1..Len(line) /\ Len(line) \in 1..Len(line)
      BY <1>1
    <3>2. QED
      BY <1>1, <3>1, SubSeqIsRoute
  <2>3. <<line[j], line[j + 1]>> \in Links
    BY <1>1 DEF LinksUp
  <2>4. Route(head \o cut, a, line[j], B)
    <3>1. CASE cut = <<>>
      <4>1. head \o cut = head
        BY <2>1, <3>1, ConcatEmptySeq DEF Route
      <4>2. line[i] = line[j]
        BY <1>1, <3>1, LinksOfLine
      <4>3. QED
        BY <2>1, <4>1, <4>2
    <3>2. CASE cut # <<>>
      <4>1. /\ cut \in Seq(Configs) /\ LinksUp(cut)
            /\ cut[1] = line[i] /\ cut[Len(cut)] = line[j]
        BY <1>1, <3>2, LinksOfLine, Zenon
      <4>2. \A m \in 1..Len(cut) : cut[m] \notin B
        <5>1. DOMAIN cut = 1..Len(cut)
          BY <4>1, LenProperties
        <5>2. QED
          BY <1>3, <5>1 DEF Collides
      <4> HIDE DEF cut
      <4>3. Route(cut, line[i], line[j], B)
        BY <3>2, <4>1, <4>2 DEF Route
      <4>4. QED
        BY <2>1, <4>3, RoutesJoin
    <3>3. QED
      BY <3>1, <3>2
  <2>5. QED
    BY <1>3, <2>2, <2>3, <2>4, RoutesLink
<1>4. QED
  BY <1>2, <1>3 DEF Shortcut
-----------------------------------------------------------------------------
(* The invariant.                                                          *)

RootOf(side) == IF side = "start" THEN here ELSE InterimGoal(leg)

\* The legs done lead from the start to where the current leg begins.
Legs ==
    /\ query \in Queries /\ here \in Configs /\ leg \in InterimGoals
    /\ \/ all_paths = <<>> /\ here = query.start
       \/ Route(all_paths, query.start, here, query.blocked)

Trees ==
    /\ first \in Sides /\ taken \in Nat
    /\ ~Collides(InterimGoal(leg))
    /\ DOMAIN tree = Sides
    /\ \A side \in Sides : \A n \in tree[side] : Branch(n, RootOf(side), query.blocked)

MotionInv ==
    /\ stage \in {"idle", "whole", "leg", "grow", "smooth", "polish", "done"}
    /\ stage \in {"idle", "whole", "done"} => all_paths = <<>>
    /\ stage = "whole" => query \in Queries /\ here = query.start
    /\ stage \in {"leg", "grow", "smooth"} => Legs
    /\ stage = "grow" => Trees
    /\ stage = "smooth" => Route(line, here, InterimGoal(leg), query.blocked)
    /\ stage = "polish" =>
          all_paths = <<>> /\ Route(line, query.start, query.goal, query.blocked)
    /\ stage = "done" /\ result.path # <<>> =>
          Route(result.path, query.start, query.goal, query.blocked)

LEMMA QueryTypes ==
    ASSUME query \in Queries
    PROVE  /\ query.start \in Configs /\ query.goal \in Configs
           /\ query.samples \in Seq(Configs) /\ query.drawn \subseteq Configs
           /\ \A i \in InterimGoals : i \in Nat /\ InterimGoal(i) \in Configs
           /\ InterimGoal(0) = query.goal
<1>1. /\ query.start \in Configs /\ query.goal \in Configs
      /\ query.samples \in Seq(Configs) /\ query.drawn \subseteq Configs
  BY DEF Queries
<1>2. \A i \in DOMAIN query.samples : i \in Nat /\ query.samples[i] \in Configs
  BY <1>1
<1>3. QED
  BY <1>1, <1>2 DEF InterimGoals, InterimGoal

\* A path that was answered is what the caller asked for.
LEMMA AnswerIsSafe ==
    ASSUME NEW p, NEW reason, Answer(p, reason),
           p = <<>> \/ Route(p, query.start, query.goal, query.blocked)
    PROVE  MotionInv'
<1>1. /\ stage' = "done" /\ result'.path = p /\ all_paths' = <<>> /\ query' = query
  BY DEF Answer
<1>2. QED
  BY <1>1 DEF MotionInv, Route, LinksUp

\* A leg that is done leads on, or is the last.
LEMMA LegDoneIsSafe ==
    ASSUME NEW p, Legs, Route(p, here, InterimGoal(leg), query.blocked), LegDone(p)
    PROVE  MotionInv'
<1> DEFINE B == query.blocked
<1>1. Route(all_paths \o p, query.start, InterimGoal(leg), B)
  <2>1. CASE all_paths = <<>> /\ here = query.start
    <3>1. all_paths \o p = p
      BY <2>1, ConcatEmptySeq DEF Route
    <3>2. QED
      BY <2>1, <3>1
  <2>2. CASE Route(all_paths, query.start, here, B)
    BY <2>2, RoutesJoin
  <2>3. QED
    BY <2>1, <2>2 DEF Legs
<1>2. leg = 0 => InterimGoal(leg) = query.goal
  BY DEF InterimGoal
<1>3. CASE leg = 0 /\ stage' = "polish" /\ line' = all_paths \o p /\ all_paths' = <<>>
           /\ query' = query
  BY <1>1, <1>2, <1>3 DEF MotionInv, Route, LinksUp
<1>4. CASE leg = 0 /\ Answer(all_paths \o p, "Success")
  BY <1>1, <1>2, <1>4, AnswerIsSafe
<1>5. CASE NextLeg(leg) /\ here' = InterimGoal(leg) /\ all_paths' = all_paths \o p
           /\ query' = query
  <2>1. stage' = "leg" /\ leg' \in InterimGoals
    BY <1>5 DEF NextLeg
  <2>2. query \in Queries /\ InterimGoal(leg) \in Configs
    BY QueryTypes DEF Legs
  <2>3. InterimGoals' = InterimGoals
    BY <1>5 DEF InterimGoals, Collides
  <2>4. Route(all_paths, query.start, here, query.blocked)'
    BY <1>1, <1>5 DEF Route, LinksUp
  <2>5. Legs'
    BY <1>5, <2>1, <2>2, <2>3, <2>4 DEF Legs
  <2>6. QED
    BY <2>1, <2>5 DEF MotionInv
<1>6. QED
  BY <1>3, <1>4, <1>5 DEF LegDone
-----------------------------------------------------------------------------
(* The steps.                                                              *)

LEMMA InitMotion == MotionInit => MotionInv
BY DEF MotionInit, MotionInv

LEMMA WholeLineIsSafe == MotionInv /\ WholeLine => MotionInv'
<1> SUFFICES ASSUME MotionInv, WholeLine PROVE MotionInv'
  OBVIOUS
<1> DEFINE straight == DirectPath(query.start, query.goal)
<1>1. /\ query \in Queries /\ here = query.start /\ all_paths = <<>>
      /\ query.start \in Configs /\ query.goal \in Configs
  BY QueryTypes DEF MotionInv, WholeLine
<1>2. CASE straight # <<>> /\ Answer(straight, "Direct")
  BY <1>1, <1>2, DirectPathIsRoute, AnswerIsSafe
<1>3. CASE Answer(<<>>, "CollisionAtGoal")
  BY <1>3, AnswerIsSafe
<1>4. CASE /\ NextLeg(Len(query.samples) + 1)
           /\ UNCHANGED <<query, here, search, rounds, line, all_paths, result>>
  <2>1. stage' = "leg" /\ leg' \in InterimGoals
    BY <1>4 DEF NextLeg
  <2>2. InterimGoals' = InterimGoals
    BY <1>4 DEF InterimGoals, Collides
  <2>3. Legs'
    BY <1>1, <1>4, <2>1, <2>2 DEF Legs
  <2>4. QED
    BY <2>1, <2>3 DEF MotionInv
<1>5. QED
  BY <1>2, <1>3, <1>4 DEF WholeLine

LEMMA StartLegIsSafe == MotionInv /\ StartLeg => MotionInv'
<1> SUFFICES ASSUME MotionInv, StartLeg PROVE MotionInv'
  OBVIOUS
<1> DEFINE goal == InterimGoal(leg)
           straight == DirectPath(here, goal)
<1>1. Legs /\ query \in Queries /\ here \in Configs /\ goal \in Configs
  BY QueryTypes DEF MotionInv, StartLeg, Legs
<1>2. CASE Answer(<<>>, "CollisionAtStart") \/ Answer(<<>>, "CollisionAtGoal")
  BY <1>2, AnswerIsSafe
<1>3. CASE straight # <<>> /\ LegDone(straight)
  BY <1>1, <1>3, DirectPathIsRoute, LegDoneIsSafe
<1>4. CASE /\ ~Collides(goal)
           /\ stage' = "grow"
           /\ tree' = [start |-> {<<here>>}, goal |-> {<<goal>>}]
           /\ first' = "start" /\ taken' = 0
           /\ UNCHANGED <<query, leg_vars, all_paths>>
  <2>1. UNCHANGED <<here, leg>> /\ InterimGoals' = InterimGoals
    BY <1>4 DEF leg_vars, InterimGoals, Collides
  <2>2. Legs'
    BY <1>1, <1>4, <2>1 DEF Legs
  <2>3. Branch(<<here>>, here, query.blocked) /\ Branch(<<goal>>, goal, query.blocked)
    BY <1>1 DEF Branch, LinksUp
  <2>4. tree'["start"] = {<<here>>} /\ tree'["goal"] = {<<goal>>} /\ DOMAIN tree' = Sides
    BY <1>4 DEF Sides
  <2>5. RootOf("start")' = here /\ RootOf("goal")' = goal
    BY <1>4, <2>1 DEF RootOf, InterimGoal
  <2>6. \A side \in Sides : \A n \in tree'[side] : Branch(n, RootOf(side)', query.blocked)
    BY <2>3, <2>4, <2>5 DEF Sides
  <2>7. Trees'
    BY <1>4, <2>1, <2>4, <2>6 DEF Trees, Sides, Collides, InterimGoal
  <2>8. QED
    BY <1>4, <2>2, <2>7 DEF MotionInv
<1>5. QED
  BY <1>2, <1>3, <1>4 DEF StartLeg

\* A round that does not join the trees lengthens both.
LEMMA GrowIsSafe == MotionInv /\ Grow => MotionInv'
<1> SUFFICES ASSUME MotionInv, Grow PROVE MotionInv'
  OBVIOUS
<1> DEFINE B == query.blocked
           goal == InterimGoal(leg)
<1>1. PICK one \in Sides : one = IF grown[first] > grown[Other(first)]
                                    THEN Other(first) ELSE first
  BY DEF MotionInv, Grow, Trees, Sides, Other
<1>2. PICK two \in Sides : two = Other(one) /\ two # one
  BY DEF Sides, Other
<1>3. PICK q \in Samples, n1 \in tree[one], n2 \in tree[two] :
        LET last1 == Reached(n1, q)
            last2 == Reached(n2, Last(last1))
        IN  \/ /\ tree' = [tree EXCEPT ![one] = @ \cup Added(n1, q),
                                       ![two] = @ \cup Added(n2, Last(last1))]
               /\ first' = one
               /\ taken' = IF taken < Len(Given) THEN taken + 1 ELSE taken
               /\ UNCHANGED <<stage, query, leg_vars, line, all_paths, result>>
            \/ /\ Last(last1) = Last(last2)
               /\ LET p == IF one = "start" THEN Joined(last1, last2)
                           ELSE Joined(last2, last1)
                  IN  \/ LegDone(p)
                      \/ /\ stage' = "smooth" /\ line' = p
                         /\ UNCHANGED <<query, leg_vars, all_paths, result>>
  BY <1>1, <1>2 DEF Grow
<1> DEFINE last1 == Reached(n1, q)
           last2 == Reached(n2, Last(last1))
<1>4. Legs /\ Trees /\ query \in Queries /\ stage = "grow" /\ goal \notin B
  BY DEF MotionInv, Grow, Legs, Trees, Collides
<1>5. q \in Configs
  <2>1. CASE taken < Len(Given)
    <3>1. Given \in Seq(Configs)
      BY <1>4, QueryTypes DEF Given
    <3>2. Given[taken + 1] \in Configs
      BY <1>4, <2>1, <3>1 DEF Trees
    <3>3. QED
      BY <2>1, <3>2 DEF Samples
  <2>2. CASE ~(taken < Len(Given))
    BY <1>4, <2>2, QueryTypes DEF Samples
  <2>3. QED
    BY <2>1, <2>2
<1>6. Branch(n1, RootOf(one), B) /\ Branch(n2, RootOf(two), B)
  BY <1>4 DEF Trees
<1>7. /\ Branch(last1, RootOf(one), B)
      /\ \A m \in Added(n1, q) : Branch(m, RootOf(one), B)
  BY <1>5, <1>6, BranchGrows
<1>8. Last(last1) \in Configs
  BY <1>7 DEF Branch, Last
<1>9. /\ Branch(last2, RootOf(two), B)
      /\ \A m \in Added(n2, Last(last1)) : Branch(m, RootOf(two), B)
  BY <1>6, <1>8, BranchGrows
<1> HIDE DEF last1, last2
<1>10. CASE /\ tree' = [tree EXCEPT ![one] = @ \cup Added(n1, q),
                                    ![two] = @ \cup Added(n2, Last(last1))]
            /\ first' = one
            /\ taken' = IF taken < Len(Given) THEN taken + 1 ELSE taken
            /\ UNCHANGED <<stage, query, leg_vars, line, all_paths, result>>
  <2>1. UNCHANGED <<here, leg>> /\ InterimGoals' = InterimGoals
    BY <1>10 DEF leg_vars, InterimGoals, Collides
  <2>2. Legs'
    BY <1>4, <1>10, <2>1 DEF Legs
  <2>3. /\ DOMAIN tree' = Sides
        /\ tree'[one] = tree[one] \cup Added(n1, q)
        /\ tree'[two] = tree[two] \cup Added(n2, Last(last1))
    BY <1>2, <1>4, <1>10 DEF Trees
  <2>4. \A side \in Sides : side = one \/ side = two
    BY <1>1, <1>2 DEF Sides
  <2>5. \A side \in Sides : RootOf(side)' = RootOf(side)
    BY <1>10, <2>1 DEF RootOf, InterimGoal
  <2>6. \A side \in Sides : \A n \in tree'[side] : Branch(n, RootOf(side), B)
    BY <1>4, <1>7, <1>9, <2>3, <2>4 DEF Trees
  <2>7. taken' \in Nat /\ first' \in Sides
    BY <1>1, <1>4, <1>10 DEF Trees
  <2>8. Trees'
    BY <1>4, <1>10, <2>1, <2>3, <2>5, <2>6, <2>7 DEF Trees, Collides, InterimGoal
  <2>9. QED
    BY <1>4, <1>10, <2>2, <2>8 DEF MotionInv
<1>11. CASE Last(last1) = Last(last2) /\
            LET p == IF one = "start" THEN Joined(last1, last2) ELSE Joined(last2, last1)
            IN  \/ LegDone(p)
                \/ /\ stage' = "smooth" /\ line' = p
                   /\ UNCHANGED <<query, leg_vars, all_paths, result>>
  <2>1. PICK p : p = IF one = "start" THEN Joined(last1, last2) ELSE Joined(last2, last1)
    OBVIOUS
  <2>2. Route(p, here, goal, B)
    <3>1. CASE one = "start"
      <4>1. RootOf(one) = here /\ RootOf(two) = goal
        BY <1>2, <3>1 DEF RootOf, Sides
      <4>2. QED
        BY <1>4, <1>7, <1>9, <1>11, <2>1, <3>1, <4>1, BranchesJoin
    <3>2. CASE one # "start"
      <4>1. RootOf(one) = goal /\ RootOf(two) = here
        BY <1>1, <1>2, <3>2 DEF RootOf, Sides
      <4>2. QED
        BY <1>4, <1>7, <1>9, <1>11, <2>1, <3>2, <4>1, BranchesJoin
    <3>3. QED
      BY <3>1, <3>2
  <2>3. CASE LegDone(p)
    BY <1>4, <2>2, <2>3, LegDoneIsSafe
  <2>4. CASE /\ stage' = "smooth" /\ line' = p
             /\ UNCHANGED <<query, leg_vars, all_paths, result>>
    <3>1. UNCHANGED <<here, leg>> /\ InterimGoals' = InterimGoals
      BY <2>4 DEF leg_vars, InterimGoals, Collides
    <3>2. Legs'
      BY <1>4, <2>4, <3>1 DEF Legs
    <3>3. Route(line, here, InterimGoal(leg), query.blocked)'
      BY <2>2, <2>4, <3>1 DEF InterimGoal
    <3>4. QED
      BY <2>4, <3>2, <3>3 DEF MotionInv
  <2>5. QED
    BY <1>11, <2>1, <2>3, <2>4
<1>12. QED
  BY <1>3, <1>10, <1>11 DEF last1, last2

LEMMA SmoothIsSafe == MotionInv /\ Smooth => MotionInv'
<1> SUFFICES ASSUME MotionInv, Smooth PROVE MotionInv'
  OBVIOUS
<1>1. /\ UNCHANGED <<stage, query, here, leg, all_paths, result>>
      /\ stage \in {"smooth", "polish"}
  BY DEF Smooth, leg_vars
<1>2. ASSUME NEW a, NEW b, Route(line, a, b, query.blocked)
      PROVE  Route(line', a, b, query.blocked)
  <2>1. PICK i \in 1..(Len(line) - 1), j \in 1..(Len(line) - 1) :
          \/ i + 1 < j /\ line' = Shortcut(i, j)
          \/ line' = line
    BY DEF Smooth
  <2>2. CASE i + 1 < j /\ line' = Shortcut(i, j)
    <3>1. i < j
      BY <2>2
    <3>2. QED
      BY <1>2, <2>2, <3>1, ShortcutIsRoute
  <2>3. QED
    BY <1>2, <2>1, <2>2
<1>3. InterimGoals' = InterimGoals /\ InterimGoal(leg)' = InterimGoal(leg)
  BY <1>1 DEF InterimGoals, InterimGoal, Collides
<1>4. CASE stage = "smooth"
  <2>1. Legs /\ Route(line, here, InterimGoal(leg), query.blocked)
    BY <1>4 DEF MotionInv
  <2>2. Legs'
    BY <1>1, <1>3, <2>1 DEF Legs
  <2>3. Route(line', here, InterimGoal(leg), query.blocked)
    BY <1>2, <2>1
  <2>4. Route(line, here, InterimGoal(leg), query.blocked)'
    BY <1>1, <1>3, <2>3
  <2>5. QED
    BY <1>1, <1>4, <2>2, <2>4 DEF MotionInv
<1>5. CASE stage = "polish"
  <2>1. all_paths = <<>> /\ Route(line, query.start, query.goal, query.blocked)
    BY <1>5 DEF MotionInv
  <2>2. Route(line', query.start, query.goal, query.blocked)
    BY <1>2, <2>1
  <2>3. QED
    BY <1>1, <1>5, <2>1, <2>2 DEF MotionInv
<1>6. QED
  BY <1>1, <1>4, <1>5

LEMMA StepMotion == MotionInv /\ [MotionNext]_motion_vars => MotionInv'
<1> SUFFICES ASSUME MotionInv, [MotionNext]_motion_vars PROVE MotionInv'
  OBVIOUS
<1>1. ASSUME NEW q \in Queries, Call(q) PROVE MotionInv'
  <2>1. /\ query' = q /\ here' = q.start /\ leg' = 0 /\ all_paths' = all_paths
        /\ stage' \in {"whole", "leg"} /\ all_paths = <<>>
    BY <1>1 DEF Call, MotionInv
  <2>2. q.start \in Configs
    BY DEF Queries
  <2>3. Legs'
    BY <2>1, <2>2 DEF Legs, InterimGoals
  <2>4. QED
    BY <2>1, <2>3 DEF MotionInv
<1>2. CASE WholeLine
  BY <1>2, WholeLineIsSafe
<1>3. CASE StartLeg
  BY <1>3, StartLegIsSafe
<1>4. CASE Grow
  BY <1>4, GrowIsSafe
<1>5. CASE GiveUp
  BY <1>5, AnswerIsSafe DEF GiveUp
<1>6. CASE Smooth
  BY <1>6, SmoothIsSafe
<1>7. CASE Smoothed
  <2>1. CASE stage = "smooth" /\ LegDone(line)
    BY <2>1, LegDoneIsSafe DEF MotionInv
  <2>2. CASE stage = "polish" /\ Answer(line, "Smoothed")
    BY <2>2, AnswerIsSafe DEF MotionInv
  <2>3. QED
    BY <1>7, <2>1, <2>2 DEF Smoothed
<1>8. CASE Return
  BY <1>8 DEF Return, MotionInv
<1>9. CASE UNCHANGED motion_vars
  <2>1. UNCHANGED <<stage, query, here, leg, tree, first, taken, line, all_paths, result>>
    BY <1>9 DEF motion_vars, leg_vars, search
  <2>2. QED
    BY <2>1 DEF MotionInv, Legs, Trees, RootOf, InterimGoals, InterimGoal, Collides,
                Route, Branch, LinksUp
<1>10. QED
  BY <1>1, <1>2, <1>3, <1>4, <1>5, <1>6, <1>7, <1>8, <1>9
  DEF MotionNext, PlanningStep

LEMMA MotionIsSafe == MotionInv => PathIsSafe
<1> SUFFICES ASSUME MotionInv, stage = "done", result.path # <<>>
             PROVE  /\ Head(result.path) = query.start
                    /\ Last(result.path) = query.goal
                    /\ \A i \in DOMAIN result.path : ~Collides(result.path[i])
                    /\ LinksUp(result.path)
  BY DEF PathIsSafe
<1>1. Route(result.path, query.start, query.goal, query.blocked)
  BY DEF MotionInv
<1>2. QED
  BY <1>1 DEF Route, Last, Collides

\* A planner that answers with a path answers with one that starts where the arms
\* are, ends at the goal, collides nowhere and never jumps.
THEOREM PathsAreSafe == MotionSpec => []PathIsSafe
<1>1. MotionSpec => []MotionInv
  BY InitMotion, StepMotion, PTL DEF MotionSpec
<1>2. QED
  BY MotionIsSafe, <1>1, PTL

-----------------------------------------------------------------------------
(* How far a search strays: it stays in every set of configurations that   *)
(* holds what it was asked and the lines between them.                     *)

Closed(K) ==
    /\ K \subseteq Configs
    /\ \A x, y \in K : \A i \in DOMAIN extend_ee_l2(x, y) : extend_ee_l2(x, y)[i] \in K

Asked(q, K) ==
    /\ q.start \in K /\ q.goal \in K /\ q.samples \in Seq(K) /\ q.drawn \subseteq K

Within(K) ==
    /\ stage \in {"leg", "grow", "smooth"} => here \in K /\ all_paths \in Seq(K)
    /\ stage = "grow" => \A side \in Sides : \A n \in tree[side] : n \in Seq(K) /\ n # <<>>
    /\ stage \in {"smooth", "polish"} => line \in Seq(K)
    /\ stage = "done" => result.path \in Seq(K)

StrayInv == \A K \in SUBSET Configs : Closed(K) /\ Asked(query, K) => Within(K)

LEMMA FunctionsAreSequences ==
    ASSUME NEW S, NEW n \in Nat, NEW f \in [1..n -> S]
    PROVE  f \in Seq(S) /\ Len(f) = n
<1>1. f = [i \in 1..n |-> f[i]]
  OBVIOUS
<1>2. f \in Seq(S)
  BY <1>1, IsASeq
<1>3. QED
  BY <1>2

LEMMA ReverseType ==
    ASSUME NEW S, NEW s \in Seq(S)
    PROVE  Reverse(s) \in Seq(S)
<1>1. Len(s) \in Nat /\ \A i \in 1..Len(s) : s[i] \in S
  BY LenProperties, ElementOfSeq
<1>2. \A i \in 1..Len(s) : Len(s) - i + 1 \in 1..Len(s)
  BY <1>1
<1>3. Reverse(s) \in [1..Len(s) -> S]
  BY <1>1, <1>2 DEF Reverse
<1>4. QED
  BY <1>1, <1>3, FunctionsAreSequences

LEMMA EntriesMakeSeq ==
    ASSUME NEW S, NEW T, NEW s \in Seq(S), \A i \in 1..Len(s) : s[i] \in T
    PROVE  s \in Seq(T)
<1>1. Len(s) \in Nat /\ s = [i \in 1..Len(s) |-> s[i]]
  BY LenProperties
<1>2. QED
  BY <1>1, IsASeq

LEMMA ConcatStays == ASSUME NEW S, NEW s \in Seq(S), NEW t \in Seq(S) PROVE s \o t \in Seq(S)
  BY ConcatProperties

LEMMA SubSeqStays ==
    ASSUME NEW S, NEW s \in Seq(S), NEW i \in 1..(Len(s) + 1), NEW j \in (i - 1)..Len(s)
    PROVE  SubSeq(s, i, j) \in Seq(S)
<1>1. Len(s) \in Nat /\ \A m \in 1..Len(s) : s[m] \in S
  BY LenProperties, ElementOfSeq
<1>2. j - i + 1 \in Nat
  BY <1>1
<1>3. \A m \in 1..(j - i + 1) : i + m - 1 \in 1..Len(s)
  BY <1>1, <1>2
<1>4. SubSeq(s, i, j) = [m \in 1..(j - i + 1) |-> s[i + m - 1]]
  OBVIOUS
<1>5. SubSeq(s, i, j) \in [1..(j - i + 1) -> S]
  BY <1>1, <1>3, <1>4
<1>6. QED
  BY <1>2, <1>5, FunctionsAreSequences

LEMMA LineStays ==
    ASSUME NEW K, Closed(K), NEW x \in K, NEW y \in K
    PROVE  extend_ee_l2(x, y) \in Seq(K)
<1>1. extend_ee_l2(x, y) \in Seq(Configs)
  BY LinksOfLine DEF Closed
<1>2. DOMAIN extend_ee_l2(x, y) = 1..Len(extend_ee_l2(x, y))
  BY <1>1, LenProperties
<1>3. \A i \in 1..Len(extend_ee_l2(x, y)) : extend_ee_l2(x, y)[i] \in K
  BY <1>2 DEF Closed
<1>4. QED
  BY <1>1, <1>3, EntriesMakeSeq

LEMMA DirectPathStays ==
    ASSUME NEW K, Closed(K), NEW x \in K, NEW y \in K
    PROVE  DirectPath(x, y) \in Seq(K)
<1>1. extend_ee_l2(x, y) \in Seq(K) /\ <<x>> \in Seq(K) /\ <<>> \in Seq(K)
  BY LineStays
<1>2. <<x>> \o extend_ee_l2(x, y) \in Seq(K)
  BY <1>1, ConcatStays
<1>3. QED
  BY <1>1, <1>2 DEF DirectPath

LEMMA ClearPrefixStays ==
    ASSUME NEW K, Closed(K), NEW x \in K, NEW y \in K
    PROVE  ClearPrefix(x, y) \in Seq(K)
<1> DEFINE l == extend_ee_l2(x, y)
           Stops(j) == /\ \A i \in 1..j : ~Collides(l[i])
                       /\ j < Len(l) => Collides(l[j + 1])
           n == CHOOSE j \in 0..Len(l) : Stops(j)
<1>1. l \in Seq(K)
  BY LineStays
<1>2. ClearPrefix(x, y) = SubSeq(l, 1, n)
  BY DEF ClearPrefix
<1>3. ClearPrefix(x, y) \in Seq(Configs)
  BY ClearPrefixIsClear DEF Closed
<1>4. \E j \in 0..Len(l) : Stops(j)
  BY ClearPrefixStops DEF Closed
<1>5. n \in 0..Len(l)
  <2> HIDE DEF Stops
  <2>1. QED
    BY <1>4
<1> HIDE DEF l, n
<1>6. Len(l) \in Nat /\ 1 \in 1..(Len(l) + 1) /\ n \in (1 - 1)..Len(l)
  BY <1>1, <1>5, LenProperties
<1>7. QED
  BY <1>1, <1>2, <1>6, SubSeqStays

LEMMA BranchStays ==
    ASSUME NEW K, Closed(K), NEW n \in Seq(K), n # <<>>, NEW q \in K
    PROVE  /\ Reached(n, q) \in Seq(K) /\ Reached(n, q) # <<>> /\ Last(Reached(n, q)) \in K
           /\ \A m \in Added(n, q) : m \in Seq(K) /\ m # <<>>
<1> DEFINE p == ClearPrefix(Last(n), q)
<1>1. Last(n) \in K /\ Len(n) \in Nat /\ Len(n) >= 1
  BY LenProperties, ElementOfSeq DEF Last
<1>2. p \in Seq(K)
  BY <1>1, ClearPrefixStays
<1>3. Reached(n, q) = n \o p /\ Added(n, q) = {n \o SubSeq(p, 1, i) : i \in 1..Len(p)}
  BY DEF Reached, Added
<1> HIDE DEF p
<1>4. ASSUME NEW s \in Seq(K) PROVE n \o s \in Seq(K) /\ n \o s # <<>> /\ Last(n \o s) \in K
  <2>1. n \o s \in Seq(K) /\ Len(n \o s) = Len(n) + Len(s) /\ Len(s) \in Nat
    BY <1>4, ConcatProperties, LenProperties
  <2>2. n \o s # <<>>
    <3>1. Len(n \o s) # 0
      BY <1>1, <2>1
    <3>2. QED
      BY <3>1
  <2>3. QED
    BY <2>1, <2>2, LenProperties, ElementOfSeq DEF Last
<1>5. \A i \in 1..Len(p) : SubSeq(p, 1, i) \in Seq(K)
  <2>1. Len(p) \in Nat
    BY <1>2, LenProperties
  <2>2. \A i \in 1..Len(p) : 1 \in 1..(Len(p) + 1) /\ i \in (1 - 1)..Len(p)
    BY <2>1
  <2>3. QED
    BY <1>2, <2>2, SubSeqStays
<1>6. QED
  BY <1>2, <1>3, <1>4, <1>5

LEMMA JoinStays ==
    ASSUME NEW K, NEW p \in Seq(K), p # <<>>, NEW q \in Seq(K)
    PROVE  Joined(p, q) \in Seq(K)
<1>1. Len(p) \in Nat /\ 1 \in 1..(Len(p) + 1) /\ Len(p) - 1 \in (1 - 1)..Len(p)
  BY LenProperties
<1>2. SubSeq(p, 1, Len(p) - 1) \in Seq(K)
  BY <1>1, SubSeqStays
<1>3. Reverse(q) \in Seq(K)
  BY ReverseType
<1>4. QED
  BY <1>2, <1>3, ConcatStays DEF Joined, Front

LEMMA ShortcutStays ==
    ASSUME NEW K, Closed(K), line \in Seq(K),
           NEW i \in 1..(Len(line) - 1), NEW j \in 1..(Len(line) - 1)
    PROVE  Shortcut(i, j) \in Seq(K)
<1>1. Len(line) \in Nat /\ line[i] \in K /\ line[j] \in K
  BY LenProperties, ElementOfSeq
<1>2. extend_ee_l2(line[i], line[j]) \in Seq(K)
  BY <1>1, LineStays
<1>3. /\ 1 \in 1..(Len(line) + 1) /\ i \in (1 - 1)..Len(line)
      /\ j + 1 \in 1..(Len(line) + 1) /\ Len(line) \in ((j + 1) - 1)..Len(line)
  BY <1>1
<1>4. SubSeq(line, 1, i) \in Seq(K) /\ SubSeq(line, j + 1, Len(line)) \in Seq(K)
  BY <1>3, SubSeqStays
<1>5. QED
  BY <1>2, <1>4, ConcatStays DEF Shortcut

LEMMA AnswerStays ==
    ASSUME NEW K, NEW p \in Seq(K), NEW reason, Answer(p, reason)
    PROVE  Within(K)'
<1>1. stage' = "done" /\ result'.path = p
  BY DEF Answer
<1>2. QED
  BY <1>1 DEF Within

LEMMA LegDoneStays ==
    ASSUME NEW K, query \in Queries, leg \in InterimGoals, Asked(query, K),
           all_paths \in Seq(K), NEW p \in Seq(K), LegDone(p)
    PROVE  Within(K)'
<1>1. all_paths \o p \in Seq(K)
  BY ConcatStays
<1>2. InterimGoal(leg) \in K
  <2>1. \A i \in DOMAIN query.samples : query.samples[i] \in K
    <3>1. query.samples \in Seq(K)
      BY DEF Asked
    <3>2. QED
      BY <3>1
  <2>2. QED
    BY <2>1 DEF InterimGoals, InterimGoal, Asked
<1>3. CASE stage' = "polish" /\ line' = all_paths \o p
  BY <1>1, <1>3 DEF Within
<1>4. CASE Answer(all_paths \o p, "Success")
  BY <1>1, <1>4, AnswerStays
<1>5. CASE NextLeg(leg) /\ here' = InterimGoal(leg) /\ all_paths' = all_paths \o p
  BY <1>1, <1>2, <1>5 DEF NextLeg, Within
<1>6. QED
  BY <1>3, <1>4, <1>5 DEF LegDone

LEMMA GrowStays ==
    ASSUME MotionInv, Grow, NEW K, Closed(K), Asked(query, K), Within(K)
    PROVE  Within(K)'
<1>1. PICK one \in Sides : one = IF grown[first] > grown[Other(first)]
                                    THEN Other(first) ELSE first
  BY DEF MotionInv, Grow, Trees, Sides, Other
<1>2. PICK two \in Sides : two = Other(one) /\ two # one
  BY DEF Sides, Other
<1>3. PICK q \in Samples, n1 \in tree[one], n2 \in tree[two] :
        LET last1 == Reached(n1, q)
            last2 == Reached(n2, Last(last1))
        IN  \/ /\ tree' = [tree EXCEPT ![one] = @ \cup Added(n1, q),
                                       ![two] = @ \cup Added(n2, Last(last1))]
               /\ UNCHANGED <<stage, query, leg_vars, line, all_paths, result>>
            \/ LET p == IF one = "start" THEN Joined(last1, last2)
                        ELSE Joined(last2, last1)
               IN  \/ LegDone(p)
                   \/ /\ stage' = "smooth" /\ line' = p
                      /\ UNCHANGED <<query, leg_vars, all_paths, result>>
  BY <1>1, <1>2 DEF Grow
<1> DEFINE last1 == Reached(n1, q)
           last2 == Reached(n2, Last(last1))
<1>4. Legs /\ Trees /\ query \in Queries /\ leg \in InterimGoals /\ stage = "grow"
  BY DEF MotionInv, Grow, Legs
<1>5. q \in K
  <2>1. CASE taken < Len(Given)
    <3>1. Given \in Seq(K)
      BY DEF Given, Asked
    <3>2. Given[taken + 1] \in K
      BY <1>4, <2>1, <3>1 DEF Trees
    <3>3. QED
      BY <2>1, <3>2 DEF Samples
  <2>2. CASE ~(taken < Len(Given))
    BY <2>2 DEF Samples, Asked
  <2>3. QED
    BY <2>1, <2>2
<1>6. /\ n1 \in Seq(K) /\ n1 # <<>> /\ n2 \in Seq(K) /\ n2 # <<>>
      /\ here \in K /\ all_paths \in Seq(K)
      /\ \A side \in Sides : \A n \in tree[side] : n \in Seq(K) /\ n # <<>>
  BY <1>4 DEF Within
<1>7. /\ last1 \in Seq(K) /\ last1 # <<>> /\ Last(last1) \in K
      /\ \A m \in Added(n1, q) : m \in Seq(K) /\ m # <<>>
  BY <1>5, <1>6, BranchStays
<1>8. /\ last2 \in Seq(K) /\ last2 # <<>>
      /\ \A m \in Added(n2, Last(last1)) : m \in Seq(K) /\ m # <<>>
  <2> HIDE DEF last1
  <2>1. QED
    BY <1>6, <1>7, BranchStays
<1> HIDE DEF last1, last2
<1>9. CASE /\ tree' = [tree EXCEPT ![one] = @ \cup Added(n1, q),
                                   ![two] = @ \cup Added(n2, Last(last1))]
           /\ UNCHANGED <<stage, query, leg_vars, line, all_paths, result>>
  <2>1. /\ tree'[one] = tree[one] \cup Added(n1, q)
        /\ tree'[two] = tree[two] \cup Added(n2, Last(last1))
    BY <1>2, <1>4, <1>9 DEF Trees
  <2>2. \A side \in Sides : side = one \/ side = two
    BY <1>1, <1>2 DEF Sides
  <2>3. \A side \in Sides : \A n \in tree'[side] : n \in Seq(K) /\ n # <<>>
    BY <1>6, <1>7, <1>8, <2>1, <2>2
  <2>4. here' = here /\ all_paths' = all_paths /\ stage' = "grow"
    BY <1>4, <1>9 DEF leg_vars
  <2>5. QED
    BY <1>6, <2>3, <2>4 DEF Within
<1>10. CASE LET p == IF one = "start" THEN Joined(last1, last2) ELSE Joined(last2, last1)
            IN  \/ LegDone(p)
                \/ /\ stage' = "smooth" /\ line' = p
                   /\ UNCHANGED <<query, leg_vars, all_paths, result>>
  <2>1. PICK p : p = IF one = "start" THEN Joined(last1, last2) ELSE Joined(last2, last1)
    OBVIOUS
  <2>2. p \in Seq(K)
    BY <1>7, <1>8, <2>1, JoinStays
  <2>3. CASE LegDone(p)
    BY <1>4, <1>6, <2>2, <2>3, LegDoneStays
  <2>4. CASE /\ stage' = "smooth" /\ line' = p
             /\ UNCHANGED <<query, leg_vars, all_paths, result>>
    <3>1. here' = here /\ all_paths' = all_paths
      BY <2>4 DEF leg_vars
    <3>2. QED
      BY <1>6, <2>2, <2>4, <3>1 DEF Within
  <2>5. QED
    BY <1>10, <2>1, <2>3, <2>4
<1>11. QED
  BY <1>3, <1>9, <1>10 DEF last1, last2

LEMMA PlanningStays ==
    ASSUME MotionInv, PlanningStep, NEW K, Closed(K), Asked(query, K), Within(K)
    PROVE  Within(K)'
<1>1. <<>> \in Seq(K)
  BY EmptySeq
<1>2. query.start \in K /\ query.goal \in K
  BY DEF Asked
<1>3. CASE WholeLine
  <2>1. query \in Queries /\ here = query.start /\ all_paths = <<>>
    BY <1>3 DEF WholeLine, MotionInv
  <2>2. DirectPath(query.start, query.goal) \in Seq(K)
    BY <1>2, DirectPathStays
  <2>3. CASE Answer(DirectPath(query.start, query.goal), "Direct")
    BY <2>2, <2>3, AnswerStays
  <2>4. CASE Answer(<<>>, "CollisionAtGoal")
    BY <1>1, <2>4, AnswerStays
  <2>5. CASE /\ NextLeg(Len(query.samples) + 1)
             /\ UNCHANGED <<query, here, search, rounds, line, all_paths, result>>
    BY <1>1, <1>2, <2>1, <2>5 DEF NextLeg, Within
  <2>6. QED
    BY <1>3, <2>3, <2>4, <2>5 DEF WholeLine
<1>4. CASE StartLeg
  <2> DEFINE goal == InterimGoal(leg)
             straight == DirectPath(here, goal)
  <2>1. /\ query \in Queries /\ leg \in InterimGoals /\ here \in K /\ all_paths \in Seq(K)
        /\ stage = "leg"
    BY <1>4 DEF StartLeg, MotionInv, Legs, Within
  <2>2. goal \in K
    <3>1. \A i \in DOMAIN query.samples : query.samples[i] \in K
      <4>1. query.samples \in Seq(K)
        BY DEF Asked
      <4>2. QED
        BY <4>1
    <3>2. QED
      BY <1>2, <2>1, <3>1 DEF InterimGoals, InterimGoal
  <2>3. straight \in Seq(K)
    BY <2>1, <2>2, DirectPathStays
  <2>4. CASE Answer(<<>>, "CollisionAtStart") \/ Answer(<<>>, "CollisionAtGoal")
    BY <1>1, <2>4, AnswerStays
  <2>5. CASE LegDone(straight)
    BY <2>1, <2>3, <2>5, LegDoneStays
  <2>6. CASE /\ stage' = "grow"
             /\ tree' = [start |-> {<<here>>}, goal |-> {<<goal>>}]
             /\ UNCHANGED <<query, leg_vars, line, all_paths, result>>
    <3>1. tree'["start"] = {<<here>>} /\ tree'["goal"] = {<<goal>>}
      BY <2>6
    <3>2. \A side \in Sides : \A n \in tree'[side] : n \in Seq(K) /\ n # <<>>
      <4>1. ASSUME NEW c \in K PROVE <<c>> \in Seq(K) /\ <<c>> # <<>>
        OBVIOUS
      <4>2. <<here>> \in Seq(K) /\ <<here>> # <<>> /\ <<goal>> \in Seq(K) /\ <<goal>> # <<>>
        BY <2>1, <2>2, <4>1
      <4>3. QED
        BY <3>1, <4>2, Zenon DEF Sides
    <3>3. here' = here /\ all_paths' = all_paths
      BY <2>6 DEF leg_vars
    <3>4. QED
      BY <2>1, <2>6, <3>2, <3>3 DEF Within
  <2>7. QED
    BY <1>4, <2>4, <2>5, <2>6 DEF StartLeg
<1>5. CASE Grow
  BY <1>5, GrowStays
<1>6. CASE GiveUp
  BY <1>1, <1>6, AnswerStays DEF GiveUp
<1>7. CASE Smooth
  <2>1. line \in Seq(K) /\ UNCHANGED <<stage, here, all_paths, result>>
        /\ stage \in {"smooth", "polish"}
    BY <1>7 DEF Smooth, Within, leg_vars
  <2>2. line' \in Seq(K)
    BY <1>7, <2>1, ShortcutStays DEF Smooth
  <2>3. QED
    BY <2>1, <2>2 DEF Within
<1>8. CASE Smoothed
  <2>1. CASE stage = "smooth" /\ LegDone(line)
    <3>1. /\ query \in Queries /\ leg \in InterimGoals /\ all_paths \in Seq(K)
          /\ line \in Seq(K)
      BY <2>1 DEF MotionInv, Legs, Within
    <3>2. QED
      BY <2>1, <3>1, LegDoneStays
  <2>2. CASE stage = "polish" /\ Answer(line, "Smoothed")
    BY <2>2, AnswerStays DEF Within
  <2>3. QED
    BY <1>8, <2>1, <2>2 DEF Smoothed
<1>9. QED
  BY <1>3, <1>4, <1>5, <1>6, <1>7, <1>8 DEF PlanningStep

LEMMA StrayInit == MotionInit => StrayInv
  BY DEF MotionInit, StrayInv, Within

LEMMA StrayStep == MotionInv /\ StrayInv /\ [MotionNext]_motion_vars => StrayInv'
<1> SUFFICES ASSUME MotionInv, StrayInv, [MotionNext]_motion_vars,
                    NEW K \in SUBSET Configs, Closed(K), Asked(query', K)
             PROVE  Within(K)'
  BY DEF StrayInv, Closed
<1>1. CASE PlanningStep
  <2>1. query' = query
    BY <1>1 DEF PlanningStep, WholeLine, StartLeg, Grow, GiveUp, Smooth, Smoothed, Answer,
                LegDone
  <2>2. Within(K)
    BY <2>1 DEF StrayInv
  <2>3. QED
    BY <1>1, <2>1, <2>2, PlanningStays
<1>2. ASSUME NEW q \in Queries, Call(q) PROVE Within(K)'
  <2>1. /\ query' = q /\ here' = q.start /\ all_paths' = all_paths /\ all_paths = <<>>
        /\ stage' \in {"whole", "leg"}
    BY <1>2 DEF Call, MotionInv
  <2>2. q.start \in K /\ <<>> \in Seq(K)
    BY <2>1, EmptySeq DEF Asked
  <2>3. QED
    BY <2>1, <2>2 DEF Within
<1>3. CASE Return
  BY <1>3 DEF Return, Within
<1>4. CASE UNCHANGED motion_vars
  <2>1. UNCHANGED <<stage, query, here, tree, line, all_paths, result>>
    BY <1>4 DEF motion_vars, leg_vars, search
  <2>2. Within(K)
    BY <2>1 DEF StrayInv
  <2>3. QED
    BY <2>1, <2>2 DEF Within
<1>5. QED
  BY <1>1, <1>2, <1>3, <1>4 DEF MotionNext

-----------------------------------------------------------------------------
(* Where a path ends: lines between arms, and what is kept of a path.      *)

\* The neighbours of a base on a leg are at that base, or near it.
LEMMA LegNeighbours ==
    ASSUME NEW p \in Points, NEW q \in Points, NEW i \in 1..4, NEW b, b # "over"
    PROVE  /\ Leg(p, q)[i + 1] = At(b) => Leg(p, q)[i].base = b
           /\ Leg(p, q)[i] = At(b) => Leg(p, q)[i + 1].base = b
<1>1. /\ Over # At(b) /\ \A c : Near(c) # At(b) /\ Near(c).base = c
      /\ At(b).base = b
  BY DEF Over, At, Near
<1>2. CASE p.base = q.base
  <2>1. Leg(p, q) = <<p, p, p, p, q>>
    BY <1>2 DEF Leg
  <2>2. Leg(p, q)[i] = p /\ Leg(p, q)[i + 1] \in {p, q}
    BY <2>1
  <2>3. QED
    BY <1>1, <1>2, <2>2
<1>3. CASE p.base # q.base
  <2> DEFINE off(r) == IF r = Over THEN Over ELSE Near(r.base)
  <2>1. Leg(p, q) = <<p, off(p), Over, off(q), q>>
    BY <1>3 DEF Leg
  <2>2. \A r \in {p, q} : off(r) # At(b) /\ (r = At(b) => off(r).base = b)
    BY <1>1
  <2> HIDE DEF off
  <2>3. \/ Leg(p, q)[i] = p /\ Leg(p, q)[i + 1] = off(p)
        \/ Leg(p, q)[i] = off(p) /\ Leg(p, q)[i + 1] = Over
        \/ Leg(p, q)[i] = Over /\ Leg(p, q)[i + 1] = off(q)
        \/ Leg(p, q)[i] = off(q) /\ Leg(p, q)[i + 1] = q
    <3>1. i = 1 \/ i = 2 \/ i = 3 \/ i = 4
      OBVIOUS
    <3>2. QED
      BY <2>1, <3>1
  <2>4. QED
    BY <1>1, <2>2, <2>3
<1>4. QED
  BY <1>2, <1>3

\* A hand one sample away from a base is at that base, or near it.
LEMMA LinkNear ==
    ASSUME NEW c, NEW d, <<c, d>> \in Links, NEW a \in Agents, NEW b, b # "over", d[a] = At(b)
    PROVE  c[a].base = b
<1>1. ASSUME NEW e, NEW f, <<e, f>> \in LineLinks
      PROVE  /\ f[a] = At(b) => e[a].base = b
             /\ e[a] = At(b) => f[a].base = b
  <2>1. PICK ab \in Configs \X Configs :
           \E i \in 1..(Len(Extend[ab]) - 1) : <<e, f>> = <<Extend[ab][i], Extend[ab][i + 1]>>
    BY <1>1 DEF LineLinks
  <2>2. PICK i \in 1..(Len(Extend[ab]) - 1) : e = Extend[ab][i] /\ f = Extend[ab][i + 1]
    BY <2>1
  <2>3. /\ ab \in Arms \X Arms /\ Extend[ab] = ArmsLine[ab] /\ Extend[ab] \in Seq(Configs)
        /\ ab[1] \in Arms /\ ab[2] \in Arms
    BY PipelineAssumption, MotionAssumption
  <2> DEFINE l == [j \in 1..5 |-> [o \in Agents |-> Leg(ab[1][o], ab[2][o])[j]]]
  <2>4. CASE ab[1] = ab[2]
    <3>1. Extend[ab] = <<>>
      BY <2>3, <2>4 DEF ArmsLine
    <3>2. QED
      BY <2>2, <3>1
  <2>5. CASE ab[1] # ab[2]
    <3>1. Extend[ab] = l
      BY <2>3, <2>5 DEF ArmsLine
    <3>2. DOMAIN Extend[ab] = 1..5
      BY <3>1
    <3>3. Len(Extend[ab]) \in Nat /\ 1..Len(Extend[ab]) = 1..5
      BY <2>3, <3>2, LenProperties
    <3>4. i \in 1..4 /\ i + 1 \in 1..5
      BY <3>3
    <3>5. e[a] = Leg(ab[1][a], ab[2][a])[i] /\ f[a] = Leg(ab[1][a], ab[2][a])[i + 1]
      BY <2>2, <3>1, <3>4
    <3>6. ab[1][a] \in Points /\ ab[2][a] \in Points
      BY <2>3 DEF Arms
    <3>7. QED
      BY <3>4, <3>5, <3>6, LegNeighbours
  <2>6. QED
    BY <2>4, <2>5
<1>2. CASE <<c, d>> \in LineLinks
  BY <1>1, <1>2
<1>3. CASE \E xy \in LineLinks : <<c, d>> = <<xy[2], xy[1]>>
  <2>1. PICK xy \in LineLinks : c = xy[2] /\ d = xy[1]
    BY <1>3
  <2>2. xy = <<d, c>>
    BY <2>1 DEF LineLinks
  <2>3. QED
    BY <1>1, <2>1, <2>2
<1>4. CASE c = d
  BY <1>4 DEF At
<1>5. QED
  BY <1>2, <1>3, <1>4 DEF Links

\* path[::freq] + path[-3:-1] ends with the last configuration but one.
LEMMA KeptEnds ==
    ASSUME NEW S, NEW path \in Seq(S), path # <<>>, NEW freq \in Nat \ {0}
    PROVE  /\ Kept(path, freq) \in Seq(S) /\ Kept(path, freq) # <<>>
           /\ Last(Kept(path, freq)) = path[IF Len(path) = 1 THEN 1 ELSE Len(path) - 1]
<1> DEFINE n == Len(path)
           m == (n + freq - 1) \div freq
           thinned == [i \in 1..m |-> path[(i - 1) * freq + 1]]
           end == SubSeq(path, IF n < 3 THEN 1 ELSE n - 2, n - 1)
<1>1. n \in Nat /\ n >= 1 /\ DOMAIN path = 1..n /\ \A i \in 1..n : path[i] \in S
  BY LenProperties, ElementOfSeq
<1> HIDE DEF n
<1>2. m \in Nat /\ m >= 1 /\ (m - 1) * freq <= n - 1
  <2>1. n + freq - 1 \in Nat /\ n + freq - 1 >= freq
    BY <1>1
  <2>2. \A x \in Nat : x >= freq => /\ x \div freq \in Nat /\ x \div freq >= 1
                                    /\ (x \div freq) * freq <= x
    BY Z3
  <2>3. m \in Nat /\ m >= 1 /\ m * freq <= n + freq - 1
    BY <2>1, <2>2
  <2> HIDE DEF m
  <2>4. (m - 1) * freq = m * freq - freq
    BY <2>3
  <2>5. m * freq \in Nat
    BY <2>3
  <2>6. QED
    BY <1>1, <2>3, <2>4, <2>5
<1> HIDE DEF m
<1>3. ASSUME NEW i \in 1..m PROVE (i - 1) * freq + 1 \in 1..n
  <2>1. i - 1 \in Nat /\ m - 1 \in Nat /\ i - 1 <= m - 1
    BY <1>2
  <2>2. \A x, y \in Nat : x <= y => x * freq \in Nat /\ x * freq <= y * freq
    BY Z3
  <2>3. (i - 1) * freq \in Nat /\ (i - 1) * freq <= (m - 1) * freq /\ (m - 1) * freq \in Nat
    BY <2>1, <2>2
  <2>4. QED
    BY <1>1, <1>2, <2>3
<1>4. thinned \in Seq(S) /\ Len(thinned) = m
  <2>1. thinned \in [1..m -> S]
    BY <1>1, <1>3
  <2> HIDE DEF thinned
  <2>2. QED
    BY <1>2, <2>1, FunctionsAreSequences
<1>5. Kept(path, freq) = thinned \o end
  BY DEF Kept, n, m
<1>6. CASE n = 1
  <2>1. end = <<>>
    BY <1>6, SubSeqEmpty
  <2>2. Kept(path, freq) = thinned
    BY <1>4, <1>5, <2>1, ConcatEmptySeq
  <2>3. m = 1
    BY <1>2, <1>6
  <2>4. QED
    BY <1>1, <1>4, <1>6, <2>2, <2>3 DEF Last, n
<1>7. CASE n > 1
  <2> DEFINE from == IF n < 3 THEN 1 ELSE n - 2
  <2>1. from \in 1..n /\ n - 1 \in from..n
    BY <1>1, <1>7
  <2> HIDE DEF from
  <2>2. end = SubSeq(path, from, n - 1)
    BY DEF from
  <2> HIDE DEF end
  <2>3. /\ end \in Seq(S) /\ Len(end) = (n - 1) - from + 1
        /\ \A i \in 1..((n - 1) - from + 1) : end[i] = path[from + i - 1]
    BY <1>1, <2>1, <2>2, SubSeqProperties DEF n
  <2>4. Len(end) \in Nat /\ Len(end) >= 1 /\ end[Len(end)] = path[n - 1]
    <3>1. Len(end) \in 1..((n - 1) - from + 1) /\ from + Len(end) - 1 = n - 1
      BY <1>1, <1>7, <2>1, <2>3
    <3>2. QED
      BY <2>3, <3>1
  <2> HIDE DEF thinned
  <2>5. /\ Kept(path, freq) \in Seq(S) /\ Len(Kept(path, freq)) = m + Len(end)
        /\ \A i \in 1..(m + Len(end)) :
              Kept(path, freq)[i] = IF i <= m THEN thinned[i] ELSE end[i - m]
    <3>1. end \in Seq(S)
      BY <2>3
    <3>2. /\ thinned \o end \in Seq(S) /\ Len(thinned \o end) = Len(thinned) + Len(end)
          /\ \A i \in 1..(Len(thinned) + Len(end)) :
                (thinned \o end)[i] =
                   IF i <= Len(thinned) THEN thinned[i] ELSE end[i - Len(thinned)]
      BY <1>4, <3>1, ConcatProperties
    <3>3. QED
      BY <1>4, <1>5, <3>2, Zenon
  <2>6. /\ m + Len(end) \in 1..(m + Len(end)) /\ ~(m + Len(end) <= m)
        /\ (m + Len(end)) - m = Len(end) /\ m + Len(end) # 0
    BY <1>2, <2>4
  <2>7. Last(Kept(path, freq)) = path[n - 1]
    BY <2>4, <2>5, <2>6 DEF Last
  <2>8. Kept(path, freq) # <<>>
    BY <2>5, <2>6
  <2>9. QED
    BY <1>7, <2>5, <2>7, <2>8 DEF n
<1>8. QED
  BY <1>1, <1>6, <1>7

-----------------------------------------------------------------------------
(* What the inverse kinematics finds of a list of poses.                   *)

LEMMA EveryNumber ==
    ASSUME NEW S, 0 \in S, \A n \in Nat : n \in S => n + 1 \in S
    PROVE  \A n \in Nat : n \in S
<1> SUFFICES ASSUME NEW m \in Nat, m \notin S PROVE FALSE
  OBVIOUS
<1> DEFINE T == Nat \ S
<1>1. T \subseteq Nat /\ T # {}
  OBVIOUS
<1>2. PICK x \in T : \A y \in T : <<y, x>> \notin OpToRel(<, Nat)
  <2> HIDE DEF T
  <2>1. QED
    BY <1>1, WFMin, NatLessThanWellFounded, Zenon
<1>3. x \in Nat /\ x \notin S /\ x # 0
  OBVIOUS
<1>4. x - 1 \in Nat /\ x - 1 < x /\ (x - 1) + 1 = x
  BY <1>3
<1>5. x - 1 \in S
  BY <1>2, <1>4 DEF OpToRel
<1>6. QED
  BY <1>3, <1>4, <1>5

UpTo(S, i) == {j \in S : j =< i}

Ranked(S) == \A n \in 1..Cardinality(S) : \E i \in S : Cardinality(UpTo(S, i)) = n

\* Every rank up to the number of its members is taken in a set of numbers.
LEMMA RanksAreTaken ==
    ASSUME NEW N \in Nat, NEW S \in SUBSET (1..N)
    PROVE  IsFiniteSet(S) /\ Cardinality(S) \in Nat /\ Ranked(S)
<1> DEFINE Good == {m \in Nat : \A T \in SUBSET (1..m) :
                      IsFiniteSet(T) /\ Cardinality(T) \in Nat /\ Ranked(T)}
<1>1. 0 \in Good
  <2>1. \A T \in SUBSET (1..0) : T = {}
    OBVIOUS
  <2>2. IsFiniteSet({}) /\ Cardinality({}) = 0
    BY FS_EmptySet
  <2>3. Ranked({})
    BY <2>2 DEF Ranked
  <2>4. \A T \in SUBSET (1..0) : IsFiniteSet(T) /\ Cardinality(T) \in Nat /\ Ranked(T)
    <3> SUFFICES ASSUME NEW T \in SUBSET (1..0)
                 PROVE  IsFiniteSet(T) /\ Cardinality(T) \in Nat /\ Ranked(T)
      OBVIOUS
    <3>1. T = {}
      BY <2>1
    <3>2. QED
      BY <2>2, <2>3, <3>1
  <2>5. QED
    BY <2>4
<1>2. ASSUME NEW m \in Nat, m \in Good PROVE m + 1 \in Good
  <2> SUFFICES ASSUME NEW T \in SUBSET (1..(m + 1))
               PROVE  IsFiniteSet(T) /\ Cardinality(T) \in Nat /\ Ranked(T)
    OBVIOUS
  <2>1. CASE m + 1 \notin T
    <3>1. T \in SUBSET (1..m)
      BY <2>1
    <3>2. QED
      BY <1>2, <3>1
  <2>2. CASE m + 1 \in T
    <3> DEFINE R == T \ {m + 1}
    <3>1. R \in SUBSET (1..m) /\ m + 1 \notin R /\ T = R \cup {m + 1}
      BY <2>2
    <3>2. IsFiniteSet(R) /\ Cardinality(R) \in Nat /\ Ranked(R)
      BY <1>2, <3>1
    <3> HIDE DEF R
    <3>3. IsFiniteSet(T) /\ Cardinality(T) = Cardinality(R) + 1
      BY <3>1, <3>2, FS_AddElement
    <3>4. ASSUME NEW n \in 1..Cardinality(T) PROVE \E i \in T : Cardinality(UpTo(T, i)) = n
      <4>1. CASE n = Cardinality(T)
        <5>1. UpTo(T, m + 1) = T
          <6>1. \A j \in 1..(m + 1) : j =< m + 1
            OBVIOUS
          <6>2. QED
            BY <6>1 DEF UpTo
        <5>2. QED
          BY <2>2, <4>1, <5>1
      <4>2. CASE n # Cardinality(T)
        <5>1. n \in 1..Cardinality(R)
          BY <3>2, <3>3, <4>2
        <5>2. PICK i \in R : Cardinality(UpTo(R, i)) = n
          BY <3>2, <5>1 DEF Ranked
        <5>3. i \in T /\ i \in 1..m
          BY <3>1
        <5>4. UpTo(T, i) = UpTo(R, i)
          BY <3>1, <5>3 DEF UpTo
        <5>5. QED
          BY <5>2, <5>3, <5>4
      <4>3. QED
        BY <4>1, <4>2
    <3>5. QED
      BY <3>2, <3>3, <3>4 DEF Ranked
  <2>3. QED
    BY <2>1, <2>2
<1> HIDE DEF Good
<1>3. \A m \in Nat : m \in Good
  BY <1>1, <1>2, EveryNumber
<1>4. QED
  BY <1>3 DEF Good

\* The waypoints that were found are some of those there were.
LEMMA SolvedTypes ==
    ASSUME NEW S, NEW waypoints \in Seq(S), NEW kept \in Solved(waypoints)
    PROVE  kept \in Seq(S)
<1>1. PICK poses \in PosesFound(waypoints) :
        kept = [n \in 1..Cardinality(poses) |->
                  waypoints[CHOOSE i \in poses : Cardinality({j \in poses : j =< i}) = n]]
  BY DEF Solved
<1>2. Len(waypoints) \in Nat /\ DOMAIN waypoints = 1..Len(waypoints)
      /\ \A i \in DOMAIN waypoints : waypoints[i] \in S
  BY LenProperties, ElementOfSeq
<1>3. poses \in SUBSET (1..Len(waypoints))
  BY <1>2 DEF PosesFound
<1>4. Cardinality(poses) \in Nat /\ Ranked(poses)
  BY <1>2, <1>3, RanksAreTaken
<1>5. ASSUME NEW n \in 1..Cardinality(poses)
      PROVE  waypoints[CHOOSE i \in poses : Cardinality({j \in poses : j =< i}) = n] \in S
  <2>1. \E i \in poses : Cardinality({j \in poses : j =< i}) = n
    BY <1>4 DEF Ranked, UpTo
  <2>2. (CHOOSE i \in poses : Cardinality({j \in poses : j =< i}) = n) \in poses
    BY <2>1
  <2>3. QED
    BY <1>2, <1>3, <2>2
<1>6. kept \in [1..Cardinality(poses) -> S]
  BY <1>1, <1>5
<1>7. QED
  BY <1>4, <1>6, FunctionsAreSequences

-----------------------------------------------------------------------------
(* What the parser makes of a response.                                    *)

Spots == Bases \cup {"over"}

WorldOK(w) ==
    /\ w.hands \in Arms /\ w.rest \in [Items -> Spots]
    /\ w.weld \in [Agents -> Items \cup {Nothing}]

PartOK(p) ==
    /\ p.target \in Points /\ p.waypoints \in Seq(Points)
    /\ p.object \in Items \cup {Nothing}
    /\ p.object # Nothing => p.target = At(p.target.base)
    /\ p.home => p.object # Nothing

\* An item to be grasped is where the response found it, in no hand, and the hand empty.
GraspOK(w, a, p) ==
    p.on => /\ p.object \in Items /\ Carriers(w, p.object) = {} /\ ~p.home
            /\ p.target.base = w.rest[p.object] /\ w.weld[a] = Nothing

\* What a single plan lets go of is what the hand holds or touches.
LetsGoOK(w, a, p) == p.object # Nothing /\ ~p.on => p.object \in Contacts(w, a)

\* Path plans made in w; only the first of them grasps, and if there are two it lets go
\* of nothing.
PlansOK(w, path_plans) ==
    /\ path_plans \in Seq(Range(path_plans)) /\ Len(path_plans) \in {0, 1, 2}
    /\ \A m \in DOMAIN path_plans : \A a \in Agents :
          /\ PartOK(path_plans[m][a]) /\ GraspOK(w, a, path_plans[m][a])
          /\ path_plans[m][a].on => m = 1
          /\ \A b \in Agents :
                Len(path_plans[m][a].waypoints) = Len(path_plans[m][b].waypoints)
    /\ \A a \in Agents :
          /\ Len(path_plans) = 1 => LetsGoOK(w, a, path_plans[1][a])
          /\ Len(path_plans) = 2 =>
                /\ path_plans[1][a].object # Nothing => path_plans[1][a].on
                /\ path_plans[2][a].object = path_plans[1][a].object

LEMMA NoPlansAreOK == ASSUME NEW w PROVE PlansOK(w, <<>>)
<1>1. <<>> \in Seq(Range(<<>>)) /\ Len(<<>>) = 0 /\ DOMAIN <<>> = {}
  BY EmptySeq
<1>2. QED
  BY <1>1 DEF PlansOK

LEMMA PlaceIsASpot ==
    ASSUME NEW w, WorldOK(w), NEW i \in Items
    PROVE  Place(w, i) \in Spots /\ At(Place(w, i)) \in Points
<1>1. \A p \in Points : p.base \in Spots
  BY DEF Points, Spots, Over, At, Near
<1>2. Place(w, i) \in Spots
  <2>1. CASE Carriers(w, i) = {}
    BY <2>1 DEF Place, WorldOK
  <2>2. CASE Carriers(w, i) # {}
    <3>1. (CHOOSE a \in Carriers(w, i) : TRUE) \in Agents
      BY <2>2 DEF Carriers
    <3>2. w.hands[CHOOSE a \in Carriers(w, i) : TRUE] \in Points
      BY <3>1 DEF WorldOK, Arms
    <3>3. QED
      BY <1>1, <2>2, <3>2 DEF Place
  <2>3. QED
    BY <2>1, <2>2
<1>3. QED
  BY <1>2 DEF Spots, Points, Over

LEMMA TargetPointIsAPoint ==
    ASSUME NEW w, WorldOK(w), NEW name \in Targets
    PROVE  /\ TargetPoint(w, name) \in Points
           /\ TargetPoint(w, name) = At(TargetPoint(w, name).base)
           /\ name \in Items => TargetPoint(w, name).base = Place(w, name)
<1>1. CASE name \in Slots
  <2>1. TargetPoint(w, name) = At(name) /\ name \in Bases /\ name \notin Items
    BY <1>1, TableAssumption DEF TargetPoint, Bases
  <2>2. At(name) \in Points /\ At(name).base = name
    BY <2>1 DEF Points, At
  <2>3. QED
    BY <2>1, <2>2
<1>2. CASE name \notin Slots
  <2>1. TargetPoint(w, name) = At(Place(w, name)) /\ name \in Items
    BY <1>2 DEF TargetPoint, Targets
  <2>2. QED
    BY <2>1, PlaceIsASpot DEF At
<1>3. QED
  BY <1>1, <1>2

\* The parts an action is parsed to, PICK PLACE to two and any other to one.
PartsOK(w, a, verb, parts) ==
    /\ \/ /\ Len(parts) = 1 /\ LetsGoOK(w, a, parts[1])
          /\ verb \in {"WAIT", "MOVE"} => parts[1].object = Nothing /\ ~parts[1].on
       \/ /\ Len(parts) = 2 /\ PartOK(parts[2]) /\ ~parts[2].on
          /\ parts[1].on /\ parts[2].object = parts[1].object
    /\ PartOK(parts[1]) /\ GraspOK(w, a, parts[1])

LEMMA PickIsParsed ==
    ASSUME NEW w, WorldOK(w), NEW a \in Agents, NEW act, act.path \in Seq(Points),
           ParsePick(w, a, act).ok
    PROVE  \E p : /\ ParsePick(w, a, act).plans = <<p>>
                  /\ PartOK(p) /\ GraspOK(w, a, p) /\ p.on
                  /\ p.object = act.object /\ act.object \in Items
<1> DEFINE p == Part(TargetPoint(w, act.object), act.object, TRUE, Nothing, FALSE,
                     act.path, act.verb)
<1>1. /\ act.object \in Items /\ \A b \in Agents : act.object \notin Contacts(w, b)
      /\ Contacts(w, a) = {} /\ ParsePick(w, a, act).plans = <<p>>
  BY DEF ParsePick, Parsed, Failed
<1>2. Carriers(w, act.object) = {}
  BY <1>1 DEF Carriers, Contacts
<1>3. act.object \in Targets
  BY <1>1 DEF Targets
<1>4. /\ p.target = TargetPoint(w, act.object) /\ p.object = act.object
      /\ p.waypoints = act.path /\ p.on = TRUE /\ p.home = FALSE
  BY DEF Part
<1>5. /\ TargetPoint(w, act.object) \in Points
      /\ TargetPoint(w, act.object) = At(TargetPoint(w, act.object).base)
      /\ TargetPoint(w, act.object).base = w.rest[act.object]
  BY <1>1, <1>2, <1>3, TargetPointIsAPoint DEF Place
<1>6. PartOK(p) /\ GraspOK(w, a, p) /\ p.on
  <2> HIDE DEF p
  <2>1. w.weld[a] = Nothing
    BY <1>1 DEF Contacts, WorldOK
  <2>2. QED
    BY <1>1, <1>2, <1>4, <1>5, <2>1 DEF PartOK, GraspOK
<1>7. QED
  BY <1>1, <1>4, <1>6

LEMMA PairOfTwo ==
    ASSUME NEW x, NEW y
    PROVE  Len(<<x>> \o <<y>>) = 2 /\ (<<x>> \o <<y>>)[1] = x /\ (<<x>> \o <<y>>)[2] = y
<1>1. <<x>> \in Seq({x, y}) /\ <<y>> \in Seq({x, y}) /\ Len(<<x>>) = 1 /\ Len(<<y>>) = 1
  OBVIOUS
<1>2. QED
  BY <1>1, ConcatProperties

LEMMA ActionIsParsed ==
    ASSUME NEW w, WorldOK(w), NEW a \in Agents, NEW act, act.path \in Seq(Points),
           ParseAction(w, a, act).ok
    PROVE  PartsOK(w, a, act.verb, ParseAction(w, a, act).plans)
<1> DEFINE ParsedTo(p) == ParseAction(w, a, act).plans = <<p>>
<1>1. \A x : ~Failed(x).ok
  BY DEF Failed
<1>2. ASSUME NEW p, ParsedTo(p), PartOK(p), GraspOK(w, a, p), ~p.on, LetsGoOK(w, a, p),
             act.verb \in {"WAIT", "MOVE"} => p.object = Nothing
      PROVE  PartsOK(w, a, act.verb, ParseAction(w, a, act).plans)
  BY <1>2 DEF PartsOK
<1>3. CASE act.verb = "PICK PLACE"
  <2> DEFINE r == ParsePickPlace(w, a, act)
  <2>0. ParseAction(w, a, act) = r
    BY <1>3 DEF ParseAction
  <2>1. ParsePick(w, a, act).ok /\ act.target \in Targets
    <3>1. CASE ~ParsePick(w, a, act).ok \/ act.target \notin Targets
      <4>1. r = Failed("parse")
        BY <3>1 DEF ParsePickPlace
      <4>2. QED
        BY <1>1, <2>0, <4>1
    <3>2. QED
      BY <3>1
  <2>2. PICK p : /\ ParsePick(w, a, act).plans = <<p>> /\ PartOK(p) /\ GraspOK(w, a, p) /\ p.on
                 /\ p.object = act.object /\ act.object \in Items
    BY <2>1, PickIsParsed
  <2> DEFINE place == Part(TargetPoint(w, act.target), act.object, FALSE, Nothing, TRUE,
                           <<>>, act.verb)
  <2>3. ParseAction(w, a, act).plans = <<p>> \o <<place>>
    BY <2>0, <2>1, <2>2 DEF ParsePickPlace, Parsed
  <2>4. <<>> \in Seq(Points)
    BY EmptySeq
  <2>5. PartOK(place) /\ ~place.on /\ place.object = act.object
    <3>1. act.object # Nothing
      BY <2>2, TableAssumption
    <3>2. QED
      BY <2>1, <2>2, <2>4, <3>1, TargetPointIsAPoint DEF PartOK, Part
  <2> HIDE DEF place, r
  <2>6. /\ Len(ParseAction(w, a, act).plans) = 2
        /\ ParseAction(w, a, act).plans[1] = p /\ ParseAction(w, a, act).plans[2] = place
    BY <2>3, PairOfTwo
  <2>7. QED
    BY <2>2, <2>5, <2>6 DEF PartsOK
<1>4. CASE act.verb = "PICK"
  <2>1. ParseAction(w, a, act) = ParsePick(w, a, act)
    BY <1>4 DEF ParseAction
  <2>2. PICK p : /\ ParsePick(w, a, act).plans = <<p>> /\ PartOK(p) /\ GraspOK(w, a, p) /\ p.on
                 /\ p.object = act.object /\ act.object \in Items
    BY <2>1, PickIsParsed
  <2>3. QED
    BY <1>4, <2>1, <2>2 DEF PartsOK, LetsGoOK
<1>5. CASE act.verb = "PLACE" \/ act.verb = "PUT"
  <2> DEFINE place == Part(TargetPoint(w, act.target), act.object, FALSE, InhandOf(w, a), TRUE,
                           act.path, act.verb)
  <2> DEFINE r == ParseAction(w, a, act)
  <2>0. r \in {ParsePlace(w, a, act), ParsePut(w, a, act)}
    BY <1>5 DEF ParseAction
  <2>1. ParsedTo(place) /\ act.target \in Targets
    <3> HIDE DEF place
    <3>1. r.ok
      OBVIOUS
    <3> HIDE DEF r
    <3>2. r \in {Failed("parse"), Parsed(<<place>>)}
      BY <2>0 DEF ParsePlace, ParsePut, place
    <3>3. act.target \in Targets
      BY <1>1, <2>0, <3>1 DEF ParsePlace, ParsePut
    <3>4. r.plans = <<place>>
      BY <1>1, <3>1, <3>2 DEF Parsed
    <3>5. QED
      BY <3>3, <3>4 DEF r
  <2>2. act.object \in Contacts(w, a)
    <3>1. r.ok
      OBVIOUS
    <3> HIDE DEF r
    <3>2. QED
      BY <1>1, <2>0, <3>1 DEF ParsePlace, ParsePut
  <2>3. act.object \in Items /\ act.object # Nothing
    BY <2>2, TableAssumption DEF Contacts
  <2>4. PartOK(place) /\ GraspOK(w, a, place) /\ ~place.on /\ place.object = act.object
    BY <2>1, <2>3, TargetPointIsAPoint DEF PartOK, GraspOK, Part
  <2>5. LetsGoOK(w, a, place)
    BY <2>2, <2>4 DEF LetsGoOK
  <2>6. QED
    BY <1>2, <1>5, <2>1, <2>4, <2>5
<1>6. CASE act.verb = "MOVE"
  <2> DEFINE move == Part(TargetPoint(w, act.target), Nothing, FALSE, InhandOf(w, a), FALSE,
                          <<>>, act.verb)
  <2>1. ParsedTo(move) /\ act.target \in Targets
    BY <1>1, <1>6 DEF ParseAction, ParseMove, Parsed
  <2>2. <<>> \in Seq(Points)
    BY EmptySeq
  <2>3. PartOK(move) /\ GraspOK(w, a, move) /\ ~move.on /\ move.object = Nothing
    BY <2>1, <2>2, TargetPointIsAPoint DEF PartOK, GraspOK, Part
  <2>4. LetsGoOK(w, a, move)
    BY <2>3 DEF LetsGoOK
  <2>5. QED
    BY <1>2, <2>1, <2>3, <2>4
<1>7. CASE act.verb = "WAIT"
  <2> DEFINE wait == Part(w.hands[a], Nothing, FALSE, InhandOf(w, a), FALSE, act.path, act.verb)
  <2>1. ParsedTo(wait)
    BY <1>7 DEF ParseAction, ParseWait, Parsed
  <2>2. w.hands[a] \in Points
    BY DEF WorldOK, Arms
  <2>3. PartOK(wait) /\ GraspOK(w, a, wait) /\ ~wait.on /\ wait.object = Nothing
    BY <2>2 DEF PartOK, GraspOK, Part
  <2>4. LetsGoOK(w, a, wait)
    BY <2>3 DEF LetsGoOK
  <2>5. QED
    BY <1>2, <2>1, <2>3, <2>4
<1>8. CASE /\ act.verb # "PICK PLACE" /\ act.verb # "PICK" /\ act.verb # "PLACE"
           /\ act.verb # "PUT" /\ act.verb # "MOVE" /\ act.verb # "WAIT"
  <2>1. ParseAction(w, a, act) = Failed("parse")
    BY <1>8 DEF ParseAction
  <2>2. QED
    BY <1>1, <2>1
<1>9. QED
  BY <1>3, <1>4, <1>5, <1>6, <1>7, <1>8

\* How the parts of the lines make up the path plans of a response that parses.
LEMMA ResponseParts ==
    ASSUME NEW w, WorldOK(w), NEW acts, \A a \in Agents : acts[a].path \in Seq(Points),
           ParseActions(w, acts).ok,
           NEW path_plans, path_plans = ParseActions(w, acts).plans
    PROVE  LET parts(a) == ParseAction(w, a, acts[a]).plans
               N == Len(path_plans)
           IN  /\ path_plans \in Seq(Range(path_plans)) /\ N \in {1, 2}
               /\ \A a \in Agents :
                     /\ ParseAction(w, a, acts[a]).ok /\ Len(parts(a)) \in {1, 2}
                     /\ PartsOK(w, a, acts[a].verb, parts(a))
                     /\ N = 1 => Len(parts(a)) = 1
                     /\ Len(parts(a)) # N => acts[a].verb \in {"WAIT", "MOVE"}
               /\ \A j \in 1..N : \A a \in Agents :
                     path_plans[j][a] = parts(a)[IF Len(parts(a)) = N THEN j ELSE 1]
               /\ \A j \in 1..N : \A a, b \in Agents :
                     Len(path_plans[j][a].waypoints) = Len(path_plans[j][b].waypoints)
<1> DEFINE lines == [a \in Agents |-> ParseAction(w, a, acts[a])]
           N == CHOOSE j \in {Len(lines[a].plans) : a \in Agents} :
                   \A a \in Agents : Len(lines[a].plans) =< j
           part(a, j) == lines[a].plans[IF Len(lines[a].plans) = N THEN j ELSE 1]
           short(a) == Len(lines[a].plans) # N
           refused == \/ \E a \in Agents : ~lines[a].ok
                      \/ \E a \in Agents : short(a) /\ acts[a].verb \notin {"WAIT", "MOVE"}
                      \/ \E a, b \in Agents, j \in 1..N :
                           Len(part(a, j).waypoints) # Len(part(b, j).waypoints)
           made == [j \in 1..N |-> [a \in Agents |-> part(a, j)]]
<1>1. ParseActions(w, acts) = IF refused THEN Failed("parse") ELSE Parsed(made)
  BY DEF ParseActions
<1> HIDE DEF made, refused
<1>2. ~refused /\ ParseActions(w, acts).plans = made
  BY <1>1 DEF Failed, Parsed
<1>3. /\ \A a \in Agents : lines[a].ok
      /\ \A a \in Agents : short(a) => acts[a].verb \in {"WAIT", "MOVE"}
  BY <1>2 DEF refused
<1>4. \A a \in Agents : lines[a] = ParseAction(w, a, acts[a])
  OBVIOUS
<1> HIDE DEF lines
<1>5. ASSUME NEW a \in Agents PROVE PartsOK(w, a, acts[a].verb, lines[a].plans)
  BY <1>3, <1>4, ActionIsParsed
<1>6. \A a \in Agents : Len(lines[a].plans) \in {1, 2}
  BY <1>5 DEF PartsOK
<1>7. /\ N \in {1, 2} /\ \A a \in Agents : Len(lines[a].plans) =< N
  <2>1. AgentOrder[1] \in Agents
    BY TableAssumption DEF Agents, Range
  <2>2. \E j \in {Len(lines[a].plans) : a \in Agents} : \A a \in Agents : Len(lines[a].plans) =< j
    <3>1. CASE \E a \in Agents : Len(lines[a].plans) = 2
      <4>1. 2 \in {Len(lines[a].plans) : a \in Agents}
        BY <3>1
      <4>2. \A j \in {1, 2} : j =< 2
        OBVIOUS
      <4>3. \A a \in Agents : Len(lines[a].plans) =< 2
        BY <1>6, <4>2
      <4>4. QED
        BY <4>1, <4>3
    <3>2. CASE \A a \in Agents : Len(lines[a].plans) = 1
      <4>1. 1 \in {Len(lines[a].plans) : a \in Agents}
        BY <2>1, <3>2
      <4>2. 1 =< 1
        OBVIOUS
      <4>3. \A a \in Agents : Len(lines[a].plans) =< 1
        BY <3>2, <4>2
      <4>4. QED
        BY <4>1, <4>3
    <3>3. QED
      BY <1>6, <3>1, <3>2
  <2>3. /\ N \in {Len(lines[a].plans) : a \in Agents}
        /\ \A a \in Agents : Len(lines[a].plans) =< N
    BY <2>2
  <2> HIDE DEF N
  <2>4. QED
    BY <1>6, <2>3
<1>8. DOMAIN made = 1..N /\ \A j \in 1..N : \A a \in Agents : made[j][a] = part(a, j)
  BY DEF made
<1> HIDE DEF N
<1>9. made \in Seq(Range(made))
  <2>1. made \in [1..N -> Range(made)]
    <3> HIDE DEF part
    <3>1. \A j \in 1..N : made[j] \in Range(made)
      BY <1>8 DEF Range
    <3>2. made = [j \in 1..N |-> made[j]]
      BY DEF made
    <3>3. QED
      BY <3>1, <3>2
  <2>2. QED
    BY <1>7, <2>1, FunctionsAreSequences
<1>10. \A a, b \in Agents, j \in 1..N : Len(part(a, j).waypoints) = Len(part(b, j).waypoints)
  BY <1>2 DEF refused
<1>11. Len(made) = N
  <2>1. N \in Nat
    BY <1>7
  <2>2. QED
    BY <1>8, <1>9, <2>1, LenProperties
<1>12. \A a \in Agents : N = 1 => Len(lines[a].plans) = 1
  <2>1. ~(2 =< 1)
    OBVIOUS
  <2>2. QED
    BY <1>6, <1>7, <2>1
<1> HIDE DEF part
<1>13. \A a \in Agents : PartsOK(w, a, acts[a].verb, lines[a].plans)
  BY <1>5
<1>14. \A j \in 1..N : \A a, b \in Agents :
          Len(made[j][a].waypoints) = Len(made[j][b].waypoints)
  BY <1>8, <1>10
<1>15. \A j \in 1..N : \A a \in Agents :
          made[j][a] = lines[a].plans[IF Len(lines[a].plans) = N THEN j ELSE 1]
  BY <1>8 DEF part
<1>16. path_plans = made
  BY <1>2
<1>17. QED
  BY <1>3, <1>4, <1>6, <1>7, <1>9, <1>11, <1>12, <1>13, <1>14, <1>15, <1>16

\* The path plans of a response that parses.
LEMMA ResponseIsParsed ==
    ASSUME NEW w, WorldOK(w), NEW acts, \A a \in Agents : acts[a].path \in Seq(Points),
           ParseActions(w, acts).ok
    PROVE  PlansOK(w, ParseActions(w, acts).plans) /\ 1 \in DOMAIN ParseActions(w, acts).plans
<1> DEFINE made == ParseActions(w, acts).plans
           parts(a) == ParseAction(w, a, acts[a]).plans
           N == Len(made)
           part(a, j) == parts(a)[IF Len(parts(a)) = N THEN j ELSE 1]
<1>1. /\ made \in Seq(Range(made)) /\ N \in {1, 2}
      /\ \A a \in Agents :
            /\ Len(parts(a)) \in {1, 2} /\ PartsOK(w, a, acts[a].verb, parts(a))
            /\ N = 1 => Len(parts(a)) = 1
            /\ Len(parts(a)) # N => acts[a].verb \in {"WAIT", "MOVE"}
      /\ \A j \in 1..N : \A a \in Agents : made[j][a] = part(a, j)
      /\ \A j \in 1..N : \A a, b \in Agents :
            Len(made[j][a].waypoints) = Len(made[j][b].waypoints)
  BY ResponseParts
<1> HIDE DEF made, parts
<1>2. DOMAIN made = 1..N
  BY <1>1, LenProperties
<1> HIDE DEF N
<1>3. ASSUME NEW j \in 1..N, NEW a \in Agents
      PROVE  /\ PartOK(part(a, j)) /\ GraspOK(w, a, part(a, j))
             /\ part(a, j).on => j = 1
  <2>1. PartsOK(w, a, acts[a].verb, parts(a)) /\ (j = 1 \/ (j = 2 /\ N = 2))
    BY <1>1
  <2>2. CASE Len(parts(a)) = N
    <3>1. part(a, j) = parts(a)[j]
      BY <2>2
    <3>2. j = 2 => PartOK(parts(a)[2]) /\ ~parts(a)[2].on
      BY <2>1, <2>2 DEF PartsOK
    <3>3. PartOK(parts(a)[1]) /\ GraspOK(w, a, parts(a)[1])
      BY <2>1 DEF PartsOK
    <3>4. QED
      BY <2>1, <3>1, <3>2, <3>3 DEF GraspOK
  <2>3. CASE Len(parts(a)) # N
    <3>1. part(a, j) = parts(a)[1] /\ acts[a].verb \in {"WAIT", "MOVE"} /\ Len(parts(a)) = 1
      BY <1>1, <2>3
    <3>2. ~parts(a)[1].on /\ PartOK(parts(a)[1]) /\ GraspOK(w, a, parts(a)[1])
      BY <2>1, <3>1 DEF PartsOK
    <3>3. QED
      BY <3>1, <3>2
  <2>4. QED
    BY <2>2, <2>3
<1>4. ASSUME NEW a \in Agents
      PROVE  /\ N = 1 => LetsGoOK(w, a, part(a, 1))
             /\ N = 2 => /\ part(a, 1).object # Nothing => part(a, 1).on
                         /\ part(a, 2).object = part(a, 1).object
  <2>1. PartsOK(w, a, acts[a].verb, parts(a))
    BY <1>1
  <2>2. CASE N = 1
    <3>1. Len(parts(a)) = 1 /\ part(a, 1) = parts(a)[1]
      BY <1>1, <2>2
    <3>2. LetsGoOK(w, a, parts(a)[1])
      BY <2>1, <3>1 DEF PartsOK
    <3>3. QED
      BY <2>2, <3>1, <3>2
  <2>3. CASE N = 2 /\ Len(parts(a)) = 2
    <3>1. /\ part(a, 1) = parts(a)[1] /\ part(a, 2) = parts(a)[2]
          /\ parts(a)[1].on /\ parts(a)[2].object = parts(a)[1].object
      BY <2>1, <2>3 DEF PartsOK
    <3>2. QED
      BY <2>3, <3>1
  <2>4. CASE N = 2 /\ Len(parts(a)) # 2
    <3>1. /\ Len(parts(a)) = 1 /\ acts[a].verb \in {"WAIT", "MOVE"}
          /\ part(a, 1) = parts(a)[1] /\ part(a, 2) = parts(a)[1]
      BY <1>1, <2>4
    <3>2. parts(a)[1].object = Nothing
      BY <2>1, <3>1 DEF PartsOK
    <3>3. QED
      BY <2>4, <3>1, <3>2
  <2>5. QED
    BY <1>1, <2>2, <2>3, <2>4
<1>5. QED
  <2> HIDE DEF part
  <2>1. \A a \in Agents :
           /\ Len(made) = 1 => LetsGoOK(w, a, made[1][a])
           /\ Len(made) = 2 => /\ made[1][a].object # Nothing => made[1][a].on
                               /\ made[2][a].object = made[1][a].object
    BY <1>1, <1>4 DEF N
  <2>2. Len(made) \in {0, 1, 2} /\ 1 \in DOMAIN made
    BY <1>1, <1>2 DEF N
  <2>3. QED
    BY <1>1, <1>2, <1>3, <2>1, <2>2 DEF PlansOK, made, N

\* In skill mode the compiler writes the actions.
LEMMA CompiledIsParsed ==
    ASSUME NEW w, WorldOK(w), NEW calls, Compile(w, calls).ok
    PROVE  PlansOK(w, Compile(w, calls).plans) /\ 1 \in DOMAIN Compile(w, calls).plans
<1>1. \A a \in Agents : Synthetic(w, calls)[a].path = <<>>
  BY DEF Synthetic
<1>2. <<>> \in Seq(Points)
  BY EmptySeq
<1>3. ParseActions(w, Synthetic(w, calls)).ok
      /\ Compile(w, calls) = ParseActions(w, Synthetic(w, calls))
  BY DEF Compile, Failed
<1>4. QED
  BY <1>1, <1>2, <1>3, ResponseIsParsed

LEMMA PreparedIsParsed ==
    ASSUME WorldOK(world), NEW response, Prepared(response).ok
    PROVE  PlansOK(world, Prepared(response).plans) /\ 1 \in DOMAIN Prepared(response).plans
<1>1. Prepared(response) = Compile(world, Calls(response))
  BY DEF Prepared, Failed
<1>2. QED
  BY <1>1, CompiledIsParsed

-----------------------------------------------------------------------------
(* Queries, and where their answers leave the arms.                        *)

SimAction == [hands : Arms, grasp : BOOLEAN]

HomeQuery(plan, start) ==
    [start |-> start, goal |-> Homecoming(plan, start), samples |-> <<>>,
     drawn |-> Drawn(start, Homecoming(plan, start)), blocked |-> Scene(plan),
     splitted |-> FALSE, skip_ends |-> TRUE,
     skip_direct |-> mode.skip_direct, skip_smooth |-> mode.skip_smooth]

LEMMA WaypointTypes ==
    ASSUME NEW plan, \A a \in Agents : PartOK(plan[a]),
           \A a, b \in Agents : Len(plan[a].waypoints) = Len(plan[b].waypoints)
    PROVE  Waypoints(plan) \in Seq(Arms)
<1> DEFINE one == plan[AgentOrder[1]].waypoints
<1>1. AgentOrder[1] \in Agents
  BY TableAssumption DEF Agents, Range
<1>2. \A a \in Agents : plan[a].waypoints \in Seq(Points)
  BY DEF PartOK
<1>3. Len(one) \in Nat /\ DOMAIN one = 1..Len(one)
  BY <1>1, <1>2, LenProperties
<1>4. \A a \in Agents : \A n \in 1..Len(one) : plan[a].waypoints[n] \in Points
  BY <1>1, <1>2, ElementOfSeq
<1>5. Waypoints(plan) \in [1..Len(one) -> Arms]
  BY <1>3, <1>4 DEF Waypoints, Arms
<1>6. QED
  BY <1>3, <1>5, FunctionsAreSequences

\* Both calls of the planner are queries it is specified for.
LEMMA PathQuery ==
    ASSUME mode \in Modes, WorldOK(world), PlansOK(saved, plans), k \in DOMAIN plans,
           NEW waypoints \in Solved(Waypoints(plans[k]))
    PROVE  QposQuery(plans[k], waypoints) \in Queries
<1>1. \A a \in Agents : PartOK(plans[k][a])
  BY DEF PlansOK
<1>2. \A a, b \in Agents : Len(plans[k][a].waypoints) = Len(plans[k][b].waypoints)
  BY DEF PlansOK
<1>3. Waypoints(plans[k]) \in Seq(Arms)
  BY <1>1, <1>2, WaypointTypes
<1>4. Reverse(waypoints) \in Seq(Arms)
  BY <1>3, SolvedTypes, ReverseType
<1>5. Goal(plans[k]) \in Arms /\ world.hands \in Arms
  BY <1>1 DEF Goal, Arms, PartOK, WorldOK
<1>6. Drawn(world.hands, Goal(plans[k])) \subseteq Arms /\ Scene(plans[k]) \subseteq Arms
  BY DEF Drawn, Scene, Blocked
<1>7. /\ mode.splitted \in BOOLEAN /\ mode.skip_direct \in BOOLEAN
      /\ mode.skip_smooth \in BOOLEAN /\ Configs = Arms
  BY PipelineAssumption
<1>8. QED
  BY <1>4, <1>5, <1>6, <1>7 DEF QposQuery, Queries

LEMMA HomecomingQuery ==
    ASSUME mode \in Modes, NEW plan, NEW start \in Arms
    PROVE  HomeQuery(plan, start) \in Queries
<1>1. \A a \in Agents : At(a) \in Points
  BY DEF Points, Bases
<1>2. Homecoming(plan, start) \in Arms
  BY <1>1 DEF Homecoming, Arms
<1>3. Drawn(start, Homecoming(plan, start)) \subseteq Arms /\ Scene(plan) \subseteq Arms
  BY DEF Drawn, Scene, Blocked
<1>4. /\ mode.skip_direct \in BOOLEAN /\ mode.skip_smooth \in BOOLEAN /\ Configs = Arms
  BY PipelineAssumption
<1>5. <<>> \in Seq(Configs)
  BY EmptySeq
<1>6. QED
  BY <1>2, <1>3, <1>4, <1>5 DEF HomeQuery, Queries

\* The hands that a grasp action is for are at their targets.
AtTargets(c, plan) ==
    \A a \in Agents : plan[a].object # Nothing /\ plan[a].target.base # "over" =>
        c[a].base = plan[a].target.base

LEMMA KeptPathEndsAtTargets ==
    ASSUME NEW plan, \A a \in Agents : PartOK(plan[a]), NEW path, NEW start, NEW B,
           Route(path, start, Goal(plan), B)
    PROVE  /\ Kept(path, ControlFreq) \in Seq(Arms) /\ Kept(path, ControlFreq) # <<>>
           /\ AtTargets(Last(Kept(path, ControlFreq)), plan)
<1> DEFINE n == Len(path)
           c == Last(Kept(path, ControlFreq))
<1>1. /\ path \in Seq(Arms) /\ path # <<>> /\ path[n] = Goal(plan) /\ LinksUp(path)
      /\ ControlFreq \in Nat \ {0}
  BY PipelineAssumption DEF Route
<1>2. n \in Nat /\ n >= 1
  BY <1>1, LenProperties
<1>3. /\ Kept(path, ControlFreq) \in Seq(Arms) /\ Kept(path, ControlFreq) # <<>>
      /\ c = path[IF n = 1 THEN 1 ELSE n - 1]
  BY <1>1, KeptEnds
<1> HIDE DEF c, n
<1>4. ASSUME NEW a \in Agents, plan[a].object # Nothing, plan[a].target.base # "over"
      PROVE  c[a].base = plan[a].target.base
  <2>1. Goal(plan)[a] = At(plan[a].target.base)
    BY <1>4 DEF Goal, PartOK
  <2>2. CASE n = 1
    BY <1>1, <1>3, <2>1, <2>2 DEF At
  <2>3. CASE n # 1
    <3>1. n - 1 \in 1..(n - 1) /\ (n - 1) + 1 = n
      BY <1>2, <2>3
    <3>2. <<path[n - 1], path[(n - 1) + 1]>> \in Links
      BY <1>1, <3>1 DEF LinksUp, n
    <3>3. <<c, Goal(plan)>> \in Links
      BY <1>1, <1>3, <2>3, <3>1, <3>2
    <3>4. QED
      BY <1>4, <2>1, <3>3, LinkNear
  <2>4. QED
    BY <2>2, <2>3
<1>5. QED
  BY <1>3, <1>4 DEF AtTargets, c

LEMMA MovesTypes ==
    ASSUME NEW path \in Seq(Arms)
    PROVE  /\ Moves(path) \in Seq(SimAction) /\ Len(Moves(path)) = Len(path)
           /\ \A m \in 1..Len(path) : Moves(path)[m].hands = path[m] /\ ~Moves(path)[m].grasp
<1>1. Len(path) \in Nat /\ DOMAIN path = 1..Len(path) /\ \A m \in 1..Len(path) : path[m] \in Arms
  BY LenProperties, ElementOfSeq
<1>2. \A m \in 1..Len(path) : [hands |-> path[m], grasp |-> FALSE] \in SimAction
  BY <1>1 DEF SimAction
<1>3. Moves(path) = [m \in 1..Len(path) |-> [hands |-> path[m], grasp |-> FALSE]]
  BY <1>1 DEF Moves
<1>4. Moves(path) \in [1..Len(path) -> SimAction]
  BY <1>2, <1>3
<1>5. Moves(path) \in Seq(SimAction) /\ Len(Moves(path)) = Len(path)
  BY <1>1, <1>4, FunctionsAreSequences
<1>6. QED
  BY <1>3, <1>5

\* The actions of a plan end with the one that grasps.
LEMMA PlannedActions ==
    ASSUME NEW path \in Seq(Arms), path # <<>>,
           NEW acts, acts = Moves(path) \o <<[hands |-> Last(path), grasp |-> TRUE]>>
    PROVE  /\ acts \in Seq(SimAction) /\ acts # <<>> /\ DOMAIN acts = 1..(Len(path) + 1)
           /\ \A m \in 1..Len(path) : acts[m].hands = path[m] /\ ~acts[m].grasp
           /\ acts[Len(path) + 1] = [hands |-> Last(path), grasp |-> TRUE]
           /\ Last(acts) = [hands |-> Last(path), grasp |-> TRUE]
<1> DEFINE act == [hands |-> Last(path), grasp |-> TRUE]
<1>1. Len(path) \in Nat /\ Len(path) >= 1 /\ \A m \in 1..Len(path) : path[m] \in Arms
  BY LenProperties, ElementOfSeq
<1>2. act \in SimAction
  BY <1>1 DEF SimAction, Last
<1> HIDE DEF act
<1>3. /\ Moves(path) \in Seq(SimAction) /\ Len(Moves(path)) = Len(path)
      /\ \A m \in 1..Len(path) : Moves(path)[m].hands = path[m] /\ ~Moves(path)[m].grasp
  BY MovesTypes
<1>4. acts = Append(Moves(path), act)
  BY <1>2, <1>3, AppendIsConcat DEF act
<1>5. /\ acts \in Seq(SimAction) /\ acts # <<>> /\ Len(acts) = Len(path) + 1
      /\ \A m \in 1..Len(path) : acts[m] = Moves(path)[m]
      /\ acts[Len(path) + 1] = act
  <2>1. /\ Append(Moves(path), act) \in Seq(SimAction) /\ Append(Moves(path), act) # <<>>
        /\ Len(Append(Moves(path), act)) = Len(Moves(path)) + 1
        /\ \A m \in 1..Len(Moves(path)) : Append(Moves(path), act)[m] = Moves(path)[m]
        /\ Append(Moves(path), act)[Len(Moves(path)) + 1] = act
    <3>1. Moves(path) \in Seq(SimAction)
      BY <1>3
    <3>2. QED
      BY <1>2, <3>1, AppendProperties
  <2>2. QED
    BY <1>3, <1>4, <2>1
<1>6. DOMAIN acts = 1..(Len(path) + 1)
  BY <1>5, LenProperties
<1>7. QED
  BY <1>3, <1>5, <1>6 DEF Last, act

\* The way home is appended to them.
LEMMA HomedActions ==
    ASSUME NEW acts \in Seq(SimAction), acts # <<>>, NEW path \in Seq(Arms)
    PROVE  /\ acts \o Moves(path) \in Seq(SimAction) /\ acts \o Moves(path) # <<>>
           /\ \A m \in DOMAIN acts :
                 m \in DOMAIN (acts \o Moves(path)) /\ (acts \o Moves(path))[m] = acts[m]
           /\ \A m \in DOMAIN (acts \o Moves(path)) :
                 \/ m \in DOMAIN acts /\ (acts \o Moves(path))[m] = acts[m]
                 \/ /\ m \notin DOMAIN acts /\ ~(acts \o Moves(path))[m].grasp
                    /\ m - Len(acts) \in 1..Len(path)
                    /\ (acts \o Moves(path))[m].hands = path[m - Len(acts)]
<1> DEFINE both == acts \o Moves(path)
<1>1. /\ Moves(path) \in Seq(SimAction) /\ Len(Moves(path)) = Len(path)
      /\ \A m \in 1..Len(path) : Moves(path)[m].hands = path[m] /\ ~Moves(path)[m].grasp
  BY MovesTypes
<1>2. Len(acts) \in Nat /\ Len(acts) >= 1 /\ Len(path) \in Nat /\ DOMAIN acts = 1..Len(acts)
  BY LenProperties
<1>3. /\ both \in Seq(SimAction) /\ Len(both) = Len(acts) + Len(path)
      /\ \A m \in 1..(Len(acts) + Len(path)) :
            both[m] = IF m <= Len(acts) THEN acts[m] ELSE Moves(path)[m - Len(acts)]
  <2>1. /\ both \in Seq(SimAction) /\ Len(both) = Len(acts) + Len(Moves(path))
        /\ \A m \in 1..(Len(acts) + Len(Moves(path))) :
              both[m] = IF m <= Len(acts) THEN acts[m] ELSE Moves(path)[m - Len(acts)]
    <3>1. Moves(path) \in Seq(SimAction)
      BY <1>1
    <3>2. QED
      BY <3>1, ConcatProperties
  <2> HIDE DEF both
  <2>2. QED
    BY <1>1, <2>1
<1> HIDE DEF both
<1>4. DOMAIN both = 1..(Len(acts) + Len(path))
  BY <1>3, LenProperties
<1>5. both # <<>>
  BY <1>2, <1>3
<1>6. ASSUME NEW m \in DOMAIN both
      PROVE  \/ m \in DOMAIN acts /\ both[m] = acts[m]
             \/ /\ m \notin DOMAIN acts /\ ~both[m].grasp
                /\ m - Len(acts) \in 1..Len(path) /\ both[m].hands = path[m - Len(acts)]
  <2>1. m \in 1..(Len(acts) + Len(path))
    BY <1>4
  <2>2. CASE m <= Len(acts)
    BY <1>2, <1>3, <2>1, <2>2
  <2>3. CASE ~(m <= Len(acts))
    <3>1. m - Len(acts) \in 1..Len(path) /\ m \notin 1..Len(acts)
      BY <1>2, <2>1, <2>3
    <3>2. both[m] = Moves(path)[m - Len(acts)]
      BY <1>3, <2>1, <2>3
    <3>3. QED
      BY <1>1, <1>2, <3>1, <3>2
  <2>4. QED
    BY <2>2, <2>3
<1>7. \A m \in DOMAIN acts : m \in DOMAIN both /\ both[m] = acts[m]
  BY <1>2, <1>3, <1>4
<1>8. QED
  BY <1>3, <1>5, <1>6, <1>7 DEF both

-----------------------------------------------------------------------------
(* The inductive invariant of a round.                                     *)

Underway == pc \in {"policy", "planning", "home", "homing", "act"}
Buffered == pc \in {"home", "homing", "act"}

TypesInv ==
    /\ mode \in Modes /\ WorldOK(world) /\ WorldOK(saved) /\ PlansOK(saved, plans)
    /\ Underway => k \in DOMAIN plans
    /\ actions \in Seq(SimAction)
    /\ Buffered => actions # <<>>

\* What the planner was asked is about the plan and the world there are.
QueryInv ==
    /\ pc = "planning" =>
          \E waypoints \in Solved(Waypoints(plans[k])) : query = QposQuery(plans[k], waypoints)
    /\ pc = "homing" => query = HomeQuery(plans[k], Last(actions).hands)

\* One of the buffered actions grasps and lets go, where the plan says.
BufferInv ==
    Buffered =>
        /\ pc # "act" => \E m \in DOMAIN actions : actions[m].grasp
        /\ \A m \in DOMAIN actions : actions[m].grasp => AtTargets(actions[m].hands, plans[k])
        /\ \A m, n \in DOMAIN actions : actions[m].grasp /\ actions[n].grasp => m = n

\* What the m-th plan finds in the hands.
WeldFor(m) == IF m = 1 THEN saved.weld ELSE Grasped(saved.weld, plans[1])

\* Until then the items are as the plan found them, and after it as it is to leave them;
\* only the last plan lets go of one.
Pending == Underway /\ (pc = "act" => \E m \in DOMAIN actions : actions[m].grasp)
Grabbed == pc = "act" /\ ~\E m \in DOMAIN actions : actions[m].grasp

PendingInv ==
    /\ Pending => world.weld = WeldFor(k) /\ world.rest = saved.rest
    /\ Grabbed => /\ world.weld = Grasped(WeldFor(k), plans[k])
                  /\ k < Len(plans) => world.rest = saved.rest

GraspInv == TypesInv /\ MotionInv /\ QueryInv /\ BufferInv /\ PendingInv

LEMMA GraspInit == Init => GraspInv
<1> SUFFICES ASSUME Init PROVE GraspInv
  OBVIOUS
<1>1. WorldOK(NewWorld)
  <2>1. \A a \in Agents : At(a) \in Points
    BY DEF Points, Bases
  <2>2. NewWorld.hands \in Arms
    BY <2>1 DEF NewWorld, AtHome, Arms
  <2>3. NewWorld.rest \in [Items -> Spots]
    BY DEF NewWorld, Spots, Bases
  <2>4. NewWorld.weld \in [Agents -> Items \cup {Nothing}]
    BY DEF NewWorld
  <2>5. QED
    BY <2>2, <2>3, <2>4 DEF WorldOK
<1>2. PlansOK(NewWorld, <<>>)
  BY NoPlansAreOK
<1>3. <<>> \in Seq(SimAction)
  BY EmptySeq
<1>4. MotionInv
  BY InitMotion DEF Init
<1>5. /\ pc = "respond" /\ mode \in Modes /\ world = NewWorld /\ saved = NewWorld
      /\ plans = <<>> /\ actions = <<>>
  BY DEF Init
<1>6. ~Underway /\ ~Buffered /\ ~Grabbed /\ ~Pending
  BY <1>5 DEF Underway, Buffered, Grabbed, Pending
<1>7. QED
  BY <1>1, <1>2, <1>3, <1>4, <1>5, <1>6 DEF GraspInv, TypesInv, QueryInv, BufferInv, PendingInv

\* Every step is a step of the planner, or none of its business.
LEMMA PipelineMovesPlanner == TypesInv /\ [Next]_vars => [MotionNext]_motion_vars
<1> SUFFICES ASSUME TypesInv, [Next]_vars PROVE [MotionNext]_motion_vars
  OBVIOUS
<1>1. CASE MakePolicy
  <2>1. PICK waypoints \in Solved(Waypoints(plans[k])) : Call(QposQuery(plans[k], waypoints))
    BY <1>1 DEF MakePolicy
  <2>2. k \in DOMAIN plans
    BY <1>1 DEF MakePolicy, TypesInv, Underway
  <2>3. QposQuery(plans[k], waypoints) \in Queries
    BY <2>2, PathQuery DEF TypesInv
  <2>4. QED
    BY <2>1, <2>3 DEF MotionNext
<1>2. CASE GoHome
  <2>1. Call(HomeQuery(plans[k], Last(actions).hands))
    BY <1>2 DEF GoHome, HomeQuery
  <2>2. Last(actions).hands \in Arms
    <3>1. actions \in Seq(SimAction) /\ actions # <<>>
      BY <1>2 DEF GoHome, TypesInv, Buffered
    <3>2. Last(actions) \in SimAction
      BY <3>1, LenProperties, ElementOfSeq DEF Last
    <3>3. QED
      BY <3>2 DEF SimAction
  <2>3. HomeQuery(plans[k], Last(actions).hands) \in Queries
    BY <2>2, HomecomingQuery DEF TypesInv
  <2>4. QED
    BY <2>1, <2>3 DEF MotionNext
<1>3. CASE Planning
  BY <1>3 DEF Planning, MotionNext
<1>4. CASE Planned \/ Homed
  BY <1>4 DEF Planned, Homed, MotionNext
<1>5. CASE Respond \/ NoPolicy \/ Act \/ Abort \/ FinishRound \/ UNCHANGED vars
  BY <1>5 DEF Respond, NoPolicy, Act, Abort, FinishRound, vars
<1>6. QED
  BY <1>1, <1>2, <1>3, <1>4, <1>5 DEF Next

RoundInv == TypesInv /\ QueryInv /\ BufferInv /\ PendingInv

LEMMA LastAction ==
    ASSUME NEW acts \in Seq(SimAction), acts # <<>>
    PROVE  Last(acts) \in SimAction /\ Last(acts).hands \in Arms
<1>1. Last(acts) \in SimAction
  BY LenProperties, ElementOfSeq DEF Last
<1>2. QED
  BY <1>1 DEF SimAction

LEMMA RespondKeeps == GraspInv /\ Respond => RoundInv'
<1> SUFFICES ASSUME GraspInv, Respond PROVE RoundInv'
  OBVIOUS
<1>1. ASSUME NEW prepared, NEW claimed, Answered(prepared, claimed), pc = "respond",
             prepared.ok => PlansOK(world, prepared.plans) /\ 1 \in DOMAIN prepared.plans
      PROVE  RoundInv'
  <2>1. TypesInv /\ ~Underway /\ ~Buffered
    BY <1>1 DEF GraspInv, Underway, Buffered
  <2>2. CASE UNCHANGED <<mode, world, saved, pc, plans, k, claims, actions, done, status, round>>
    <3>1. ~Underway' /\ ~Buffered' /\ pc' = "respond"
      BY <1>1, <2>2 DEF Underway, Buffered
    <3>2. TypesInv'
      BY <2>1, <2>2, <3>1 DEF TypesInv
    <3>3. QED
      BY <3>1, <3>2 DEF RoundInv, QueryInv, BufferInv, PendingInv, Pending, Grabbed, WeldFor
  <2>3. CASE /\ prepared.ok
             /\ plans' = prepared.plans /\ k' = 1 /\ saved' = world /\ pc' = "policy"
             /\ UNCHANGED <<mode, world, actions>>
    <3>1. ~Buffered' /\ PlansOK(saved', plans') /\ k' \in DOMAIN plans'
      BY <1>1, <2>3 DEF Buffered
    <3>2. TypesInv'
      BY <2>1, <2>3, <3>1 DEF TypesInv
    <3>3. ~Grabbed' /\ WeldFor(k)' = saved'.weld /\ saved' = world'
      BY <2>3 DEF Grabbed, WeldFor
    <3>4. PendingInv'
      BY <3>3 DEF PendingInv
    <3>5. QED
      BY <2>3, <3>1, <3>2, <3>4 DEF RoundInv, QueryInv, BufferInv
  <2>4. QED
    BY <1>1, <2>2, <2>3 DEF Answered
<1>2. WorldOK(world) /\ mode \in Modes
  BY DEF GraspInv, TypesInv
<1>3. CASE Skill
  <2>1. PICK response \in SkillResponses :
           Answered(Prepared(response), IF Prepared(response).ok THEN Claims(response) ELSE {})
    BY <1>3 DEF Respond
  <2>2. QED
    BY <1>1, <1>2, <2>1, PreparedIsParsed DEF Respond
<1>4. CASE ~Skill
  <2>1. PICK acts \in ActionResponses[mode.output] : Answered(ParseActions(world, acts), {})
    BY <1>4 DEF Respond
  <2>2. mode.output \in {"action", "path"}
    BY <1>2, <1>4, PipelineAssumption DEF Skill
  <2>3. \A a \in Agents : acts[a].path \in Seq(Points)
    BY <2>1, <2>2, PipelineAssumption
  <2>4. ParseActions(world, acts).ok =>
          /\ PlansOK(world, ParseActions(world, acts).plans)
          /\ 1 \in DOMAIN ParseActions(world, acts).plans
    BY <1>2, <2>3, ResponseIsParsed
  <2>5. QED
    BY <1>1, <2>1, <2>4 DEF Respond
<1>5. QED
  BY <1>3, <1>4

LEMMA MakePolicyKeeps == GraspInv /\ MakePolicy => RoundInv'
<1> SUFFICES ASSUME GraspInv, MakePolicy PROVE RoundInv'
  OBVIOUS
<1>1. /\ pc = "policy" /\ pc' = "planning"
      /\ UNCHANGED <<mode, world, saved, plans, k, actions>>
  BY DEF MakePolicy
<1>2. PICK waypoints \in Solved(Waypoints(plans[k])) : Call(QposQuery(plans[k], waypoints))
  BY DEF MakePolicy
<1>3. TypesInv'
  BY <1>1 DEF GraspInv, TypesInv, Underway, Buffered
<1>4. QueryInv'
  <2>1. query' = QposQuery(plans[k], waypoints)
    BY <1>2 DEF Call
  <2>2. QposQuery(plans[k], waypoints)' = QposQuery(plans[k], waypoints)
    BY <1>1 DEF QposQuery, Scene
  <2>3. waypoints \in Solved(Waypoints(plans[k]))'
    BY <1>1
  <2>4. QED
    BY <1>1, <2>1, <2>2, <2>3 DEF QueryInv
<1>5. BufferInv'
  BY <1>1 DEF BufferInv, Buffered
<1>6. PendingInv'
  BY <1>1 DEF GraspInv, PendingInv, Pending, Grabbed, WeldFor, Underway
<1>7. QED
  BY <1>3, <1>4, <1>5, <1>6 DEF RoundInv

LEMMA PlanningKeeps == GraspInv /\ Planning => RoundInv'
<1> SUFFICES ASSUME GraspInv, Planning PROVE RoundInv'
  OBVIOUS
<1>1. UNCHANGED <<mode, world, saved, pc, plans, k, actions>>
  BY DEF Planning, run_vars
<1>2. query' = query
  BY DEF Planning, PlanningStep, WholeLine, StartLeg, Grow, GiveUp, Smooth, Smoothed, Answer,
         LegDone
<1>3. QueryInv'
  BY <1>1, <1>2 DEF GraspInv, QueryInv, QposQuery, HomeQuery, Scene
<1>4. QED
  BY <1>1, <1>3 DEF GraspInv, RoundInv, TypesInv, BufferInv, PendingInv, Pending, Grabbed, WeldFor, Underway,
                    Buffered

\* An execution that ends leaves nothing to be done.
LEMMA EndedKeeps == ASSUME GraspInv, NEW outcome, Ended(outcome) PROVE RoundInv'
<1>1. /\ pc' = "round" /\ actions' = <<>> /\ UNCHANGED <<mode, world, saved, plans, k>>
  BY DEF Ended
<1>2. ~Underway' /\ ~Buffered'
  BY <1>1 DEF Underway, Buffered
<1>3. <<>> \in Seq(SimAction)
  BY EmptySeq
<1>4. TypesInv'
  BY <1>1, <1>2, <1>3 DEF GraspInv, TypesInv
<1>5. QED
  BY <1>1, <1>2, <1>4 DEF RoundInv, QueryInv, BufferInv, PendingInv, Pending, Grabbed, WeldFor

LEMMA NoPolicyKeeps == GraspInv /\ NoPolicy => RoundInv'
<1> SUFFICES ASSUME GraspInv, NoPolicy PROVE RoundInv'
  OBVIOUS
<1>1. CASE Ended("execution_failed")
  BY <1>1, EndedKeeps
<1>2. CASE pc' = "stopped" /\ UNCHANGED <<mode, world, saved, plans, k, actions>>
  <2>1. ~Underway' /\ ~Buffered'
    BY <1>2 DEF Underway, Buffered
  <2>2. TypesInv'
    BY <1>2, <2>1 DEF GraspInv, TypesInv
  <2>3. QED
    BY <1>2, <2>1, <2>2 DEF RoundInv, QueryInv, BufferInv, PendingInv, Pending, Grabbed, WeldFor
<1>3. QED
  BY <1>1, <1>2 DEF NoPolicy

\* The path of a plan, once there is one.
LEMMA PlannedPath ==
    ASSUME GraspInv, pc = "planning", Return, result.path # <<>>
    PROVE  /\ \A a \in Agents : PartOK(plans[k][a])
           /\ Route(result.path, world.hands, Goal(plans[k]), Scene(plans[k]))
<1>1. k \in DOMAIN plans
  BY DEF GraspInv, TypesInv, Underway
<1>2. \A a \in Agents : PartOK(plans[k][a])
  BY <1>1 DEF GraspInv, TypesInv, PlansOK
<1>3. Route(result.path, query.start, query.goal, query.blocked)
  BY DEF Return, GraspInv, MotionInv
<1>4. /\ query.start = world.hands /\ query.goal = Goal(plans[k])
      /\ query.blocked = Scene(plans[k])
  BY DEF GraspInv, QueryInv, QposQuery
<1>5. QED
  BY <1>2, <1>3, <1>4

LEMMA PlannedKeeps == GraspInv /\ Planned => RoundInv'
<1> SUFFICES ASSUME GraspInv, Planned PROVE RoundInv'
  OBVIOUS
<1> DEFINE path == Kept(result.path, ControlFreq)
           act == [hands |-> Last(path), grasp |-> TRUE]
<1>1. pc = "planning" /\ Return
  BY DEF Planned
<1>2. CASE result.path = <<>> /\ Ended("motion_planning_failed")
  BY <1>2, EndedKeeps
<1>3. CASE /\ result.path # <<>> /\ actions' = Moves(path) \o <<act>>
           /\ pc' = IF \E a \in Agents : plans[k][a].home THEN "home" ELSE "act"
           /\ UNCHANGED <<mode, world, saved, plans, k>>
  <2>1. path \in Seq(Arms) /\ path # <<>> /\ AtTargets(Last(path), plans[k])
    BY <1>1, <1>3, PlannedPath, KeptPathEndsAtTargets
  <2> HIDE DEF path
  <2>2. /\ actions' \in Seq(SimAction) /\ actions' # <<>> /\ DOMAIN actions' = 1..(Len(path) + 1)
        /\ \A m \in 1..Len(path) : ~actions'[m].grasp
        /\ actions'[Len(path) + 1] = act
    BY <1>3, <2>1, PlannedActions
  <2>3. Len(path) \in Nat
    BY <2>1, LenProperties
  <2>4. \A m \in DOMAIN actions' : actions'[m].grasp => m = Len(path) + 1
    BY <2>2, <2>3
  <2>5. pc' \in {"home", "act"} /\ pc' # "planning" /\ pc' # "homing" /\ Buffered' /\ Underway'
    BY <1>3 DEF Buffered, Underway
  <2>6. TypesInv'
    BY <1>1, <1>3, <2>2, <2>5 DEF GraspInv, TypesInv, Underway
  <2>7. BufferInv'
    <3>1. \A m \in DOMAIN actions' : actions'[m].grasp => AtTargets(actions'[m].hands, plans'[k'])
      BY <1>3, <2>1, <2>2, <2>4
    <3>2. \E m \in DOMAIN actions' : actions'[m].grasp
      BY <2>2, <2>3
    <3>3. QED
      BY <2>4, <3>1, <3>2 DEF BufferInv
  <2>8. QueryInv'
    BY <2>5 DEF QueryInv
  <2>9. PendingInv'
    <3>1. Pending
      BY <1>1 DEF Pending, Underway
    <3>2. ~Grabbed'
      BY <2>2, <2>3 DEF Grabbed
    <3>3. QED
      BY <1>3, <3>1, <3>2 DEF GraspInv, PendingInv, WeldFor
  <2>10. QED
    BY <2>6, <2>7, <2>8, <2>9 DEF RoundInv
<1>4. QED
  BY <1>2, <1>3 DEF Planned

LEMMA GoHomeKeeps == GraspInv /\ GoHome => RoundInv'
<1> SUFFICES ASSUME GraspInv, GoHome PROVE RoundInv'
  OBVIOUS
<1>1. /\ pc = "home" /\ pc' = "homing"
      /\ UNCHANGED <<mode, world, saved, plans, k, actions>>
  BY DEF GoHome
<1>2. TypesInv'
  BY <1>1 DEF GraspInv, TypesInv, Underway, Buffered
<1>3. QueryInv'
  <2>1. query' = HomeQuery(plans[k], Last(actions).hands)
    BY DEF GoHome, HomeQuery, Call
  <2>2. HomeQuery(plans[k], Last(actions).hands)' = HomeQuery(plans[k], Last(actions).hands)
    BY <1>1 DEF HomeQuery, Scene
  <2>3. QED
    BY <1>1, <2>1, <2>2 DEF QueryInv
<1>4. BufferInv'
  BY <1>1 DEF GraspInv, BufferInv, Buffered
<1>5. PendingInv'
  BY <1>1 DEF GraspInv, PendingInv, Pending, Grabbed, WeldFor, Underway
<1>6. QED
  BY <1>2, <1>3, <1>4, <1>5 DEF RoundInv

\* The path home, once there is one.
LEMMA HomePath ==
    ASSUME GraspInv, pc = "homing", Return, result.path # <<>>
    PROVE  LET start == Last(actions).hands
           IN  Route(result.path, start, Homecoming(plans[k], start), Scene(plans[k]))
<1>1. Route(result.path, query.start, query.goal, query.blocked)
  BY DEF Return, GraspInv, MotionInv
<1>2. query = HomeQuery(plans[k], Last(actions).hands)
  BY DEF GraspInv, QueryInv
<1>3. QED
  BY <1>1, <1>2 DEF HomeQuery

LEMMA HomedKeeps == GraspInv /\ Homed => RoundInv'
<1> SUFFICES ASSUME GraspInv, Homed PROVE RoundInv'
  OBVIOUS
<1> DEFINE path == IF result.path = <<>> THEN <<>> ELSE Kept(result.path, ControlFreq)
<1>1. /\ pc = "homing" /\ Return /\ pc' = "act"
      /\ UNCHANGED <<mode, world, saved, plans, k>>
  BY DEF Homed
<1>2. path \in Seq(Arms)
  <2>1. CASE result.path = <<>>
    BY <2>1, EmptySeq
  <2>2. CASE result.path # <<>>
    <3>1. result.path \in Seq(Arms)
      BY <1>1, <2>2, HomePath, PipelineAssumption DEF Route
    <3>2. QED
      BY <2>2, <3>1, KeptEnds, PipelineAssumption
  <2>3. QED
    BY <2>1, <2>2
<1>3. actions' = actions \o Moves(path)
  <2>1. CASE result.path = <<>>
    <3>1. Moves(<<>>) = <<>>
      BY DEF Moves
    <3>2. QED
      BY <2>1, <3>1 DEF Homed
  <2>2. CASE result.path # <<>>
    BY <2>2 DEF Homed
  <2>3. QED
    BY <2>1, <2>2
<1> HIDE DEF path
<1>4. actions \in Seq(SimAction) /\ actions # <<>>
  BY <1>1 DEF GraspInv, TypesInv, Buffered
<1>5. /\ actions' \in Seq(SimAction) /\ actions' # <<>>
      /\ \A m \in DOMAIN actions' :
            actions'[m].grasp => m \in DOMAIN actions /\ actions'[m] = actions[m]
      /\ \A m \in DOMAIN actions : m \in DOMAIN actions' /\ actions'[m] = actions[m]
  BY <1>2, <1>3, <1>4, HomedActions
<1>6. TypesInv'
  BY <1>1, <1>5 DEF GraspInv, TypesInv, Underway, Buffered
<1>7. BufferInv'
  BY <1>1, <1>5 DEF GraspInv, BufferInv, Buffered
<1>8. PendingInv'
  <2>1. \E m \in DOMAIN actions : actions[m].grasp
    BY <1>1 DEF GraspInv, BufferInv, Buffered
  <2>2. Pending /\ ~Grabbed'
    BY <1>1, <1>5, <2>1 DEF Pending, Underway, Grabbed
  <2>3. QED
    BY <1>1, <2>2 DEF GraspInv, PendingInv, WeldFor
<1>9. QueryInv'
  BY <1>1 DEF QueryInv
<1>10. QED
  BY <1>6, <1>7, <1>8, <1>9 DEF RoundInv

LEMMA AbortKeeps == GraspInv /\ Abort => RoundInv'
  BY EndedKeeps DEF Abort

\* env.step(), in a world that is as the response may find it.
LEMMA SteppedIsOK ==
    ASSUME NEW w, WorldOK(w), NEW c \in Arms, NEW weld \in [Agents -> Items \cup {Nothing}]
    PROVE  /\ WorldOK(Stepped(w, c, weld))
           /\ weld = w.weld => Stepped(w, c, weld).rest = w.rest
<1>1. /\ Stepped(w, c, weld).hands = c /\ Stepped(w, c, weld).weld = weld
      /\ Stepped(w, c, weld).rest = [i \in Items |->
            IF Carriers(w, i) # {} /\ ~\E a \in Agents : weld[a] = i
            THEN c[CHOOSE a \in Carriers(w, i) : TRUE].base
            ELSE w.rest[i]]
  BY DEF Stepped
<1>2. w.rest \in [Items -> Spots]
  BY DEF WorldOK
<1>3. ASSUME NEW i \in Items, Carriers(w, i) # {}
      PROVE  c[CHOOSE a \in Carriers(w, i) : TRUE].base \in Spots
  <2>1. (CHOOSE a \in Carriers(w, i) : TRUE) \in Agents
    BY <1>3 DEF Carriers
  <2>2. c[CHOOSE a \in Carriers(w, i) : TRUE] \in Points
    BY <2>1 DEF Arms
  <2>3. \A p \in Points : p.base \in Spots
    BY DEF Points, Spots, Over, At, Near
  <2>4. QED
    BY <2>2, <2>3
<1>4. WorldOK(Stepped(w, c, weld))
  BY <1>1, <1>2, <1>3 DEF WorldOK
<1>5. ASSUME weld = w.weld PROVE Stepped(w, c, weld).rest = w.rest
  <2>1. \A i \in Items : ~(Carriers(w, i) # {} /\ ~\E a \in Agents : weld[a] = i)
    BY <1>5 DEF Carriers
  <2>2. QED
    BY <1>1, <1>2, <2>1
<1>6. QED
  BY <1>4, <1>5

\* What is left of the buffer after an env.step.
LEMMA TailOfActions ==
    ASSUME NEW acts \in Seq(SimAction), acts # <<>>
    PROVE  /\ Head(acts) \in SimAction /\ Head(acts) = acts[1] /\ 1 \in DOMAIN acts
           /\ Tail(acts) \in Seq(SimAction)
           /\ \A m \in DOMAIN Tail(acts) :
                 m \in Nat /\ m >= 1 /\ m + 1 \in DOMAIN acts /\ Tail(acts)[m] = acts[m + 1]
<1>1. /\ Head(acts) \in SimAction /\ Tail(acts) \in Seq(SimAction)
      /\ Len(Tail(acts)) = Len(acts) - 1
      /\ \A m \in 1..Len(Tail(acts)) : Tail(acts)[m] = acts[m + 1]
  BY HeadTailProperties
<1>2. Len(acts) \in Nat /\ Len(acts) >= 1 /\ DOMAIN acts = 1..Len(acts)
  BY LenProperties
<1>3. DOMAIN Tail(acts) = 1..Len(Tail(acts))
  BY <1>1, LenProperties
<1>4. Head(acts) = acts[1]
  OBVIOUS
<1>5. QED
  BY <1>1, <1>2, <1>3, <1>4

LEMMA GraspedTypes ==
    ASSUME NEW weld \in [Agents -> Items \cup {Nothing}], NEW plan,
           \A a \in Agents : PartOK(plan[a])
    PROVE  Grasped(weld, plan) \in [Agents -> Items \cup {Nothing}]
  BY DEF Grasped, Tograsp, PartOK

\* A plan that another follows takes nothing from a hand.
LEMMA FirstPlanLetsGoOfNothing ==
    ASSUME NEW w, WorldOK(w), NEW path_plans, PlansOK(w, path_plans), Len(path_plans) = 2
    PROVE  \A a \in Agents : w.weld[a] # Nothing => Grasped(w.weld, path_plans[1])[a] = w.weld[a]
<1> DEFINE plan == path_plans[1]
<1>1. 1 \in DOMAIN path_plans
  BY LenProperties DEF PlansOK
<1>2. \A a \in Agents : /\ GraspOK(w, a, plan[a])
                        /\ plan[a].object # Nothing => plan[a].on
  BY <1>1 DEF PlansOK
<1>3. QED
  BY <1>2 DEF GraspOK, Grasped, Tograsp

\* What an action does to the welds and to where the items rest.
LEMMA ActMoves ==
    ASSUME GraspInv, Act
    PROVE  /\ pc = "act" /\ actions # <<>> /\ actions[1] = Head(actions)
           /\ world' = Stepped(world, actions[1].hands, world'.weld)
           /\ actions[1].hands \in Arms /\ WorldOK(world')
           /\ ~actions[1].grasp =>
                 /\ world'.weld = world.weld /\ world'.rest = world.rest
           /\ actions[1].grasp =>
                 /\ world.weld = WeldFor(k) /\ world.rest = saved.rest
                 /\ world'.weld = Grasped(WeldFor(k), plans[k])
                 /\ k < Len(plans) => k = 1 /\ world'.rest = saved.rest
                 /\ \A m \in DOMAIN actions : actions[m].grasp => m = 1
<1>1. /\ pc = "act"
      /\ world' = Stepped(world, Head(actions).hands, Weld(Head(actions)))
  BY DEF Act
<1>2. /\ WorldOK(world) /\ WorldOK(saved) /\ PlansOK(saved, plans)
      /\ k \in DOMAIN plans /\ actions \in Seq(SimAction) /\ actions # <<>>
  BY <1>1 DEF GraspInv, TypesInv, Underway, Buffered
<1>3. Head(actions) \in SimAction /\ Head(actions) = actions[1] /\ 1 \in DOMAIN actions
  BY <1>2, TailOfActions
<1>4. actions[1].hands \in Arms
  BY <1>3 DEF SimAction
<1>5. world.weld \in [Agents -> Items \cup {Nothing}]
  BY <1>2 DEF WorldOK
<1>6. Weld(Head(actions)) \in [Agents -> Items \cup {Nothing}]
  <2>1. \A a \in Agents : PartOK(plans[k][a])
    BY <1>2 DEF PlansOK
  <2>2. QED
    BY <1>5, <2>1, GraspedTypes DEF Weld
<1>7. world'.weld = Weld(Head(actions))
  BY <1>1 DEF Stepped
<1>8. ASSUME ~actions[1].grasp
      PROVE  world'.weld = world.weld /\ world'.rest = world.rest
  <2>1. Weld(Head(actions)) = world.weld
    BY <1>3, <1>8 DEF Weld
  <2>2. QED
    BY <1>1, <1>2, <1>3, <1>4, <1>5, <1>7, <2>1, SteppedIsOK
<1>9. ASSUME actions[1].grasp
      PROVE  /\ world.weld = WeldFor(k) /\ world.rest = saved.rest
             /\ world'.weld = Grasped(WeldFor(k), plans[k])
             /\ k < Len(plans) => k = 1 /\ world'.rest = saved.rest
             /\ \A m \in DOMAIN actions : actions[m].grasp => m = 1
  <2>1. Pending
    BY <1>1, <1>3, <1>9 DEF Pending, Underway
  <2>2. world.weld = WeldFor(k) /\ world.rest = saved.rest
    BY <2>1 DEF GraspInv, PendingInv
  <2>3. world'.weld = Grasped(WeldFor(k), plans[k])
    BY <1>3, <1>7, <1>9, <2>2 DEF Weld
  <2>4. \A m \in DOMAIN actions : actions[m].grasp => m = 1
    BY <1>1, <1>3, <1>9 DEF GraspInv, BufferInv, Buffered
  <2>5. ASSUME k < Len(plans) PROVE k = 1 /\ world'.rest = saved.rest
    <3>1. k = 1 /\ Len(plans) = 2
      <4>1. plans \in Seq(Range(plans)) /\ Len(plans) \in {0, 1, 2}
        BY <1>2 DEF PlansOK
      <4>2. k \in 1..Len(plans)
        BY <1>2, <4>1, LenProperties
      <4>3. \A x \in {0, 1, 2} : \A y \in 1..x : y < x => y = 1 /\ x = 2
        OBVIOUS
      <4>4. QED
        BY <2>5, <4>1, <4>2, <4>3
    <3>2. \A a \in Agents : saved.weld[a] # Nothing => world'.weld[a] = saved.weld[a]
      BY <1>2, <2>3, <3>1, FirstPlanLetsGoOfNothing DEF WeldFor
    <3>3. \A i \in Items : Carriers(world, i) # {} => \E a \in Agents : world'.weld[a] = i
      BY <2>2, <3>1, <3>2, TableAssumption DEF Carriers, WeldFor
    <3>4. world'.rest = [i \in Items |-> world.rest[i]]
      BY <1>1, <1>7, <3>3 DEF Stepped
    <3>5. QED
      BY <1>2, <2>2, <3>1, <3>4 DEF WorldOK
  <2>6. QED
    BY <2>2, <2>3, <2>4, <2>5
<1>10. WorldOK(world')
  BY <1>1, <1>2, <1>3, <1>4, <1>6, SteppedIsOK
<1>11. QED
  BY <1>1, <1>2, <1>3, <1>4, <1>7, <1>8, <1>9, <1>10

LEMMA ActKeeps == GraspInv /\ Act => RoundInv'
<1> SUFFICES ASSUME GraspInv, Act PROVE RoundInv'
  OBVIOUS
<1> DEFINE over == Skill /\ done'
<1>1. /\ pc = "act" /\ UNCHANGED <<mode, saved, plans>>
      /\ actions' = IF over THEN <<>> ELSE Tail(actions)
      /\ pc' = IF actions' # <<>> THEN "act"
               ELSE IF k < Len(plans) /\ ~over THEN "policy" ELSE "round"
      /\ k' = IF pc' = "policy" THEN k + 1 ELSE k
  BY DEF Act
<1> HIDE DEF over
<1>2. /\ mode \in Modes /\ WorldOK(saved) /\ PlansOK(saved, plans)
      /\ k \in DOMAIN plans /\ actions \in Seq(SimAction) /\ actions # <<>>
  BY <1>1 DEF GraspInv, TypesInv, Underway, Buffered
<1>3. /\ 1 \in DOMAIN actions /\ Tail(actions) \in Seq(SimAction)
      /\ \A m \in DOMAIN Tail(actions) :
            m \in Nat /\ m >= 1 /\ m + 1 \in DOMAIN actions /\ Tail(actions)[m] = actions[m + 1]
  BY <1>2, TailOfActions
<1>4. /\ \A m \in DOMAIN actions : actions[m].grasp => AtTargets(actions[m].hands, plans[k])
      /\ \A m, n \in DOMAIN actions : actions[m].grasp /\ actions[n].grasp => m = n
  BY <1>1 DEF GraspInv, BufferInv, Buffered
<1>5. WorldOK(world')
  BY ActMoves
<1>6. plans \in Seq(Range(plans)) /\ DOMAIN plans = 1..Len(plans) /\ Len(plans) \in Nat
  BY <1>2, LenProperties DEF PlansOK
<1>7. CASE actions' # <<>>
  <2>1. actions' = Tail(actions) /\ pc' = "act" /\ k' = k
    BY <1>1, <1>7
  <2>2. TypesInv'
    BY <1>1, <1>2, <1>3, <1>5, <1>7, <2>1 DEF TypesInv
  <2>3. \A m \in DOMAIN actions' :
           m \in Nat /\ m >= 1 /\ m + 1 \in DOMAIN actions /\ actions'[m] = actions[m + 1]
    BY <1>3, <2>1
  <2>4. BufferInv'
    <3>1. \A m \in DOMAIN actions' : actions'[m].grasp => AtTargets(actions'[m].hands, plans[k])
      BY <1>4, <2>3
    <3>2. ASSUME NEW m \in DOMAIN actions', NEW n \in DOMAIN actions',
                 actions'[m].grasp, actions'[n].grasp
          PROVE  m = n
      <4>1. m + 1 = n + 1
        BY <1>4, <2>3, <3>2
      <4>2. QED
        BY <2>3, <4>1
    <3>3. QED
      BY <1>1, <2>1, <3>1, <3>2 DEF BufferInv
  <2>5. UNCHANGED <<saved, plans, k>> /\ pc' = "act" /\ pc = "act"
    BY <1>1, <2>1
  <2>6. CASE actions[1].grasp
    <3>1. ~Pending'
      <4>1. \A m \in DOMAIN actions' : ~actions'[m].grasp
        BY <2>3, <2>6, ActMoves
      <4>2. QED
        BY <2>1, <4>1 DEF Pending
    <3>2. QED
      BY <2>1, <2>2, <2>4, <2>5, <2>6, <3>1, ActMoves DEF RoundInv, QueryInv, PendingInv, WeldFor
  <2>7. CASE ~actions[1].grasp
    <3>1. world'.weld = world.weld /\ world'.rest = world.rest
      BY <2>7, ActMoves
    <3>2. Pending' => Pending
      BY <2>1, <2>3, <2>5 DEF Pending, Underway
    <3>3. Grabbed' => Grabbed
      <4>1. ASSUME Grabbed', NEW m \in DOMAIN actions, actions[m].grasp PROVE FALSE
        <5>1. m # 1 /\ m \in 1..Len(actions) /\ Len(actions) \in Nat
          BY <1>2, <2>7, <4>1, LenProperties
        <5>2. m - 1 \in 1..(Len(actions) - 1) /\ (m - 1) + 1 = m
          BY <5>1
        <5>3. Tail(actions) \in Seq(SimAction) /\ Len(Tail(actions)) = Len(actions) - 1
          BY <1>2, HeadTailProperties
        <5>4. m - 1 \in DOMAIN actions'
          BY <2>1, <5>2, <5>3, LenProperties
        <5>5. actions'[m - 1].grasp
          BY <2>3, <4>1, <5>2, <5>4
        <5>6. QED
          BY <4>1, <5>4, <5>5 DEF Grabbed
      <4>2. QED
        BY <2>5, <4>1 DEF Grabbed
    <3>4. QED
      BY <2>1, <2>2, <2>4, <2>5, <3>1, <3>2, <3>3 DEF GraspInv, RoundInv, QueryInv, PendingInv, WeldFor
  <2>8. QED
    BY <2>6, <2>7
<1>8. CASE actions' = <<>> /\ k < Len(plans) /\ ~over
  <2>1. pc' = "policy" /\ k' = k + 1 /\ actions' = Tail(actions)
    BY <1>1, <1>8
  <2>2. k' \in DOMAIN plans
    BY <1>2, <1>6, <1>8, <2>1
  <2>3. ~Buffered' /\ ~Grabbed'
    BY <2>1 DEF Buffered, Grabbed
  <2>4. <<>> \in Seq(SimAction)
    BY EmptySeq
  <2>5. TypesInv'
    BY <1>1, <1>2, <1>5, <1>8, <2>2, <2>3, <2>4 DEF TypesInv
  <2>6. world'.weld = Grasped(WeldFor(k), plans[k]) /\ world'.rest = saved.rest
    <3>1. CASE actions[1].grasp
      BY <1>8, <3>1, ActMoves
    <3>2. CASE ~actions[1].grasp
      <4>1. Grabbed
        <5>1. Len(Tail(actions)) = Len(actions) - 1 /\ Len(actions) \in Nat
              /\ DOMAIN actions = 1..Len(actions)
          BY <1>2, HeadTailProperties, LenProperties
        <5>2. Len(Tail(actions)) = 0
          <6>1. Tail(actions) = <<>> /\ Len(<<>>) = 0
            BY <1>8, <2>1
          <6>2. QED
            BY <6>1
        <5>3. DOMAIN actions = {1}
          BY <5>1, <5>2
        <5>4. QED
          BY <1>1, <3>2, <5>3 DEF Grabbed
      <4>2. QED
        BY <1>8, <3>2, <4>1, ActMoves DEF GraspInv, PendingInv
    <3>3. QED
      BY <3>1, <3>2
  <2>7. k = 1 /\ k' = 2
    <3>1. Len(plans) \in {0, 1, 2} /\ k \in 1..Len(plans)
      BY <1>2, <1>6 DEF PlansOK
    <3>2. \A x \in {0, 1, 2} : \A y \in 1..x : y < x => y = 1
      OBVIOUS
    <3>3. k = 1
      BY <1>8, <3>1, <3>2
    <3>4. QED
      BY <2>1, <3>3
  <2>8. world'.weld = WeldFor(k)'
    BY <1>1, <2>6, <2>7 DEF WeldFor
  <2>9. PendingInv'
    BY <1>1, <2>3, <2>6, <2>8 DEF PendingInv
  <2>10. QED
    BY <2>1, <2>3, <2>5, <2>9 DEF RoundInv, QueryInv, BufferInv
<1>9. CASE actions' = <<>> /\ ~(k < Len(plans) /\ ~over)
  <2>1. pc' = "round"
    BY <1>1, <1>9
  <2>2. ~Underway' /\ ~Buffered'
    BY <2>1 DEF Underway, Buffered
  <2>3. <<>> \in Seq(SimAction)
    BY EmptySeq
  <2>4. TypesInv'
    BY <1>1, <1>2, <1>5, <1>9, <2>2, <2>3 DEF TypesInv
  <2>5. QED
    BY <2>1, <2>2, <2>4 DEF RoundInv, QueryInv, BufferInv, PendingInv, Pending, Grabbed
<1>10. QED
  BY <1>7, <1>8, <1>9

LEMMA FinishRoundKeeps == GraspInv /\ FinishRound => RoundInv'
<1> SUFFICES ASSUME GraspInv, FinishRound PROVE RoundInv'
  OBVIOUS
<1>1. /\ world' \in {saved, world} /\ pc' \in {"finished", "respond"}
      /\ saved' = world' /\ plans' = <<>> /\ actions' = <<>> /\ mode' = mode
  BY DEF FinishRound
<1>2. /\ ~Underway' /\ ~Buffered' /\ pc' # "planning" /\ pc' # "homing"
      /\ ~Pending' /\ ~Grabbed'
  BY <1>1 DEF Underway, Buffered, Pending, Grabbed
<1>3. PlansOK(saved', <<>>)
  BY NoPlansAreOK
<1>4. <<>> \in Seq(SimAction)
  BY EmptySeq
<1>5. TypesInv'
  BY <1>1, <1>2, <1>3, <1>4 DEF GraspInv, TypesInv
<1>6. QED
  BY <1>2, <1>5 DEF RoundInv, QueryInv, BufferInv, PendingInv

LEMMA StutterKeeps == GraspInv /\ UNCHANGED vars => RoundInv'
<1> SUFFICES ASSUME GraspInv, UNCHANGED vars PROVE RoundInv'
  OBVIOUS
<1>1. UNCHANGED <<mode, world, saved, pc, plans, k, actions, query>>
  BY DEF vars, run_vars, motion_vars
<1>2. QueryInv'
  BY <1>1 DEF GraspInv, QueryInv, QposQuery, HomeQuery, Scene
<1>3. QED
  BY <1>1, <1>2 DEF GraspInv, RoundInv, TypesInv, BufferInv, PendingInv, Pending, Grabbed, WeldFor, Underway,
                    Buffered

LEMMA GraspStep == GraspInv /\ [Next]_vars => GraspInv'
<1> SUFFICES ASSUME GraspInv, [Next]_vars PROVE GraspInv'
  OBVIOUS
<1>1. MotionInv'
  <2>1. [MotionNext]_motion_vars
    BY PipelineMovesPlanner DEF GraspInv
  <2>2. QED
    BY <2>1, StepMotion DEF GraspInv
<1>2. RoundInv'
  <2>1. CASE Respond     BY <2>1, RespondKeeps
  <2>2. CASE MakePolicy  BY <2>2, MakePolicyKeeps
  <2>3. CASE NoPolicy    BY <2>3, NoPolicyKeeps
  <2>4. CASE Planning    BY <2>4, PlanningKeeps
  <2>5. CASE Planned     BY <2>5, PlannedKeeps
  <2>6. CASE GoHome      BY <2>6, GoHomeKeeps
  <2>7. CASE Homed       BY <2>7, HomedKeeps
  <2>8. CASE Act         BY <2>8, ActKeeps
  <2>9. CASE Abort       BY <2>9, AbortKeeps
  <2>10. CASE FinishRound BY <2>10, FinishRoundKeeps
  <2>11. CASE UNCHANGED vars BY <2>11, StutterKeeps
  <2>12. QED
    BY <2>1, <2>2, <2>3, <2>4, <2>5, <2>6, <2>7, <2>8, <2>9, <2>10, <2>11 DEF Next
<1>3. QED
  BY <1>1, <1>2 DEF GraspInv, RoundInv

\* A step at which a weld changes.
LEMMA ActGraspsNear ==
    ASSUME GraspInv, Act, NEW a \in Agents, world'.weld[a] # world.weld[a],
           NEW target, target # "over",
           target = IF world'.weld[a] # Nothing THEN Place(world, world'.weld[a])
                    ELSE plans[k][a].target.base
    PROVE  world'.hands[a].base = target
<1> DEFINE part == plans[k][a]
<1>1. /\ pc = "act" /\ world'.hands = Head(actions).hands
      /\ world'.weld = Weld(Head(actions))
  BY DEF Act, Stepped
<1>2. Head(actions).grasp /\ world'.weld = Grasped(world.weld, plans[k])
  BY <1>1 DEF Weld
<1>3. /\ k \in DOMAIN plans /\ PlansOK(saved, plans) /\ actions \in Seq(SimAction)
      /\ actions # <<>>
  BY <1>1 DEF GraspInv, TypesInv, Underway, Buffered
<1>4. Head(actions) = actions[1] /\ 1 \in DOMAIN actions
  BY <1>3, TailOfActions
<1>5. AtTargets(Head(actions).hands, plans[k])
  BY <1>1, <1>2, <1>4 DEF GraspInv, BufferInv, Buffered
<1>6. /\ part.object # Nothing
      /\ world'.weld[a] = IF part.on THEN part.object ELSE Nothing
  BY <1>2 DEF Grasped, Tograsp
<1>7. GraspOK(saved, a, part) /\ (part.on => k = 1)
  BY <1>3 DEF PlansOK
<1>8. part.target.base = target
  <2>1. CASE part.on
    <3>1. /\ part.object \in Items /\ Carriers(saved, part.object) = {} /\ k = 1
          /\ part.target.base = saved.rest[part.object]
      <4>1. GraspOK(saved, a, part) /\ part.on /\ k = 1
        BY <1>7, <2>1
      <4> HIDE DEF part
      <4>2. QED
        BY <4>1 DEF GraspOK
    <3>2. world.weld = saved.weld /\ world.rest = saved.rest
      BY <1>1, <1>2, <1>4, <3>1 DEF GraspInv, PendingInv, Pending, WeldFor, Underway
    <3>3. Place(world, part.object) = part.target.base
      BY <3>1, <3>2 DEF Place, Carriers
    <3>4. QED
      BY <1>6, <2>1, <3>3
  <2>2. CASE ~part.on
    BY <1>6, <2>2
  <2>3. QED
    BY <2>1, <2>2
<1>9. QED
  BY <1>1, <1>5, <1>6, <1>8 DEF AtTargets

-----------------------------------------------------------------------------
(* No two items in a slot: an item that is carried is where its hand is,   *)
(* one that is not is where the round found it, and the scene keeps them   *)
(* apart.                                                                  *)

\* What the hands hold once a plan has taken what it takes, and let go of nothing yet.
Taken(weld, plan) ==
    [a \in Agents |-> IF plan[a].on THEN plan[a].object ELSE weld[a]]

GoalsApart ==
    \A m \in DOMAIN plans : \A a, b \in Agents :
       a # b => plans[m][a].target.base # plans[m][b].target.base

\* A configuration the scene of the m-th plan has nothing against.
Clear(m, c) ==
    /\ \A a, b \in Agents : a # b => c[a].base # c[b].base
    /\ \A a \in Agents, i \in Items :
          c[a].base = saved.rest[i] /\ (\A b \in Agents : WeldFor(m)[b] # i) =>
             \/ i \in {plans[m][a].inhand, plans[m][a].object}
             \/ \E b \in Agents : plans[m][b].inhand = i

LEMMA WhichPlan ==
    ASSUME PlansOK(saved, plans), k \in DOMAIN plans
    PROVE  /\ 1 \in DOMAIN plans
           /\ k = 1 \/ k = 2
           /\ Len(plans) = 1 \/ Len(plans) = 2
           /\ k = 2 => Len(plans) = 2
<1>1. DOMAIN plans = 1..Len(plans) /\ Len(plans) \in {0, 1, 2}
  BY LenProperties DEF PlansOK
<1>2. CASE Len(plans) = 0
  BY <1>1, <1>2
<1>3. CASE Len(plans) = 1
  BY <1>1, <1>3
<1>4. CASE Len(plans) = 2
  BY <1>1, <1>4
<1>5. QED
  BY <1>1, <1>2, <1>3, <1>4

\* Two hands do not take the same item, nor one that another hand has.
LEMMA TakenOnce ==
    ASSUME PlansOK(saved, plans), 1 \in DOMAIN plans, Exclusive(saved), GoalsApart,
           NEW i \in Items, NEW a \in Agents, NEW b \in Agents,
           Taken(saved.weld, plans[1])[a] = i, Taken(saved.weld, plans[1])[b] = i
    PROVE  a = b
<1>1. \A c \in Agents : GraspOK(saved, c, plans[1][c])
  BY DEF PlansOK
<1>2. ASSUME NEW c \in Agents, NEW d \in Agents, plans[1][c].on, ~plans[1][d].on,
             Taken(saved.weld, plans[1])[c] = i, Taken(saved.weld, plans[1])[d] = i
      PROVE  FALSE
  <2>1. plans[1][c].object = i /\ saved.weld[d] = i
    BY <1>2 DEF Taken
  <2>2. Carriers(saved, i) = {}
    BY <1>1, <1>2, <2>1 DEF GraspOK
  <2>3. QED
    BY <2>1, <2>2 DEF Carriers
<1>3. CASE plans[1][a].on /\ plans[1][b].on
  <2>1. plans[1][a].object = i /\ plans[1][b].object = i
    BY <1>3 DEF Taken
  <2>2. plans[1][a].target.base = saved.rest[i] /\ plans[1][b].target.base = saved.rest[i]
    BY <1>1, <1>3, <2>1 DEF GraspOK
  <2>3. QED
    BY <2>2 DEF GoalsApart
<1>4. CASE ~plans[1][a].on /\ ~plans[1][b].on
  <2>1. a \in Carriers(saved, i) /\ b \in Carriers(saved, i)
    BY <1>4 DEF Taken, Carriers
  <2>2. QED
    BY <2>1 DEF Exclusive
<1>5. QED
  BY <1>2, <1>3, <1>4

\* What a plan of the round finds in the hands, with or without what it takes: nothing
\* twice, and all that was in the hands when the round began.
LEMMA Bearing ==
    ASSUME WorldOK(saved), PlansOK(saved, plans), k \in DOMAIN plans,
           Exclusive(saved), GoalsApart,
           NEW B, B \in {WeldFor(k), Taken(WeldFor(k), plans[k])}
    PROVE  /\ \A a, b \in Agents : B[a] \in Items /\ B[a] = B[b] => a = b
           /\ \A a \in Agents : saved.weld[a] # Nothing => B[a] = saved.weld[a]
           /\ \A a \in Agents : WeldFor(k)[a] # Nothing => B[a] = WeldFor(k)[a]
           /\ \A a \in Agents : B[a] \in Items /\ plans[k][a].object # Nothing =>
                 \/ B[a] = plans[k][a].object
                 \/ B[a] = saved.weld[a] /\ LetsGoOK(saved, a, plans[k][a]) /\ ~plans[k][a].on
<1>1. /\ 1 \in DOMAIN plans
      /\ k = 1 \/ k = 2
      /\ Len(plans) = 1 \/ Len(plans) = 2
      /\ k = 2 => Len(plans) = 2
  BY WhichPlan
<1>2. \A a \in Agents : GraspOK(saved, a, plans[1][a])
  BY <1>1 DEF PlansOK
<1>3. \A i \in Items : i # Nothing
  BY TableAssumption
<1>4. saved.weld \in [Agents -> Items \cup {Nothing}]
  BY DEF WorldOK
<1>5. \A a \in Agents : plans[1][a].on =>
         saved.weld[a] = Nothing /\ plans[1][a].object \in Items
  BY <1>2 DEF GraspOK
<1>6. CASE k = 1
  <2>1. WeldFor(k) = saved.weld
    BY <1>6 DEF WeldFor
  <2>2. \A a \in Agents : B[a] # Taken(saved.weld, plans[1])[a] =>
           B[a] = saved.weld[a] /\ plans[1][a].on
    BY <1>6, <2>1 DEF Taken
  <2>3. \A a \in Agents : B[a] \in Items => B[a] = Taken(saved.weld, plans[1])[a]
    BY <1>3, <1>5, <2>2
  <2>4. \A a, b \in Agents : B[a] \in Items /\ B[a] = B[b] => a = b
    BY <1>1, <2>3, TakenOnce
  <2>5. \A a \in Agents : saved.weld[a] # Nothing => B[a] = saved.weld[a]
    BY <1>5, <1>6, <2>1 DEF Taken
  <2>6. ASSUME NEW a \in Agents, B[a] \in Items, plans[1][a].object # Nothing, ~plans[1][a].on
        PROVE  B[a] = saved.weld[a] /\ LetsGoOK(saved, a, plans[1][a])
    <3>1. Len(plans) = 1
      <4>1. Len(plans) = 2 => plans[1][a].on
        BY <2>6 DEF PlansOK
      <4>2. QED
        BY <1>1, <1>6, <2>6, <4>1
    <3>2. QED
      BY <1>6, <2>1, <2>6, <3>1 DEF PlansOK, Taken
  <2>7. ASSUME NEW a \in Agents, B[a] \in Items, plans[1][a].on
        PROVE  B[a] = plans[1][a].object
    BY <2>3, <2>7 DEF Taken
  <2>8. QED
    BY <1>6, <2>1, <2>4, <2>5, <2>6, <2>7
<1>7. CASE k = 2
  <2>1. Len(plans) = 2 /\ WeldFor(k) = Grasped(saved.weld, plans[1])
    BY <1>1, <1>7 DEF WeldFor
  <2>2. \A a \in Agents : ~plans[k][a].on
    BY <1>7 DEF PlansOK
  <2>3. \A a \in Agents : B[a] = WeldFor(k)[a]
    BY <2>2 DEF Taken
  <2>4. ASSUME NEW a \in Agents
        PROVE  /\ plans[1][a].object # Nothing => plans[1][a].on
               /\ plans[2][a].object = plans[1][a].object
    BY <2>1 DEF PlansOK
  <2>5. \A a \in Agents : B[a] = Taken(saved.weld, plans[1])[a]
    BY <1>3, <1>5, <2>1, <2>3, <2>4 DEF Grasped, Tograsp, Taken
  <2>6. \A a, b \in Agents : B[a] \in Items /\ B[a] = B[b] => a = b
    BY <1>1, <2>5, TakenOnce
  <2>7. \A a \in Agents : saved.weld[a] # Nothing => B[a] = saved.weld[a]
    BY <1>5, <2>5 DEF Taken
  <2>8. \A a \in Agents : plans[k][a].object # Nothing => B[a] = plans[k][a].object
    BY <1>7, <2>4, <2>5 DEF Taken
  <2>9. QED
    BY <2>3, <2>6, <2>7, <2>8
<1>8. QED
  BY <1>1, <1>6, <1>7

\* Where hands at c that hold B leave an item.
Spot(c, B, i, s) ==
    \/ \E a \in Agents : B[a] = i /\ s = c[a].base
    \/ (\A a \in Agents : B[a] # i) /\ s = saved.rest[i]

\* A carried item is where its one carrier is.
LEMMA PlaceOfCarried ==
    ASSUME NEW w, Exclusive(w), NEW i \in Items, NEW a \in Agents, w.weld[a] = i
    PROVE  Place(w, i) = w.hands[a].base
<1>1. a \in Carriers(w, i)
  BY DEF Carriers
<1>2. (CHOOSE b \in Carriers(w, i) : TRUE) = a
  BY <1>1 DEF Exclusive
<1>3. QED
  BY <1>1, <1>2 DEF Place

LEMMA SpotsApart ==
    ASSUME WorldOK(saved), PlansOK(saved, plans), k \in DOMAIN plans,
           Exclusive(saved), GoalsApart, ~Phantom,
           NEW B, B \in {WeldFor(k), Taken(WeldFor(k), plans[k])},
           NEW c, Clear(k, c), NEW s \in Slots,
           NEW i \in Items, NEW j \in Items, Spot(c, B, i, s), Spot(c, B, j, s)
    PROVE  i = j
<1> SUFFICES ASSUME i # j PROVE FALSE
  OBVIOUS
<1>1. /\ \A a, b \in Agents : B[a] \in Items /\ B[a] = B[b] => a = b
      /\ \A a \in Agents : saved.weld[a] # Nothing => B[a] = saved.weld[a]
      /\ \A a \in Agents : WeldFor(k)[a] # Nothing => B[a] = WeldFor(k)[a]
      /\ \A a \in Agents : B[a] \in Items /\ plans[k][a].object # Nothing =>
            \/ B[a] = plans[k][a].object
            \/ B[a] = saved.weld[a] /\ LetsGoOK(saved, a, plans[k][a]) /\ ~plans[k][a].on
  BY Bearing
<1>2. (\A x \in Items : x # Nothing) /\ s # Nothing
  BY TableAssumption
<1>3. ASSUME NEW x \in Items, \A a \in Agents : B[a] # x
      PROVE  PackedSlot(saved, x) = IF saved.rest[x] \in Slots THEN saved.rest[x] ELSE Nothing
  <2>1. Carriers(saved, x) = {}
    BY <1>1, <1>2, <1>3 DEF Carriers
  <2>2. QED
    BY <2>1 DEF PackedSlot, Place
<1>4. ASSUME NEW x \in Items, NEW y \in Items, x # y, NEW a \in Agents, B[a] = x,
             c[a].base = s, \A b \in Agents : B[b] # y, saved.rest[y] = s
      PROVE  FALSE
  <2>1. \A b \in Agents : WeldFor(k)[b] # y /\ saved.weld[b] # y
    BY <1>1, <1>2, <1>4
  <2>2. y = plans[k][a].object \/ \E b \in Agents : plans[k][b].inhand = y
    BY <1>4, <2>1 DEF Clear
  <2>3. \A b \in Agents : plans[k][b].inhand # y
    BY <1>2, <2>1 DEF Phantom
  <2>4. saved.weld[a] = x /\ y \in Contacts(saved, a)
    BY <1>1, <1>2, <1>4, <2>2, <2>3 DEF LetsGoOK
  <2>5. Place(saved, y) = saved.hands[a].base
    BY <2>1, <2>4 DEF Contacts
  <2>6. Place(saved, x) = saved.hands[a].base
    BY <2>4, PlaceOfCarried
  <2>7. PackedSlot(saved, y) = s
    BY <1>3, <1>4
  <2>8. PackedSlot(saved, x) = PackedSlot(saved, y)
    BY <2>5, <2>6 DEF PackedSlot
  <2>9. QED
    BY <1>2, <1>4, <2>7, <2>8 DEF Exclusive
<1>5. CASE \E a, b \in Agents : B[a] = i /\ B[b] = j /\ s = c[a].base /\ s = c[b].base
  BY <1>5 DEF Clear
<1>6. CASE (\A a \in Agents : B[a] # i /\ B[a] # j) /\ s = saved.rest[i] /\ s = saved.rest[j]
  <2>1. PackedSlot(saved, i) = s /\ PackedSlot(saved, j) = s
    BY <1>3, <1>6
  <2>2. QED
    BY <1>2, <2>1 DEF Exclusive
<1>7. QED
  BY <1>4, <1>5, <1>6 DEF Spot

\* A world in which every item is where hands at a clear configuration leave it.
LEMMA SpotsMakeExclusive ==
    ASSUME WorldOK(saved), PlansOK(saved, plans), k \in DOMAIN plans,
           Exclusive(saved), GoalsApart, ~Phantom,
           NEW B, B \in {WeldFor(k), Taken(WeldFor(k), plans[k])},
           NEW c, Clear(k, c),
           NEW w, \A a \in Agents : w.weld[a] \in Items => w.weld[a] = B[a],
           \A i \in Items : Spot(c, B, i, Place(w, i))
    PROVE  Exclusive(w)
<1>1. ASSUME NEW i \in Items, NEW j \in Items, i # j, PackedSlot(w, i) = PackedSlot(w, j),
             PackedSlot(w, i) # Nothing
      PROVE  FALSE
  <2>1. Place(w, i) \in Slots /\ Place(w, i) = Place(w, j)
    BY <1>1 DEF PackedSlot
  <2>2. QED
    BY <1>1, <2>1, SpotsApart
<1>2. ASSUME NEW i \in Items, NEW a \in Carriers(w, i), NEW b \in Carriers(w, i)
      PROVE  a = b
  <2>1. a \in Agents /\ b \in Agents /\ B[a] = i /\ B[b] = i
    BY DEF Carriers
  <2>2. QED
    BY <2>1, Bearing
<1>3. QED
  BY <1>1, <1>2 DEF Exclusive

\* The actions up to the one that grasps, and those after it, in which only the hands that
\* return home move.
ClearInv ==
    Buffered => \A n \in DOMAIN actions :
       (\E g \in DOMAIN actions : actions[g].grasp /\ n =< g) => Clear(k, actions[n].hands)

StayInv ==
    Buffered => \A n \in DOMAIN actions : \A a \in Agents : ~plans[k][a].home =>
       /\ \A g \in DOMAIN actions :
             actions[g].grasp /\ g =< n => actions[n].hands[a] = actions[g].hands[a]
       /\ Grabbed => actions[n].hands[a] = world.hands[a]

ExclusiveInv == Underway /\ Exclusive(saved) /\ ~Phantom => Exclusive(world)

ApartInv == GoalsApart /\ ClearInv /\ StayInv /\ ExclusiveInv

\* What the step that grasps leaves where.
LEMMA GraspSpots ==
    ASSUME PlansOK(saved, plans), k \in DOMAIN plans, NEW c,
           NEW w, w.weld = WeldFor(k), w.rest = saved.rest,
           NEW v, v = Stepped(w, c, Grasped(WeldFor(k), plans[k]))
    PROVE  LET B == Taken(WeldFor(k), plans[k])
           IN  /\ \A a \in Agents : v.weld[a] \in Items => v.weld[a] = B[a]
               /\ \A i \in Items : Spot(c, B, i, Place(v, i))
<1> DEFINE B == Taken(WeldFor(k), plans[k])
           weld == Grasped(WeldFor(k), plans[k])
<1>1. /\ v.hands = c /\ v.weld = weld
      /\ v.rest = [i \in Items |->
            IF Carriers(w, i) # {} /\ ~\E a \in Agents : weld[a] = i
            THEN c[CHOOSE a \in Carriers(w, i) : TRUE].base
            ELSE saved.rest[i]]
  BY DEF Stepped
<1>2. (\A i \in Items : i # Nothing)
  BY TableAssumption
<1>3. ASSUME NEW a \in Agents, plans[k][a].on
      PROVE  WeldFor(k)[a] = Nothing /\ plans[k][a].object \in Items
  <2>1. k = 1 /\ GraspOK(saved, a, plans[k][a])
    BY <1>3 DEF PlansOK
  <2>2. QED
    BY <1>3, <2>1 DEF GraspOK, WeldFor
<1>4. ASSUME NEW a \in Agents
      PROVE  /\ weld[a] \in Items => weld[a] = B[a]
             /\ WeldFor(k)[a] \in Items => WeldFor(k)[a] = B[a]
             /\ B[a] \in Items => B[a] = weld[a] \/ B[a] = WeldFor(k)[a]
  BY <1>2, <1>3 DEF Grasped, Tograsp, Taken
<1> HIDE DEF B, weld
<1>5. ASSUME NEW i \in Items PROVE Spot(c, B, i, Place(v, i))
  <2>1. CASE Carriers(v, i) # {}
    <3>1. PICK a \in Agents : v.weld[a] = i /\ Place(v, i) = c[a].base
      <4>1. (CHOOSE a \in Carriers(v, i) : TRUE) \in Carriers(v, i)
        BY <2>1
      <4>2. QED
        BY <1>1, <2>1, <4>1 DEF Carriers, Place
    <3>2. QED
      BY <1>1, <1>4, <3>1 DEF Spot
  <2>2. CASE Carriers(v, i) = {} /\ Carriers(w, i) # {}
    <3>1. ~\E a \in Agents : weld[a] = i
      BY <1>1, <2>2 DEF Carriers
    <3>2. PICK a \in Agents : WeldFor(k)[a] = i /\ v.rest[i] = c[a].base
      <4>1. (CHOOSE a \in Carriers(w, i) : TRUE) \in Carriers(w, i)
        BY <2>2
      <4>2. QED
        BY <1>1, <2>2, <3>1, <4>1 DEF Carriers
    <3>3. Place(v, i) = c[a].base /\ B[a] = i
      BY <1>4, <2>2, <3>2 DEF Place
    <3>4. QED
      BY <3>3 DEF Spot
  <2>3. CASE Carriers(v, i) = {} /\ Carriers(w, i) = {}
    <3>1. Place(v, i) = saved.rest[i]
      BY <1>1, <2>3 DEF Place
    <3>2. \A a \in Agents : weld[a] # i /\ WeldFor(k)[a] # i
      BY <1>1, <2>3 DEF Carriers
    <3>3. \A a \in Agents : B[a] # i
      BY <1>4, <3>2
    <3>4. QED
      BY <3>1, <3>3 DEF Spot
  <2>4. QED
    BY <2>1, <2>2, <2>3
<1>6. \A a \in Agents : v.weld[a] \in Items => v.weld[a] = B[a]
  BY <1>1, <1>4
<1>7. QED
  BY <1>5, <1>6 DEF B

\* Before it every item is carried on, or rests where the round found it.
LEMMA CarrySpots ==
    ASSUME NEW c, NEW w, w.hands = c, w.weld = WeldFor(k), w.rest = saved.rest
    PROVE  \A i \in Items : Spot(c, WeldFor(k), i, Place(w, i))
<1> SUFFICES ASSUME NEW i \in Items PROVE Spot(c, WeldFor(k), i, Place(w, i))
  OBVIOUS
<1>1. CASE Carriers(w, i) # {}
  <2>1. (CHOOSE a \in Carriers(w, i) : TRUE) \in Carriers(w, i)
    BY <1>1
  <2>2. QED
    BY <1>1, <2>1 DEF Carriers, Place, Spot
<1>2. CASE Carriers(w, i) = {}
  BY <1>2 DEF Carriers, Place, Spot
<1>3. QED
  BY <1>1, <1>2

\* After it the hands that hold something stay.
LEMMA HoldingHandsStay ==
    ASSUME GraspInv, StayInv, Act, Grabbed
    PROVE  \A a \in Agents : world.weld[a] \in Items => world'.hands[a] = world.hands[a]
<1> SUFFICES ASSUME NEW a \in Agents, world.weld[a] \in Items
             PROVE  world'.hands[a] = world.hands[a]
  OBVIOUS
<1>1. pc = "act" /\ actions # <<>> /\ world'.hands = actions[1].hands
  BY ActMoves DEF Stepped
<1>2. /\ k \in DOMAIN plans /\ PlansOK(saved, plans) /\ actions \in Seq(SimAction)
      /\ world.weld = Grasped(WeldFor(k), plans[k])
  BY <1>1 DEF GraspInv, TypesInv, PendingInv, Underway
<1>3. PartOK(plans[k][a]) /\ GraspOK(saved, a, plans[k][a])
  BY <1>2 DEF PlansOK
<1>4. ~plans[k][a].home
  <2>1. CASE plans[k][a].on
    BY <1>3, <2>1 DEF GraspOK
  <2>2. CASE ~plans[k][a].on
    <3>1. plans[k][a].object = Nothing
      BY <1>2, <2>2, TableAssumption DEF Grasped, Tograsp
    <3>2. QED
      BY <1>3, <3>1 DEF PartOK
  <2>3. QED
    BY <2>1, <2>2
<1>5. 1 \in DOMAIN actions
  BY <1>1, <1>2, TailOfActions
<1>6. QED
  BY <1>1, <1>4, <1>5 DEF StayInv, Buffered

LEMMA ActIsExclusive ==
    ASSUME GraspInv, ApartInv, Act, Exclusive(saved), ~Phantom
    PROVE  Exclusive(world')
<1> DEFINE c == actions[1].hands
<1>1. /\ pc = "act" /\ actions # <<>>
      /\ world' = Stepped(world, c, world'.weld) /\ WorldOK(world')
      /\ ~actions[1].grasp => world'.weld = world.weld /\ world'.rest = world.rest
      /\ actions[1].grasp =>
            /\ world.weld = WeldFor(k) /\ world.rest = saved.rest
            /\ world'.weld = Grasped(WeldFor(k), plans[k])
  BY ActMoves
<1>2. world'.hands = c
  BY <1>1 DEF Stepped
<1>3. /\ WorldOK(saved) /\ PlansOK(saved, plans) /\ k \in DOMAIN plans
      /\ actions \in Seq(SimAction) /\ Buffered /\ GoalsApart
  BY <1>1 DEF GraspInv, TypesInv, Underway, Buffered, ApartInv
<1>4. 1 \in DOMAIN actions /\ DOMAIN actions = 1..Len(actions)
  BY <1>1, <1>3, TailOfActions, LenProperties
<1>5. (\E g \in DOMAIN actions : actions[g].grasp) => Clear(k, c)
  <2>1. \A g \in DOMAIN actions : 1 =< g
    BY <1>4
  <2>2. QED
    BY <1>3, <1>4, <2>1 DEF ApartInv, ClearInv
<1> HIDE DEF c
<1>6. CASE actions[1].grasp
  <2> DEFINE B == Taken(WeldFor(k), plans[k])
  <2>1. Clear(k, c)
    BY <1>4, <1>5, <1>6
  <2>2. /\ \A a \in Agents : world'.weld[a] \in Items => world'.weld[a] = B[a]
        /\ \A i \in Items : Spot(c, B, i, Place(world', i))
    BY <1>1, <1>3, <1>6, GraspSpots
  <2>3. B \in {WeldFor(k), Taken(WeldFor(k), plans[k])}
    OBVIOUS
  <2> HIDE DEF B
  <2>4. QED
    BY <1>3, <2>1, <2>2, <2>3, SpotsMakeExclusive
<1>7. CASE ~actions[1].grasp /\ \E g \in DOMAIN actions : actions[g].grasp
  <2>1. Clear(k, c)
    BY <1>5, <1>7
  <2>2. Pending
    BY <1>1, <1>7 DEF Pending, Underway
  <2>3. world'.weld = WeldFor(k) /\ world'.rest = saved.rest
    BY <1>1, <1>7, <2>2 DEF GraspInv, PendingInv
  <2>4. \A i \in Items : Spot(c, WeldFor(k), i, Place(world', i))
    BY <1>2, <2>3, CarrySpots
  <2>5. QED
    BY <1>3, <2>1, <2>3, <2>4, SpotsMakeExclusive
<1>8. CASE ~\E g \in DOMAIN actions : actions[g].grasp
  <2>1. Grabbed /\ Underway
    BY <1>1, <1>8 DEF Grabbed, Underway
  <2>2. Exclusive(world)
    BY <2>1 DEF ApartInv, ExclusiveInv
  <2>3. world'.weld = world.weld /\ world'.rest = world.rest
    BY <1>1, <1>4, <1>8
  <2>4. \A a \in Agents : world.weld[a] \in Items => world'.hands[a] = world.hands[a]
    BY <2>1, HoldingHandsStay DEF ApartInv
  <2>5. ASSUME NEW i \in Items
        PROVE  Carriers(world', i) = Carriers(world, i) /\ Place(world', i) = Place(world, i)
    <3>1. Carriers(world', i) = Carriers(world, i)
      BY <2>3 DEF Carriers
    <3>2. CASE Carriers(world, i) = {}
      BY <2>3, <3>1, <3>2 DEF Place
    <3>3. CASE Carriers(world, i) # {}
      <4>1. PICK a \in Agents : a = (CHOOSE b \in Carriers(world, i) : TRUE) /\ world.weld[a] = i
        <5>1. (CHOOSE b \in Carriers(world, i) : TRUE) \in Carriers(world, i)
          BY <3>3
        <5>2. QED
          BY <5>1 DEF Carriers
      <4>2. world'.hands[a] = world.hands[a]
        BY <2>4, <4>1
      <4>3. QED
        BY <3>1, <3>3, <4>1, <4>2 DEF Place
    <3>4. QED
      BY <3>1, <3>2, <3>3
  <2>6. \A i \in Items : PackedSlot(world', i) = PackedSlot(world, i)
    BY <2>5 DEF PackedSlot
  <2>7. QED
    BY <2>2, <2>5, <2>6 DEF Exclusive
<1>9. QED
  BY <1>6, <1>7, <1>8

\* Nothing happens to the table and to the buffer.
LEMMA QuietIsApart ==
    ASSUME ApartInv, UNCHANGED <<world, saved, plans, k, actions>>,
           Buffered' => Buffered, Underway' => Underway, pc' = "act" => pc = "act"
    PROVE  ApartInv'
<1>1. Grabbed' => Grabbed
  BY DEF Grabbed
<1>2. GoalsApart'
  BY DEF ApartInv, GoalsApart
<1>3. ClearInv'
  BY DEF ApartInv, ClearInv, Clear, WeldFor
<1>4. StayInv'
  BY <1>1 DEF ApartInv, StayInv
<1>5. ExclusiveInv'
  BY DEF ApartInv, ExclusiveInv, Exclusive, Phantom, PackedSlot, Place, Carriers
<1>6. QED
  BY <1>2, <1>3, <1>4, <1>5 DEF ApartInv

LEMMA IdleIsApart == ASSUME ~Underway', GoalsApart' PROVE ApartInv'
  BY DEF ApartInv, ClearInv, StayInv, ExclusiveInv, Buffered, Underway

\* Feedback has looked at every goal of the plans.
LEMMA RespondIsApart == ApartInv /\ Respond => ApartInv'
<1> SUFFICES ASSUME ApartInv, Respond PROVE ApartInv'
  OBVIOUS
<1>1. ASSUME NEW prepared, NEW claimed, Answered(prepared, claimed), pc = "respond"
      PROVE  ApartInv'
  <2>1. CASE UNCHANGED <<world, saved, pc, plans, k, actions>>
    BY <2>1, QuietIsApart DEF Buffered, Underway
  <2>2. CASE /\ \A n \in DOMAIN prepared.plans : Ready(prepared.plans[n])
             /\ plans' = prepared.plans /\ k' = 1 /\ saved' = world /\ pc' = "policy"
             /\ UNCHANGED <<world, actions>>
    <3>1. ASSUME NEW m \in DOMAIN plans', NEW a \in Agents, NEW b \in Agents, a # b
          PROVE  plans'[m][a].target.base # plans'[m][b].target.base
      <4> DEFINE plan == plans'[m]
      <4>1. ~Touching(world, Allowed(plan), Inhand(plan), Goal(plan))
        BY <2>2 DEF Ready, PoseIsFree, PoseCollides
      <4>2. Goal(plan)[a].base # Goal(plan)[b].base
        BY <3>1, <4>1 DEF Touching
      <4>3. QED
        BY <4>2 DEF Goal
    <3>2. GoalsApart'
      BY <3>1 DEF GoalsApart
    <3>3. ~Buffered' /\ saved' = world'
      BY <2>2 DEF Buffered
    <3>4. QED
      BY <3>2, <3>3 DEF ApartInv, ClearInv, StayInv, ExclusiveInv
  <2>3. QED
    BY <1>1, <2>1, <2>2 DEF Answered
<1>2. QED
  BY <1>1 DEF Respond

\* What the scene of a plan lets pass is clear until the plan grasps.
LEMMA SceneIsClear ==
    ASSUME GraspInv, Pending, NEW c \in Arms, c \notin Scene(plans[k])
    PROVE  Clear(k, c)
<1>1. ~Touching(world, Allowed(plans[k]), Inhand(plans[k]), c)
  BY DEF Scene, Blocked
<1>2. world.weld = WeldFor(k) /\ world.rest = saved.rest
  BY DEF GraspInv, PendingInv
<1>3. ASSUME NEW a \in Agents, NEW i \in Items, c[a].base = saved.rest[i],
             \A b \in Agents : WeldFor(k)[b] # i
      PROVE  \/ i \in {plans[k][a].inhand, plans[k][a].object}
             \/ \E b \in Agents : plans[k][b].inhand = i
  <2>1. Place(world, i) = saved.rest[i]
    BY <1>2, <1>3 DEF Place, Carriers
  <2>2. MayTouch(Allowed(plans[k]), a, i) \/ Follows(Inhand(plans[k]), i)
    BY <1>1, <1>3, <2>1 DEF Touching
  <2>3. QED
    BY <2>2 DEF MayTouch, Follows, Allowed, Inhand
<1>4. \A a, b \in Agents : a # b => c[a].base # c[b].base
  BY <1>1 DEF Touching
<1>5. QED
  BY <1>3, <1>4 DEF Clear

LEMMA PlannedIsApart == GraspInv /\ ApartInv /\ Planned => ApartInv'
<1> SUFFICES ASSUME GraspInv, ApartInv, Planned PROVE ApartInv'
  OBVIOUS
<1> DEFINE path == Kept(result.path, ControlFreq)
           act == [hands |-> Last(path), grasp |-> TRUE]
           S == {c \in Arms : c \notin Scene(plans[k])}
<1>1. pc = "planning" /\ Return
  BY DEF Planned
<1>2. CASE Ended("motion_planning_failed")
  <2>1. ~Underway' /\ plans' = plans
    BY <1>2 DEF Ended, Underway
  <2>2. QED
    BY <2>1, IdleIsApart DEF ApartInv, GoalsApart
<1>3. CASE /\ result.path # <<>> /\ actions' = Moves(path) \o <<act>>
           /\ pc' = IF \E a \in Agents : plans[k][a].home THEN "home" ELSE "act"
           /\ UNCHANGED <<mode, world, saved, plans, k>>
  <2>1. Route(result.path, world.hands, Goal(plans[k]), Scene(plans[k]))
    BY <1>1, <1>3, PlannedPath
  <2>2. result.path \in Seq(S)
    <3>1. result.path \in Seq(Arms)
      BY <2>1, PipelineAssumption DEF Route
    <3>2. \A i \in 1..Len(result.path) : result.path[i] \in S
      BY <2>1, <3>1, ElementOfSeq DEF Route
    <3> HIDE DEF S
    <3>3. QED
      BY <3>1, <3>2, EntriesMakeSeq
  <2>3. path \in Seq(S) /\ path # <<>>
    <3> HIDE DEF S
    <3>1. QED
      BY <1>3, <2>2, KeptEnds, PipelineAssumption
  <2>4. \A i \in 1..Len(path) : path[i] \in S
    <3> HIDE DEF S, path
    <3>1. QED
      BY <2>3, ElementOfSeq
  <2>5. path \in Seq(Arms) /\ Len(path) \in Nat /\ Len(path) >= 1
    <3>1. \A i \in 1..Len(path) : path[i] \in Arms
      BY <2>4
    <3> HIDE DEF S, path
    <3>2. QED
      BY <2>3, <3>1, EntriesMakeSeq, LenProperties
  <2>6. \A i \in 1..Len(path) : Clear(k, path[i])
    <3>1. Pending
      BY <1>1 DEF Pending, Underway
    <3>2. QED
      BY <2>4, <3>1, SceneIsClear
  <2> HIDE DEF path, S
  <2>7. /\ DOMAIN actions' = 1..(Len(path) + 1)
        /\ \A m \in 1..Len(path) : actions'[m].hands = path[m] /\ ~actions'[m].grasp
        /\ actions'[Len(path) + 1] = act
    BY <1>3, <2>3, <2>5, PlannedActions
  <2>8. \A m \in DOMAIN actions' : Clear(k, actions'[m].hands)
    <3>1. Clear(k, act.hands)
      BY <2>5, <2>6 DEF Last
    <3> HIDE DEF act
    <3>2. \A m \in 1..(Len(path) + 1) : m \in 1..Len(path) \/ m = Len(path) + 1
      BY <2>5
    <3>3. QED
      BY <2>6, <2>7, <3>1, <3>2
  <2>9. ClearInv'
    BY <1>3, <2>8 DEF ClearInv, Clear, WeldFor
  <2>10. \A m \in DOMAIN actions' : actions'[m].grasp => m = Len(path) + 1
    BY <2>5, <2>7
  <2>11. ~Grabbed' /\ Underway
    BY <1>1, <2>5, <2>7 DEF Grabbed, Underway
  <2>12. StayInv'
    <3>1. ASSUME NEW n \in DOMAIN actions', NEW g \in DOMAIN actions', actions'[g].grasp, g =< n
          PROVE  n = g
      BY <2>5, <2>7, <2>10, <3>1
    <3>2. QED
      BY <2>11, <3>1 DEF StayInv
  <2>13. GoalsApart' /\ ExclusiveInv'
    BY <1>3, <2>11 DEF ApartInv, GoalsApart, ExclusiveInv, Exclusive, Phantom, PackedSlot, Place,
                      Carriers
  <2>14. QED
    BY <2>9, <2>12, <2>13 DEF ApartInv
<1>4. QED
  BY <1>2, <1>3 DEF Planned

\* The configurations in which the hands that do not return home are where they were.
Staying(plan, start) ==
    {c \in Arms : \A a \in Agents : ~plan[a].home => c[a] = start[a]}

LEMMA StayingIsClosed == ASSUME NEW plan, NEW start PROVE Closed(Staying(plan, start))
<1>1. Staying(plan, start) \subseteq Configs /\ Configs = Arms /\ Extend = ArmsLine
  BY PipelineAssumption DEF Staying
<1>2. ASSUME NEW x \in Staying(plan, start), NEW y \in Staying(plan, start),
             NEW i \in DOMAIN extend_ee_l2(x, y)
      PROVE  extend_ee_l2(x, y)[i] \in Staying(plan, start)
  <2>1. x \in Configs /\ y \in Configs /\ x \in Arms /\ y \in Arms
    BY <1>1
  <2>2. extend_ee_l2(x, y) \in Seq(Configs)
    BY <2>1, LinksOfLine
  <2>3. extend_ee_l2(x, y)[i] \in Arms
    BY <1>1, <2>2, LenProperties, ElementOfSeq
  <2>4. extend_ee_l2(x, y) =
           IF x = y THEN <<>>
           ELSE [n \in 1..5 |-> [a \in Agents |-> Leg(x[a], y[a])[n]]]
    BY <1>1, <2>1 DEF extend_ee_l2, ArmsLine
  <2>5. i \in 1..5 /\ extend_ee_l2(x, y)[i] = [a \in Agents |-> Leg(x[a], y[a])[i]]
    <3>1. CASE x = y
      BY <2>4, <3>1
    <3>2. CASE x # y
      BY <2>4, <3>2
    <3>3. QED
      BY <3>1, <3>2
  <2>6. ASSUME NEW a \in Agents, ~plan[a].home PROVE extend_ee_l2(x, y)[i][a] = start[a]
    <3>1. x[a] = start[a] /\ y[a] = start[a]
      BY <2>6 DEF Staying
    <3>2. Leg(start[a], start[a]) = <<start[a], start[a], start[a], start[a], start[a]>>
      BY DEF Leg
    <3>3. Leg(start[a], start[a])[i] = start[a]
      BY <2>5, <3>2
    <3>4. QED
      BY <2>5, <3>1, <3>3
  <2>7. QED
    BY <2>3, <2>6 DEF Staying
<1>3. QED
  BY <1>1, <1>2 DEF Closed

LEMMA HomePathStays ==
    ASSUME GraspInv, StrayInv, pc = "homing", Return
    PROVE  result.path \in Seq(Staying(plans[k], Last(actions).hands))
<1> DEFINE plan == plans[k]
           start == Last(actions).hands
           K == Staying(plan, start)
<1>1. query = HomeQuery(plan, start)
  BY DEF GraspInv, QueryInv
<1>2. start \in Arms
  <2>1. actions \in Seq(SimAction) /\ actions # <<>>
    BY DEF GraspInv, TypesInv, Buffered
  <2>2. QED
    BY <2>1, LastAction
<1>3. Homecoming(plan, start) \in Arms
  <2>1. \A a \in Agents : At(a) \in Points
    BY DEF Points, Bases
  <2>2. QED
    BY <1>2, <2>1 DEF Homecoming, Arms
<1> HIDE DEF plan, start
<1>4. start \in K /\ Homecoming(plan, start) \in K
  BY <1>2, <1>3 DEF Staying, Homecoming
<1>5. Drawn(start, Homecoming(plan, start)) \subseteq K
  BY DEF Drawn, Staying, Homecoming
<1>6. Closed(K) /\ K \subseteq Configs
  BY StayingIsClosed DEF Closed
<1> HIDE DEF K
<1>7. Asked(query, K)
  <2>1. <<>> \in Seq(K)
    BY EmptySeq
  <2>2. QED
    BY <1>1, <1>4, <1>5, <2>1 DEF Asked, HomeQuery
<1>8. QED
  BY <1>6, <1>7 DEF StrayInv, Within, Return, K, plan, start

LEMMA HomedIsApart == GraspInv /\ StrayInv /\ ApartInv /\ Homed => ApartInv'
<1> SUFFICES ASSUME GraspInv, StrayInv, ApartInv, Homed PROVE ApartInv'
  OBVIOUS
<1> DEFINE path == IF result.path = <<>> THEN <<>> ELSE Kept(result.path, ControlFreq)
           start == Last(actions).hands
           K == Staying(plans[k], start)
<1>1. /\ pc = "homing" /\ Return /\ pc' = "act"
      /\ UNCHANGED <<mode, world, saved, plans, k>>
  BY DEF Homed
<1>2. path \in Seq(K)
  <2>1. result.path \in Seq(K)
    BY <1>1, HomePathStays
  <2> HIDE DEF K
  <2>2. CASE result.path = <<>>
    BY <2>2, EmptySeq
  <2>3. CASE result.path # <<>>
    <3>1. Kept(result.path, ControlFreq) \in Seq(K)
      BY <2>1, <2>3, KeptEnds, PipelineAssumption
    <3>2. QED
      BY <2>3, <3>1
  <2>4. QED
    BY <2>2, <2>3
<1>3. actions' = actions \o Moves(path)
  <2>1. CASE result.path = <<>>
    <3>1. Moves(<<>>) = <<>>
      BY DEF Moves
    <3>2. QED
      BY <2>1, <3>1 DEF Homed
  <2>2. CASE result.path # <<>>
    BY <2>2 DEF Homed
  <2>3. QED
    BY <2>1, <2>2
<1> HIDE DEF path
<1>4. /\ actions \in Seq(SimAction) /\ actions # <<>> /\ Buffered
      /\ \E g \in DOMAIN actions : actions[g].grasp
  BY <1>1 DEF GraspInv, TypesInv, BufferInv, Buffered
<1>5. Len(actions) \in Nat /\ DOMAIN actions = 1..Len(actions) /\ Len(actions) \in DOMAIN actions
      /\ start = actions[Len(actions)].hands
  BY <1>4, LenProperties DEF Last
<1>6. \A i \in 1..Len(path) : path[i] \in K
  <2> HIDE DEF K
  <2>1. QED
    BY <1>2, ElementOfSeq
<1>7. path \in Seq(Arms)
  <2>1. \A i \in 1..Len(path) : path[i] \in Arms
    BY <1>6 DEF Staying
  <2> HIDE DEF K
  <2>2. QED
    BY <1>2, <2>1, EntriesMakeSeq
<1>8. /\ \A m \in DOMAIN actions : m \in DOMAIN actions' /\ actions'[m] = actions[m]
      /\ \A m \in DOMAIN actions' :
            \/ m \in DOMAIN actions /\ actions'[m] = actions[m]
            \/ /\ m \notin DOMAIN actions /\ ~actions'[m].grasp
               /\ m - Len(actions) \in 1..Len(path)
               /\ actions'[m].hands = path[m - Len(actions)]
      /\ actions' \in Seq(SimAction)
  BY <1>3, <1>4, <1>7, HomedActions
<1>9. DOMAIN actions' = 1..Len(actions') /\ Len(actions') \in Nat
  BY <1>8, LenProperties
<1>10. ClearInv'
  <2>1. ASSUME NEW n \in DOMAIN actions', NEW g \in DOMAIN actions', actions'[g].grasp, n =< g
        PROVE  Clear(k, actions'[n].hands)
    <3>1. g \in DOMAIN actions /\ actions'[g] = actions[g]
      BY <1>8, <2>1
    <3>2. n \in DOMAIN actions
      BY <1>5, <1>9, <2>1, <3>1
    <3>3. Clear(k, actions[n].hands)
      BY <1>4, <2>1, <3>1, <3>2 DEF ApartInv, ClearInv
    <3>4. QED
      BY <1>8, <3>2, <3>3
  <2>2. QED
    BY <1>1, <2>1 DEF ClearInv, Clear, WeldFor
<1>11. ~Grabbed'
  BY <1>4, <1>8 DEF Grabbed
<1>12. StayInv'
  <2>1. ASSUME NEW n \in DOMAIN actions', NEW a \in Agents, ~plans[k][a].home,
               NEW g \in DOMAIN actions', actions'[g].grasp, g =< n
        PROVE  actions'[n].hands[a] = actions'[g].hands[a]
    <3>1. g \in DOMAIN actions /\ actions'[g] = actions[g]
      BY <1>8, <2>1
    <3>2. CASE n \in DOMAIN actions
      BY <1>4, <1>8, <2>1, <3>1, <3>2 DEF ApartInv, StayInv
    <3>3. CASE n \notin DOMAIN actions
      <4>1. actions'[n].hands[a] = start[a]
        BY <1>6, <1>8, <2>1, <3>3 DEF Staying
      <4>2. g =< Len(actions)
        BY <1>5, <3>1
      <4>3. actions[Len(actions)].hands[a] = actions[g].hands[a]
        BY <1>4, <1>5, <2>1, <3>1, <4>2 DEF ApartInv, StayInv
      <4>4. QED
        BY <1>5, <3>1, <4>1, <4>3
    <3>4. QED
      BY <3>2, <3>3
  <2>2. QED
    BY <1>1, <1>11, <2>1 DEF StayInv
<1>13. GoalsApart' /\ ExclusiveInv'
  BY <1>1 DEF ApartInv, GoalsApart, ExclusiveInv, Exclusive, Phantom, PackedSlot, Place, Carriers,
              Underway
<1>14. QED
  BY <1>10, <1>12, <1>13 DEF ApartInv

LEMMA ActIsApart == GraspInv /\ ApartInv /\ Act => ApartInv'
<1> SUFFICES ASSUME GraspInv, ApartInv, Act PROVE ApartInv'
  OBVIOUS
<1>1. /\ pc = "act" /\ UNCHANGED <<saved, plans>> /\ actions' \in {<<>>, Tail(actions)}
      /\ pc' = "act" => actions' # <<>> /\ k' = k
      /\ pc' \in {"act", "policy", "round"}
  BY DEF Act
<1>2. /\ actions \in Seq(SimAction) /\ actions # <<>> /\ Buffered /\ Underway
  BY <1>1 DEF GraspInv, TypesInv, Underway, Buffered
<1>3. /\ 1 \in DOMAIN actions /\ DOMAIN actions = 1..Len(actions) /\ Len(actions) \in Nat
      /\ \A m \in DOMAIN Tail(actions) :
            m \in Nat /\ m >= 1 /\ m + 1 \in DOMAIN actions /\ Tail(actions)[m] = actions[m + 1]
  BY <1>2, TailOfActions, LenProperties
<1>4. GoalsApart'
  BY <1>1 DEF ApartInv, GoalsApart
<1>5. ExclusiveInv'
  <2>1. ASSUME Exclusive(saved), ~Phantom PROVE Exclusive(world')
    BY <2>1, ActIsExclusive
  <2>2. Exclusive(world)' = Exclusive(world')
    BY DEF Exclusive, PackedSlot, Place, Carriers
  <2>3. Exclusive(saved)' = Exclusive(saved) /\ Phantom' = Phantom
    BY <1>1 DEF Exclusive, Phantom, PackedSlot, Place, Carriers
  <2>4. QED
    BY <2>1, <2>2, <2>3 DEF ExclusiveInv
<1>6. CASE pc' # "act"
  BY <1>1, <1>4, <1>5, <1>6 DEF ApartInv, ClearInv, StayInv, Buffered
<1>7. CASE pc' = "act"
  <2>1. actions' = Tail(actions) /\ k' = k /\ Buffered'
    BY <1>1, <1>7 DEF Buffered
  <2>2. \A m \in DOMAIN actions' :
           m \in Nat /\ m >= 1 /\ m + 1 \in DOMAIN actions /\ actions'[m] = actions[m + 1]
    BY <1>3, <2>1
  <2>3. ClearInv'
    <3>1. ASSUME NEW n \in DOMAIN actions', NEW g \in DOMAIN actions', actions'[g].grasp, n =< g
          PROVE  Clear(k, actions'[n].hands)
      <4>1. /\ n + 1 \in DOMAIN actions /\ g + 1 \in DOMAIN actions /\ n + 1 =< g + 1
            /\ actions[g + 1].grasp /\ actions'[n] = actions[n + 1]
        BY <2>2, <3>1
      <4>2. QED
        BY <1>2, <4>1 DEF ApartInv, ClearInv
    <3>2. QED
      BY <1>1, <2>1, <3>1 DEF ClearInv, Clear, WeldFor
  <2>4. ASSUME NEW n \in DOMAIN actions', NEW a \in Agents, ~plans[k][a].home,
               NEW g \in DOMAIN actions', actions'[g].grasp, g =< n
        PROVE  actions'[n].hands[a] = actions'[g].hands[a]
    <3>1. /\ n + 1 \in DOMAIN actions /\ g + 1 \in DOMAIN actions /\ g + 1 =< n + 1
          /\ actions[g + 1].grasp /\ actions'[n] = actions[n + 1] /\ actions'[g] = actions[g + 1]
      BY <2>2, <2>4
    <3>2. QED
      BY <1>2, <2>4, <3>1 DEF ApartInv, StayInv
  <2>5. ASSUME NEW n \in DOMAIN actions', NEW a \in Agents, ~plans[k][a].home, Grabbed'
        PROVE  actions'[n].hands[a] = world'.hands[a]
    <3>1. world'.hands = actions[1].hands
      BY ActMoves DEF Stepped
    <3>2. n + 1 \in DOMAIN actions /\ 1 =< n + 1 /\ actions'[n] = actions[n + 1]
      BY <2>2
    <3>3. CASE actions[1].grasp
      BY <1>2, <1>3, <2>5, <3>1, <3>2, <3>3 DEF ApartInv, StayInv
    <3>4. CASE ~actions[1].grasp
      <4>1. ~\E m \in DOMAIN actions : actions[m].grasp
        <5>1. ASSUME NEW m \in DOMAIN actions, actions[m].grasp PROVE FALSE
          <6>1. m # 1 /\ m \in 1..Len(actions)
            BY <1>3, <3>4, <5>1
          <6>2. m - 1 \in 1..(Len(actions) - 1) /\ (m - 1) + 1 = m
            BY <1>3, <6>1
          <6>3. Tail(actions) \in Seq(SimAction) /\ Len(Tail(actions)) = Len(actions) - 1
            BY <1>2, HeadTailProperties
          <6>4. m - 1 \in DOMAIN actions'
            BY <2>1, <6>2, <6>3, LenProperties
          <6>5. actions'[m - 1].grasp
            BY <2>2, <5>1, <6>2, <6>4
          <6>6. QED
            BY <2>5, <6>4, <6>5 DEF Grabbed
        <5>2. QED
          BY <5>1
      <4>2. Grabbed
        BY <1>1, <4>1 DEF Grabbed
      <4>3. actions[n + 1].hands[a] = world.hands[a] /\ actions[1].hands[a] = world.hands[a]
        BY <1>2, <1>3, <2>5, <3>2, <4>2 DEF ApartInv, StayInv
      <4>4. QED
        BY <3>1, <3>2, <4>3
    <3>5. QED
      BY <3>3, <3>4
  <2>6. StayInv'
    BY <1>1, <2>1, <2>4, <2>5 DEF StayInv
  <2>7. QED
    BY <1>4, <1>5, <2>3, <2>6 DEF ApartInv
<1>8. QED
  BY <1>6, <1>7

LEMMA StrayKeeps == GraspInv /\ StrayInv /\ [Next]_vars => StrayInv'
  BY PipelineMovesPlanner, StrayStep DEF GraspInv

LEMMA ApartInit == Init => ApartInv
<1> SUFFICES ASSUME Init PROVE ApartInv
  OBVIOUS
<1>1. pc = "respond" /\ plans = <<>> /\ DOMAIN <<>> = {}
  BY DEF Init
<1>2. ~Underway /\ ~Buffered
  BY <1>1 DEF Underway, Buffered
<1>3. GoalsApart
  BY <1>1 DEF GoalsApart
<1>4. QED
  BY <1>2, <1>3 DEF ApartInv, ClearInv, StayInv, ExclusiveInv

LEMMA ApartStep == GraspInv /\ StrayInv /\ ApartInv /\ [Next]_vars => ApartInv'
<1> SUFFICES ASSUME GraspInv, StrayInv, ApartInv, [Next]_vars PROVE ApartInv'
  OBVIOUS
<1>1. CASE Respond
  BY <1>1, RespondIsApart
<1>2. CASE MakePolicy \/ GoHome \/ Planning \/ UNCHANGED vars
  <2>1. UNCHANGED <<world, saved, plans, k, actions>>
    BY <1>2 DEF MakePolicy, GoHome, Planning, run_vars, vars
  <2>2. pc' = pc \/ (pc = "policy" /\ pc' = "planning") \/ (pc = "home" /\ pc' = "homing")
    BY <1>2 DEF MakePolicy, GoHome, Planning, run_vars, vars
  <2>3. QED
    BY <2>1, <2>2, QuietIsApart DEF Buffered, Underway
<1>3. CASE NoPolicy \/ Abort
  <2>1. pc' \in {"round", "stopped"} /\ plans' = plans
    BY <1>3 DEF NoPolicy, Abort, Ended
  <2>2. ~Underway' /\ GoalsApart'
    BY <2>1 DEF Underway, ApartInv, GoalsApart
  <2>3. QED
    BY <2>2, IdleIsApart
<1>4. CASE Planned
  BY <1>4, PlannedIsApart
<1>5. CASE Homed
  BY <1>5, HomedIsApart
<1>6. CASE Act
  BY <1>6, ActIsApart
<1>7. CASE FinishRound
  <2>1. pc' \in {"finished", "respond"} /\ plans' = <<>> /\ DOMAIN <<>> = {}
    BY <1>7 DEF FinishRound
  <2>2. ~Underway' /\ GoalsApart'
    BY <2>1 DEF Underway, GoalsApart
  <2>3. QED
    BY <2>2, IdleIsApart
<1>8. QED
  BY <1>1, <1>2, <1>3, <1>4, <1>5, <1>6, <1>7 DEF Next

-----------------------------------------------------------------------------
(* Skill plans: what the registry, the validator and the compiler make of  *)
(* a response, and where its execution leaves the items: a waiting hand    *)
(* stays, another goes from one base to the next by way of the table.      *)

Final(path_plans) == path_plans[Len(path_plans)]

\* The agents whose skill is to put something.
Putting(path_plans) == {a \in Agents : Final(path_plans)[a].object # Nothing}

\* Every one of them puts an item of its own, not yet packed, in a slot, from its hand if
\* it has it there and after grasping it if not; the others stay where they are.
ShapeOK(w, path_plans, claimed) ==
    /\ claimed = {<<Final(path_plans)[a].object, Final(path_plans)[a].target.base>> :
                    a \in Putting(path_plans)}
    /\ \A a, b \in Putting(path_plans) :
          Final(path_plans)[a].object = Final(path_plans)[b].object => a = b
    /\ \A a \in Putting(path_plans) :
          /\ Final(path_plans)[a].target.base \in Slots /\ ~Final(path_plans)[a].on
          /\ PackedSlot(w, Final(path_plans)[a].object) = Nothing
          /\ Len(path_plans) = 1 => Held(w, a) = Final(path_plans)[a].object
          /\ Len(path_plans) = 2 => path_plans[1][a].on
    /\ \A m \in DOMAIN path_plans : \A a \in Agents :
          /\ path_plans[m][a].waypoints = <<>>
          /\ a \notin Putting(path_plans) =>
                path_plans[m][a].object = Nothing /\ path_plans[m][a].target = w.hands[a]

LEMMA RegisteredSkills == DOMAIN Registry = {Put, Wait}
  BY DEF Registry

LEMMA SkillsAreRegistered ==
    ASSUME NEW response, SkillLinesParse(response), NEW a \in Agents
    PROVE  Calls(response)[a].skill \in {Put, Wait}
<1> DEFINE read == Collected(response.lines).calls
           n == CHOOSE m \in DOMAIN read : read[m][1].agent = a
<1>1. /\ \A m \in DOMAIN read : CallParses(read[m])
      /\ {read[m][1].agent : m \in DOMAIN read} = Agents
  BY DEF SkillLinesParse
<1>2. \E m \in DOMAIN read : read[m][1].agent = a
  BY <1>1
<1>3. n \in DOMAIN read
  BY <1>2
<1>4. Calls(response)[a] = CallOf(read[n])
  BY DEF Calls
<1> HIDE DEF n, read
<1>5. Calls(response)[a].skill = read[n][1].skill
  BY <1>4 DEF CallOf
<1>6. QED
  BY <1>1, <1>3, <1>5, RegisteredSkills DEF CallParses

\* A plan without issues.
LEMMA NoIssues ==
    ASSUME NEW w, NEW calls, Issues(w, calls) = {}
    PROVE  /\ \A a \in Puts(calls) :
                 /\ calls[a].arguments["object"] \in Items
                 /\ calls[a].arguments["container"] \in Slots
                 /\ PackedSlot(w, calls[a].arguments["object"]) = Nothing
           /\ \A a, b \in Puts(calls) :
                 calls[a].arguments["object"] = calls[b].arguments["object"] => a = b
<1> DEFINE object(a) == calls[a].arguments["object"]
           slot(a) == calls[a].arguments["container"]
           known == {a \in Puts(calls) : object(a) \in Items /\ slot(a) \in Slots}
<1>1. \A a \in Puts(calls) : object(a) \in Items
  <2>1. (\E a \in Puts(calls) : object(a) \notin Items) => "UNKNOWN_OBJECT" \in Issues(w, calls)
    BY DEF Issues
  <2>2. QED
    BY <2>1
<1>2. \A a \in Puts(calls) : slot(a) \in Slots
  <2>1. (\E a \in Puts(calls) : object(a) \in Items /\ slot(a) \notin Slots)
           => "UNKNOWN_TARGET" \in Issues(w, calls)
    BY DEF Issues
  <2>2. QED
    BY <1>1, <2>1
<1>3. \A a \in known : PackedSlot(w, object(a)) = Nothing
  <2>1. (\E a \in known : PackedSlot(w, object(a)) # Nothing)
           => "OBJECT_ALREADY_PACKED" \in Issues(w, calls)
    BY DEF Issues
  <2>2. QED
    BY <2>1
<1>4. \A a, b \in known : object(a) = object(b) => a = b
  <2>1. (\E a, b \in known : a # b /\ (object(a) = object(b) \/ slot(a) = slot(b)))
           => "RESOURCE_CONFLICT" \in Issues(w, calls)
    BY DEF Issues
  <2>2. QED
    BY <2>1
<1>5. \A a \in Puts(calls) : a \in known
  BY <1>1, <1>2
<1>6. QED
  BY <1>1, <1>2, <1>3, <1>4, <1>5

\* The line the compiler writes for a skill.
LEMMA WaitIsParsed ==
    ASSUME NEW w, NEW calls, NEW a \in Agents, calls[a].skill = Wait,
           NEW act, act = Synthetic(w, calls)[a]
    PROVE  LET parts == ParseAction(w, a, act).plans
           IN  /\ Len(parts) = 1 /\ parts[1].object = Nothing
               /\ parts[1].target = w.hands[a] /\ parts[1].waypoints = <<>>
<1>1. act = [verb |-> "WAIT", object |-> Nothing, target |-> Nothing, path |-> <<>>]
  BY DEF Synthetic
<1>2. act.verb = "WAIT" /\ act.path = <<>>
  BY <1>1
<1>3. ParseAction(w, a, act) = ParseWait(w, a, act)
  BY <1>2 DEF ParseAction
<1> DEFINE wait == Part(w.hands[a], Nothing, FALSE, InhandOf(w, a), FALSE, act.path, act.verb)
<1>4. ParseWait(w, a, act) = Parsed(<<wait>>)
  BY DEF ParseWait
<1> HIDE DEF wait
<1>5. ParseAction(w, a, act).plans = <<wait>>
  BY <1>3, <1>4 DEF Parsed
<1>6. /\ wait.object = Nothing /\ wait.target = w.hands[a] /\ wait.waypoints = <<>>
  BY <1>2 DEF wait, Part
<1>7. QED
  BY <1>5, <1>6

LEMMA PutIsParsed ==
    ASSUME NEW w, WorldOK(w), NEW calls, NEW a \in Agents, calls[a].skill = Put,
           NEW object \in Items, object = calls[a].arguments["object"],
           NEW slot \in Slots, slot = calls[a].arguments["container"],
           NEW act, act = Synthetic(w, calls)[a], ParseAction(w, a, act).ok,
           NEW parts, parts = ParseAction(w, a, act).plans
    PROVE  /\ act.verb \notin {"WAIT", "MOVE"}
           /\ \/ Len(parts) = 1 /\ Held(w, a) = object
              \/ Len(parts) = 2 /\ parts[1].on /\ parts[1].waypoints = <<>>
           /\ parts[Len(parts)].object = object /\ parts[Len(parts)].target = At(slot)
           /\ ~parts[Len(parts)].on /\ parts[Len(parts)].waypoints = <<>>
<1> DEFINE verb == IF Held(w, a) = object THEN "PLACE" ELSE "PICK PLACE"
<1>1. act = [verb |-> verb, object |-> object, target |-> slot, path |-> <<>>]
  BY DEF Synthetic, Put, Wait
<1> HIDE DEF verb
<1>2. act.verb = verb /\ act.object = object /\ act.target = slot /\ act.path = <<>>
  BY <1>1
<1>3. \A x : ~Failed(x).ok
  BY DEF Failed
<1>4. TargetPoint(w, slot) = At(slot)
  BY DEF TargetPoint
<1>5. CASE Held(w, a) = object
  <2>1. act.verb = "PLACE"
    BY <1>2, <1>5 DEF verb
  <2>2. ParseAction(w, a, act) = ParsePlace(w, a, act)
    BY <2>1 DEF ParseAction
  <2> DEFINE place == Part(At(slot), object, FALSE, InhandOf(w, a), TRUE, <<>>, act.verb)
  <2>3. ParsePlace(w, a, act) \in {Failed("parse"), Parsed(<<place>>)}
    BY <1>2, <1>4 DEF ParsePlace
  <2> HIDE DEF place
  <2>4. parts = <<place>>
    BY <1>3, <2>2, <2>3 DEF Parsed
  <2>5. Len(parts) = 1 /\ parts[1] = place
    BY <2>4
  <2>6. place.object = object /\ place.target = At(slot) /\ ~place.on /\ place.waypoints = <<>>
    BY DEF place, Part
  <2>7. QED
    BY <1>5, <2>1, <2>5, <2>6
<1>6. CASE Held(w, a) # object
  <2>1. act.verb = "PICK PLACE"
    BY <1>2, <1>6 DEF verb
  <2>2. ParseAction(w, a, act) = ParsePickPlace(w, a, act)
    BY <2>1 DEF ParseAction
  <2>3. ParsePick(w, a, act).ok
    BY <1>3, <2>2 DEF ParsePickPlace
  <2>4. <<>> \in Seq(Points)
    BY EmptySeq
  <2> DEFINE pick == Part(TargetPoint(w, act.object), act.object, TRUE, Nothing, FALSE,
                          act.path, act.verb)
             place == Part(At(slot), object, FALSE, Nothing, TRUE, <<>>, act.verb)
  <2>5. ParsePick(w, a, act).plans = <<pick>>
    BY <2>3, <1>3 DEF ParsePick, Parsed
  <2>6. pick.on /\ pick.waypoints = <<>>
    BY <1>2 DEF Part
  <2> HIDE DEF pick
  <2> HIDE DEF place
  <2>7. parts = <<pick>> \o <<place>>
    <3>1. ParsePickPlace(w, a, act) \in {Failed("parse"), Parsed(<<pick>> \o <<place>>)}
      BY <1>2, <1>4, <2>5 DEF ParsePickPlace, place
    <3>2. ParsePickPlace(w, a, act) = Parsed(<<pick>> \o <<place>>)
      BY <1>3, <2>2, <3>1
    <3>3. QED
      BY <2>2, <3>2 DEF Parsed
  <2>8. Len(parts) = 2 /\ parts[1] = pick /\ parts[2] = place
    BY <2>7, PairOfTwo
  <2>9. act.verb \notin {"WAIT", "MOVE"}
    BY <2>1
  <2>10. place.object = object /\ place.target = At(slot) /\ ~place.on /\ place.waypoints = <<>>
    BY DEF place, Part
  <2>11. QED
    BY <2>6, <2>8, <2>9, <2>10
<1>7. QED
  BY <1>5, <1>6

LEMMA PreparedShape ==
    ASSUME WorldOK(world), NEW response, Prepared(response).ok
    PROVE  ShapeOK(world, Prepared(response).plans, Claims(response))
<1> DEFINE calls == Calls(response)
           acts == Synthetic(world, calls)
           made == Prepared(response).plans
           N == Len(made)
           parts(a) == ParseAction(world, a, acts[a]).plans
           object(a) == calls[a].arguments["object"]
           slot(a) == calls[a].arguments["container"]
<1>1. /\ SkillLinesParse(response) /\ Issues(world, calls) = {}
      /\ ParseActions(world, acts).ok /\ made = ParseActions(world, acts).plans
  BY DEF Prepared, Compile, Failed
<1>2. \A a \in Agents : acts[a].path \in Seq(Points)
  <2>1. \A a \in Agents : acts[a].path = <<>>
    BY DEF Synthetic
  <2>2. <<>> \in Seq(Points)
    BY EmptySeq
  <2> HIDE DEF acts
  <2>3. QED
    BY <2>1, <2>2
<1> HIDE DEF acts, made, calls
<1>3. \A a \in Agents : acts[a] = Synthetic(world, calls)[a]
  BY DEF acts
<1>4. /\ made \in Seq(Range(made)) /\ N \in {1, 2}
      /\ \A a \in Agents :
            /\ ParseAction(world, a, acts[a]).ok
            /\ Len(parts(a)) # N => acts[a].verb \in {"WAIT", "MOVE"}
      /\ \A j \in 1..N : \A a \in Agents :
            made[j][a] = parts(a)[IF Len(parts(a)) = N THEN j ELSE 1]
  BY <1>1, <1>2, ResponseParts
<1>5. DOMAIN made = 1..N /\ N \in 1..N /\ 1 \in 1..N
  BY <1>4, LenProperties
<1>6. /\ \A a \in Puts(calls) :
            object(a) \in Items /\ slot(a) \in Slots /\ PackedSlot(world, object(a)) = Nothing
      /\ \A a, b \in Puts(calls) : object(a) = object(b) => a = b
  BY <1>1, NoIssues
<1> HIDE DEF parts, N
<1>7. ASSUME NEW a \in Agents, a \notin Puts(calls), NEW j \in 1..N
      PROVE  /\ made[j][a].object = Nothing /\ made[j][a].target = world.hands[a]
             /\ made[j][a].waypoints = <<>>
  <2>1. calls[a].skill = Wait
    BY <1>1, <1>7, SkillsAreRegistered DEF Puts, calls
  <2>2. /\ Len(parts(a)) = 1 /\ parts(a)[1].object = Nothing
        /\ parts(a)[1].target = world.hands[a] /\ parts(a)[1].waypoints = <<>>
    BY <1>3, <2>1, WaitIsParsed DEF parts
  <2>3. made[j][a] = parts(a)[1]
    <3>1. made[j][a] = parts(a)[IF Len(parts(a)) = N THEN j ELSE 1]
      BY <1>4
    <3>2. N = 1 => j = 1
      OBVIOUS
    <3>3. QED
      BY <2>2, <3>1, <3>2
  <2>4. QED
    BY <2>2, <2>3
<1>8. ASSUME NEW a \in Puts(calls)
      PROVE  /\ made[N][a].object = object(a) /\ made[N][a].target = At(slot(a))
             /\ ~made[N][a].on
             /\ \A j \in 1..N : made[j][a].waypoints = <<>>
             /\ N = 1 => Held(world, a) = object(a)
             /\ N = 2 => made[1][a].on
  <2>1. a \in Agents /\ calls[a].skill = Put /\ object(a) \in Items /\ slot(a) \in Slots
    BY <1>6 DEF Puts
  <2> HIDE DEF object, slot
  <2>2. /\ acts[a].verb \notin {"WAIT", "MOVE"}
        /\ \/ Len(parts(a)) = 1 /\ Held(world, a) = object(a)
           \/ Len(parts(a)) = 2 /\ parts(a)[1].on /\ parts(a)[1].waypoints = <<>>
        /\ parts(a)[Len(parts(a))].object = object(a)
        /\ parts(a)[Len(parts(a))].target = At(slot(a))
        /\ ~parts(a)[Len(parts(a))].on /\ parts(a)[Len(parts(a))].waypoints = <<>>
    BY <1>3, <1>4, <2>1, PutIsParsed DEF parts, object, slot
  <2>3. Len(parts(a)) = N /\ \A j \in 1..N : made[j][a] = parts(a)[j]
    BY <1>4, <2>1, <2>2
  <2>4. CASE N = 1
    BY <1>5, <2>2, <2>3, <2>4
  <2>5. CASE N = 2
    <3>1. \A j \in 1..N : j = 1 \/ j = 2
      BY <2>5
    <3>2. QED
      BY <1>5, <2>2, <2>3, <2>5, <3>1
  <2>6. QED
    BY <1>4, <2>4, <2>5
<1>9. Claims(response) = {<<object(a), slot(a)>> : a \in Puts(calls)}
  BY DEF Claims, calls
<1> HIDE DEF object, slot
<1>10. Final(made) = made[N]
  BY DEF Final, N
<1>11. Putting(made) = Puts(calls)
  <2>1. \A a \in Puts(calls) : a \in Agents /\ made[N][a].object # Nothing
    BY <1>6, <1>8, TableAssumption DEF Puts
  <2>2. QED
    BY <1>5, <1>7, <1>10, <2>1 DEF Putting
<1>12. \A a \in Puts(calls) : made[N][a].target.base = slot(a)
  <2>1. \A base : At(base).base = base
    BY DEF At
  <2>2. QED
    BY <1>8, <2>1
<1>13. Claims(response) = {<<made[N][a].object, made[N][a].target.base>> : a \in Puts(calls)}
  BY <1>8, <1>9, <1>12
<1>14. \A m \in DOMAIN made : \A a \in Agents :
          /\ made[m][a].waypoints = <<>>
          /\ a \notin Puts(calls) =>
                made[m][a].object = Nothing /\ made[m][a].target = world.hands[a]
  BY <1>5, <1>7, <1>8
<1>15. ShapeOK(world, made, Claims(response))
  BY <1>6, <1>8, <1>10, <1>11, <1>12, <1>13, <1>14 DEF ShapeOK, N
<1>16. QED
  BY <1>15 DEF made

\* What the hands of a skill plan hold: the waiting ones what they held, the others what
\* they are to put, until they let go of it.
LEMMA SkillWelds ==
    ASSUME WorldOK(saved), PlansOK(saved, plans), k \in DOMAIN plans,
           ShapeOK(saved, plans, claims),
           NEW a \in Agents, NEW object, object = Final(plans)[a].object
    PROVE  /\ a \notin Putting(plans) =>
                /\ WeldFor(k)[a] = saved.weld[a]
                /\ Grasped(WeldFor(k), plans[k])[a] = saved.weld[a]
                /\ plans[k][a].target = saved.hands[a] /\ ~plans[k][a].home
           /\ a \in Putting(plans) /\ Len(plans) = 2 =>
                /\ saved.weld[a] = Nothing /\ Carriers(saved, object) = {}
                /\ plans[1][a].target.base = saved.rest[object]
                /\ ~plans[1][a].home /\ plans[1][a].object = object
                /\ Grasped(saved.weld, plans[1])[a] = object
           /\ a \in Putting(plans) =>
                /\ object \in Items /\ plans[k][a].object = object
                /\ k = Len(plans) => Grasped(WeldFor(k), plans[k])[a] = Nothing
<1>1. /\ 1 \in DOMAIN plans /\ Len(plans) \in DOMAIN plans
      /\ k = 1 \/ k = 2
      /\ Len(plans) = 1 \/ Len(plans) = 2
      /\ k = 2 => Len(plans) = 2
  <2>1. DOMAIN plans = 1..Len(plans) /\ Len(plans) \in Nat
    BY LenProperties DEF PlansOK
  <2>2. QED
    BY <2>1, WhichPlan
<1>2. /\ PartOK(plans[1][a]) /\ GraspOK(saved, a, plans[1][a])
      /\ PartOK(plans[k][a]) /\ PartOK(plans[Len(plans)][a])
  BY <1>1 DEF PlansOK
<1>3. Len(plans) = 2 => /\ plans[1][a].object # Nothing => plans[1][a].on
                        /\ plans[2][a].object = plans[1][a].object
  BY <1>1 DEF PlansOK
<1>4. CASE a \notin Putting(plans)
  <2>1. \A m \in DOMAIN plans :
           plans[m][a].object = Nothing /\ plans[m][a].target = saved.hands[a]
    BY <1>4 DEF ShapeOK
  <2>2. WeldFor(k)[a] = saved.weld[a]
    BY <1>1, <2>1 DEF WeldFor, Grasped, Tograsp
  <2>3. Grasped(WeldFor(k), plans[k])[a] = WeldFor(k)[a]
    BY <2>1 DEF Grasped, Tograsp
  <2>4. QED
    BY <1>2, <1>4, <2>1, <2>2, <2>3 DEF PartOK
<1>5. CASE a \in Putting(plans)
  <2>1. /\ object = plans[Len(plans)][a].object /\ object # Nothing
        /\ ~plans[Len(plans)][a].on
        /\ Len(plans) = 2 => plans[1][a].on
    BY <1>5 DEF ShapeOK, Putting, Final
  <2>2. object \in Items
    BY <1>2, <2>1 DEF PartOK
  <2>3. plans[k][a].object = object
    BY <1>1, <1>3, <2>1
  <2>4. k = Len(plans) => Grasped(WeldFor(k), plans[k])[a] = Nothing
    BY <2>1, <2>3 DEF Grasped, Tograsp
  <2>5. ASSUME Len(plans) = 2
        PROVE  /\ saved.weld[a] = Nothing /\ Carriers(saved, object) = {}
               /\ plans[1][a].target.base = saved.rest[object]
               /\ ~plans[1][a].home /\ plans[1][a].object = object
               /\ Grasped(saved.weld, plans[1])[a] = object
    <3>1. plans[1][a].on /\ plans[1][a].object = object
      BY <1>3, <2>1, <2>5
    <3>2. Grasped(saved.weld, plans[1])[a] = object
      BY <2>1, <3>1 DEF Grasped, Tograsp
    <3>3. QED
      BY <1>2, <3>1, <3>2 DEF GraspOK
  <2>6. QED
    BY <1>5, <2>2, <2>3, <2>4, <2>5
<1>6. QED
  BY <1>4, <1>5

\* What a hand is taken to hold it holds.
Honest == \A a \in Agents : Held(saved, a) \in {saved.weld[a], Nothing}

\* No item over the table when it is let go of, and none in two hands.
SkillTable(w) ==
    /\ \A i \in Items : w.rest[i] \in Items \cup Slots
    /\ \A i \in Items : \A a, b \in Carriers(w, i) : a = b

\* Before the last plan lets go, an object to be put is in its own hand and in no other.
LEMMA CarriedByItsHand ==
    ASSUME WorldOK(saved), PlansOK(saved, plans), k = Len(plans), k \in DOMAIN plans,
           ShapeOK(saved, plans, claims), SkillTable(saved), Honest,
           NEW a \in Putting(plans), NEW object, object = Final(plans)[a].object
    PROVE  /\ object \in Items
           /\ WeldFor(k)[a] = object
           /\ \A b \in Agents : WeldFor(k)[b] = object => b = a
           /\ Len(plans) = 1 => saved.weld[a] = object
           /\ \A b \in Agents :
                 Grasped(WeldFor(k), plans[k])[b] # object /\ (saved.weld[b] = object => b = a)
<1>1. (k = 1 \/ k = 2) /\ (\A i \in Items : i # Nothing)
  BY WhichPlan, TableAssumption
<1>2. a \in Agents
  BY DEF Putting
<1>3. /\ object \in Items
      /\ Len(plans) = 2 => /\ saved.weld[a] = Nothing /\ Carriers(saved, object) = {}
                           /\ Grasped(saved.weld, plans[1])[a] = object
  BY <1>2, SkillWelds
<1>4. ASSUME NEW b \in Agents, b \in Putting(plans)
      PROVE  /\ Final(plans)[b].object = object => b = a
             /\ Len(plans) = 2 => Grasped(saved.weld, plans[1])[b] = Final(plans)[b].object
             /\ Grasped(WeldFor(k), plans[k])[b] = Nothing
  BY <1>4, SkillWelds DEF ShapeOK
<1>5. ASSUME NEW b \in Agents, b \notin Putting(plans)
      PROVE  /\ WeldFor(k)[b] = saved.weld[b]
             /\ Grasped(WeldFor(k), plans[k])[b] = saved.weld[b]
  BY <1>5, SkillWelds
<1>6. CASE k = 1
  <2>1. WeldFor(k) = saved.weld
    BY <1>6 DEF WeldFor
  <2>2. Held(saved, a) = object
    BY <1>6 DEF ShapeOK
  <2>3. saved.weld[a] = object
    BY <1>1, <1>2, <1>3, <2>2 DEF Honest
  <2>4. \A b \in Agents : saved.weld[b] = object => b = a
    BY <1>2, <1>3, <2>3 DEF SkillTable, Carriers
  <2>5. QED
    BY <1>1, <1>3, <1>4, <1>5, <1>6, <2>1, <2>3, <2>4
<1>7. CASE k = 2
  <2>1. WeldFor(k) = Grasped(saved.weld, plans[1])
    BY <1>7 DEF WeldFor
  <2>2. \A b \in Agents : saved.weld[b] # object
    BY <1>3, <1>7 DEF Carriers
  <2>3. QED
    BY <1>1, <1>3, <1>4, <1>5, <1>7, <2>1, <2>2
<1>8. QED
  BY <1>1, <1>6, <1>7

\* What SkillMeansPlaced says of a world.
Placed(w) ==
    \A i \in Items :
       IF \E s \in Slots : <<i, s>> \in claims
       THEN <<i, PackedSlot(w, i)>> \in claims
       ELSE Place(w, i) = Place(saved, i)

LEMMA PlacesMakePlaced ==
    ASSUME ShapeOK(saved, plans, claims), NEW w,
           \A a \in Putting(plans) :
              Place(w, Final(plans)[a].object) = Final(plans)[a].target.base,
           \A i \in Items : (\A a \in Putting(plans) : Final(plans)[a].object # i) =>
              Place(w, i) = Place(saved, i)
    PROVE  Placed(w)
<1>1. claims = {<<Final(plans)[a].object, Final(plans)[a].target.base>> : a \in Putting(plans)}
  BY DEF ShapeOK
<1>2. ASSUME NEW i \in Items, NEW s \in Slots, <<i, s>> \in claims
      PROVE  <<i, PackedSlot(w, i)>> \in claims
  <2>1. PICK a \in Putting(plans) : i = Final(plans)[a].object
    BY <1>1, <1>2
  <2>2. Place(w, i) = Final(plans)[a].target.base /\ Final(plans)[a].target.base \in Slots
    BY <2>1 DEF ShapeOK
  <2>3. PackedSlot(w, i) = Final(plans)[a].target.base
    BY <2>2 DEF PackedSlot
  <2>4. QED
    BY <1>1, <2>1, <2>3
<1>3. ASSUME NEW i \in Items, ~\E s \in Slots : <<i, s>> \in claims
      PROVE  Place(w, i) = Place(saved, i)
  <2>1. ASSUME NEW a \in Putting(plans), Final(plans)[a].object = i PROVE FALSE
    <3>1. <<i, Final(plans)[a].target.base>> \in claims /\ Final(plans)[a].target.base \in Slots
      BY <1>1, <2>1 DEF ShapeOK
    <3>2. QED
      BY <1>3, <3>1
  <2>2. QED
    BY <2>1
<1>4. QED
  BY <1>2, <1>3 DEF Placed

\* An item that no plan names stays, if it rests or if its hand does.
LEMMA OthersStay ==
    ASSUME NEW w, NEW i \in Items, w.rest[i] = saved.rest[i],
           \A a \in Agents : a \notin Putting(plans) =>
              w.weld[a] = saved.weld[a] /\ w.hands[a] = saved.hands[a],
           \A a \in Putting(plans) : w.weld[a] # i /\ saved.weld[a] # i
    PROVE  Place(w, i) = Place(saved, i)
<1>1. Carriers(w, i) = Carriers(saved, i)
  BY DEF Carriers
<1>2. CASE Carriers(saved, i) = {}
  BY <1>1, <1>2 DEF Place
<1>3. CASE Carriers(saved, i) # {}
  <2> DEFINE b == CHOOSE a \in Carriers(saved, i) : TRUE
  <2>1. b \in Carriers(saved, i)
    BY <1>3
  <2> HIDE DEF b
  <2>2. b \in Agents /\ b \notin Putting(plans)
    BY <2>1 DEF Carriers
  <2>3. w.hands[b] = saved.hands[b]
    BY <2>2
  <2>4. QED
    BY <1>1, <1>3, <2>3 DEF Place, b
<1>4. QED
  BY <1>2, <1>3

\* What rests where once the last plan has let go.
Settled(w) ==
    /\ \A a \in Putting(plans) :
          w.rest[Final(plans)[a].object] = Final(plans)[a].target.base
    /\ \A i \in Items : (\A a \in Putting(plans) : Final(plans)[a].object # i) =>
          w.rest[i] = saved.rest[i]

Waiting(w) == \A a \in Agents : a \notin Putting(plans) => w.hands[a] = saved.hands[a]

LEMMA GraspSettles ==
    ASSUME WorldOK(saved), PlansOK(saved, plans), k = Len(plans), k \in DOMAIN plans,
           ShapeOK(saved, plans, claims), SkillTable(saved), Honest,
           NEW v, v.weld = WeldFor(k), v.rest = saved.rest,
           NEW c, AtTargets(c, plans[k]),
           NEW w, w = Stepped(v, c, Grasped(WeldFor(k), plans[k]))
    PROVE  Settled(w)
<1> DEFINE weld == Grasped(WeldFor(k), plans[k])
<1>1. w.rest = [i \in Items |->
            IF Carriers(v, i) # {} /\ ~\E a \in Agents : weld[a] = i
            THEN c[CHOOSE a \in Carriers(v, i) : TRUE].base
            ELSE saved.rest[i]]
  BY DEF Stepped
<1>2. ASSUME NEW a \in Putting(plans)
      PROVE  w.rest[Final(plans)[a].object] = Final(plans)[a].target.base
  <2> DEFINE object == Final(plans)[a].object
  <2>1. a \in Agents
    BY DEF Putting
  <2>2. /\ object \in Items /\ WeldFor(k)[a] = object
        /\ \A b \in Agents : WeldFor(k)[b] = object => b = a
        /\ \A b \in Agents : weld[b] # object
    BY CarriedByItsHand
  <2> HIDE DEF weld
  <2>3. Carriers(v, object) = {a}
    BY <2>1, <2>2 DEF Carriers
  <2>4. (CHOOSE b \in Carriers(v, object) : TRUE) = a
    BY <2>3
  <2>5. w.rest[object] = c[a].base
    BY <1>1, <2>2, <2>3, <2>4
  <2>6. plans[k][a] = Final(plans)[a] /\ Final(plans)[a].target.base \in Slots
        /\ Final(plans)[a].object # Nothing
    BY DEF Final, ShapeOK, Putting
  <2>7. Final(plans)[a].target.base # "over"
    BY <2>6, TableAssumption
  <2>8. c[a].base = Final(plans)[a].target.base
    BY <2>1, <2>6, <2>7 DEF AtTargets
  <2>9. QED
    BY <2>5, <2>8
<1>3. ASSUME NEW i \in Items, \A a \in Putting(plans) : Final(plans)[a].object # i
      PROVE  w.rest[i] = saved.rest[i]
  <2>1. ASSUME NEW b \in Agents, WeldFor(k)[b] = i PROVE weld[b] = i
    <3>1. CASE b \in Putting(plans)
      BY <1>3, <2>1, <3>1, CarriedByItsHand
    <3>2. CASE b \notin Putting(plans)
      BY <2>1, <3>2, SkillWelds
    <3>3. QED
      BY <3>1, <3>2
  <2>2. ~(Carriers(v, i) # {} /\ ~\E a \in Agents : weld[a] = i)
    BY <2>1 DEF Carriers
  <2>3. QED
    BY <1>1, <2>2
<1>4. QED
  BY <1>2, <1>3 DEF Settled

LEMMA SettledMeansPlaced ==
    ASSUME WorldOK(saved), PlansOK(saved, plans), k = Len(plans), k \in DOMAIN plans,
           ShapeOK(saved, plans, claims), SkillTable(saved), Honest,
           NEW w, w.weld = Grasped(WeldFor(k), plans[k]), Settled(w), Waiting(w)
    PROVE  Placed(w)
<1>1. \A i \in Items : i # Nothing
  BY TableAssumption
<1>2. ASSUME NEW a \in Putting(plans)
      PROVE  Place(w, Final(plans)[a].object) = Final(plans)[a].target.base
  <2> DEFINE object == Final(plans)[a].object
  <2>1. \A b \in Agents : w.weld[b] # object
    BY CarriedByItsHand
  <2>2. Carriers(w, object) = {}
    BY <2>1 DEF Carriers
  <2>3. QED
    BY <2>2 DEF Place, Settled
<1>3. ASSUME NEW i \in Items, \A a \in Putting(plans) : Final(plans)[a].object # i
      PROVE  Place(w, i) = Place(saved, i)
  <2>1. ASSUME NEW a \in Putting(plans) PROVE w.weld[a] # i /\ saved.weld[a] # i
    <3>1. a \in Agents /\ (Len(plans) = 1 \/ Len(plans) = 2)
      BY WhichPlan DEF Putting
    <3>2. w.weld[a] = Nothing
      BY <3>1, SkillWelds
    <3>3. Len(plans) = 2 => saved.weld[a] = Nothing
      BY <3>1, SkillWelds
    <3>4. Len(plans) = 1 => saved.weld[a] = Final(plans)[a].object
      BY CarriedByItsHand
    <3>5. QED
      BY <1>1, <1>3, <3>1, <3>2, <3>3, <3>4
  <2>2. \A a \in Agents : a \notin Putting(plans) =>
           w.weld[a] = saved.weld[a] /\ w.hands[a] = saved.hands[a]
    BY SkillWelds DEF Waiting
  <2>3. w.rest[i] = saved.rest[i]
    BY <1>3 DEF Settled
  <2>4. QED
    BY <2>1, <2>2, <2>3, OthersStay
<1>4. QED
  BY <1>2, <1>3, PlacesMakePlaced

\* Between two grasps a waiting hand stays, another is at one of the two bases of its
\* motion or over the table.
From(a) == IF k = 1 THEN saved.hands[a].base ELSE plans[1][a].target.base

Travelling ==
    {c \in Arms : \A a \in Agents :
        /\ a \notin Putting(plans) => c[a] = saved.hands[a]
        /\ a \in Putting(plans) =>
              c[a].base = From(a) \/ c[a].base = "over" \/ c[a].base = plans[k][a].target.base}

\* The task is over before the last plan lets go: all it was to put is over its slot.
LEMMA OverItsSlot ==
    ASSUME WorldOK(saved), PlansOK(saved, plans), k = Len(plans), k \in DOMAIN plans,
           ShapeOK(saved, plans, claims), SkillTable(saved), Honest,
           NEW w, w.weld = WeldFor(k), w.rest = saved.rest, w.hands \in Travelling, AllPacked(w)
    PROVE  Placed(w)
<1>1. (\A i \in Items : i # Nothing) /\ (k = 1 \/ k = 2) /\ \A s \in Slots : s # Nothing /\ s # "over"
  BY WhichPlan, TableAssumption
<1>2. ASSUME NEW a \in Putting(plans)
      PROVE  Place(w, Final(plans)[a].object) = Final(plans)[a].target.base
  <2> DEFINE object == Final(plans)[a].object
  <2>1. a \in Agents
    BY DEF Putting
  <2>2. /\ object \in Items /\ WeldFor(k)[a] = object
        /\ \A b \in Agents : WeldFor(k)[b] = object => b = a
        /\ Len(plans) = 1 => saved.weld[a] = object
        /\ \A b \in Agents : saved.weld[b] = object => b = a
    BY CarriedByItsHand
  <2>3. PackedSlot(saved, object) = Nothing
    BY DEF ShapeOK
  <2>4. Len(plans) = 2 =>
           Carriers(saved, object) = {} /\ plans[1][a].target.base = saved.rest[object]
    BY <2>1, SkillWelds
  <2>5. plans[k][a].target.base = Final(plans)[a].target.base
    BY DEF Final
  <2> HIDE DEF object
  <2>6. Carriers(w, object) = {a} /\ (CHOOSE b \in {a} : TRUE) = a
    BY <2>1, <2>2 DEF Carriers
  <2>7. Place(w, object) = w.hands[a].base
    BY <2>6 DEF Place
  <2>8. w.hands[a].base \in Slots
    BY <1>1, <2>2, <2>7 DEF AllPacked, PackedSlot
  <2>9. From(a) = Place(saved, object)
    <3>1. CASE k = 1
      <4>1. Carriers(saved, object) = {a} /\ (CHOOSE b \in {a} : TRUE) = a
        BY <2>1, <2>2, <3>1 DEF Carriers
      <4>2. QED
        BY <3>1, <4>1 DEF From, Place
    <3>2. CASE k = 2
      BY <2>4, <3>2 DEF From, Place
    <3>3. QED
      BY <1>1, <3>1, <3>2
  <2>10. From(a) \notin Slots
    BY <1>1, <2>3, <2>9 DEF PackedSlot
  <2>11. \/ w.hands[a].base = From(a) \/ w.hands[a].base = "over"
         \/ w.hands[a].base = plans[k][a].target.base
    BY <2>1 DEF Travelling
  <2>12. Place(w, object) = Final(plans)[a].target.base
    BY <1>1, <2>5, <2>7, <2>8, <2>10, <2>11
  <2>13. QED
    BY <2>12 DEF object
<1>3. ASSUME NEW i \in Items, \A a \in Putting(plans) : Final(plans)[a].object # i
      PROVE  Place(w, i) = Place(saved, i)
  <2>1. ASSUME NEW a \in Putting(plans) PROVE w.weld[a] # i /\ saved.weld[a] # i
    <3>1. a \in Agents
      BY DEF Putting
    <3>2. w.weld[a] = Final(plans)[a].object
      BY CarriedByItsHand
    <3>3. Len(plans) = 2 => saved.weld[a] = Nothing
      BY <3>1, SkillWelds
    <3>4. Len(plans) = 1 => saved.weld[a] = Final(plans)[a].object
      BY CarriedByItsHand
    <3>5. QED
      BY <1>1, <1>3, <3>2, <3>3, <3>4
  <2>2. \A a \in Agents : a \notin Putting(plans) => w.weld[a] = saved.weld[a]
    BY SkillWelds
  <2>3. \A a \in Agents : a \notin Putting(plans) => w.hands[a] = saved.hands[a]
    BY DEF Travelling
  <2>4. QED
    BY <2>1, <2>2, <2>3, OthersStay
<1>4. QED
  BY <1>2, <1>3, PlacesMakePlaced

\* It is not over while an item is still to be taken from where it lies.
LEMMA NotOverYet ==
    ASSUME WorldOK(saved), PlansOK(saved, plans), k = 1, Len(plans) = 2,
           ShapeOK(saved, plans, claims), SkillTable(saved),
           NEW w, w.rest = saved.rest, AllPacked(w), Waiting(w),
           \/ w.weld = saved.weld
           \/ /\ w.weld = Grasped(saved.weld, plans[1])
              /\ \A a \in Putting(plans) : w.hands[a].base = plans[1][a].target.base
    PROVE  Placed(w)
<1>1. k \in DOMAIN plans /\ WeldFor(k) = saved.weld
  <2>1. DOMAIN plans = 1..Len(plans)
    BY LenProperties DEF PlansOK
  <2>2. QED
    BY <2>1 DEF WeldFor
<1>2. ASSUME NEW a \in Putting(plans) PROVE FALSE
  <2> DEFINE object == Final(plans)[a].object
  <2>1. a \in Agents
    BY DEF Putting
  <2>2. /\ Carriers(saved, object) = {} /\ object \in Items
        /\ plans[1][a].target.base = saved.rest[object]
        /\ Grasped(saved.weld, plans[1])[a] = object
    BY <1>1, <2>1, SkillWelds
  <2>3. PackedSlot(saved, object) = Nothing
    BY DEF ShapeOK
  <2>4. \A b \in Agents : Grasped(saved.weld, plans[1])[b] = object => b = a
    <3>1. ASSUME NEW b \in Agents, b \in Putting(plans),
                 Grasped(saved.weld, plans[1])[b] = object
          PROVE  b = a
      <4>1. Final(plans)[b].object = object
        BY <1>1, <3>1, SkillWelds
      <4>2. QED
        BY <3>1, <4>1 DEF ShapeOK
    <3>2. ASSUME NEW b \in Agents, b \notin Putting(plans)
          PROVE  Grasped(saved.weld, plans[1])[b] # object
      <4>1. Grasped(saved.weld, plans[1])[b] = saved.weld[b]
        BY <1>1, <3>2, SkillWelds
      <4>2. QED
        BY <2>2, <4>1 DEF Carriers
    <3>3. QED
      BY <3>1, <3>2
  <2> HIDE DEF object
  <2>5. Place(saved, object) = saved.rest[object]
    BY <2>2 DEF Place
  <2>6. saved.rest[object] \notin Slots
    BY <2>3, <2>5, TableAssumption DEF PackedSlot
  <2>7. CASE w.weld = saved.weld
    <3>1. Carriers(w, object) = {}
      BY <2>2, <2>7 DEF Carriers
    <3>2. Place(w, object) = saved.rest[object]
      BY <3>1 DEF Place
    <3>3. QED
      BY <2>2, <2>6, <3>2 DEF AllPacked, PackedSlot
  <2>8. CASE /\ w.weld = Grasped(saved.weld, plans[1])
             /\ w.hands[a].base = plans[1][a].target.base
    <3>1. Carriers(w, object) = {a} /\ (CHOOSE b \in {a} : TRUE) = a
      BY <2>1, <2>2, <2>4, <2>8 DEF Carriers
    <3>2. Place(w, object) = saved.rest[object]
      BY <2>2, <2>8, <3>1 DEF Place
    <3>3. QED
      BY <2>2, <2>6, <3>2 DEF AllPacked, PackedSlot
  <2>9. QED
    BY <2>7, <2>8
<1>3. ASSUME NEW i \in Items PROVE Place(w, i) = Place(saved, i)
  <2>1. \A a \in Agents : a \notin Putting(plans) =>
           w.weld[a] = saved.weld[a] /\ w.hands[a] = saved.hands[a]
    BY <1>1, SkillWelds DEF Waiting
  <2>2. QED
    BY <1>2, <2>1, OthersStay
<1>4. QED
  BY <1>2, <1>3, PlacesMakePlaced

ShapeInv == Skill /\ plans # <<>> => ShapeOK(saved, plans, claims)

TableInv == Skill => SkillTable(world) /\ SkillTable(saved)

\* The motion up to the grasp, and where it leaves the hands for the next plan.
TravelInv ==
    Skill /\ Underway =>
       /\ Waiting(world)
       /\ pc \in {"policy", "planning"} =>
             \A a \in Putting(plans) : world.hands[a].base = From(a)
       /\ Buffered => \A n \in DOMAIN actions :
             (\E g \in DOMAIN actions : actions[g].grasp /\ n =< g) =>
                actions[n].hands \in Travelling
       /\ Grabbed /\ k < Len(plans) =>
             \A a \in Putting(plans) : world.hands[a].base = plans[k][a].target.base

SettledInv == Skill /\ Grabbed /\ k = Len(plans) /\ Honest => Settled(world)

PlacedInv == ShapeInv /\ TableInv /\ TravelInv /\ SettledInv /\ SkillMeansPlaced

LEMMA UnderwayShape ==
    ASSUME GraspInv, ShapeInv, Skill, Underway
    PROVE  /\ ShapeOK(saved, plans, claims) /\ k \in DOMAIN plans /\ PlansOK(saved, plans)
           /\ WorldOK(saved)
<1>1. k \in DOMAIN plans /\ PlansOK(saved, plans) /\ WorldOK(saved)
  BY DEF GraspInv, TypesInv
<1>2. plans # <<>>
  <2>1. DOMAIN <<>> = {}
    OBVIOUS
  <2>2. QED
    BY <1>1, <2>1
<1>3. QED
  BY <1>1, <1>2 DEF ShapeInv

LEMMA TravellingIsClosed == Closed(Travelling)
<1>1. Travelling \subseteq Configs /\ Configs = Arms /\ Extend = ArmsLine
  BY PipelineAssumption DEF Travelling
<1>2. ASSUME NEW x \in Travelling, NEW y \in Travelling, NEW i \in DOMAIN extend_ee_l2(x, y)
      PROVE  extend_ee_l2(x, y)[i] \in Travelling
  <2>1. x \in Configs /\ y \in Configs /\ x \in Arms /\ y \in Arms
    BY <1>1
  <2>2. extend_ee_l2(x, y) \in Seq(Configs)
    BY <2>1, LinksOfLine
  <2>3. extend_ee_l2(x, y)[i] \in Arms
    BY <1>1, <2>2, LenProperties, ElementOfSeq
  <2>4. extend_ee_l2(x, y) =
           IF x = y THEN <<>>
           ELSE [n \in 1..5 |-> [a \in Agents |-> Leg(x[a], y[a])[n]]]
    BY <1>1, <2>1 DEF extend_ee_l2, ArmsLine
  <2>5. i \in 1..5 /\ extend_ee_l2(x, y)[i] = [a \in Agents |-> Leg(x[a], y[a])[i]]
    <3>1. CASE x = y
      BY <2>4, <3>1
    <3>2. CASE x # y
      BY <2>4, <3>2
    <3>3. QED
      BY <3>1, <3>2
  <2>6. ASSUME NEW a \in Agents, a \notin Putting(plans)
        PROVE  extend_ee_l2(x, y)[i][a] = saved.hands[a]
    <3> DEFINE p == saved.hands[a]
    <3>1. x[a] = p /\ y[a] = p
      BY <2>6 DEF Travelling
    <3> HIDE DEF p
    <3>2. Leg(p, p) = <<p, p, p, p, p>>
      BY DEF Leg
    <3>3. Leg(p, p)[i] = p
      BY <2>5, <3>2
    <3>4. QED
      BY <2>5, <3>1, <3>3 DEF p
  <2>7. ASSUME NEW a \in Agents, a \in Putting(plans)
        PROVE  \/ extend_ee_l2(x, y)[i][a].base = From(a)
               \/ extend_ee_l2(x, y)[i][a].base = "over"
               \/ extend_ee_l2(x, y)[i][a].base = plans[k][a].target.base
    <3> DEFINE b == plans[k][a].target.base
    <3>1. /\ x[a].base = From(a) \/ x[a].base = "over" \/ x[a].base = b
          /\ y[a].base = From(a) \/ y[a].base = "over" \/ y[a].base = b
      BY <2>7 DEF Travelling
    <3>2. Leg(x[a], y[a])[i].base \in {x[a].base, y[a].base, "over"}
      <4>1. \A p, q : \A n \in 1..5 : Leg(p, q)[n].base \in {p.base, q.base, "over"}
        <5> SUFFICES ASSUME NEW p, NEW q, NEW n \in 1..5
                     PROVE  Leg(p, q)[n].base \in {p.base, q.base, "over"}
          OBVIOUS
        <5>1. Over.base = "over" /\ \A r : Near(r.base).base = r.base
          BY DEF Over, At, Near
        <5>2. CASE p.base = q.base
          <6>1. Leg(p, q) = <<p, p, p, p, q>>
            BY <5>2 DEF Leg
          <6>2. Leg(p, q)[n] \in {p, q}
            BY <6>1
          <6>3. QED
            BY <6>2
        <5>3. CASE p.base # q.base
          <6> DEFINE off(r) == IF r = Over THEN Over ELSE Near(r.base)
          <6>1. Leg(p, q) = <<p, off(p), Over, off(q), q>>
            BY <5>3 DEF Leg
          <6>2. off(p).base = p.base /\ off(q).base = q.base
            BY <5>1
          <6> HIDE DEF off
          <6>3. Leg(p, q)[n] \in {p, off(p), Over, off(q), q}
            BY <6>1
          <6>4. QED
            BY <5>1, <6>2, <6>3
        <5>4. QED
          BY <5>2, <5>3
      <4>2. QED
        BY <2>5, <4>1
    <3> HIDE DEF b
    <3>3. Leg(x[a], y[a])[i].base \in {From(a), "over", b}
      BY <3>1, <3>2
    <3>4. QED
      BY <2>5, <3>3 DEF b
  <2>8. QED
    BY <2>3, <2>6, <2>7 DEF Travelling
<1>3. QED
  BY <1>1, <1>2 DEF Closed

\* A search between two grasps strays no further.
LEMMA PlannedPathTravels ==
    ASSUME GraspInv, StrayInv, ShapeInv, TravelInv, Skill, pc = "planning", Return
    PROVE  result.path \in Seq(Travelling)
<1> DEFINE plan == plans[k]
<1>1. /\ ShapeOK(saved, plans, claims) /\ k \in DOMAIN plans /\ PlansOK(saved, plans)
      /\ WorldOK(saved) /\ WorldOK(world) /\ Underway
  BY UnderwayShape DEF Underway, GraspInv, TypesInv
<1>2. PICK waypoints \in Solved(Waypoints(plan)) : query = QposQuery(plan, waypoints)
  BY DEF GraspInv, QueryInv
<1>3. waypoints \in Seq(Travelling)
  <2>1. AgentOrder[1] \in Agents
    BY TableAssumption DEF Agents, Range
  <2>2. plan[AgentOrder[1]].waypoints = <<>>
    BY <1>1, <2>1 DEF ShapeOK
  <2>3. DOMAIN Waypoints(plan) = {} /\ Waypoints(plan) = [n \in {} |-> Waypoints(plan)[n]]
    <3>1. Waypoints(plan) = [n \in {} |-> [a \in Agents |-> plan[a].waypoints[n]]]
      <4>1. DOMAIN plan[AgentOrder[1]].waypoints = {}
        BY <2>2
      <4>2. QED
        BY <4>1 DEF Waypoints
    <3>2. QED
      BY <3>1
  <2>4. Waypoints(plan) \in [1..0 -> Travelling]
    <3>1. 1..0 = {}
      OBVIOUS
    <3> HIDE DEF plan
    <3>2. QED
      BY <2>3, <3>1
  <2>5. Waypoints(plan) \in Seq(Travelling)
    <3> HIDE DEF plan
    <3>1. QED
      BY <2>4, FunctionsAreSequences
  <2>6. QED
    BY <1>2, <2>5, SolvedTypes
<1>4. Reverse(waypoints) \in Seq(Travelling)
  BY <1>3, ReverseType
<1>5. /\ world.hands \in Arms /\ Goal(plan) \in Arms
      /\ \A a \in Agents : a \notin Putting(plans) =>
            world.hands[a] = saved.hands[a] /\ Goal(plan)[a] = saved.hands[a]
      /\ \A a \in Agents : a \in Putting(plans) =>
            world.hands[a].base = From(a) /\ Goal(plan)[a].base = plan[a].target.base
  <2>1. \A a \in Agents : PartOK(plan[a])
    BY <1>1 DEF PlansOK
  <2>2. Goal(plan) \in Arms /\ world.hands \in Arms
    BY <1>1, <2>1 DEF Goal, Arms, PartOK, WorldOK
  <2>3. \A a \in Agents : a \notin Putting(plans) => plan[a].target = saved.hands[a]
    BY <1>1, SkillWelds
  <2>4. QED
    BY <1>1, <2>2, <2>3 DEF TravelInv, Waiting, Goal
<1>6. world.hands \in Travelling /\ Goal(plan) \in Travelling
  BY <1>5 DEF Travelling
<1>7. Drawn(world.hands, Goal(plan)) \subseteq Travelling
  <2>1. ASSUME NEW c \in Drawn(world.hands, Goal(plan)) PROVE c \in Travelling
    <3>1. c \in Arms /\ \A a \in Agents : c[a] = world.hands[a] \/ c[a] = Goal(plan)[a]
      BY DEF Drawn
    <3>2. QED
      BY <1>5, <3>1 DEF Travelling
  <2>2. QED
    BY <2>1
<1>8. Asked(query, Travelling)
  BY <1>2, <1>4, <1>6, <1>7 DEF Asked, QposQuery
<1>9. Closed(Travelling) /\ Travelling \subseteq Configs
  BY TravellingIsClosed DEF Closed
<1>10. QED
  BY <1>8, <1>9 DEF StrayInv, Within, Return

\* The hands after an env.step.
LEMMA ActTravels ==
    ASSUME GraspInv, StayInv, ShapeInv, TableInv, TravelInv, Skill, Act
    PROVE  /\ Waiting(world')
           /\ (\E g \in DOMAIN actions : actions[g].grasp) => world'.hands \in Travelling
           /\ k < Len(plans) /\ (actions[1].grasp \/ Grabbed) =>
                 \A a \in Putting(plans) : world'.hands[a].base = plans[k][a].target.base
<1>1. pc = "act" /\ actions # <<>> /\ world'.hands = actions[1].hands
  BY ActMoves DEF Stepped
<1>2. Underway /\ Buffered
  BY <1>1 DEF Underway, Buffered
<1>3. /\ ShapeOK(saved, plans, claims) /\ k \in DOMAIN plans /\ PlansOK(saved, plans)
      /\ WorldOK(saved)
  BY <1>2, UnderwayShape
<1>4. actions \in Seq(SimAction) /\ 1 \in DOMAIN actions /\ \A g \in DOMAIN actions : 1 =< g
  BY <1>1, <1>2, LenProperties, TailOfActions DEF GraspInv, TypesInv
<1>5. ASSUME NEW g \in DOMAIN actions, actions[g].grasp PROVE world'.hands \in Travelling
  BY <1>1, <1>2, <1>4, <1>5 DEF TravelInv
<1>6. ASSUME NEW a \in Agents, a \notin Putting(plans) PROVE world'.hands[a] = saved.hands[a]
  <2>1. CASE \E g \in DOMAIN actions : actions[g].grasp
    BY <1>5, <1>6, <2>1 DEF Travelling
  <2>2. CASE ~\E g \in DOMAIN actions : actions[g].grasp
    <3>1. Grabbed
      BY <1>1, <2>2 DEF Grabbed
    <3>2. ~plans[k][a].home
      BY <1>3, <1>6, SkillWelds
    <3>3. world'.hands[a] = world.hands[a]
      BY <1>1, <1>2, <1>4, <3>1, <3>2 DEF StayInv
    <3>4. QED
      BY <1>2, <1>6, <3>3 DEF TravelInv, Waiting
  <2>3. QED
    BY <2>1, <2>2
<1>7. ASSUME NEW a \in Putting(plans), k < Len(plans), actions[1].grasp \/ Grabbed
      PROVE  world'.hands[a].base = plans[k][a].target.base
  <2>1. a \in Agents /\ k = 1 /\ Len(plans) = 2
    <3>1. k \in {1, 2} /\ Len(plans) \in {1, 2}
      BY <1>3, WhichPlan
    <3>2. \A x, y \in {1, 2} : x < y => x = 1 /\ y = 2
      OBVIOUS
    <3>3. QED
      BY <1>7, <3>1, <3>2 DEF Putting
  <2>2. CASE Grabbed
    <3>1. ~plans[k][a].home
      BY <1>3, <2>1, SkillWelds
    <3>2. world'.hands[a] = world.hands[a]
      BY <1>1, <1>2, <1>4, <2>1, <2>2, <3>1 DEF StayInv
    <3>3. QED
      BY <1>2, <1>7, <2>2, <3>2 DEF TravelInv
  <2>3. CASE actions[1].grasp
    <3>1. AtTargets(actions[1].hands, plans[k])
      BY <1>2, <1>4, <2>3 DEF GraspInv, BufferInv
    <3>2. /\ plans[k][a].object = Final(plans)[a].object /\ Final(plans)[a].object # Nothing
          /\ plans[k][a].target.base = saved.rest[Final(plans)[a].object]
          /\ Final(plans)[a].object \in Items
      BY <1>3, <1>7, <2>1, SkillWelds DEF Putting
    <3>3. plans[k][a].target.base # "over"
      BY <3>2, TableAssumption DEF TableInv, SkillTable
    <3>4. QED
      BY <1>1, <2>1, <3>1, <3>2, <3>3 DEF AtTargets
  <2>4. QED
    BY <1>7, <2>2, <2>3
<1>8. QED
  BY <1>5, <1>6, <1>7 DEF Waiting

\* What it does to the welds of a skill plan, and to what rests.
LEMMA ActWelds ==
    ASSUME GraspInv, Act
    PROVE  /\ actions[1].grasp \/ Grabbed =>
                 /\ world'.weld = Grasped(WeldFor(k), plans[k])
                 /\ k < Len(plans) => world'.rest = saved.rest
           /\ ~(actions[1].grasp \/ Grabbed) =>
                 world'.weld = WeldFor(k) /\ world'.rest = saved.rest
           /\ Grabbed => world'.rest = world.rest
<1>1. /\ pc = "act"
      /\ ~actions[1].grasp =>
            /\ world'.weld = world.weld /\ world'.rest = world.rest
      /\ actions[1].grasp =>
            /\ world'.weld = Grasped(WeldFor(k), plans[k])
            /\ k < Len(plans) => world'.rest = saved.rest
      /\ actions # <<>>
  BY ActMoves
<1>2. 1 \in DOMAIN actions
  BY <1>1, TailOfActions DEF GraspInv, TypesInv
<1>3. Grabbed => ~actions[1].grasp
  BY <1>2 DEF Grabbed
<1>4. ~Grabbed => Pending
  BY <1>1 DEF Grabbed, Pending, Underway
<1>5. /\ Pending => world.weld = WeldFor(k) /\ world.rest = saved.rest
      /\ Grabbed => /\ world.weld = Grasped(WeldFor(k), plans[k])
                    /\ k < Len(plans) => world.rest = saved.rest
  BY DEF GraspInv, PendingInv
<1>6. QED
  BY <1>1, <1>3, <1>4, <1>5

LEMMA ActSettles ==
    ASSUME GraspInv, ShapeInv, TableInv, SettledInv, Skill, Act, Honest,
           k = Len(plans), actions[1].grasp \/ Grabbed
    PROVE  Settled(world')
<1>1. pc = "act" /\ actions # <<>>
  BY ActMoves
<1>2. Underway /\ Buffered
  BY <1>1 DEF Underway, Buffered
<1>3. /\ ShapeOK(saved, plans, claims) /\ k \in DOMAIN plans /\ PlansOK(saved, plans)
      /\ WorldOK(saved) /\ SkillTable(saved)
  BY <1>2, UnderwayShape DEF TableInv
<1>4. CASE Grabbed
  <2>1. Settled(world)
    BY <1>4 DEF SettledInv
  <2>2. world'.rest = world.rest
    BY <1>4, ActWelds
  <2>3. QED
    BY <2>1, <2>2 DEF Settled
<1>5. CASE actions[1].grasp
  <2>1. /\ world' = Stepped(world, actions[1].hands, Grasped(WeldFor(k), plans[k]))
        /\ world.weld = WeldFor(k) /\ world.rest = saved.rest
    BY <1>5, ActMoves
  <2>2. AtTargets(actions[1].hands, plans[k])
    <3>1. 1 \in DOMAIN actions
      BY <1>1, TailOfActions DEF GraspInv, TypesInv
    <3>2. QED
      BY <1>2, <1>5, <3>1 DEF GraspInv, BufferInv
  <2>3. QED
    BY <1>3, <2>1, <2>2, GraspSettles
<1>6. QED
  BY <1>4, <1>5

LEMMA ActKeepsTable ==
    ASSUME GraspInv, ShapeInv, TableInv, Skill, Act
    PROVE  SkillTable(world')
<1>1. pc = "act" /\ actions # <<>> /\ world' = Stepped(world, actions[1].hands, world'.weld)
  BY ActMoves
<1>2. Underway /\ Buffered
  BY <1>1 DEF Underway, Buffered
<1>3. /\ ShapeOK(saved, plans, claims) /\ k \in DOMAIN plans /\ PlansOK(saved, plans)
      /\ WorldOK(saved) /\ SkillTable(saved) /\ SkillTable(world)
  BY <1>2, UnderwayShape DEF TableInv
<1>4. (\A i \in Items : i # Nothing) /\ "over" \notin Slots
  BY TableAssumption
<1>5. CASE ~actions[1].grasp
  <2>1. world'.weld = world.weld /\ world'.rest = world.rest
    BY <1>5, ActMoves
  <2>2. QED
    BY <1>3, <2>1 DEF SkillTable, Carriers
<1>6. CASE actions[1].grasp
  <2> DEFINE weld == Grasped(WeldFor(k), plans[k])
  <2>1. /\ world'.weld = weld /\ world.weld = WeldFor(k) /\ world.rest = saved.rest
        /\ k < Len(plans) => k = 1 /\ world'.rest = saved.rest
    BY <1>6, ActMoves
  <2>2. /\ k = 1 \/ k = 2
        /\ Len(plans) = 1 \/ Len(plans) = 2
        /\ k = 2 => Len(plans) = 2
    BY <1>3, WhichPlan
  <2>3. \A a \in Agents : a \notin Putting(plans) => weld[a] = saved.weld[a]
    BY <1>3, SkillWelds
  <2>4. \A a \in Agents : a \in Putting(plans) /\ k = Len(plans) => weld[a] = Nothing
    BY <1>3, SkillWelds
  <2>5. ASSUME NEW a \in Agents, a \in Putting(plans), k < Len(plans)
        PROVE  weld[a] = Final(plans)[a].object /\ Carriers(saved, Final(plans)[a].object) = {}
    <3>1. k \in {1, 2} /\ Len(plans) \in {1, 2}
      BY <2>2
    <3>2. \A x, y \in {1, 2} : x < y => x = 1 /\ y = 2
      OBVIOUS
    <3>3. k = 1 /\ Len(plans) = 2 /\ WeldFor(k) = saved.weld
      BY <2>5, <3>1, <3>2 DEF WeldFor
    <3>4. QED
      BY <1>3, <2>5, <3>3, SkillWelds
  <2> HIDE DEF weld
  <2>6. k = Len(plans) \/ k < Len(plans)
    BY <2>2
  <2>7. ASSUME NEW i \in Items, NEW a \in Agents, NEW b \in Agents, weld[a] = i, weld[b] = i
        PROVE  a = b
    <3>1. CASE a \notin Putting(plans) /\ b \notin Putting(plans)
      BY <1>3, <2>3, <2>7, <3>1 DEF SkillTable, Carriers
    <3>2. CASE (a \in Putting(plans) \/ b \in Putting(plans)) /\ k = Len(plans)
      BY <1>4, <2>4, <2>7, <3>2
    <3>3. CASE a \in Putting(plans) /\ b \in Putting(plans) /\ k < Len(plans)
      BY <1>3, <2>5, <2>7, <3>3 DEF ShapeOK
    <3>4. ASSUME NEW x \in Agents, NEW y \in Agents, x \in Putting(plans), y \notin Putting(plans),
                 k < Len(plans), weld[x] = i, weld[y] = i
          PROVE  FALSE
      BY <2>3, <2>5, <3>4 DEF Carriers
    <3>5. QED
      BY <2>6, <2>7, <3>1, <3>2, <3>3, <3>4
  <2>8. ASSUME NEW i \in Items PROVE world'.rest[i] \in Items \cup Slots
    <3>1. world'.rest = [j \in Items |->
              IF Carriers(world, j) # {} /\ ~\E a \in Agents : weld[a] = j
              THEN actions[1].hands[CHOOSE a \in Carriers(world, j) : TRUE].base
              ELSE world.rest[j]]
      BY <1>1, <2>1 DEF Stepped
    <3>2. CASE ~(Carriers(world, i) # {} /\ ~\E a \in Agents : weld[a] = i)
      BY <1>3, <3>1, <3>2 DEF SkillTable
    <3>3. CASE k < Len(plans)
      BY <1>3, <2>1, <3>3 DEF SkillTable
    <3>4. CASE /\ Carriers(world, i) # {} /\ ~\E a \in Agents : weld[a] = i
               /\ k = Len(plans)
      <4> DEFINE b == CHOOSE a \in Carriers(world, i) : TRUE
      <4>1. b \in Carriers(world, i)
        BY <3>4
      <4>2. world'.rest[i] = actions[1].hands[b].base
        BY <3>1, <3>4
      <4> HIDE DEF b
      <4>3. b \in Agents /\ WeldFor(k)[b] = i /\ weld[b] # i
        BY <2>1, <3>4, <4>1 DEF Carriers
      <4>4. b \in Putting(plans)
        <5>1. b \notin Putting(plans) => WeldFor(k)[b] = saved.weld[b]
          BY <1>3, <4>3, SkillWelds
        <5>2. QED
          BY <2>3, <4>3, <5>1
      <4>5. AtTargets(actions[1].hands, plans[k])
        <5>1. 1 \in DOMAIN actions
          BY <1>1, TailOfActions DEF GraspInv, TypesInv
        <5>2. QED
          BY <1>2, <1>6, <5>1 DEF GraspInv, BufferInv
      <4>6. plans[k][b].object # Nothing /\ plans[k][b].target.base \in Slots
        BY <1>3, <3>4, <4>4 DEF ShapeOK, Putting, Final
      <4>7. actions[1].hands[b].base \in Slots
        BY <1>4, <4>3, <4>5, <4>6 DEF AtTargets
      <4>8. QED
        BY <4>2, <4>7
    <3>5. QED
      BY <2>6, <3>2, <3>3, <3>4
  <2>9. QED
    BY <2>1, <2>7, <2>8 DEF SkillTable, Carriers
<1>7. QED
  BY <1>5, <1>6

\* The executor stops when the task is over, or after the last action of the last plan.
LEMMA ActSucceeds ==
    ASSUME GraspInv, StayInv, ShapeInv, TableInv, TravelInv, SettledInv, Skill, Act, Honest,
           pc' = "round"
    PROVE  Placed(world')
<1>1. pc = "act" /\ actions # <<>>
  BY ActMoves
<1>2. Underway /\ Buffered
  BY <1>1 DEF Underway, Buffered
<1>3. /\ ShapeOK(saved, plans, claims) /\ k \in DOMAIN plans /\ PlansOK(saved, plans)
      /\ WorldOK(saved) /\ SkillTable(saved)
  BY <1>2, UnderwayShape DEF TableInv
<1>4. AllPacked(world') \/ (Tail(actions) = <<>> /\ ~(k < Len(plans)))
  BY <1>1 DEF Act
<1>5. k \in {1, 2} /\ Len(plans) \in {1, 2} /\ (k = 2 => Len(plans) = 2)
  BY <1>3, WhichPlan
<1>6. (k < Len(plans) => k = 1 /\ Len(plans) = 2) /\ (~(k < Len(plans)) => k = Len(plans))
  <2>1. \A x, y \in {1, 2} :
           (x < y => x = 1 /\ y = 2) /\ (~(x < y) /\ (x = 2 => y = 2) => x = y)
    OBVIOUS
  <2>2. QED
    BY <1>5, <2>1
<1>7. Waiting(world')
  BY ActTravels
<1>8. CASE k = Len(plans) /\ (actions[1].grasp \/ Grabbed)
  <2>1. Settled(world')
    BY <1>8, ActSettles
  <2>2. world'.weld = Grasped(WeldFor(k), plans[k])
    BY <1>8, ActWelds
  <2>3. QED
    BY <1>3, <1>7, <1>8, <2>1, <2>2, SettledMeansPlaced
<1>9. CASE k = Len(plans) /\ ~(actions[1].grasp \/ Grabbed)
  <2>1. PICK g \in DOMAIN actions : actions[g].grasp
    BY <1>1, <1>9 DEF Grabbed
  <2>2. world'.hands \in Travelling
    BY <2>1, ActTravels
  <2>3. world'.weld = WeldFor(k) /\ world'.rest = saved.rest
    BY <1>9, ActWelds
  <2>4. Tail(actions) # <<>>
    <3>1. actions \in Seq(SimAction)
      BY DEF GraspInv, TypesInv
    <3>2. /\ Len(Tail(actions)) = Len(actions) - 1 /\ Len(actions) \in Nat
          /\ DOMAIN actions = 1..Len(actions)
      BY <1>1, <3>1, HeadTailProperties, LenProperties
    <3>3. g # 1 /\ g \in 1..Len(actions)
      BY <1>9, <2>1, <3>2
    <3>4. Len(Tail(actions)) # 0
      BY <3>2, <3>3
    <3>5. Len(<<>>) = 0
      OBVIOUS
    <3>6. QED
      BY <3>4, <3>5
  <2>5. AllPacked(world')
    BY <1>4, <2>4
  <2>6. QED
    BY <1>3, <1>9, <2>2, <2>3, <2>5, OverItsSlot
<1>10. CASE k < Len(plans)
  <2>1. AllPacked(world') /\ k = 1 /\ Len(plans) = 2 /\ WeldFor(k) = saved.weld
    BY <1>4, <1>6, <1>10 DEF WeldFor
  <2>2. CASE actions[1].grasp \/ Grabbed
    <3>1. world'.weld = Grasped(saved.weld, plans[1]) /\ world'.rest = saved.rest
      BY <1>10, <2>1, <2>2, ActWelds
    <3>2. \A a \in Putting(plans) : world'.hands[a].base = plans[1][a].target.base
      BY <1>10, <2>1, <2>2, ActTravels
    <3>3. QED
      BY <1>3, <1>7, <2>1, <3>1, <3>2, NotOverYet
  <2>3. CASE ~(actions[1].grasp \/ Grabbed)
    <3>1. world'.weld = saved.weld /\ world'.rest = saved.rest
      BY <2>1, <2>3, ActWelds
    <3>2. QED
      BY <1>3, <1>7, <2>1, <3>1, NotOverYet
  <2>4. QED
    BY <2>2, <2>3
<1>11. QED
  BY <1>6, <1>8, <1>9, <1>10

LEMMA ShapeStays ==
    ASSUME ShapeInv, TableInv, UNCHANGED <<mode, saved, plans, claims>>, SkillTable(world) => SkillTable(world')
    PROVE  ShapeInv' /\ TableInv'
<1>1. ShapeInv'
  BY DEF ShapeInv, Skill
<1>2. SkillTable(world)' = SkillTable(world') /\ SkillTable(saved)' = SkillTable(saved)
  BY DEF SkillTable, Carriers
<1>3. QED
  BY <1>1, <1>2 DEF TableInv, Skill

LEMMA ActIsPlaced == GraspInv /\ StayInv /\ PlacedInv /\ Act => PlacedInv'
<1> SUFFICES ASSUME GraspInv, StayInv, PlacedInv, Act PROVE PlacedInv'
  OBVIOUS
<1>1. /\ pc = "act" /\ UNCHANGED <<mode, saved, plans, claims>>
      /\ pc' = "act" => actions' = Tail(actions) /\ k' = k
      /\ pc' \in {"act", "policy", "round"}
      /\ pc' = "policy" => k' = k + 1 /\ k < Len(plans) /\ Tail(actions) = <<>>
  <2>1. /\ pc = "act" /\ UNCHANGED <<mode, saved, plans, claims>>
        /\ actions' = IF Skill /\ done' THEN <<>> ELSE Tail(actions)
        /\ pc' = IF actions' # <<>> THEN "act"
                 ELSE IF k < Len(plans) /\ ~(Skill /\ done') THEN "policy" ELSE "round"
        /\ k' = IF pc' = "policy" THEN k + 1 ELSE k
    BY DEF Act
  <2>2. QED
    BY <2>1
<1>2. CASE ~Skill
  <2>1. ~Skill'
    BY <1>1, <1>2 DEF Skill
  <2>2. QED
    BY <2>1 DEF PlacedInv, ShapeInv, TableInv, TravelInv, SettledInv, SkillMeansPlaced
<1>3. CASE Skill
  <2>1. /\ ShapeInv /\ TableInv /\ TravelInv /\ SettledInv /\ Underway /\ Buffered
        /\ actions # <<>> /\ actions \in Seq(SimAction)
    BY <1>1 DEF PlacedInv, Underway, Buffered, GraspInv, TypesInv
  <2>2. ShapeInv' /\ TableInv'
    BY <1>1, <1>3, <2>1, ActKeepsTable, ShapeStays
  <2>3. /\ Waiting(world')
        /\ (\E g \in DOMAIN actions : actions[g].grasp) => world'.hands \in Travelling
        /\ k < Len(plans) /\ (actions[1].grasp \/ Grabbed) =>
              \A a \in Putting(plans) : world'.hands[a].base = plans[k][a].target.base
    BY <1>3, <2>1, ActTravels
  <2>4. Waiting(world)'
    BY <1>1, <2>3 DEF Waiting, Putting, Final
  <2>5. /\ 1 \in DOMAIN actions /\ DOMAIN actions = 1..Len(actions) /\ Len(actions) \in Nat
        /\ \A m \in DOMAIN Tail(actions) :
              m \in Nat /\ m >= 1 /\ m + 1 \in DOMAIN actions /\ Tail(actions)[m] = actions[m + 1]
        /\ Tail(actions) \in Seq(SimAction) /\ Len(Tail(actions)) = Len(actions) - 1
    BY <2>1, TailOfActions, LenProperties, HeadTailProperties
  <2>6. ASSUME ~\E m \in DOMAIN Tail(actions) : Tail(actions)[m].grasp
        PROVE  actions[1].grasp \/ Grabbed
    <3>1. ASSUME NEW m \in DOMAIN actions, actions[m].grasp, m # 1 PROVE FALSE
      <4>1. m - 1 \in 1..(Len(actions) - 1) /\ (m - 1) + 1 = m
        BY <2>5, <3>1
      <4>2. m - 1 \in DOMAIN Tail(actions)
        BY <2>5, <4>1, LenProperties
      <4>3. QED
        BY <2>5, <2>6, <3>1, <4>1, <4>2
    <3>2. QED
      BY <1>1, <3>1 DEF Grabbed
  <2>7. CASE pc' = "round"
    <3>1. ~Underway' /\ ~Grabbed'
      BY <2>7 DEF Underway, Grabbed
    <3>2. Honest' = Honest
      BY <1>1 DEF Honest, Held, FirstItem, Contacts, Place, Carriers
    <3>3. Placed(world') => Placed(world)'
      BY <1>1 DEF Placed, PackedSlot, Place, Carriers
    <3>4. SkillMeansPlaced'
      <4>1. Honest => Placed(world)'
        BY <1>3, <2>1, <2>7, <3>3, ActSucceeds
      <4>2. QED
        BY <3>2, <4>1 DEF SkillMeansPlaced, Honest, Placed
    <3>5. QED
      BY <2>2, <3>1, <3>4 DEF PlacedInv, TravelInv, SettledInv
  <2>8. CASE pc' = "policy"
    <3>1. ~Buffered' /\ ~Grabbed' /\ SkillMeansPlaced'
      BY <2>8 DEF Buffered, Grabbed, SkillMeansPlaced
    <3>2. actions[1].grasp \/ Grabbed
      <4>1. DOMAIN <<>> = {}
        OBVIOUS
      <4>2. QED
        BY <1>1, <2>6, <2>8, <4>1
    <3>3. k = 1 /\ k' = 2
      <4>1. k \in {1, 2} /\ Len(plans) \in {1, 2}
        BY <1>3, <2>1, UnderwayShape, WhichPlan
      <4>2. \A x, y \in {1, 2} : x < y => x = 1
        OBVIOUS
      <4>3. k' = k + 1 /\ k < Len(plans)
        BY <1>1, <2>8
      <4>4. k = 1
        BY <4>1, <4>2, <4>3
      <4>5. QED
        BY <4>3, <4>4
    <3>4. \A a \in Putting(plans) : world'.hands[a].base = plans[1][a].target.base
      BY <1>1, <2>3, <2>8, <3>2, <3>3
    <3>5. TravelInv'
      BY <1>1, <2>4, <3>1, <3>3, <3>4 DEF TravelInv, From, Putting, Final
    <3>6. QED
      BY <2>2, <3>1, <3>5 DEF PlacedInv, SettledInv
  <2>9. CASE pc' = "act"
    <3>1. actions' = Tail(actions) /\ k' = k /\ SkillMeansPlaced'
      BY <1>1, <2>9 DEF SkillMeansPlaced
    <3>2. ASSUME NEW n \in DOMAIN actions', NEW g \in DOMAIN actions', actions'[g].grasp, n =< g
          PROVE  actions'[n].hands \in Travelling
      <4>1. /\ n + 1 \in DOMAIN actions /\ g + 1 \in DOMAIN actions /\ n + 1 =< g + 1
            /\ actions[g + 1].grasp /\ actions'[n] = actions[n + 1]
        BY <2>5, <3>1, <3>2
      <4>2. QED
        BY <1>3, <2>1, <4>1 DEF TravelInv
    <3>3. Grabbed' => actions[1].grasp \/ Grabbed
      BY <2>6, <3>1 DEF Grabbed
    <3>4. Travelling' = Travelling
      BY <1>1, <3>1 DEF Travelling, From, Putting, Final
    <3>5. TravelInv'
      BY <1>1, <2>3, <2>4, <2>9, <3>1, <3>2, <3>3, <3>4 DEF TravelInv, Putting, Final
    <3>6. Honest' = Honest
      BY <1>1 DEF Honest, Held, FirstItem, Contacts, Place, Carriers
    <3>7. SettledInv'
      <4>1. k = Len(plans) /\ Honest /\ Grabbed' => Settled(world')
        BY <1>3, <2>1, <3>3, ActSettles
      <4>2. Settled(world') => Settled(world)'
        BY <1>1 DEF Settled, Putting, Final
      <4>3. QED
        BY <1>1, <3>1, <3>6, <4>1, <4>2 DEF SettledInv
    <3>8. QED
      BY <2>2, <3>1, <3>5, <3>7 DEF PlacedInv
  <2>10. QED
    BY <1>1, <2>7, <2>8, <2>9
<1>4. QED
  BY <1>2, <1>3

\* Nothing happens to the table, to the plans and to the buffer.
LEMMA QuietIsPlaced ==
    ASSUME PlacedInv, UNCHANGED <<mode, world, saved, plans, k, claims, actions>>,
           Buffered' => Buffered, Underway' => Underway, pc' = "act" => pc = "act",
           pc' \in {"policy", "planning"} => pc \in {"policy", "planning"},
           SkillMeansPlaced'
    PROVE  PlacedInv'
<1>1. ShapeInv' /\ TableInv'
  BY ShapeStays DEF PlacedInv
<1>2. Grabbed' => Grabbed
  BY DEF Grabbed
<1>3. Travelling' = Travelling
  BY DEF Travelling, From, Putting, Final
<1>4. TravelInv'
  BY <1>2, <1>3 DEF PlacedInv, TravelInv, Waiting, From, Putting, Final, Skill
<1>5. Honest' = Honest
  BY DEF Honest, Held, FirstItem, Contacts, Place, Carriers
<1>6. SettledInv'
  BY <1>2, <1>5 DEF PlacedInv, SettledInv, Settled, Putting, Final, Skill
<1>7. QED
  BY <1>1, <1>4, <1>6 DEF PlacedInv

LEMMA IdleIsPlaced ==
    ASSUME ShapeInv', TableInv', ~Underway', SkillMeansPlaced'
    PROVE  PlacedInv'
<1>1. ~Grabbed'
  BY DEF Grabbed, Underway
<1>2. QED
  BY <1>1 DEF PlacedInv, TravelInv, SettledInv

LEMMA EndedIsPlaced ==
    ASSUME PlacedInv, NEW outcome, Ended(outcome), outcome # "success"
    PROVE  PlacedInv'
<1>1. /\ pc' = "round" /\ status' # "success" /\ UNCHANGED <<mode, world, saved, plans, claims>>
  BY DEF Ended
<1>2. ~Underway' /\ SkillMeansPlaced'
  BY <1>1 DEF Underway, SkillMeansPlaced
<1>3. ShapeInv' /\ TableInv'
  BY <1>1, ShapeStays DEF PlacedInv
<1>4. QED
  BY <1>2, <1>3, IdleIsPlaced

LEMMA RespondIsPlaced == GraspInv /\ PlacedInv /\ Respond => PlacedInv'
<1> SUFFICES ASSUME GraspInv, PlacedInv, Respond PROVE PlacedInv'
  OBVIOUS
<1>1. ASSUME NEW prepared, NEW claimed, Answered(prepared, claimed), pc = "respond",
             prepared.ok /\ Skill => ShapeOK(world, prepared.plans, claimed)
      PROVE  PlacedInv'
  <2>1. CASE UNCHANGED <<mode, world, saved, pc, plans, k, claims, actions, done, status, round>>
    <3>1. SkillMeansPlaced'
      BY <1>1, <2>1 DEF SkillMeansPlaced
    <3>2. QED
      BY <2>1, <3>1, QuietIsPlaced DEF Buffered, Underway
  <2>2. CASE /\ prepared.ok
             /\ plans' = prepared.plans /\ k' = 1 /\ claims' = claimed
             /\ saved' = world /\ pc' = "policy"
             /\ UNCHANGED <<mode, world, actions>>
    <3>1. Skill' = Skill /\ ~Buffered' /\ ~Grabbed' /\ SkillMeansPlaced'
      BY <2>2 DEF Skill, Buffered, Grabbed, SkillMeansPlaced
    <3>2. ShapeInv'
      BY <1>1, <2>2, <3>1 DEF ShapeInv
    <3>3. TableInv'
      BY <2>2, <3>1 DEF PlacedInv, TableInv, SkillTable, Carriers
    <3>4. TravelInv'
      BY <2>2, <3>1 DEF TravelInv, Waiting, From
    <3>5. QED
      BY <3>1, <3>2, <3>3, <3>4 DEF PlacedInv, SettledInv
  <2>3. QED
    BY <1>1, <2>1, <2>2 DEF Answered
<1>2. WorldOK(world)
  BY DEF GraspInv, TypesInv
<1>3. CASE Skill
  <2>1. PICK response \in SkillResponses :
           Answered(Prepared(response), IF Prepared(response).ok THEN Claims(response) ELSE {})
    BY <1>3 DEF Respond
  <2>2. Prepared(response).ok => ShapeOK(world, Prepared(response).plans, Claims(response))
    BY <1>2, PreparedShape
  <2>3. QED
    BY <1>1, <2>1, <2>2 DEF Respond
<1>4. CASE ~Skill
  <2>1. PICK acts \in ActionResponses[mode.output] : Answered(ParseActions(world, acts), {})
    BY <1>4 DEF Respond
  <2>2. QED
    BY <1>1, <1>4, <2>1 DEF Respond
<1>5. QED
  BY <1>3, <1>4

LEMMA PlannedIsPlaced == GraspInv /\ StrayInv /\ PlacedInv /\ Planned => PlacedInv'
<1> SUFFICES ASSUME GraspInv, StrayInv, PlacedInv, Planned PROVE PlacedInv'
  OBVIOUS
<1> DEFINE path == Kept(result.path, ControlFreq)
           act == [hands |-> Last(path), grasp |-> TRUE]
<1>1. pc = "planning" /\ Return
  BY DEF Planned
<1>2. CASE Ended("motion_planning_failed")
  BY <1>2, EndedIsPlaced
<1>3. CASE /\ result.path # <<>> /\ actions' = Moves(path) \o <<act>>
           /\ pc' = IF \E a \in Agents : plans[k][a].home THEN "home" ELSE "act"
           /\ UNCHANGED <<mode, world, saved, plans, k, claims>>
  <2>1. SkillMeansPlaced' /\ ShapeInv' /\ TableInv' /\ pc' \in {"home", "act"}
    BY <1>3, ShapeStays DEF SkillMeansPlaced, PlacedInv
  <2>2. CASE ~Skill
    BY <1>3, <2>1, <2>2 DEF PlacedInv, TravelInv, SettledInv, Skill
  <2>3. CASE Skill
    <3>1. result.path \in Seq(Travelling)
      BY <1>1, <2>3, PlannedPathTravels DEF PlacedInv
    <3>2. path \in Seq(Travelling) /\ path # <<>>
      BY <1>3, <3>1, KeptEnds, PipelineAssumption
    <3> HIDE DEF path
    <3>3. /\ path \in Seq(Arms) /\ Len(path) \in Nat /\ Len(path) >= 1
          /\ \A i \in 1..Len(path) : path[i] \in Travelling
      <4>1. \A i \in 1..Len(path) : path[i] \in Travelling
        BY <3>2, ElementOfSeq
      <4>2. \A i \in 1..Len(path) : path[i] \in Arms
        BY <4>1 DEF Travelling
      <4>3. QED
        BY <3>2, <4>1, <4>2, EntriesMakeSeq, LenProperties
    <3>4. /\ DOMAIN actions' = 1..(Len(path) + 1)
          /\ \A m \in 1..Len(path) : actions'[m].hands = path[m] /\ ~actions'[m].grasp
          /\ actions'[Len(path) + 1] = act
      BY <1>3, <3>2, <3>3, PlannedActions
    <3>5. \A m \in DOMAIN actions' : actions'[m].hands \in Travelling
      <4>1. act.hands \in Travelling
        BY <3>3 DEF Last
      <4> HIDE DEF act
      <4>2. \A m \in 1..(Len(path) + 1) : m \in 1..Len(path) \/ m = Len(path) + 1
        BY <3>3
      <4>3. QED
        BY <3>3, <3>4, <4>1, <4>2
    <3>6. ~Grabbed'
      BY <3>3, <3>4 DEF Grabbed
    <3>7. Travelling' = Travelling
      BY <1>3 DEF Travelling, From, Putting, Final
    <3>8. Waiting(world)'
      BY <1>1, <1>3, <2>3 DEF PlacedInv, TravelInv, Waiting, Underway, Putting, Final
    <3>9. TravelInv'
      BY <2>1, <3>5, <3>6, <3>7, <3>8 DEF TravelInv
    <3>10. QED
      BY <2>1, <3>6, <3>9 DEF PlacedInv, SettledInv
  <2>4. QED
    BY <2>2, <2>3
<1>4. QED
  BY <1>2, <1>3 DEF Planned

LEMMA HomedIsPlaced == GraspInv /\ StrayInv /\ PlacedInv /\ Homed => PlacedInv'
<1> SUFFICES ASSUME GraspInv, StrayInv, PlacedInv, Homed PROVE PlacedInv'
  OBVIOUS
<1>1. /\ pc = "homing" /\ pc' = "act"
      /\ UNCHANGED <<mode, world, saved, plans, k, claims>>
  BY DEF Homed
<1>2. SkillMeansPlaced' /\ ShapeInv' /\ TableInv' /\ Underway /\ Buffered
  BY <1>1, ShapeStays DEF SkillMeansPlaced, PlacedInv, Underway, Buffered
<1>3. PICK path \in Seq(Arms) : actions' = actions \o Moves(path)
  <2>1. CASE result.path = <<>>
    <3>1. Moves(<<>>) = <<>>
      BY DEF Moves
    <3>2. <<>> \in Seq(Arms)
      BY EmptySeq
    <3>3. actions' = actions \o Moves(<<>>)
      BY <2>1, <3>1 DEF Homed
    <3>4. QED
      BY <3>2, <3>3
  <2>2. CASE result.path # <<>>
    <3>1. result.path \in Seq(Staying(plans[k], Last(actions).hands))
      BY <1>1, HomePathStays DEF Homed
    <3>2. \A i \in 1..Len(result.path) : result.path[i] \in Arms
      BY <3>1, ElementOfSeq DEF Staying
    <3>3. result.path \in Seq(Arms)
      BY <3>1, <3>2, EntriesMakeSeq
    <3>4. Kept(result.path, ControlFreq) \in Seq(Arms)
      BY <2>2, <3>3, KeptEnds, PipelineAssumption
    <3>5. QED
      BY <2>2, <3>4 DEF Homed
  <2>3. QED
    BY <2>1, <2>2
<1>4. /\ actions \in Seq(SimAction) /\ actions # <<>> /\ DOMAIN actions = 1..Len(actions)
      /\ Len(actions) \in Nat
      /\ \E g \in DOMAIN actions : actions[g].grasp
  BY <1>1, <1>2, LenProperties DEF GraspInv, TypesInv, BufferInv
<1>5. /\ \A m \in DOMAIN actions : m \in DOMAIN actions' /\ actions'[m] = actions[m]
      /\ \A m \in DOMAIN actions' :
            \/ m \in DOMAIN actions /\ actions'[m] = actions[m]
            \/ m \notin DOMAIN actions /\ ~actions'[m].grasp
      /\ actions' \in Seq(SimAction)
  BY <1>3, <1>4, HomedActions
<1>6. DOMAIN actions' = 1..Len(actions') /\ Len(actions') \in Nat
  BY <1>5, LenProperties
<1>7. ~Grabbed'
  BY <1>4, <1>5 DEF Grabbed
<1>8. CASE ~Skill
  BY <1>1, <1>2, <1>8 DEF PlacedInv, TravelInv, SettledInv, Skill
<1>9. CASE Skill
  <2>1. ASSUME NEW n \in DOMAIN actions', NEW g \in DOMAIN actions', actions'[g].grasp, n =< g
        PROVE  actions'[n].hands \in Travelling
    <3>1. g \in DOMAIN actions /\ actions'[g] = actions[g]
      BY <1>5, <2>1
    <3>2. n \in DOMAIN actions
      BY <1>4, <1>6, <2>1, <3>1
    <3>3. actions[n].hands \in Travelling
      BY <1>2, <1>9, <2>1, <3>1, <3>2 DEF PlacedInv, TravelInv
    <3>4. QED
      BY <1>5, <3>2, <3>3
  <2>2. Travelling' = Travelling
    BY <1>1 DEF Travelling, From, Putting, Final
  <2>3. Waiting(world)'
    BY <1>1, <1>2, <1>9 DEF PlacedInv, TravelInv, Waiting, Putting, Final
  <2>4. TravelInv'
    BY <1>1, <1>7, <2>1, <2>2, <2>3 DEF TravelInv
  <2>5. QED
    BY <1>2, <1>7, <2>4 DEF PlacedInv, SettledInv
<1>10. QED
  BY <1>8, <1>9

LEMMA FinishRoundIsPlaced == PlacedInv /\ FinishRound => PlacedInv'
<1> SUFFICES ASSUME PlacedInv, FinishRound PROVE PlacedInv'
  OBVIOUS
<1>1. /\ world' \in {saved, world} /\ saved' = world' /\ plans' = <<>> /\ mode' = mode
      /\ pc' \in {"finished", "respond"}
  BY DEF FinishRound
<1>2. ShapeInv' /\ ~Underway' /\ SkillMeansPlaced'
  BY <1>1 DEF ShapeInv, Underway, SkillMeansPlaced
<1>3. SkillTable(world') => SkillTable(world)' /\ SkillTable(saved)'
  BY <1>1 DEF SkillTable, Carriers
<1>4. TableInv'
  BY <1>1, <1>3 DEF PlacedInv, TableInv, Skill
<1>5. QED
  BY <1>2, <1>4, IdleIsPlaced

LEMMA PlacedInit == Init => PlacedInv
<1> SUFFICES ASSUME Init PROVE PlacedInv
  OBVIOUS
<1>1. pc = "respond" /\ plans = <<>> /\ world = NewWorld /\ saved = NewWorld
  BY DEF Init
<1>2. ~Underway /\ ~Grabbed /\ ShapeInv /\ SkillMeansPlaced
  BY <1>1 DEF Underway, Grabbed, ShapeInv, SkillMeansPlaced
<1>3. SkillTable(NewWorld)
  BY TableAssumption DEF SkillTable, NewWorld, Carriers
<1>4. QED
  BY <1>1, <1>2, <1>3 DEF PlacedInv, TableInv, TravelInv, SettledInv

\* What a success says goes on to hold.
LEMMA SuccessStays ==
    ASSUME SkillMeansPlaced, UNCHANGED <<mode, world, saved, claims, pc, status>>
    PROVE  SkillMeansPlaced'
<1>1. SkillMeansPlaced = (pc = "round" /\ Skill /\ status = "success" /\ Honest => Placed(world))
  BY DEF SkillMeansPlaced, Honest, Placed
<1>2. SkillMeansPlaced' =
         (pc' = "round" /\ Skill' /\ status' = "success" /\ Honest' => Placed(world)')
  BY DEF SkillMeansPlaced, Honest, Placed
<1>3. Honest' = Honest
  BY DEF Honest, Held, FirstItem, Contacts, Place, Carriers
<1>4. Placed(world)' = Placed(world)
  BY DEF Placed, PackedSlot, Place, Carriers
<1>5. Skill' = Skill
  BY DEF Skill
<1>6. QED
  BY <1>1, <1>2, <1>3, <1>4, <1>5

LEMMA PlacedStep ==
    GraspInv /\ StrayInv /\ StayInv /\ PlacedInv /\ [Next]_vars => PlacedInv'
<1> SUFFICES ASSUME GraspInv, StrayInv, StayInv, PlacedInv, [Next]_vars PROVE PlacedInv'
  OBVIOUS
<1>1. CASE Respond
  BY <1>1, RespondIsPlaced
<1>2. CASE MakePolicy \/ GoHome \/ Planning
  <2>1. UNCHANGED <<mode, world, saved, plans, k, claims, actions>>
    BY <1>2 DEF MakePolicy, GoHome, Planning, run_vars
  <2>2. /\ pc' = pc \/ (pc = "policy" /\ pc' = "planning") \/ (pc = "home" /\ pc' = "homing")
        /\ pc' = pc => status' = status
    BY <1>2 DEF MakePolicy, GoHome, Planning, run_vars
  <2>3. SkillMeansPlaced'
    <3>1. CASE pc' = pc
      BY <2>1, <2>2, <3>1, SuccessStays DEF PlacedInv
    <3>2. CASE pc' # pc
      BY <2>2, <3>2 DEF SkillMeansPlaced
    <3>3. QED
      BY <3>1, <3>2
  <2>4. QED
    BY <2>1, <2>2, <2>3, QuietIsPlaced DEF Buffered, Underway
<1>3. CASE UNCHANGED vars
  <2>1. UNCHANGED <<mode, world, saved, plans, k, claims, actions, pc, status>>
    BY <1>3 DEF vars, run_vars
  <2>2. SkillMeansPlaced'
    BY <2>1, SuccessStays DEF PlacedInv
  <2>3. QED
    BY <2>1, <2>2, QuietIsPlaced DEF Buffered, Underway
<1>4. CASE NoPolicy
  <2>1. CASE Ended("execution_failed")
    BY <2>1, EndedIsPlaced
  <2>2. CASE ~Skill /\ pc' = "stopped" /\ UNCHANGED <<mode, world, saved, plans, claims>>
    <3>1. ~Underway' /\ SkillMeansPlaced'
      BY <2>2 DEF Underway, SkillMeansPlaced
    <3>2. ShapeInv' /\ TableInv'
      BY <2>2, ShapeStays DEF PlacedInv
    <3>3. QED
      BY <3>1, <3>2, IdleIsPlaced
  <2>3. QED
    BY <1>4, <2>1, <2>2 DEF NoPolicy
<1>5. CASE Abort
  <2>1. PICK outcome \in {"timeout", "interrupted"} : Ended(outcome)
    BY <1>5 DEF Abort
  <2>2. outcome # "success"
    OBVIOUS
  <2>3. QED
    BY <2>1, <2>2, EndedIsPlaced
<1>6. CASE Planned
  BY <1>6, PlannedIsPlaced
<1>7. CASE Homed
  BY <1>7, HomedIsPlaced
<1>8. CASE Act
  BY <1>8, ActIsPlaced
<1>9. CASE FinishRound
  BY <1>9, FinishRoundIsPlaced
<1>10. QED
  BY <1>1, <1>2, <1>3, <1>4, <1>5, <1>6, <1>7, <1>8, <1>9 DEF Next

-----------------------------------------------------------------------------
(* Theorems about the pipeline.                                            *)

\* Whatever the response, the mode, the waypoints that inverse kinematics loses, the
\* samples, shortcuts and retries of the planner and the subsampling of its path, a
\* weld is switched on only where the item is and off only where the plan puts it.
THEOREM GraspsAreAlwaysNear == Spec => GraspNearTarget
<1> DEFINE Near1 ==
      pc = "act" => \A a \in Agents : world'.weld[a] # world.weld[a] =>
         LET target == IF world'.weld[a] # Nothing THEN Place(world, world'.weld[a])
                       ELSE plans[k][a].target.base
         IN  target # "over" => world'.hands[a].base = target
<1>1. ASSUME GraspInv, [Next]_vars PROVE [Near1]_vars
  <2>1. CASE Act
    BY <1>1, <2>1, ActGraspsNear
  <2>2. CASE pc # "act"
    BY <2>2
  <2>3. CASE ~Act /\ pc = "act"
    <3>1. Abort \/ UNCHANGED vars \/ (Planning /\ FALSE) \/ world' = world
      BY <1>1, <2>3 DEF Next, Respond, MakePolicy, NoPolicy, Planning, Planned, GoHome, Homed,
                        FinishRound, run_vars
    <3>2. world' = world
      BY <3>1 DEF Abort, Ended, vars, run_vars
    <3>3. QED
      BY <3>2
  <2>4. QED
    BY <2>1, <2>2, <2>3
<1>2. QED
  BY GraspInit, GraspStep, <1>1, PTL DEF Spec, GraspNearTarget

\* The planner answers the pipeline as it answers any query: no answer steps into the
\* scene the query was made in.
THEOREM PlannedPathsAreSafe == Spec => []PathIsSafe
<1>1. GraspInv => PathIsSafe
  BY MotionIsSafe DEF GraspInv
<1>2. QED
  BY GraspInit, GraspStep, <1>1, PTL DEF Spec

\* Whatever the response, the paths and the order in which the arms pass over the table,
\* no step of a round that began with the items apart puts two of them in a slot, nor one
\* in two hands, as long as every hand held what the plans took it to hold.
THEOREM SlotsStayExclusive == Spec => SlotsAreExclusive
<1> DEFINE Apart1 == pc = "act" /\ Exclusive(saved) /\ ~Phantom => Exclusive(world')
<1>1. ASSUME GraspInv, ApartInv, [Next]_vars PROVE [Apart1]_vars
  <2>1. CASE Act
    BY <1>1, <2>1, ActIsExclusive
  <2>2. CASE pc # "act"
    BY <2>2
  <2>3. CASE ~Act /\ pc = "act"
    <3>1. world' = world
      BY <1>1, <2>3 DEF Next, Respond, MakePolicy, NoPolicy, Planning, Planned, GoHome, Homed,
                        FinishRound, Abort, Ended, vars, run_vars
    <3>2. ExclusiveInv /\ Underway
      BY <1>1, <2>3 DEF ApartInv, Underway
    <3>3. QED
      BY <3>1, <3>2 DEF ExclusiveInv
  <2>4. QED
    BY <2>1, <2>2, <2>3
<1>2. Init => StrayInv
  BY StrayInit DEF Init
<1>3. QED
  BY GraspInit, GraspStep, ApartInit, ApartStep, StrayKeeps, <1>1, <1>2, PTL
     DEF Spec, SlotsAreExclusive

\* However the search, the clock and the end of the task cut its execution short: a skill
\* plan reported as SUCCEEDED has put what it named where it named, and left the rest, as
\* long as every hand holds what it is taken to hold.
THEOREM SuccessMeansPlaced == Spec => []SkillMeansPlaced
<1>1. Init => StrayInv
  BY StrayInit DEF Init
<1>2. ApartInv => StayInv
  BY DEF ApartInv
<1>3. PlacedInv => SkillMeansPlaced
  BY DEF PlacedInv
<1>4. QED
  BY GraspInit, GraspStep, ApartInit, ApartStep, StrayKeeps, PlacedInit, PlacedStep,
     <1>1, <1>2, <1>3, PTL DEF Spec
=============================================================================
