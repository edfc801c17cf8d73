-------------------------- MODULE ComputationsProofs --------------------------
(***************************************************************************)
(* What MCServices checks of the services that compute an answer from what *)
(* they are given: the diff of two versions, the chunks put before a model,*)
(* what a deletion takes.  A recursive function over a list is met through *)
(* the first place where a claim about it fails.                           *)
(***************************************************************************)
EXTENDS MCServices, FiniteSetTheorems, WellFoundedInduction, TLAPS

servicesVars ==
  <<part, postingVars, scoreVars, planVars, profileVars, sendVars, scorerVars, contextVars,
    careerVars, sVars, groundingVars, versionsVars, catalogueVars, callVars>>

(* A step of the services is a step of the part that moves, and leaves the  *)
(* rest alone.                                                              *)
LEMMA OnePartMoves ==
  ASSUME [ServicesNext]_servicesVars
  PROVE  /\ part' = part
         /\ part = "versions" => [V!Next]_versionsVars
         /\ part = "context" => [R!Next]_contextVars
         /\ part = "schema" => [Next]_sVars
         /\ part # "schema" => UNCHANGED sVars
BY DEF ServicesNext, servicesVars

-----------------------------------------------------------------------------
(* What a recursive function over a list computes, without induction: of the *)
(* places where a claim failed there would be a first.                      *)

LEMMA FirstOf ==
  ASSUME NEW bad, bad \subseteq Nat, bad # {}
  PROVE  \E x \in bad : \A y \in bad : x <= y
<1>1. PICK x \in bad : \A y \in bad : <<y, x>> \notin OpToRel(<, Nat)
  BY NatLessThanWellFounded, WFMin
<1>2. ASSUME NEW y \in bad PROVE x <= y
  <2>1. ~ (y < x)
    BY <1>1 DEF OpToRel
  <2> QED
    BY <2>1
<1> QED
  BY <1>2

(* A recursion down to 0 has a solution. *)
Recurs(f, n, Values, base, move) ==
  /\ f \in [0..n -> Values] /\ f[0] = base
  /\ \A i \in 1..n : f[i] = move[<<i, f[i - 1]>>]

LEMMA Recursion ==
  ASSUME NEW N \in Nat, NEW Values, NEW base \in Values,
         NEW move \in [(1..N) \X Values -> Values]
  PROVE  \E f : Recurs(f, N, Values, base, move)
<1> USE DEF Recurs
<1> DEFINE Solves(f, n) == Recurs(f, n, Values, base, move)
           bad == {n \in 0..N : ~ \E f : Solves(f, n)}
<1>1. SUFFICES ASSUME bad # {} PROVE FALSE
  BY DEF bad
<1>2. PICK n \in bad : \A m \in bad : n <= m
  <2> bad \subseteq Nat
    OBVIOUS
  <2> HIDE DEF bad
  <2> QED
    BY <1>1, FirstOf
<1>3. CASE n = 0
  <2>1. Solves([i \in 0..0 |-> base], 0)
    OBVIOUS
  <2> QED
    BY <1>2, <1>3, <2>1
<1>4. CASE n # 0
  <2>1. n \in 1..N /\ n - 1 \in 0..N
    BY <1>2, <1>4
  <2>2. n - 1 \notin bad
    <3> HIDE DEF bad
    <3> QED
      BY <1>2, <2>1
  <2>3. PICK f : Solves(f, n - 1)
    BY <2>1, <2>2
  <2> DEFINE g == [i \in 0..n |-> IF i = n THEN move[<<n, f[n - 1]>>] ELSE f[i]]
  <2>4. f[n - 1] \in Values
    BY <2>1, <2>3
  <2>5. move[<<n, f[n - 1]>>] \in Values
    BY <2>1, <2>4
  <2>6. g \in [0..n -> Values] /\ g[0] = base
    BY <2>1, <2>3, <2>5
  <2>7. ASSUME NEW i \in 1..n PROVE g[i] = move[<<i, g[i - 1]>>]
    <3>1. i - 1 \in 0..(n - 1) /\ g[i - 1] = f[i - 1]
      BY <2>1
    <3>2. CASE i = n
      <4>1. g[n] = move[<<n, f[n - 1]>>]
        BY <2>1
      <4> QED
        BY <3>1, <3>2, <4>1
    <3>3. CASE i # n
      <4>1. i \in 1..(n - 1) /\ g[i] = f[i]
        BY <2>1, <3>3
      <4>2. f[i] = move[<<i, f[i - 1]>>]
        BY <2>3, <4>1
      <4> QED
        BY <3>1, <4>1, <4>2
    <3> QED
      BY <3>2, <3>3
  <2>8. Solves(g, n)
    BY <2>6, <2>7
  <2> QED
    BY <1>2, <2>8
<1> QED
  BY <1>3, <1>4

-----------------------------------------------------------------------------
(* The versions of a resume and their diffs (ResumeVersions).               *)

LEMMA AppendedItems ==
  ASSUME NEW Words, NEW a \in Seq(Words), NEW x \in Words
  PROVE  V!Items(Append(a, x)) = V!Items(a) \cup {x}
<1> DEFINE b == Append(a, x)
<1>1. DOMAIN b = 1..(Len(a) + 1) /\ b[Len(a) + 1] = x /\ \A i \in 1..Len(a) : b[i] = a[i]
  OBVIOUS
<1>2. DOMAIN a = 1..Len(a) /\ Len(a) \in Nat
  OBVIOUS
<1> HIDE DEF b
<1>3. V!Items(b) = V!Items(a) \cup {x}
  <2>1. DOMAIN b = DOMAIN a \cup {Len(a) + 1}
    BY <1>1, <1>2
  <2> QED
    BY <1>1, <1>2, <2>1 DEF V!Items
<1> QED
  BY <1>3 DEF b

(* What is left of a list without the items of another is what its name says. *)
LEMMA WithoutItems ==
  ASSUME NEW Words, NEW a \in Seq(Words), NEW b
  PROVE  /\ V!Without(a, b) \in Seq(Words)
         /\ V!Items(V!Without(a, b)) = V!Items(a) \ V!Items(b)
<1> DEFINE n == Len(a)
           Obeys(f) == f = [i \in 0..n |-> IF i = 0 THEN <<>>
                                           ELSE IF a[i] \in V!Items(b) THEN f[i - 1]
                                                ELSE Append(f[i - 1], a[i])]
<1>1. n \in Nat /\ a \in [1..n -> Words] /\ Len(a) = n
  OBVIOUS
<1>2. \E f : Obeys(f)
  <2> DEFINE move == [p \in (1..n) \X Seq(Words) |->
                        IF a[p[1]] \in V!Items(b) THEN p[2] ELSE Append(p[2], a[p[1]])]
  <2>1. move \in [(1..n) \X Seq(Words) -> Seq(Words)]
    BY <1>1
  <2>2. <<>> \in Seq(Words)
    OBVIOUS
  <2>3. PICK f : Recurs(f, n, Seq(Words), <<>>, move)
    <3> HIDE DEF move, n
    <3> QED
      BY <1>1, <2>1, <2>2, Recursion, Zenon
  <2>4. ASSUME NEW i \in 1..n
        PROVE  f[i] = IF a[i] \in V!Items(b) THEN f[i - 1] ELSE Append(f[i - 1], a[i])
    <3>1. f[i - 1] \in Seq(Words)
      BY <1>1, <2>3 DEF Recurs
    <3>2. <<i, f[i - 1]>> \in (1..n) \X Seq(Words)
      BY <3>1
    <3>3. f[i] = move[<<i, f[i - 1]>>]
      BY <2>3 DEF Recurs
    <3> QED
      BY <3>2, <3>3
  <2>5. ASSUME NEW i \in 0..n
        PROVE  f[i] = IF i = 0 THEN <<>>
                      ELSE IF a[i] \in V!Items(b) THEN f[i - 1] ELSE Append(f[i - 1], a[i])
    <3>1. i # 0 => i \in 1..n
      BY <1>1
    <3>2. f[0] = <<>>
      BY <2>3 DEF Recurs
    <3> QED
      BY <2>4, <3>1, <3>2
  <2>6. f = [i \in 0..n |-> f[i]]
    BY <2>3 DEF Recurs
  <2>7. Obeys(f)
    BY <2>5, <2>6
  <2> QED
    BY <2>7
<1> DEFINE left == CHOOSE f : Obeys(f)
<1>3. Obeys(left)
  <2> HIDE DEF Obeys
  <2> QED
    BY <1>2
<1>4. V!Without(a, b) = left[n]
  BY DEF V!Without
<1>5. /\ left[0] = <<>>
      /\ \A i \in 1..n : left[i] = IF a[i] \in V!Items(b) THEN left[i - 1]
                                   ELSE Append(left[i - 1], a[i])
  <2> HIDE DEF left
  <2>1. ASSUME NEW i \in 0..n
        PROVE  left[i] = IF i = 0 THEN <<>>
                         ELSE IF a[i] \in V!Items(b) THEN left[i - 1]
                              ELSE Append(left[i - 1], a[i])
    BY <1>3, Zenon
  <2>2. 0 \in 0..n /\ \A i \in 1..n : i \in 0..n /\ i # 0
    BY <1>1
  <2>3. left[0] = <<>>
    BY <2>1, <2>2
  <2>4. ASSUME NEW i \in 1..n
        PROVE  left[i] = IF a[i] \in V!Items(b) THEN left[i - 1] ELSE Append(left[i - 1], a[i])
    BY <2>1, <2>2
  <2> QED
    BY <2>3, <2>4
<1> HIDE DEF left, n
<1> DEFINE Kept(i) == /\ left[i] \in Seq(Words)
                      /\ V!Items(left[i]) = {a[j] : j \in 1..i} \ V!Items(b)
           bad == {i \in 0..n : ~ Kept(i)}
<1>6. bad = {}
  <2> SUFFICES ASSUME bad # {} PROVE FALSE
    OBVIOUS
  <2>1. PICK i \in bad : \A j \in bad : i <= j
    <3> bad \subseteq Nat
      BY <1>1
    <3> HIDE DEF bad
    <3> QED
      BY FirstOf
  <2>2. CASE i = 0
    <3>1. Kept(0)
      BY <1>5 DEF V!Items
    <3> QED
      BY <2>1, <2>2, <3>1
  <2>3. CASE i # 0
    <3>0. i \in 1..n /\ i - 1 \in 0..n
      BY <1>1, <2>1, <2>3
    <3>1. i \in 1..n /\ i - 1 \in 0..n /\ i - 1 \notin bad
      <4> HIDE DEF bad
      <4> QED
        BY <3>0, <2>1
    <3>2. Kept(i - 1)
      BY <3>1
    <3>3. a[i] \in Words /\ {a[j] : j \in 1..i} = {a[j] : j \in 1..(i - 1)} \cup {a[i]}
      BY <1>1, <3>1
    <3>4. CASE a[i] \in V!Items(b)
      <4>1. left[i] = left[i - 1]
        BY <1>5, <3>1, <3>4
      <4>2. Kept(i)
        BY <4>1, <3>2, <3>3, <3>4
      <4> QED
        BY <2>1, <4>2
    <3>5. CASE a[i] \notin V!Items(b)
      <4>1. left[i] = Append(left[i - 1], a[i])
        BY <1>5, <3>1, <3>5
      <4>2. left[i] \in Seq(Words)
        BY <4>1, <3>2, <3>3
      <4>3. V!Items(left[i]) = V!Items(left[i - 1]) \cup {a[i]}
        BY <4>1, <3>2, <3>3, AppendedItems
      <4>4. Kept(i)
        BY <4>2, <4>3, <3>2, <3>3, <3>5
      <4> QED
        BY <2>1, <4>4
    <3> QED
      BY <3>4, <3>5
  <2> QED
    BY <2>2, <2>3
<1>7. Kept(n)
  <2>1. n \in 0..n /\ n \notin bad
    <3> HIDE DEF bad
    <3> QED
      BY <1>1, <1>6
  <2> QED
    BY <2>1
<1>8. V!Items(a) = {a[j] : j \in 1..n}
  BY <1>1 DEF V!Items
<1> QED
  BY <1>4, <1>7, <1>8

LEMMA DeltaParts ==
  ASSUME NEW p, NEW op, NEW before, NEW after, NEW d, d = V!Delta(p, op, before, after)
  PROVE  V!Path(d) = p /\ V!Op(d) = op /\ V!Before(d) = before /\ V!After(d) = after
BY DEF V!Delta, V!Path, V!Op, V!Before, V!After

(* The deltas of a list, told apart from others by their path, say what the  *)
(* list became.                                                             *)
LEMMA ListIsTold ==
  ASSUME NEW Words, None \notin Seq(Words), NEW a \in Seq(Words), NEW b \in Seq(Words),
         NEW p, NEW deltas, {d \in deltas : V!Path(d) = p} = V!DiffList(p, a, b)
  PROVE  V!ListTold(deltas, p, a) = V!Items(b)
<1> DEFINE more  == V!Without(b, a)
           less  == V!Without(a, b)
           Of(op) == V!At(deltas, p, op)
<1>1. ASSUME NEW op PROVE Of(op) = {d \in V!DiffList(p, a, b) : V!Op(d) = op}
  BY DEF V!At
<1>2. V!Items(more) = V!Items(b) \ V!Items(a) /\ V!Items(less) = V!Items(a) \ V!Items(b)
  BY WithoutItems
<1>3. V!ListTold(deltas, p, a) =
        IF Of("reordered") # {} THEN UNION {V!Items(V!After(d)) : d \in Of("reordered")}
        ELSE (V!Items(a) \ UNION {V!Items(V!Before(d)) : d \in Of("removed")})
                \cup UNION {V!Items(V!After(d)) : d \in Of("added")}
  BY DEF V!ListTold
<1>4. CASE a = b
  <2>1. V!DiffList(p, a, b) = {}
    BY <1>4 DEF V!DiffList
  <2>2. \A op : Of(op) = {}
    BY <1>1, <2>1
  <2> HIDE DEF Of
  <2> QED
    BY <1>3, <1>4, <2>2
<1>5. CASE a # b /\ V!SameBag(a, b)
  <2> DEFINE d == V!Delta(p, "reordered", a, b)
  <2>1. V!DiffList(p, a, b) = {d}
    BY <1>5 DEF V!DiffList
  <2>2. V!Op(d) = "reordered" /\ V!After(d) = b
    BY DeltaParts
  <2> HIDE DEF d
  <2>3. Of("reordered") = {d}
    BY <1>1, <2>1, <2>2
  <2> HIDE DEF Of
  <2> QED
    BY <1>3, <2>2, <2>3
<1>6. CASE a # b /\ ~ V!SameBag(a, b)
  <2> DEFINE plus  == V!Delta(p, "added", None, more)
             minus == V!Delta(p, "removed", less, None)
  <2>1. V!DiffList(p, a, b) =
          {d \in {plus, minus} : V!Before(d) # <<>> /\ V!After(d) # <<>>}
    BY <1>6 DEF V!DiffList
  <2>2. /\ V!Op(plus) = "added" /\ V!Before(plus) = None /\ V!After(plus) = more
        /\ V!Op(minus) = "removed" /\ V!Before(minus) = less /\ V!After(minus) = None
    BY DeltaParts
  <2>3. None # <<>>
    <3>1. <<>> \in Seq(Words)
      OBVIOUS
    <3> QED
      BY <3>1
  <2>4. V!Items(<<>>) = {}
    BY DEF V!Items
  <2> HIDE DEF plus, minus, more, less
  <2>5. Of("reordered") = {}
    BY <1>1, <2>1, <2>2
  <2>6. Of("added") = IF more = <<>> THEN {} ELSE {plus}
    BY <1>1, <2>1, <2>2, <2>3
  <2>7. Of("removed") = IF less = <<>> THEN {} ELSE {minus}
    BY <1>1, <2>1, <2>2, <2>3
  <2> HIDE DEF Of
  <2>8. UNION {V!Items(V!After(d)) : d \in Of("added")} = V!Items(more)
    BY <2>2, <2>4, <2>6
  <2>9. UNION {V!Items(V!Before(d)) : d \in Of("removed")} = V!Items(less)
    BY <2>2, <2>4, <2>7
  <2> QED
    BY <1>2, <1>3, <2>5, <2>8, <2>9
<1> QED
  BY <1>4, <1>5, <1>6

LEMMA ListDeltas ==
  ASSUME NEW Words, None \notin Seq(Words), NEW a \in Seq(Words), NEW b \in Seq(Words),
         NEW p, NEW d \in V!DiffList(p, a, b)
  PROVE  V!Path(d) = p /\ V!Before(d) # V!After(d) /\ V!Op(d) \in {"reordered", "added", "removed"}
<1> DEFINE more == V!Without(b, a)
           less == V!Without(a, b)
<1>1. more \in Seq(Words) /\ less \in Seq(Words)
  BY WithoutItems
<1>2. a # b
  BY DEF V!DiffList
<1>3. CASE V!SameBag(a, b)
  <2>1. d = V!Delta(p, "reordered", a, b)
    BY <1>2, <1>3 DEF V!DiffList
  <2> QED
    BY <1>2, <2>1, DeltaParts
<1>4. CASE ~ V!SameBag(a, b)
  <2>1. d = V!Delta(p, "added", None, more) \/ d = V!Delta(p, "removed", less, None)
    BY <1>2, <1>4 DEF V!DiffList
  <2> HIDE DEF more, less
  <2>2. None # more /\ None # less
    BY <1>1
  <2>3. CASE d = V!Delta(p, "added", None, more)
    BY <2>2, <2>3, DeltaParts
  <2>4. CASE d = V!Delta(p, "removed", less, None)
    BY <2>2, <2>4, DeltaParts
  <2> QED
    BY <2>1, <2>3, <2>4
<1> QED
  BY <1>3, <1>4

LEMMA ScalarIsTold ==
  ASSUME NEW a, NEW b, NEW p, NEW deltas,
         {d \in deltas : V!Path(d) = p} = V!DiffScalar(p, a, b)
  PROVE  V!ScalarTold(deltas, p, a) = b
<1> DEFINE d == V!Delta(p, "changed", a, b)
           changed == V!At(deltas, p, "changed")
<1>1. V!Op(d) = "changed" /\ V!After(d) = b
  BY DeltaParts
<1>2. V!DiffScalar(p, a, b) = IF a = b THEN {} ELSE {d}
  BY DEF V!DiffScalar
<1>3. changed = {x \in V!DiffScalar(p, a, b) : V!Op(x) = "changed"}
  BY DEF V!At
<1>4. V!ScalarTold(deltas, p, a) =
        IF changed = {} THEN a ELSE V!After(CHOOSE x \in changed : TRUE)
  BY DEF V!ScalarTold
<1> HIDE DEF d, changed
<1>5. CASE a = b
  BY <1>2, <1>3, <1>4, <1>5
<1>6. CASE a # b
  <2>1. changed = {d}
    BY <1>1, <1>2, <1>3, <1>6
  <2>2. (CHOOSE x \in changed : TRUE) = d
    BY <2>1
  <2> QED
    BY <1>1, <1>4, <2>1, <2>2
<1> QED
  BY <1>5, <1>6

LEMMA ScalarDeltas ==
  ASSUME NEW a, NEW b, NEW p, NEW d \in V!DiffScalar(p, a, b)
  PROVE  V!Path(d) = p /\ V!Before(d) # V!After(d) /\ V!Op(d) = "changed"
<1>1. a # b /\ d = V!Delta(p, "changed", a, b)
  BY DEF V!DiffScalar
<1> QED
  BY <1>1, DeltaParts

LEMMA PathsDiffer ==
  ASSUME NEW i, NEW j, NEW n, NEW m
  PROVE  /\ V!Entry(i)[1] = "entries" /\ V!Field(i, n)[1] = "entries"
         /\ Len(V!Entry(i)) = 2 /\ Len(V!Field(i, n)) = 3 /\ V!Entry(i) # V!Field(j, n)
         /\ V!Entry(i) = V!Entry(j) => i = j
         /\ V!Field(i, n) = V!Field(j, m) => i = j /\ n = m
         /\ <<"summary">>[1] = "summary" /\ <<"skills">>[1] = "skills"
<1>1. Len(V!Entry(i)) = 2 /\ Len(V!Field(j, n)) = 3 /\ Len(V!Field(i, n)) = 3
  BY DEF V!Entry, V!Field
<1>2. V!Entry(i) # V!Field(j, n)
  BY <1>1
<1>3. /\ V!Entry(i)[1] = "entries" /\ V!Entry(i)[2] = i /\ V!Entry(j)[2] = j
      /\ V!Field(i, n)[1] = "entries" /\ V!Field(i, n)[2] = i /\ V!Field(i, n)[3] = n
      /\ V!Field(j, m)[2] = j /\ V!Field(j, m)[3] = m
  BY DEF V!Entry, V!Field
<1>4. (V!Entry(i) = V!Entry(j) => i = j) /\ (V!Field(i, n) = V!Field(j, m) => i = j /\ n = m)
  BY <1>3
<1> QED
  BY <1>1, <1>2, <1>3, <1>4

LEMMA FieldsDiffer ==
  ASSUME NEW i, NEW j, NEW n, NEW m, V!Field(i, n) = V!Field(j, m)
  PROVE  i = j /\ n = m
BY PathsDiffer

LEMMA FieldIsLong ==
  ASSUME NEW p, NEW i, NEW n, p = V!Field(i, n)
  PROVE  ~ (Len(p) = 2)
<1>1. Len(V!Field(i, n)) = 3
  BY PathsDiffer
<1> QED
  BY <1>1

LEMMA EntriesDiffer ==
  ASSUME NEW i, NEW j
  PROVE  (V!Entry(i) = V!Entry(j) => i = j) /\ \A n : V!Entry(i) # V!Field(j, n)
BY PathsDiffer

(* An entry matches the last one with its key, if any. *)
LEMMA OneMatch ==
  ASSUME NEW e, NEW list, DOMAIN list \subseteq Nat
  PROVE  /\ \A j : j \in V!Match(e, list) <=> j \in V!ByKey(list) /\ list[j].key = e.key
         /\ \A i, j \in V!Match(e, list) : i = j
<1>1. \A j : j \in V!Match(e, list) <=> j \in V!ByKey(list) /\ list[j].key = e.key
  BY DEF V!Match
<1>2. ASSUME NEW i \in V!Match(e, list), NEW j \in V!Match(e, list) PROVE i = j
  <2>1. i \in V!ByKey(list) /\ j \in V!ByKey(list) /\ list[i].key = list[j].key
    BY <1>1
  <2>2. i \in Nat /\ j \in Nat /\ ~ (j > i) /\ ~ (i > j)
    BY <2>1 DEF V!ByKey
  <2> QED
    BY <2>2
<1> QED
  BY <1>1, <1>2

(* The four kinds of deltas of a section. *)
IsAddition(d, base, other, i) ==
  /\ i \in V!ByKey(other) /\ V!Match(other[i], base) = {}
  /\ d = V!Delta(V!Entry(i), "added", None, other[i])
IsRemoval(d, base, other, j) ==
  /\ j \in V!ByKey(base) /\ V!Match(base[j], other) = {}
  /\ d = V!Delta(V!Entry(j), "removed", base[j], None)
IsRewording(d, base, other, i, j) ==
  /\ i \in V!ByKey(other) /\ j \in V!Match(other[i], base)
  /\ d \in V!DiffScalar(V!Field(i, "text"), base[j].text, other[i].text)
IsRelisting(d, base, other, i, j) ==
  /\ i \in V!ByKey(other) /\ j \in V!Match(other[i], base)
  /\ d \in V!DiffList(V!Field(i, "points"), base[j].points, other[i].points)

LEMMA SectionDeltas ==
  ASSUME NEW base, NEW other, NEW d
  PROVE  d \in V!DiffSection(base, other) <=>
           \/ \E i : IsAddition(d, base, other, i)
           \/ \E i, j : IsRewording(d, base, other, i, j)
           \/ \E i, j : IsRelisting(d, base, other, i, j)
           \/ \E j : IsRemoval(d, base, other, j)
<1> DEFINE Added(i) == V!Delta(V!Entry(i), "added", None, other[i])
           Removed(j) == V!Delta(V!Entry(j), "removed", base[j], None)
           Changed(i) == UNION {V!DiffEntry(i, base[j], other[i]) : j \in V!Match(other[i], base)}
           Of(i) == IF V!Match(other[i], base) = {} THEN {Added(i)} ELSE Changed(i)
           gone == {k \in V!ByKey(base) : V!Match(base[k], other) = {}}
<1>1. d \in V!DiffSection(base, other) <=>
        \/ \E i \in V!ByKey(other) : d \in Of(i)
        \/ \E j \in gone : d = Removed(j)
  <2>1. V!DiffSection(base, other) =
          (UNION {Of(i) : i \in V!ByKey(other)}) \cup {Removed(j) : j \in gone}
    BY DEF V!DiffSection
  <2> HIDE DEF Of, Removed, gone
  <2> QED
    BY <2>1
<1>2. ASSUME NEW i \in V!ByKey(other)
      PROVE  d \in Of(i) <=> \/ IsAddition(d, base, other, i)
                             \/ \E j : IsRewording(d, base, other, i, j)
                             \/ \E j : IsRelisting(d, base, other, i, j)
  <2>1. CASE V!Match(other[i], base) = {}
    BY <2>1 DEF IsAddition, IsRewording, IsRelisting
  <2>2. CASE V!Match(other[i], base) # {}
    <3>1. d \in Of(i) <=>
            \E j \in V!Match(other[i], base) : d \in V!DiffEntry(i, base[j], other[i])
      BY <2>2
    <3> QED
      BY <2>2, <3>1 DEF IsAddition, IsRewording, IsRelisting, V!DiffEntry
  <2> QED
    BY <2>1, <2>2
<1>3. ASSUME NEW j PROVE j \in gone /\ d = Removed(j) <=> IsRemoval(d, base, other, j)
  BY DEF IsRemoval
<1>4. \A i : \/ IsAddition(d, base, other, i)
             \/ \E j : IsRewording(d, base, other, i, j)
             \/ \E j : IsRelisting(d, base, other, i, j)
             => i \in V!ByKey(other)
  BY DEF IsAddition, IsRewording, IsRelisting
<1> HIDE DEF Of, gone, Removed
<1> QED
  BY <1>1, <1>2, <1>3, <1>4

(* The list of an entry is a list. *)
IsSection(list, Words) ==
  /\ DOMAIN list \subseteq Nat /\ None \notin {list[i] : i \in DOMAIN list}
  /\ \A i \in DOMAIN list : list[i].points \in Seq(Words)

TellsSection(deltas, base, other) ==
  {d \in deltas : V!Path(d)[1] = "entries"} = V!DiffSection(base, other)

TellsEntry(deltas, base, other, i, j) ==
  /\ V!ScalarTold(deltas, V!Field(i, "text"), base[j].text) = other[i].text
  /\ V!ListTold(deltas, V!Field(i, "points"), base[j].points) = V!Items(other[i].points)

LEMMA EntryIsTold ==
  ASSUME NEW Words, None \notin Seq(Words), NEW base, NEW other,
         IsSection(base, Words), IsSection(other, Words),
         NEW deltas, TellsSection(deltas, base, other),
         NEW i \in V!ByKey(other), NEW j \in V!Match(other[i], base)
  PROVE  TellsEntry(deltas, base, other, i, j)
<1> DEFINE text   == V!DiffScalar(V!Field(i, "text"), base[j].text, other[i].text)
           points == V!DiffList(V!Field(i, "points"), base[j].points, other[i].points)
<1>1. /\ DOMAIN base \subseteq Nat /\ j \in DOMAIN base /\ i \in DOMAIN other
      /\ base[j].points \in Seq(Words) /\ other[i].points \in Seq(Words)
  BY DEF IsSection, V!Match, V!ByKey
<1>2. \A d \in deltas : V!Path(d)[1] = "entries" => d \in V!DiffSection(base, other)
  BY DEF TellsSection
<1>3. \A d \in V!DiffSection(base, other) : d \in deltas
  BY DEF TellsSection
<1>4. ASSUME NEW d \in deltas, NEW n, V!Path(d) = V!Field(i, n)
      PROVE  \/ n = "text" /\ d \in text
             \/ n = "points" /\ d \in points
  <2>1. d \in V!DiffSection(base, other)
    BY <1>2, <1>4, PathsDiffer
  <2>2. ASSUME NEW k PROVE ~ IsAddition(d, base, other, k) /\ ~ IsRemoval(d, base, other, k)
    BY <1>4, DeltaParts, PathsDiffer DEF IsAddition, IsRemoval
  <2>3. ASSUME NEW k, NEW l, IsRewording(d, base, other, k, l) PROVE n = "text" /\ d \in text
    <3>1. V!Path(d) = V!Field(k, "text")
      BY <2>3, ScalarDeltas DEF IsRewording
    <3>2. V!Field(k, "text") = V!Field(i, n)
      BY <1>4, <3>1
    <3>3. k = i /\ n = "text"
      BY <3>2, FieldsDiffer, Zenon
    <3>4. l = j
      BY <1>1, <2>3, <3>3, OneMatch DEF IsRewording
    <3> QED
      BY <2>3, <3>3, <3>4 DEF IsRewording
  <2>4. ASSUME NEW k, NEW l, IsRelisting(d, base, other, k, l) PROVE n = "points" /\ d \in points
    <3>0. /\ base[l].points \in Seq(Words) /\ other[k].points \in Seq(Words)
          /\ d \in V!DiffList(V!Field(k, "points"), base[l].points, other[k].points)
      BY <2>4 DEF IsRelisting, IsSection, V!Match, V!ByKey
    <3>1. V!Path(d) = V!Field(k, "points")
      BY <3>0, ListDeltas
    <3>2. V!Field(k, "points") = V!Field(i, n)
      BY <1>4, <3>1
    <3>3. k = i /\ n = "points"
      BY <3>2, FieldsDiffer, Zenon
    <3>4. l = j
      BY <1>1, <2>4, <3>3, OneMatch DEF IsRelisting
    <3> QED
      BY <3>0, <3>3, <3>4
  <2> QED
    BY <2>1, <2>2, <2>3, <2>4, SectionDeltas
<1>5. {d \in deltas : V!Path(d) = V!Field(i, "text")} = text
  <2>1. ASSUME NEW d \in text PROVE d \in deltas /\ V!Path(d) = V!Field(i, "text")
    <3>1. IsRewording(d, base, other, i, j)
      BY DEF IsRewording
    <3>2. d \in V!DiffSection(base, other)
      BY <3>1, SectionDeltas
    <3> QED
      BY <1>3, <3>2, ScalarDeltas
  <2>2. ASSUME NEW d \in deltas, V!Path(d) = V!Field(i, "text") PROVE d \in text
    BY <1>4, <2>2
  <2> HIDE DEF text
  <2> QED
    BY <2>1, <2>2
<1>6. {d \in deltas : V!Path(d) = V!Field(i, "points")} = points
  <2>1. ASSUME NEW d \in points PROVE d \in deltas /\ V!Path(d) = V!Field(i, "points")
    <3>1. IsRelisting(d, base, other, i, j)
      BY DEF IsRelisting
    <3>2. d \in V!DiffSection(base, other)
      BY <3>1, SectionDeltas
    <3> QED
      BY <1>1, <1>3, <3>2, ListDeltas
  <2>2. ASSUME NEW d \in deltas, V!Path(d) = V!Field(i, "points") PROVE d \in points
    BY <1>4, <2>2
  <2> HIDE DEF points
  <2> QED
    BY <2>1, <2>2
<1> QED
  BY <1>1, <1>5, <1>6, ScalarIsTold, ListIsTold DEF TellsEntry

TellsEntries(deltas, base, other) ==
  V!EntriesTold(deltas, base, other) = {V!Gist(other[i]) : i \in V!ByKey(other)}

LEMMA SectionIsTold ==
  ASSUME NEW Words, None \notin Seq(Words), NEW base, NEW other,
         IsSection(base, Words), IsSection(other, Words),
         NEW deltas, TellsSection(deltas, base, other),
         \A d \in deltas : Len(V!Path(d)) = 2 => V!Path(d)[1] = "entries"
  PROVE  TellsEntries(deltas, base, other)
<1> DEFINE fresh  == {x \in deltas : Len(V!Path(x)) = 2 /\ V!Op(x) = "added"}
           kept   == {k \in V!ByKey(base) : V!At(deltas, V!Entry(k), "removed") = {}}
           To(j)  == CHOOSE k \in V!Match(base[j], other) : TRUE
           Now(j) == [key |-> base[j].key,
                      text |-> V!ScalarTold(deltas, V!Field(To(j), "text"), base[j].text),
                      points |-> V!ListTold(deltas, V!Field(To(j), "points"), base[j].points)]
<1>1. V!EntriesTold(deltas, base, other)
        = {V!Gist(V!After(d)) : d \in fresh} \cup UNION {{Now(j)} : j \in kept}
  BY DEF V!EntriesTold
<1>2. /\ DOMAIN base \subseteq Nat /\ DOMAIN other \subseteq Nat
      /\ V!ByKey(base) \subseteq DOMAIN base /\ V!ByKey(other) \subseteq DOMAIN other
  BY DEF IsSection, V!ByKey
<1>3. /\ \A d \in deltas : V!Path(d)[1] = "entries" => d \in V!DiffSection(base, other)
      /\ \A d \in V!DiffSection(base, other) : d \in deltas
  BY DEF TellsSection
<1>4. ASSUME NEW d
      PROVE  d \in fresh <=> \E i : IsAddition(d, base, other, i)
  <2>1. ASSUME NEW i, IsAddition(d, base, other, i) PROVE d \in fresh
    <3>1. d \in V!DiffSection(base, other)
      BY <2>1, SectionDeltas
    <3>2. V!Path(d) = V!Entry(i) /\ V!Op(d) = "added"
      BY <2>1, DeltaParts DEF IsAddition
    <3> QED
      BY <1>3, <3>1, <3>2, PathsDiffer
  <2>2. ASSUME d \in fresh PROVE \E i : IsAddition(d, base, other, i)
    <3>1. d \in V!DiffSection(base, other)
      BY <1>3, <2>2
    <3>2. Len(V!Path(d)) = 2 /\ V!Op(d) = "added"
      BY <2>2
    <3> HIDE DEF fresh
    <3>3. ASSUME NEW i, NEW j PROVE ~ IsRewording(d, base, other, i, j)
      BY <3>2, ScalarDeltas DEF IsRewording
    <3>4. ASSUME NEW i, NEW j, IsRelisting(d, base, other, i, j) PROVE FALSE
      <4>1. /\ base[j].points \in Seq(Words) /\ other[i].points \in Seq(Words)
            /\ d \in V!DiffList(V!Field(i, "points"), base[j].points, other[i].points)
        BY <3>4 DEF IsRelisting, IsSection, V!Match, V!ByKey
      <4>2. V!Path(d) = V!Field(i, "points")
        BY <4>1, ListDeltas
      <4>3. ~ (Len(V!Path(d)) = 2)
        BY <4>2, FieldIsLong, Zenon
      <4> QED
        BY <3>2, <4>3, Zenon
    <3>5. ASSUME NEW j PROVE ~ IsRemoval(d, base, other, j)
      BY <3>2, DeltaParts DEF IsRemoval
    <3> QED
      BY <3>1, <3>3, <3>4, <3>5, SectionDeltas
  <2> QED
    BY <2>1, <2>2
<1>5. ASSUME NEW j \in V!ByKey(base) PROVE j \in kept <=> V!Match(base[j], other) # {}
  <2> DEFINE gone == V!At(deltas, V!Entry(j), "removed")
             r    == V!Delta(V!Entry(j), "removed", base[j], None)
  <2>1. ASSUME V!Match(base[j], other) = {} PROVE gone # {}
    <3>1. IsRemoval(r, base, other, j)
      BY <2>1 DEF IsRemoval
    <3>2. r \in V!DiffSection(base, other)
      BY <3>1, SectionDeltas
    <3>3. V!Path(r) = V!Entry(j) /\ V!Op(r) = "removed"
      BY DeltaParts
    <3> HIDE DEF r
    <3> QED
      BY <1>3, <3>2, <3>3 DEF V!At
  <2>2. ASSUME NEW d \in gone PROVE V!Match(base[j], other) = {}
    <3>1. d \in deltas /\ V!Path(d) = V!Entry(j) /\ V!Op(d) = "removed"
      BY <2>2 DEF V!At
    <3>2. d \in V!DiffSection(base, other)
      BY <1>3, <3>1, PathsDiffer
    <3> HIDE DEF gone
    <3>3. ASSUME NEW i, NEW k PROVE ~ IsRewording(d, base, other, i, k)
      BY <3>1, ScalarDeltas DEF IsRewording
    <3>4. ASSUME NEW i, NEW k, IsRelisting(d, base, other, i, k) PROVE FALSE
      <4>1. /\ base[k].points \in Seq(Words) /\ other[i].points \in Seq(Words)
            /\ d \in V!DiffList(V!Field(i, "points"), base[k].points, other[i].points)
        BY <3>4 DEF IsRelisting, IsSection, V!Match, V!ByKey
      <4>2. V!Path(d) = V!Field(i, "points")
        BY <4>1, ListDeltas
      <4> QED
        BY <3>1, <4>2, EntriesDiffer
    <3>5. ASSUME NEW i PROVE ~ IsAddition(d, base, other, i)
      BY <3>1, DeltaParts DEF IsAddition
    <3>6. PICK k : IsRemoval(d, base, other, k)
      BY <3>2, <3>3, <3>4, <3>5, SectionDeltas
    <3>7. V!Path(d) = V!Entry(k)
      BY <3>6, DeltaParts DEF IsRemoval
    <3>8. k = j
      BY <3>1, <3>7, EntriesDiffer
    <3> QED
      BY <3>6, <3>8 DEF IsRemoval
  <2>3. j \in kept <=> gone = {}
    OBVIOUS
  <2> HIDE DEF gone
  <2> QED
    BY <2>1, <2>2, <2>3
<1>6. ASSUME NEW i \in V!ByKey(other), NEW j \in V!Match(other[i], base)
      PROVE  j \in kept /\ Now(j) = V!Gist(other[i])
  <2>1. j \in V!ByKey(base) /\ base[j].key = other[i].key
    BY <1>2, OneMatch
  <2>2. i \in V!Match(base[j], other)
    BY <1>2, <2>1, OneMatch
  <2>3. To(j) = i
    <3>1. \A k \in V!Match(base[j], other) : k = i
      BY <1>2, <2>2, OneMatch
    <3> QED
      BY <2>2, <3>1
  <2>4. j \in kept
    <3> HIDE DEF kept
    <3> QED
      BY <1>5, <2>1, <2>2
  <2> HIDE DEF To
  <2>5. TellsEntry(deltas, base, other, i, j)
    BY EntryIsTold, Zenon
  <2> QED
    BY <2>1, <2>3, <2>4, <2>5 DEF V!Gist, TellsEntry
<1>7. ASSUME NEW j \in kept
      PROVE  \E i \in V!ByKey(other) : j \in V!Match(other[i], base)
  <2>1. j \in V!ByKey(base)
    OBVIOUS
  <2> HIDE DEF kept
  <2>2. PICK i : i \in V!Match(base[j], other)
    BY <1>5, <2>1
  <2> QED
    BY <1>2, <2>1, <2>2, OneMatch
<1>8. ASSUME NEW i \in V!ByKey(other), V!Match(other[i], base) = {}
      PROVE  \E d \in fresh : V!After(d) = other[i]
  <2> DEFINE d == V!Delta(V!Entry(i), "added", None, other[i])
  <2>1. IsAddition(d, base, other, i)
    BY <1>8 DEF IsAddition
  <2>2. V!After(d) = other[i]
    BY DeltaParts
  <2> HIDE DEF d, fresh
  <2> QED
    BY <1>4, <2>1, <2>2
<1>9. ASSUME NEW d \in fresh PROVE \E i \in V!ByKey(other) : V!After(d) = other[i]
  <2> HIDE DEF fresh
  <2>1. PICK i : IsAddition(d, base, other, i)
    BY <1>4
  <2> QED
    BY <2>1, DeltaParts DEF IsAddition
<1> HIDE DEF fresh, kept, Now
<1>10. ASSUME NEW g \in V!EntriesTold(deltas, base, other)
       PROVE  \E i \in V!ByKey(other) : g = V!Gist(other[i])
  <2>1. CASE \E d \in fresh : g = V!Gist(V!After(d))
    BY <1>9, <2>1
  <2>2. CASE \E j \in kept : g = Now(j)
    BY <1>6, <1>7, <2>2
  <2> QED
    BY <1>1, <2>1, <2>2
<1>11. ASSUME NEW i \in V!ByKey(other)
       PROVE  V!Gist(other[i]) \in V!EntriesTold(deltas, base, other)
  <2>1. CASE V!Match(other[i], base) = {}
    BY <1>1, <1>8, <2>1
  <2>2. CASE V!Match(other[i], base) # {}
    BY <1>1, <1>6, <2>2
  <2> QED
    BY <2>1, <2>2
<1> QED
  BY <1>10, <1>11 DEF TellsEntries

LEMMA SectionPaths ==
  ASSUME NEW Words, None \notin Seq(Words), NEW base, NEW other,
         IsSection(base, Words), IsSection(other, Words), NEW d \in V!DiffSection(base, other)
  PROVE  V!Path(d)[1] = "entries" /\ V!Before(d) # V!After(d)
<1>1. ASSUME NEW i, IsAddition(d, base, other, i)
      PROVE  V!Path(d)[1] = "entries" /\ V!Before(d) # V!After(d)
  <2>1. V!Path(d) = V!Entry(i) /\ V!Before(d) = None /\ V!After(d) = other[i]
    BY <1>1, DeltaParts DEF IsAddition
  <2>2. other[i] # None
    BY <1>1 DEF IsAddition, IsSection, V!ByKey
  <2> QED
    BY <2>1, <2>2, PathsDiffer
<1>2. ASSUME NEW j, IsRemoval(d, base, other, j)
      PROVE  V!Path(d)[1] = "entries" /\ V!Before(d) # V!After(d)
  <2>1. V!Path(d) = V!Entry(j) /\ V!Before(d) = base[j] /\ V!After(d) = None
    BY <1>2, DeltaParts DEF IsRemoval
  <2>2. base[j] # None
    BY <1>2 DEF IsRemoval, IsSection, V!ByKey
  <2> QED
    BY <2>1, <2>2, PathsDiffer
<1>3. ASSUME NEW i, NEW j, IsRewording(d, base, other, i, j)
      PROVE  V!Path(d)[1] = "entries" /\ V!Before(d) # V!After(d)
  BY <1>3, ScalarDeltas, PathsDiffer DEF IsRewording
<1>4. ASSUME NEW i, NEW j, IsRelisting(d, base, other, i, j)
      PROVE  V!Path(d)[1] = "entries" /\ V!Before(d) # V!After(d)
  <2>1. /\ base[j].points \in Seq(Words) /\ other[i].points \in Seq(Words)
        /\ d \in V!DiffList(V!Field(i, "points"), base[j].points, other[i].points)
    BY <1>4 DEF IsRelisting, IsSection, V!Match, V!ByKey
  <2>2. V!Path(d) = V!Field(i, "points") /\ V!Before(d) # V!After(d)
    BY <2>1, ListDeltas
  <2> QED
    BY <2>2, PathsDiffer
<1> QED
  BY <1>1, <1>2, <1>3, <1>4, SectionDeltas

(* A diff of two resumes tells what changed. *)
LEMMA DiffTells ==
  ASSUME NEW base \in Contents, NEW other \in Contents
  PROVE  LET deltas == V!Diff(base, other)
         IN  /\ V!ScalarTold(deltas, <<"summary">>, base.summary) = other.summary
             /\ V!ListTold(deltas, <<"skills">>, base.skills) = V!Items(other.skills)
             /\ V!EntriesTold(deltas, base.entries, other.entries)
                  = {V!Gist(other.entries[i]) : i \in V!ByKey(other.entries)}
             /\ \A d \in deltas : V!Before(d) # V!After(d)
<1> DEFINE deltas  == V!Diff(base, other)
           summary == V!DiffScalar(<<"summary">>, base.summary, other.summary)
           lists  == V!DiffList(<<"skills">>, base.skills, other.skills)
           section == V!DiffSection(base.entries, other.entries)
           Words   == V!Strings
<1>1. /\ None \notin Seq(Words) /\ base.skills \in Seq(Words) /\ other.skills \in Seq(Words)
      /\ IsSection(base.entries, Words) /\ IsSection(other.entries, Words)
  <2>1. /\ None \notin V!Entries /\ None \notin Seq(Words)
        /\ \A c \in Contents : V!IsList(c.skills) /\ V!IsList(c.entries)
        /\ \A e \in V!Entries : V!IsList(e.points)
    BY VersionsAreGiven DEF V!VersionsAssumption
  <2>2. ASSUME NEW c \in Contents PROVE c.skills \in Seq(Words)
    <3>1. V!Items(c.skills) \subseteq Words
      BY DEF V!Strings
    <3>2. c.skills \in Seq(V!Items(c.skills))
      BY <2>1 DEF V!IsList
    <3> HIDE DEF Words
    <3> QED
      BY <3>1, <3>2
  <2>3. ASSUME NEW c \in Contents PROVE IsSection(c.entries, Words)
    <3>1. c.entries \in Seq(V!Items(c.entries))
      BY <2>1 DEF V!IsList
    <3>2. V!Items(c.entries) \subseteq V!Entries
      BY DEF V!Entries
    <3>3. ASSUME NEW i \in DOMAIN c.entries PROVE c.entries[i] \in V!Entries
      BY <3>2 DEF V!Items
    <3>4. ASSUME NEW e \in V!Entries PROVE e.points \in Seq(Words)
      <4>1. V!Items(e.points) \subseteq Words
        BY DEF V!Strings
      <4>2. e.points \in Seq(V!Items(e.points))
        BY <2>1 DEF V!IsList
      <4> HIDE DEF Words
      <4> QED
        BY <4>1, <4>2
    <3>5. DOMAIN c.entries \subseteq Nat
      BY <3>1
    <3> HIDE DEF Words
    <3> QED
      BY <2>1, <3>3, <3>4, <3>5 DEF IsSection
  <2> QED
    BY <2>1, <2>2, <2>3
<1>2. deltas = summary \cup lists \cup section
  BY DEF V!Diff
<1>3. \A d \in summary : V!Path(d) = <<"summary">> /\ V!Before(d) # V!After(d)
  BY ScalarDeltas
<1> HIDE DEF deltas, summary, Words
<1>4. \A d \in lists : V!Path(d) = <<"skills">> /\ V!Before(d) # V!After(d)
  BY <1>1, ListDeltas
<1> HIDE DEF lists
<1>5. \A d \in section : V!Path(d)[1] = "entries" /\ V!Before(d) # V!After(d)
  BY <1>1, SectionPaths
<1> HIDE DEF section
<1>6. /\ <<"summary">>[1] = "summary" /\ <<"skills">>[1] = "skills" /\ <<"summary">> # <<"skills">>
      /\ Len(<<"summary">>) = 1 /\ Len(<<"skills">>) = 1
  OBVIOUS
<1>7. \A d \in summary : V!Path(d)[1] = "summary" /\ ~ (Len(V!Path(d)) = 2)
  BY <1>3, <1>6
<1>8. \A d \in lists : V!Path(d)[1] = "skills" /\ ~ (Len(V!Path(d)) = 2)
  BY <1>4, <1>6
<1>9. {d \in deltas : V!Path(d) = <<"summary">>} = summary
  <2>1. \A d \in lists : V!Path(d) # <<"summary">>
    BY <1>6, <1>8
  <2>2. \A d \in section : V!Path(d) # <<"summary">>
    BY <1>5, <1>6
  <2> QED
    BY <1>2, <1>3, <2>1, <2>2
<1>10. {d \in deltas : V!Path(d) = <<"skills">>} = lists
  <2>1. \A d \in summary : V!Path(d) # <<"skills">>
    BY <1>6, <1>7
  <2>2. \A d \in section : V!Path(d) # <<"skills">>
    BY <1>5, <1>6
  <2> QED
    BY <1>2, <1>4, <2>1, <2>2
<1>11. TellsSection(deltas, base.entries, other.entries)
  <2>1. {d \in deltas : V!Path(d)[1] = "entries"} = section
    BY <1>2, <1>5, <1>7, <1>8
  <2> QED
    BY <2>1 DEF TellsSection, section
<1>12. \A d \in deltas : Len(V!Path(d)) = 2 => V!Path(d)[1] = "entries"
  BY <1>2, <1>5, <1>7, <1>8
<1>13. V!ScalarTold(deltas, <<"summary">>, base.summary) = other.summary
  BY <1>9, ScalarIsTold DEF summary
<1>14. V!ListTold(deltas, <<"skills">>, base.skills) = V!Items(other.skills)
  BY <1>1, <1>10, ListIsTold DEF lists
<1>15. TellsEntries(deltas, base.entries, other.entries)
  BY <1>1, <1>11, <1>12, SectionIsTold, Zenon
<1>16. \A d \in deltas : V!Before(d) # V!After(d)
  BY <1>2, <1>3, <1>4, <1>5
<1> QED
  BY <1>13, <1>14, <1>15, <1>16 DEF deltas, TellsEntries

VersionsInv ==
  /\ extraction \in Contents /\ snapshots \in Seq(Contents) /\ versions \in Seq(Contents)
  /\ asks \in [Diffs -> [at : {"idle", "missing"}, version : Nat \cup {None}]]
  /\ \A q \in Diffs : asks[q].at = "missing" => asks[q].version \in DOMAIN versions
  /\ diff # None => \E base, other \in Contents :
       diff = [base |-> base, other |-> other, deltas |-> V!Diff(base, other)]

LEMMA VersionsInit == V!Init => VersionsInv
BY DEF V!Init, V!Idle, VersionsInv

LEMMA VersionsStep == VersionsInv /\ [V!Next]_versionsVars => VersionsInv'
<1> SUFFICES ASSUME VersionsInv, [V!Next]_versionsVars PROVE VersionsInv'
  OBVIOUS
<1> USE DEF VersionsInv
<1>1. ASSUME NEW base \in Contents, NEW other \in Contents, V!Shows(base, other)
      PROVE  \E b, o \in Contents : diff' = [base |-> b, other |-> o, deltas |-> V!Diff(b, o)]
  BY <1>1, Zenon DEF V!Shows
<1>2. CASE V!Reprocessed
  BY <1>2 DEF V!Reprocessed
<1>3. CASE V!WriteVersion
  <2>1. PICK content \in Contents : versions' = Append(versions, content)
    BY <1>3 DEF V!WriteVersion
  <2>2. versions' \in Seq(Contents) /\ DOMAIN versions \subseteq DOMAIN versions'
    BY <2>1
  <2> QED
    BY <1>3, <2>2 DEF V!WriteVersion
<1>4. CASE V!DiffAgainst
  <2>1. PICK i \in DOMAIN versions, j \in DOMAIN versions : V!Shows(versions[j], versions[i])
    BY <1>4 DEF V!DiffAgainst
  <2>2. versions[i] \in Contents /\ versions[j] \in Contents
    OBVIOUS
  <2> QED
    BY <1>1, <1>4, <2>1, <2>2 DEF V!DiffAgainst
<1>5. ASSUME NEW q \in Diffs, V!FindsSnapshot(q) PROVE VersionsInv'
  <2>1. PICK i \in DOMAIN versions : V!Shows(snapshots[1], versions[i])
    BY <1>5 DEF V!FindsSnapshot
  <2>2. Len(snapshots) = 1
    BY <1>5 DEF V!FindsSnapshot
  <2>3. versions[i] \in Contents /\ snapshots[1] \in Contents
    <3>1. 1 \in DOMAIN snapshots
      BY <2>2
    <3>2. \A k \in DOMAIN snapshots : snapshots[k] \in Contents
      OBVIOUS
    <3>3. versions[i] \in Contents
      OBVIOUS
    <3> QED
      BY <3>1, <3>2, <3>3
  <2> QED
    BY <1>1, <1>5, <2>1, <2>3 DEF V!FindsSnapshot
<1>6. ASSUME NEW q \in Diffs, V!FindsNone(q) PROVE VersionsInv'
  <2>1. PICK i \in DOMAIN versions : asks' = [asks EXCEPT ![q] = [at |-> "missing", version |-> i]]
    BY <1>6 DEF V!FindsNone
  <2>2. i \in Nat
    OBVIOUS
  <2> QED
    BY <1>6, <2>1, <2>2 DEF V!FindsNone
<1>7. ASSUME NEW q \in Diffs, V!CreatesSnapshot(q) PROVE VersionsInv'
  <2>1. versions[asks[q].version] \in Contents
    BY <1>7 DEF V!CreatesSnapshot
  <2>2. snapshots' \in Seq(Contents)
    BY <1>7 DEF V!CreatesSnapshot
  <2>3. V!Idle \in [at : {"idle", "missing"}, version : Nat \cup {None}] /\ V!Idle.at = "idle"
    BY DEF V!Idle
  <2>4. asks' = [asks EXCEPT ![q] = V!Idle] /\ UNCHANGED <<extraction, versions>>
    BY <1>7 DEF V!CreatesSnapshot
  <2>5. \E b, o \in Contents : diff' = [base |-> b, other |-> o, deltas |-> V!Diff(b, o)]
    BY <1>1, <1>7, <2>1 DEF V!CreatesSnapshot
  <2> QED
    BY <2>2, <2>3, <2>4, <2>5
<1>8. CASE UNCHANGED versionsVars
  BY <1>8 DEF versionsVars
<1> QED
  BY <1>2, <1>3, <1>4, <1>5, <1>6, <1>7, <1>8 DEF V!Next

(* However resumes and versions follow one another, the diff that is shown   *)
(* turns the base into the version: for any contents and any number of       *)
(* versions and of requests that overlap (version_service.py).              *)
THEOREM DiffsTell == ServicesSpec => []DiffTellsTheChange
<1> DEFINE Inv == part = "versions" => VersionsInv
<1>1. ServicesInit => Inv
  BY VersionsInit DEF ServicesInit
<1>2. Inv /\ [ServicesNext]_servicesVars => Inv'
  BY OnePartMoves, VersionsStep
<1>3. Inv => DiffTellsTheChange
  <2> SUFFICES ASSUME VersionsInv, diff # None PROVE V!DiffTellsTheChange
    BY DEF DiffTellsTheChange, V!DiffTellsTheChange
  <2>1. PICK base \in Contents, other \in Contents :
          diff = [base |-> base, other |-> other, deltas |-> V!Diff(base, other)]
    BY DEF VersionsInv
  <2>2. diff.base = base /\ diff.other = other /\ diff.deltas = V!Diff(base, other)
    BY <2>1
  <2> QED
    BY <2>2, DiffTells DEF V!DiffTellsTheChange
<1> QED
  BY <1>1, <1>2, <1>3, PTL DEF ServicesSpec, servicesVars

-----------------------------------------------------------------------------
(* What is put before a model (Retrieval).                                  *)

(* Of finitely many there is one with the greatest rank. *)
LEMMA MaximumExists ==
  ASSUME NEW E, IsFiniteSet(E), E # {}, NEW rank, \A e \in E : rank[e] \in Int
  PROVE  \E m \in E : \A e \in E : rank[e] <= rank[m]
<1> DEFINE Above(r) == {e \in E : rank[r] < rank[e]}
           aboves == {Above(r) : r \in E}
<1>1. IsWellFoundedOn(StrictSubsetOrdering(E), SUBSET E)
  BY FS_FiniteSubsetsOfFinite, FS_StrictSubsetOrderingWellFounded
<1>2. aboves \subseteq SUBSET E /\ aboves # {}
  OBVIOUS
<1>3. PICK fewest \in aboves : \A other \in aboves : <<other, fewest>> \notin StrictSubsetOrdering(E)
  <2> HIDE DEF aboves
  <2> QED
    BY <1>1, <1>2, WFMin
<1>4. PICK m \in E : fewest = Above(m)
  OBVIOUS
<1>5. ASSUME NEW e \in E PROVE rank[e] <= rank[m]
  <2> SUFFICES ASSUME ~ (rank[e] <= rank[m]) PROVE FALSE
    OBVIOUS
  <2>1. rank[m] < rank[e] /\ ~ (rank[e] < rank[e])
    OBVIOUS
  <2>2. ASSUME NEW x \in E, rank[e] < rank[x] PROVE rank[m] < rank[x]
    BY <2>1, <2>2
  <2>3. Above(e) \subseteq Above(m) /\ e \in Above(m) /\ e \notin Above(e)
    BY Zenon, <2>1, <2>2
  <2>4. <<Above(e), fewest>> \in StrictSubsetOrdering(E)
    BY <1>4, <2>3 DEF StrictSubsetOrdering
  <2> QED
    BY <1>3, <2>4
<1> QED
  BY <1>5

LEMMA SubsetIsFinite ==
  ASSUME NEW E, IsFiniteSet(E), NEW D, D \subseteq E
  PROVE  IsFiniteSet(D)
<1>1. D \in SUBSET E
  OBVIOUS
<1> QED
  BY <1>1, FS_Subset

LEMMA ImageIsFinite ==
  ASSUME NEW f, IsFiniteSet(DOMAIN f), f = [e \in DOMAIN f |-> f[e]]
  PROVE  IsFiniteSet({f[e] : e \in DOMAIN f})
<1> DEFINE image == {f[e] : e \in DOMAIN f}
<1>1. f \in Surjection(DOMAIN f, image)
  BY DEF Surjection
<1> HIDE DEF image
<1>2. IsFiniteSet(image)
  BY <1>1, FS_Surjection
<1> QED
  BY <1>2 DEF image

LEMMA GreatestIsThere ==
  ASSUME NEW E, IsFiniteSet(E), E # {}, E \subseteq Int
  PROVE  R!Greatest(E) \in E /\ \A e \in E : e <= R!Greatest(E)
<1> DEFINE rank == [e \in E |-> e]
<1>1. \A e \in E : rank[e] = e
  OBVIOUS
<1> HIDE DEF rank
<1>2. PICK m \in E : \A e \in E : rank[e] <= rank[m]
  BY <1>1, MaximumExists
<1>3. \A e \in E : m >= e
  BY <1>1, <1>2
<1>4. R!Greatest(E) \in E /\ \A e \in E : R!Greatest(E) >= e
  BY <1>3 DEF R!Greatest
<1> QED
  BY <1>4

LEMMA LeastIsThere ==
  ASSUME NEW E, IsFiniteSet(E), E # {}, E \subseteq Int
  PROVE  R!Least(E) \in E /\ \A e \in E : R!Least(E) <= e
<1> DEFINE rank == [e \in E |-> 0 - e]
<1>1. \A e \in E : rank[e] = 0 - e
  OBVIOUS
<1> HIDE DEF rank
<1>2. \A e \in E : rank[e] \in Int
  BY <1>1
<1>3. PICK m \in E : \A e \in E : rank[e] <= rank[m]
  BY <1>2, MaximumExists
<1>4. \A e \in E : m <= e
  BY <1>1, <1>3
<1> QED
  BY <1>4 DEF R!Least

LEMMA SameFinite ==
  ASSUME NEW E PROVE (R!IsFiniteSet(E) <=> IsFiniteSet(E)) /\ R!Cardinality(E) = Cardinality(E)
BY Zenon DEF R!IsFiniteSet, IsFiniteSet, R!Cardinality, Cardinality

(* The hits of a search. *)
Hits == {s \in Seq({c \in Blocks : R!Visible(c)}) : R!IsInjective(s)}

Stored ==
  /\ owner \in BlockOwners /\ size \in Sizes /\ alike \in Likeness
  /\ vec \in Hits /\ txt \in Hits

LEMMA BlocksGiven == Blocks \subseteq Nat /\ IsFiniteSet(Blocks)
<1>1. Blocks \subseteq Nat /\ R!IsFiniteSet(Blocks)
  BY BlocksAreGiven DEF R!RetrievalAssumption
<1> QED
  BY <1>1, SameFinite

LEMMA TablesGiven ==
  /\ BlockOwners \subseteq [Blocks -> {"user", "other", "nobody"}]
  /\ Sizes \subseteq [Blocks -> Nat] /\ Likeness \subseteq [R!Pairs -> Int]
BY BlocksAreGiven DEF R!RetrievalAssumption

LEMMA LimitsGiven == TopN \in Nat /\ Budget \in Nat /\ TopK \in Nat \ {0}
<1>1. {TopN, Budget} \subseteq Nat /\ TopK \in Nat \ {0}
  BY BlocksAreGiven DEF R!RetrievalAssumption
<1> QED
  BY <1>1

LEMMA CandidatesAreSeen ==
  ASSUME Stored
  PROVE  /\ R!Candidates \subseteq Blocks /\ IsFiniteSet(R!Candidates)
         /\ \A c \in R!Candidates : owner[c] # "other"
<1>1. ASSUME NEW s \in Hits PROVE R!ToSet(s) \subseteq {c \in Blocks : R!Visible(c)}
  BY DEF Hits, R!ToSet
<1>2. R!Candidates \subseteq {c \in Blocks : R!Visible(c)}
  BY <1>1 DEF Stored, R!Candidates
<1>3. IsFiniteSet(R!Candidates)
  <2>1. R!Candidates \subseteq Blocks
    BY <1>2
  <2> QED
    BY <2>1, BlocksGiven, SubsetIsFinite
<1> QED
  BY <1>2, <1>3 DEF R!Visible

LEMMA FusedIsInt == ASSUME Stored, NEW c PROVE R!Fused(c) \in Int
<1>1. R!Scale \in Int
  BY DEF R!Scale
<1>2. ASSUME NEW s \in Hits PROVE R!RankShare(s, c) \in Int
  <2>1. CASE c \in R!ToSet(s)
    <3> DEFINE at == CHOOSE i \in DOMAIN s : s[i] = c
    <3>1. at \in DOMAIN s
      BY <2>1 DEF R!ToSet
    <3>2. DOMAIN s \subseteq Nat
      BY DEF Hits
    <3> HIDE DEF at
    <3>3. 60 + at \in Nat /\ 60 + at > 0
      BY <3>1, <3>2
    <3>4. R!Scale \div (60 + at) \in Int
      BY <1>1, <3>3
    <3> QED
      BY <2>1, <3>4 DEF R!RankShare, at
  <2>2. CASE c \notin R!ToSet(s)
    BY <2>2 DEF R!RankShare
  <2> QED
    BY <2>1, <2>2
<1> QED
  BY <1>2 DEF R!Fused, Stored

LEMMA RedundancyIsInt ==
  ASSUME Stored, NEW c \in Blocks, NEW chosen \in Seq(Blocks)
  PROVE  R!Redundancy(c, chosen) \in Int
<1> DEFINE likes == {alike[{c, d}] : d \in R!ToSet(chosen)}
<1>1. CASE chosen = <<>>
  BY <1>1 DEF R!Redundancy
<1>2. CASE chosen # <<>>
  <2>0. 1 \in DOMAIN chosen /\ \A i \in DOMAIN chosen : chosen[i] \in Blocks
    BY <1>2
  <2>1. R!ToSet(chosen) \subseteq Blocks /\ R!ToSet(chosen) # {}
    BY <2>0 DEF R!ToSet
  <2>2. IsFiniteSet(R!ToSet(chosen))
    BY <2>1, BlocksGiven, SubsetIsFinite
  <2>3. alike \in [R!Pairs -> Int]
    BY TablesGiven DEF Stored
  <2>4. ASSUME NEW d \in Blocks PROVE alike[{c, d}] \in Int
    <3>1. {c, d} \in R!Pairs
      BY DEF R!Pairs
    <3> QED
      BY <2>3, <3>1
  <2>5. likes \subseteq Int /\ likes # {}
    BY <2>1, <2>4
  <2>6. IsFiniteSet(likes)
    <3> DEFINE f == [d \in R!ToSet(chosen) |-> alike[{c, d}]]
    <3>1. DOMAIN f = R!ToSet(chosen) /\ f = [d \in DOMAIN f |-> f[d]]
      OBVIOUS
    <3>2. likes = {f[d] : d \in DOMAIN f}
      OBVIOUS
    <3> HIDE DEF f, likes
    <3> QED
      BY <2>2, <3>1, <3>2, ImageIsFinite
  <2>7. R!Greatest(likes) \in likes
    <3> HIDE DEF likes
    <3> QED
      BY <2>5, <2>6, GreatestIsThere
  <2>8. R!Redundancy(c, chosen) = R!Greatest(likes)
    BY <1>2 DEF R!Redundancy
  <2> HIDE DEF likes
  <2> QED
    BY <2>5, <2>7, <2>8
<1> QED
  BY <1>1, <1>2

(* The extremes of what the candidates score. *)
Scores == {R!Fused(d) : d \in R!Candidates}
Span == R!Greatest(Scores) - R!Least(Scores)

LEMMA ScoresSpan ==
  ASSUME Stored, R!Candidates # {}
  PROVE  R!Least(Scores) \in Int /\ Span \in Int
<1>1. IsFiniteSet(Scores)
  <2> DEFINE f == [d \in R!Candidates |-> R!Fused(d)]
  <2>1. DOMAIN f = R!Candidates /\ f = [d \in DOMAIN f |-> f[d]]
    OBVIOUS
  <2>2. Scores = {f[d] : d \in DOMAIN f}
    BY DEF Scores
  <2> HIDE DEF f
  <2> QED
    BY <2>1, <2>2, CandidatesAreSeen, ImageIsFinite
<1>2. Scores \subseteq Int /\ Scores # {}
  BY FusedIsInt DEF Scores
<1>3. R!Least(Scores) \in Int
  BY <1>1, <1>2, LeastIsThere
<1>4. R!Greatest(Scores) \in Int
  BY <1>1, <1>2, GreatestIsThere
<1> QED
  BY <1>3, <1>4 DEF Span

LEMMA MarginalIsInt ==
  ASSUME Stored, NEW c \in R!Candidates, NEW chosen \in Seq(Blocks)
  PROVE  /\ R!MarginalValue(c, chosen) \in Int
         /\ R!MarginalValue(c, chosen) =
              IF Span = 0 THEN 70 - 3 * R!Redundancy(c, chosen)
              ELSE 70 * (R!Fused(c) - R!Least(Scores)) - 3 * R!Redundancy(c, chosen) * Span
<1>1. R!Redundancy(c, chosen) \in Int /\ R!Fused(c) \in Int
  BY CandidatesAreSeen, RedundancyIsInt, FusedIsInt
<1>2. R!Least(Scores) \in Int /\ Span \in Int
  BY ScoresSpan
<1>3. R!MarginalValue(c, chosen) =
        IF Span = 0 THEN 70 - 3 * R!Redundancy(c, chosen)
        ELSE 70 * (R!Fused(c) - R!Least(Scores)) - 3 * R!Redundancy(c, chosen) * Span
  BY Zenon DEF R!MarginalValue, Span, Scores
<1>4. 3 * R!Redundancy(c, chosen) * Span \in Int
  BY <1>1, <1>2
<1> QED
  BY <1>1, <1>2, <1>3, <1>4

(* The best candidate is better than every other. *)
LEMMA BestIsBetter ==
  ASSUME Stored, NEW some, some \subseteq R!Candidates, some # {}, NEW chosen \in Seq(Blocks)
  PROVE  /\ R!Best(some, chosen) \in some
         /\ \A d \in some \ {R!Best(some, chosen)} : R!Better(R!Best(some, chosen), d, chosen)
<1> DEFINE value == [c \in some |-> R!MarginalValue(c, chosen)]
           fused == [c \in some |-> R!Fused(c)]
<1>1. IsFiniteSet(some) /\ some \subseteq Nat
  <2>1. IsFiniteSet(R!Candidates) /\ R!Candidates \subseteq Nat
    BY CandidatesAreSeen, BlocksGiven
  <2> QED
    BY <2>1, SubsetIsFinite
<1>2. \A c \in some : value[c] \in Int /\ fused[c] \in Int
  BY MarginalIsInt, FusedIsInt
<1>3. \A c \in some : value[c] = R!MarginalValue(c, chosen) /\ fused[c] = R!Fused(c)
  OBVIOUS
<1> HIDE DEF value, fused
<1>4. PICK a \in some : \A e \in some : value[e] <= value[a]
  BY <1>1, <1>2, MaximumExists
<1> DEFINE firsts == {c \in some : value[c] = value[a]}
<1>5. IsFiniteSet(firsts) /\ firsts # {} /\ \A c \in firsts : fused[c] \in Int
  BY <1>1, <1>2, SubsetIsFinite
<1>6. PICK b \in firsts : \A e \in firsts : fused[e] <= fused[b]
  <2> HIDE DEF firsts
  <2> QED
    BY <1>5, MaximumExists
<1> DEFINE seconds == {c \in firsts : fused[c] = fused[b]}
<1>7. PICK c \in seconds : \A e \in seconds : c <= e
  <2>1. seconds \subseteq Nat /\ seconds # {}
    BY <1>1
  <2> HIDE DEF seconds
  <2> QED
    BY <2>1, FirstOf
<1>8. ASSUME NEW d \in some \ {c} PROVE R!Better(c, d, chosen)
  <2>1. c \in some /\ value[c] = value[a] /\ fused[c] = fused[b] /\ c \in Nat /\ d \in Nat
    BY <1>1
  <2>2. CASE value[d] # value[a]
    <3>1. value[c] > value[d]
      BY <1>2, <1>4, <2>1, <2>2
    <3> QED
      BY <1>3, <2>1, <3>1 DEF R!Better
  <2>3. CASE value[d] = value[a] /\ fused[d] # fused[b]
    <3>1. d \in firsts
      BY <2>3
    <3>2. fused[c] > fused[d]
      BY <1>2, <1>6, <2>1, <2>3, <3>1
    <3> QED
      BY <1>3, <2>1, <2>3, <3>2 DEF R!Better
  <2>4. CASE value[d] = value[a] /\ fused[d] = fused[b]
    <3>1. d \in seconds
      BY <2>4
    <3>2. c < d
      BY <1>7, <2>1, <3>1
    <3> QED
      BY <1>3, <2>1, <2>4, <3>2 DEF R!Better
  <2> QED
    BY <2>2, <2>3, <2>4
<1>9. c \in some
  OBVIOUS
<1> QED
  BY <1>8, <1>9, Zenon DEF R!Best

(* The picks, one after another.                                            *)
Picks == IF R!Cardinality(R!Candidates) < TopK THEN R!Cardinality(R!Candidates) ELSE TopK
NextPick(chosen) == Append(chosen, R!Best(R!Candidates \ R!ToSet(chosen), chosen))

LEMMA PicksGiven ==
  ASSUME Stored, R!Candidates # {}
  PROVE  /\ Picks \in Nat \ {0} /\ Picks <= TopK /\ Picks <= Cardinality(R!Candidates)
         /\ Picks < TopK => Picks = Cardinality(R!Candidates)
<1>1. IsFiniteSet(R!Candidates)
  BY CandidatesAreSeen
<1>2. Cardinality(R!Candidates) \in Nat /\ Cardinality(R!Candidates) # 0
  BY <1>1, FS_CardinalityType, FS_EmptySet
<1>3. R!Cardinality(R!Candidates) = Cardinality(R!Candidates)
  BY SameFinite
<1> QED
  BY <1>2, <1>3, LimitsGiven DEF Picks

(* A list with fewer entries than there are candidates leaves some. *)
LEMMA SomeAreLeft ==
  ASSUME Stored, NEW s \in Seq(R!Candidates), Len(s) < Cardinality(R!Candidates)
  PROVE  R!Candidates \ R!ToSet(s) # {}
<1> SUFFICES ASSUME R!Candidates \ R!ToSet(s) = {} PROVE FALSE
  OBVIOUS
<1>1. R!ToSet(s) = R!Candidates /\ Len(s) \in Nat
  BY DEF R!ToSet
<1>2. s \in Surjection(1..Len(s), R!Candidates)
  BY <1>1 DEF R!ToSet, Surjection
<1>3. IsFiniteSet(1..Len(s)) /\ Cardinality(1..Len(s)) = Len(s)
  <2>1. IsFiniteSet(1..Len(s)) /\ Cardinality(1..Len(s)) = IF 1 > Len(s) THEN 0 ELSE Len(s) - 1 + 1
    BY <1>1, FS_Interval
  <2> QED
    BY <1>1, <2>1
<1>4. Cardinality(R!Candidates) <= Len(s)
  BY <1>2, <1>3, FS_Surjection
<1>5. Cardinality(R!Candidates) \in Nat
  BY CandidatesAreSeen, FS_CardinalityType
<1> QED
  BY <1>1, <1>4, <1>5

LEMMA PicksExist ==
  ASSUME NEW n \in Nat
  PROVE  \E f : f = [i \in 0..n |-> IF i = 0 THEN <<>> ELSE NextPick(f[i - 1])]
<1> DEFINE Obeys(f, k) == f = [i \in 0..k |-> IF i = 0 THEN <<>> ELSE NextPick(f[i - 1])]
           bad == {k \in 0..n : ~ \E f : Obeys(f, k)}
<1>1. SUFFICES ASSUME bad # {} PROVE FALSE
  <2>1. n \in 0..n /\ (bad = {} => n \notin bad)
    OBVIOUS
  <2>2. n \notin bad => \E f : Obeys(f, n)
    <3> HIDE DEF Obeys
    <3> QED
      BY <2>1
  <2>3. (\E f : Obeys(f, n))
          => \E f : f = [i \in 0..n |-> IF i = 0 THEN <<>> ELSE NextPick(f[i - 1])]
    BY Zenon
  <2> HIDE DEF bad, Obeys
  <2> QED
    BY <2>1, <2>2, <2>3
<1>2. PICK k \in bad : \A m \in bad : k <= m
  <2> bad \subseteq Nat
    OBVIOUS
  <2> HIDE DEF bad
  <2> QED
    BY <1>1, FirstOf
<1>3. CASE k = 0
  <2> DEFINE g == [i \in 0..0 |-> <<>>]
  <2>1. Obeys(g, 0)
    OBVIOUS
  <2> QED
    BY <1>2, <1>3, <2>1
<1>4. CASE k # 0
  <2>1. k \in 1..n /\ k - 1 \in 0..n
    BY <1>2, <1>4
  <2>2. k - 1 \notin bad
    <3> HIDE DEF bad
    <3> QED
      BY <1>2, <2>1
  <2>3. PICK f : Obeys(f, k - 1)
    BY <2>1, <2>2
  <2> DEFINE g == [i \in 0..k |-> IF i = k THEN NextPick(f[k - 1]) ELSE f[i]]
  <2>4. ASSUME NEW i \in 0..k PROVE g[i] = IF i = 0 THEN <<>> ELSE NextPick(g[i - 1])
    <3>1. CASE i = 0
      <4>1. g[0] = f[0] /\ f[0] = <<>>
        BY <2>1, <2>3
      <4> QED
        BY <3>1, <4>1
    <3>2. CASE i # 0
      <4>1. i - 1 \in 0..(k - 1) /\ g[i - 1] = f[i - 1]
        BY <2>1, <3>2
      <4>2. CASE i = k
        <5>1. g[k] = NextPick(f[k - 1])
          BY <2>1
        <5> QED
          BY <3>2, <4>1, <4>2, <5>1
      <4>3. CASE i # k
        <5>1. i \in 0..(k - 1) /\ g[i] = f[i]
          BY <2>1, <4>3
        <5>2. f[i] = NextPick(f[i - 1])
          BY <2>3, <3>2, <5>1
        <5> QED
          BY <3>2, <4>1, <5>1, <5>2
      <4> QED
        BY <4>2, <4>3
    <3> QED
      BY <3>1, <3>2
  <2>5. Obeys(g, k)
    <3>1. g = [i \in 0..k |-> g[i]]
      OBVIOUS
    <3> HIDE DEF g
    <3> QED
      BY <2>4, <3>1
  <2> QED
    BY <1>2, <2>5
<1> QED
  BY <1>3, <1>4

PickedSoFar(s, i) ==
  /\ s \in Seq(R!Candidates) /\ Len(s) = i /\ R!IsInjective(s)
  /\ i # 0 => s[1] = R!Best(R!Candidates, <<>>)

LEMMA PickIsNew ==
  ASSUME Stored, NEW i \in Nat, i < Cardinality(R!Candidates), NEW s, PickedSoFar(s, i)
  PROVE  PickedSoFar(NextPick(s), i + 1)
<1> DEFINE b == R!Best(R!Candidates \ R!ToSet(s), s)
           more == NextPick(s)
<1>0. s \in Seq(R!Candidates) /\ Len(s) = i /\ R!IsInjective(s)
  BY DEF PickedSoFar
<1>1. R!Candidates \ R!ToSet(s) # {}
  BY <1>0, SomeAreLeft
<1>2. s \in Seq(Blocks)
  BY <1>0, CandidatesAreSeen
<1>3. b \in R!Candidates /\ b \notin R!ToSet(s)
  <2> DEFINE left == R!Candidates \ R!ToSet(s)
  <2>1. left \subseteq R!Candidates
    OBVIOUS
  <2>2. left # {}
    BY <1>1
  <2> HIDE DEF left
  <2>3. R!Best(left, s) \in left
    BY <1>2, <2>1, <2>2, BestIsBetter
  <2> QED
    BY <2>3 DEF left
<1>4. i = 0 => s = <<>> /\ b = R!Best(R!Candidates, <<>>)
  <2>1. i = 0 => s = <<>>
    BY <1>0
  <2>2. R!Candidates \ R!ToSet(<<>>) = R!Candidates
    BY DEF R!ToSet
  <2> QED
    BY <2>1, <2>2
<1>5. more = Append(s, b)
  BY DEF NextPick
<1> HIDE DEF b, more
<1>6. /\ more \in Seq(R!Candidates) /\ Len(more) = i + 1 /\ DOMAIN more = 1..(i + 1)
      /\ more[i + 1] = b /\ \A k \in 1..i : more[k] = s[k]
  BY <1>0, <1>3, <1>5
<1>7. R!IsInjective(more)
  <2> SUFFICES ASSUME NEW x \in 1..(i + 1), NEW y \in 1..(i + 1), more[x] = more[y]
               PROVE  x = y
    BY <1>6 DEF R!IsInjective
  <2>1. \A k \in 1..i : s[k] # b
    BY <1>0, <1>3 DEF R!ToSet
  <2>2. \A k, l \in 1..i : s[k] = s[l] => k = l
    BY <1>0 DEF R!IsInjective
  <2>3. CASE x = i + 1 /\ y # i + 1
    <3>1. y \in 1..i
      BY <2>3
    <3> QED
      BY <1>6, <2>1, <2>3, <3>1
  <2>4. CASE x # i + 1 /\ y = i + 1
    <3>1. x \in 1..i
      BY <2>4
    <3> QED
      BY <1>6, <2>1, <2>4, <3>1
  <2>5. CASE x # i + 1 /\ y # i + 1
    <3>1. x \in 1..i /\ y \in 1..i
      BY <2>5
    <3> QED
      BY <1>6, <2>2, <3>1
  <2> QED
    BY <2>3, <2>4, <2>5
<1>8. more[1] = R!Best(R!Candidates, <<>>)
  <2>1. CASE i = 0
    BY <1>4, <1>6, <2>1
  <2>2. CASE i # 0
    <3>1. 1 \in 1..i /\ s[1] = R!Best(R!Candidates, <<>>)
      BY <2>2 DEF PickedSoFar
    <3> QED
      BY <1>6, <3>1
  <2> QED
    BY <2>1, <2>2
<1>9. PickedSoFar(more, i + 1)
  BY <1>6, <1>7, <1>8 DEF PickedSoFar
<1> QED
  BY <1>9 DEF more

LEMMA SelectedArePicked ==
  ASSUME Stored, R!Candidates # {}
  PROVE  PickedSoFar(R!Selected, Picks)
<1> DEFINE Obeys(f) == f = [i \in 0..Picks |-> IF i = 0 THEN <<>> ELSE NextPick(f[i - 1])]
           pick == CHOOSE f : Obeys(f)
<1>1. Picks \in Nat \ {0} /\ Picks <= Cardinality(R!Candidates) /\ Cardinality(R!Candidates) \in Nat
  BY PicksGiven, CandidatesAreSeen, FS_CardinalityType
<1>2. \E f : Obeys(f)
  BY <1>1, PicksExist
<1>3. Obeys(pick)
  <2> HIDE DEF Obeys
  <2> QED
    BY <1>2
<1>4. R!Selected = pick[Picks]
  BY Zenon DEF R!Selected, Picks, NextPick
<1> HIDE DEF pick
<1>5. ASSUME NEW i \in 0..Picks PROVE pick[i] = IF i = 0 THEN <<>> ELSE NextPick(pick[i - 1])
  BY <1>3, Zenon
<1> DEFINE bad == {i \in 0..Picks : ~ PickedSoFar(pick[i], i)}
<1>6. bad = {}
  <2> SUFFICES ASSUME bad # {} PROVE FALSE
    OBVIOUS
  <2>1. PICK i \in bad : \A k \in bad : i <= k
    <3> bad \subseteq Nat
      BY <1>1
    <3> HIDE DEF bad
    <3> QED
      BY FirstOf
  <2>2. i \in 0..Picks /\ ~ PickedSoFar(pick[i], i)
    OBVIOUS
  <2>3. CASE i = 0
    <3>1. pick[i] = <<>>
      BY <1>5, <2>2, <2>3
    <3>2. PickedSoFar(<<>>, 0)
      BY DEF PickedSoFar, R!IsInjective
    <3> QED
      BY <2>2, <2>3, <3>1, <3>2
  <2>4. CASE i # 0
    <3>1. i - 1 \in 0..Picks /\ i - 1 \in Nat /\ (i - 1) + 1 = i /\ i \in Int
      BY <1>1, <2>2, <2>4
    <3>2. i - 1 \notin bad
      <4> HIDE DEF bad
      <4> QED
        BY <2>1, <3>1
    <3>3. PickedSoFar(pick[i - 1], i - 1)
      BY <3>1, <3>2
    <3>4. i - 1 < Cardinality(R!Candidates)
      BY <1>1, <2>2, <3>1
    <3>5. PickedSoFar(NextPick(pick[i - 1]), i)
      BY <3>1, <3>3, <3>4, PickIsNew
    <3>6. pick[i] = NextPick(pick[i - 1])
      BY <1>5, <2>2, <2>4
    <3> QED
      BY <2>2, <3>5, <3>6
  <2> QED
    BY <2>3, <2>4
<1>7. Picks \in 0..Picks
  BY <1>1
<1> QED
  BY <1>4, <1>6, <1>7

(* A picked list with as many entries as there are candidates has them all. *)
LEMMA AllArePicked ==
  ASSUME Stored, NEW s \in Seq(R!Candidates), R!IsInjective(s),
         Len(s) = Cardinality(R!Candidates)
  PROVE  R!ToSet(s) = R!Candidates
<1>1. R!ToSet(s) \subseteq R!Candidates
  BY DEF R!ToSet
<1>2. ASSUME NEW c \in R!Candidates, c \notin R!ToSet(s) PROVE FALSE
  <2> DEFINE rest == R!Candidates \ {c}
  <2>1. IsFiniteSet(rest) /\ Cardinality(rest) = Cardinality(R!Candidates) - 1
    BY CandidatesAreSeen, FS_RemoveElement
  <2>2. Len(s) \in Nat
    OBVIOUS
  <2>3. \A i \in 1..Len(s) : s[i] \in rest
    <3>1. ASSUME NEW i \in 1..Len(s) PROVE s[i] \in R!ToSet(s)
      BY DEF R!ToSet
    <3> QED
      BY <1>1, <1>2, <3>1
  <2>4. \A i, j \in 1..Len(s) : s[i] = s[j] => i = j
    BY DEF R!IsInjective
  <2>5. s = [i \in 1..Len(s) |-> s[i]]
    OBVIOUS
  <2> HIDE DEF rest
  <2>6. s \in Injection(1..Len(s), rest)
    BY <2>3, <2>4, <2>5 DEF Injection, IsInjective
  <2>7. Cardinality(1..Len(s)) <= Cardinality(rest)
    BY <2>1, <2>6, FS_Injection
  <2>8. Cardinality(1..Len(s)) = Len(s)
    <3>1. 1 \in Int /\ Len(s) \in Int
      BY <2>2
    <3>2. Cardinality(1..Len(s)) = IF 1 > Len(s) THEN 0 ELSE Len(s) - 1 + 1
      BY <3>1, FS_Interval, Zenon
    <3> QED
      BY <2>2, <3>2
  <2> QED
    BY <2>1, <2>2, <2>7, <2>8
<1> QED
  BY <1>1, <1>2

(* The first pick scores highest. *)
LEMMA FirstIsBest ==
  ASSUME Stored, NEW c \in R!Candidates
  PROVE  R!Fused(c) <= R!Fused(R!Best(R!Candidates, <<>>))
<1> DEFINE b == R!Best(R!Candidates, <<>>)
<1>1. <<>> \in Seq(Blocks) /\ R!Candidates # {}
  OBVIOUS
<1>2. b \in R!Candidates /\ \A d \in R!Candidates \ {b} : R!Better(b, d, <<>>)
  BY <1>1, BestIsBetter
<1> HIDE DEF b
<1>3. R!Fused(b) \in Int /\ R!Fused(c) \in Int
  BY FusedIsInt
<1>4. CASE c = b
  BY <1>3, <1>4 DEF b
<1>5. CASE c # b
  <2>1. R!Better(b, c, <<>>)
    BY <1>2, <1>5
  <2>2. ASSUME NEW d \in R!Candidates
        PROVE  R!MarginalValue(d, <<>>) =
                 IF Span = 0 THEN 70 - 3 * 0
                 ELSE 70 * (R!Fused(d) - R!Least(Scores)) - 3 * 0 * Span
    <3>1. R!Redundancy(d, <<>>) = 0
      BY DEF R!Redundancy
    <3> QED
      BY <1>1, <3>1, MarginalIsInt
  <2>3. R!Least(Scores) \in Int /\ Span \in Int
    BY <1>1, ScoresSpan
  <2>4. R!MarginalValue(b, <<>>) > R!MarginalValue(c, <<>>) => R!Fused(b) > R!Fused(c)
    <3>1. 3 * 0 * Span = 0
      BY <2>3
    <3>2. CASE Span = 0
      BY <1>2, <2>2, <3>2
    <3>3. CASE Span # 0
      <4>1. /\ R!MarginalValue(b, <<>>) = 70 * (R!Fused(b) - R!Least(Scores))
            /\ R!MarginalValue(c, <<>>) = 70 * (R!Fused(c) - R!Least(Scores))
        BY <1>2, <1>3, <2>2, <2>3, <3>1, <3>3
      <4> QED
        BY <1>3, <2>3, <4>1
    <3> QED
      BY <3>2, <3>3
  <2>5. R!Fused(b) > R!Fused(c) \/ R!Fused(b) = R!Fused(c)
    BY <2>1, <2>4 DEF R!Better
  <2> QED
    BY <1>3, <2>5 DEF b
<1> QED
  BY <1>4, <1>5

(* What a list of blocks costs, block by block. *)
Sums(s, f) ==
  /\ f \in [0..Len(s) -> Nat] /\ f[0] = 0
  /\ \A i \in 1..Len(s) : f[i] = f[i - 1] + size[s[i]]

LEMMA SumsExist == ASSUME Stored, NEW s \in Seq(Blocks) PROVE \E f : Sums(s, f)
<1> DEFINE N == Len(s)
           move == [p \in (1..N) \X Nat |-> p[2] + size[s[p[1]]]]
<1>1. N \in Nat /\ \A i \in 1..N : s[i] \in Blocks
  OBVIOUS
<1>2. size \in [Blocks -> Nat]
  BY TablesGiven DEF Stored
<1>3. move \in [(1..N) \X Nat -> Nat]
  BY <1>1, <1>2
<1>4. \A i \in 1..N, v \in Nat : move[<<i, v>>] = v + size[s[i]]
  OBVIOUS
<1>5. 0 \in Nat
  OBVIOUS
<1> HIDE DEF N, move
<1>6. PICK f : Recurs(f, N, Nat, 0, move)
  BY <1>1, <1>3, <1>5, Recursion, Zenon
<1>7. f \in [0..N -> Nat] /\ f[0] = 0 /\ \A i \in 1..N : f[i] = move[<<i, f[i - 1]>>]
  BY <1>6 DEF Recurs
<1>8. \A i \in 1..N : f[i] = f[i - 1] + size[s[i]]
  <2> SUFFICES ASSUME NEW i \in 1..N PROVE f[i] = f[i - 1] + size[s[i]]
    OBVIOUS
  <2>1. f[i - 1] \in Nat
    BY <1>1, <1>7
  <2> QED
    BY <1>4, <1>7, <2>1
<1> QED
  BY <1>7, <1>8 DEF Sums, N

LEMMA TokensAreSums ==
  ASSUME Stored, NEW s \in Seq(Blocks), NEW f, Sums(s, f), NEW n \in 0..Len(s)
  PROVE  R!Tokens(SubSeq(s, 1, n)) = f[n]
<1> DEFINE t == SubSeq(s, 1, n)
           Obeys(g, k) == g = [i \in 0..k |-> IF i = 0 THEN 0 ELSE g[i - 1] + size[t[i]]]
           sum == CHOOSE g : Obeys(g, Len(t))
           start == [i \in 0..n |-> f[i]]
<1>1. n \in Nat /\ Len(t) = n /\ \A i \in 1..n : t[i] = s[i]
  OBVIOUS
<1>2. R!Tokens(t) = sum[n]
  <2>1. R!Tokens(t) = sum[Len(t)]
    BY Zenon DEF R!Tokens
  <2> QED
    BY <1>1, <2>1
<1> HIDE DEF t
<1>3. ASSUME NEW i \in 1..n PROVE f[i] = f[i - 1] + size[t[i]]
  <2>1. i \in 1..Len(s) /\ t[i] = s[i]
    BY <1>1
  <2> QED
    BY <2>1 DEF Sums
<1>4. Obeys(start, n)
  <2>1. ASSUME NEW i \in 0..n
        PROVE  start[i] = IF i = 0 THEN 0 ELSE start[i - 1] + size[t[i]]
    <3>1. CASE i = 0
      BY <1>1, <3>1 DEF Sums
    <3>2. CASE i # 0
      <4>1. i \in 1..n /\ i - 1 \in 0..n
        BY <1>1, <3>2
      <4>2. start[i] = f[i] /\ start[i - 1] = f[i - 1]
        BY <4>1
      <4> QED
        BY <1>3, <3>2, <4>1, <4>2
    <3> QED
      BY <3>1, <3>2
  <2>2. start = [i \in 0..n |-> start[i]]
    OBVIOUS
  <2> HIDE DEF start
  <2> QED
    BY <2>1, <2>2
<1>5. Obeys(sum, n)
  <2>1. \E g : Obeys(g, Len(t))
    BY <1>1, <1>4
  <2> HIDE DEF Obeys
  <2>2. Obeys(sum, Len(t))
    BY <2>1
  <2> QED
    BY <1>1, <2>2
<1> HIDE DEF sum
<1>6. ASSUME NEW i \in 0..n PROVE sum[i] = IF i = 0 THEN 0 ELSE sum[i - 1] + size[t[i]]
  BY <1>5, Zenon
<1> DEFINE bad == {i \in 0..n : sum[i] # f[i]}
<1>7. bad = {}
  <2> SUFFICES ASSUME bad # {} PROVE FALSE
    OBVIOUS
  <2>1. PICK i \in bad : \A k \in bad : i <= k
    <3> bad \subseteq Nat
      BY <1>1
    <3> HIDE DEF bad
    <3> QED
      BY FirstOf
  <2>2. i \in 0..n /\ sum[i] # f[i]
    OBVIOUS
  <2>3. CASE i = 0
    <3>1. sum[0] = 0
      BY <1>6, <2>2, <2>3
    <3> QED
      BY <2>2, <2>3, <3>1 DEF Sums
  <2>4. CASE i # 0
    <3>1. i \in 1..n /\ i - 1 \in 0..n /\ i \in Int /\ ~ (i <= i - 1)
      BY <1>1, <2>2, <2>4
    <3>2. i - 1 \notin bad
      <4> HIDE DEF bad
      <4> QED
        BY <2>1, <3>1
    <3>3. sum[i - 1] = f[i - 1]
      BY <3>1, <3>2
    <3>4. sum[i] = sum[i - 1] + size[t[i]]
      BY <1>6, <2>2, <2>4
    <3> QED
      BY <1>3, <2>2, <3>1, <3>3, <3>4
  <2> QED
    BY <2>3, <2>4
<1>8. n \in 0..n
  BY <1>1
<1>9. sum[n] = f[n]
  BY <1>7, <1>8
<1> QED
  BY <1>2, <1>9 DEF t

LEMMA TokensAdd ==
  ASSUME Stored, NEW s \in Seq(Blocks)
  PROVE  /\ \A n \in 0..Len(s) : R!Tokens(SubSeq(s, 1, n)) \in Nat
         /\ \A n \in 1..Len(s) : n < Len(s) =>
              R!Tokens(SubSeq(s, 1, n + 1)) = R!Tokens(SubSeq(s, 1, n)) + size[s[n + 1]]
<1>1. PICK f : Sums(s, f)
  BY SumsExist
<1>2. \A n \in 0..Len(s) : R!Tokens(SubSeq(s, 1, n)) = f[n]
  BY <1>1, TokensAreSums
<1>3. Len(s) \in Nat
  OBVIOUS
<1>4. ASSUME NEW n \in 1..Len(s), n < Len(s)
      PROVE  R!Tokens(SubSeq(s, 1, n + 1)) = R!Tokens(SubSeq(s, 1, n)) + size[s[n + 1]]
  <2>1. n \in 0..Len(s) /\ n + 1 \in 0..Len(s) /\ n + 1 \in 1..Len(s) /\ (n + 1) - 1 = n
    BY <1>3, <1>4
  <2>2. f[n + 1] = f[n] + size[s[n + 1]]
    BY <1>1, <2>1 DEF Sums
  <2> QED
    BY <1>2, <2>1, <2>2
<1>5. \A n \in 0..Len(s) : f[n] \in Nat
  BY <1>1 DEF Sums
<1> QED
  BY <1>2, <1>4, <1>5

(* The cut is at a prefix that fits, and the next block would not.           *)
CutAt(s, m) ==
  /\ m \in 1..Len(s) /\ R!Assembled(s) = SubSeq(s, 1, m) /\ R!Fits(s, m)
  /\ m < Len(s) => R!Tokens(SubSeq(s, 1, m)) + size[s[m + 1]] > Budget

LEMMA CutFits == ASSUME Stored, NEW s \in Seq(Blocks), s # <<>> PROVE \E m : CutAt(s, m)
<1> DEFINE lens == {n \in 1..Len(s) : R!Fits(s, n)}
           m == R!Greatest(lens)
<1>1. Len(s) \in Nat /\ Len(s) >= 1
  OBVIOUS
<1>2. 1 \in lens
  <2>1. R!Fits(s, 1)
    BY DEF R!Fits
  <2> QED
    BY <1>1, <2>1
<1>3. IsFiniteSet(lens) /\ lens \subseteq Int
  <2>1. IsFiniteSet(1..Len(s))
    BY <1>1, FS_Interval
  <2>2. lens \subseteq 1..Len(s)
    OBVIOUS
  <2>3. 1..Len(s) \subseteq Int
    OBVIOUS
  <2> HIDE DEF lens
  <2> QED
    BY <2>1, <2>2, <2>3, SubsetIsFinite
<1>4. m \in lens /\ \A n \in lens : n <= m
  <2> HIDE DEF lens
  <2> QED
    BY <1>2, <1>3, GreatestIsThere
<1>5. R!Assembled(s) = SubSeq(s, 1, m)
  BY Zenon DEF R!Assembled
<1> HIDE DEF m
<1>6. m \in 1..Len(s) /\ R!Fits(s, m) /\ m \in Nat
  BY <1>4
<1>7. ASSUME m < Len(s) PROVE R!Tokens(SubSeq(s, 1, m)) + size[s[m + 1]] > Budget
  <2>1. m + 1 \in 1..Len(s) /\ ~ (m + 1 <= m)
    BY <1>1, <1>6, <1>7
  <2>2. m + 1 \notin lens
    <3> HIDE DEF lens
    <3> QED
      BY <1>4, <2>1
  <2>3. ~ R!Fits(s, m + 1)
    BY <2>1, <2>2
  <2>4. PICK i \in 2..(m + 1) : ~ (R!Tokens(SubSeq(s, 1, i)) <= Budget)
    BY <2>3 DEF R!Fits
  <2>5. i = m + 1
    <3> SUFFICES ASSUME i # m + 1 PROVE FALSE
      OBVIOUS
    <3>1. i \in 2..m
      BY <1>6
    <3> QED
      BY <1>6, <2>4, <3>1 DEF R!Fits
  <2>6. R!Tokens(SubSeq(s, 1, m + 1)) \in Nat
    BY <1>6, <2>1, TokensAdd
  <2>7. R!Tokens(SubSeq(s, 1, m + 1)) > Budget
    BY <2>4, <2>5, <2>6, LimitsGiven
  <2> QED
    BY <1>6, <1>7, <2>7, TokensAdd
<1> QED
  BY <1>5, <1>6, <1>7 DEF CutAt

(* What is handed over of what was picked. *)
LEMMA HandedOver ==
  ASSUME Stored, R!Candidates # {}, picked = R!Assembled(R!Selected)
  PROVE  R!ContextIsSound
<1> DEFINE s == R!Selected
<1>1. /\ s \in Seq(R!Candidates) /\ Len(s) = Picks /\ R!IsInjective(s)
      /\ s[1] = R!Best(R!Candidates, <<>>)
  BY SelectedArePicked, PicksGiven DEF PickedSoFar
<1>2. picked = R!Assembled(s)
  OBVIOUS
<1> HIDE DEF s
<1>3. Picks \in Nat /\ Picks >= 1 /\ Picks <= TopK /\ TopK \in Nat
  BY PicksGiven, LimitsGiven
<1>4. s \in Seq(Blocks) /\ s # <<>>
  BY <1>1, <1>3, CandidatesAreSeen
<1>5. PICK m : CutAt(s, m)
  BY <1>4, CutFits
<1>6. m \in 1..Len(s) /\ m \in Nat /\ m >= 1 /\ m <= Picks
  BY <1>1, <1>3, <1>5 DEF CutAt
<1>7. picked = SubSeq(s, 1, m)
  BY <1>2, <1>5 DEF CutAt
<1>8. Len(picked) = m /\ DOMAIN picked = 1..m /\ \A i \in 1..m : picked[i] = s[i]
  BY <1>1, <1>6, <1>7
<1>9. DOMAIN s = 1..Len(s) /\ \A i \in 1..m : i \in 1..Len(s)
  BY <1>1, <1>3, <1>6
<1>10. \A c \in R!ToSet(picked) : owner[c] # "other"
  <2>1. ASSUME NEW c \in R!ToSet(picked) PROVE c \in R!Candidates
    BY <1>1, <1>8, <1>9 DEF R!ToSet
  <2> QED
    BY <2>1, CandidatesAreSeen
<1>11. R!IsInjective(picked)
  <2>1. \A i, j \in 1..Len(s) : s[i] = s[j] => i = j
    BY <1>1, <1>9 DEF R!IsInjective
  <2>2. \A i, j \in 1..m : picked[i] = picked[j] => i = j
    BY <1>8, <1>9, <2>1
  <2> QED
    BY <1>8, <2>2 DEF R!IsInjective
<1>12. Len(picked) <= TopK
  BY <1>3, <1>6, <1>8
<1>13. Len(picked) > 1 => R!Tokens(picked) <= Budget
  <2> SUFFICES ASSUME m > 1 PROVE R!Tokens(SubSeq(s, 1, m)) <= Budget
    BY <1>7, <1>8
  <2>1. m \in 2..m
    BY <1>6
  <2> QED
    BY <1>5, <2>1 DEF CutAt, R!Fits
<1>14. \A c \in R!Candidates : R!Fused(c) <= R!Fused(picked[1])
  <2>1. picked[1] = R!Best(R!Candidates, <<>>)
    BY <1>1, <1>6, <1>8
  <2> QED
    BY <2>1, FirstIsBest
<1>15. ASSUME Len(picked) < TopK, NEW c \in R!Candidates \ R!ToSet(picked)
       PROVE  \E d \in R!Candidates \ R!ToSet(picked) : R!Tokens(picked) + size[d] > Budget
  <2>1. CASE m = Len(s)
    <3>1. Picks = Cardinality(R!Candidates)
      BY <1>1, <1>8, <1>15, <2>1, PicksGiven
    <3>2. R!ToSet(s) = R!Candidates
      BY <1>1, <3>1, AllArePicked
    <3>3. picked = s
      BY <1>1, <1>7, <2>1
    <3> QED
      BY <1>15, <3>2, <3>3
  <2>2. CASE m # Len(s)
    <3>1. m < Len(s) /\ m + 1 \in 1..Len(s) /\ m + 1 \notin 1..m
      BY <1>1, <1>3, <1>6, <2>2
    <3>2. s[m + 1] \in R!Candidates
      BY <1>1, <3>1
    <3>3. s[m + 1] \notin R!ToSet(picked)
      <4>1. \A i \in 1..m : s[i] # s[m + 1]
        BY <1>1, <1>9, <3>1 DEF R!IsInjective
      <4> QED
        BY <1>8, <4>1 DEF R!ToSet
    <3>4. R!Tokens(picked) + size[s[m + 1]] > Budget
      BY <1>5, <1>7, <3>1 DEF CutAt
    <3> QED
      BY <3>2, <3>3, <3>4
  <2> QED
    BY <2>1, <2>2
<1> QED
  BY <1>10, <1>11, <1>12, <1>13, <1>14, <1>15 DEF R!ContextIsSound

ContextInv ==
  /\ Stored
  /\ picked # <<>> => R!Candidates # {} /\ picked = R!Assembled(R!Selected)

LEMMA ContextInit == R!Init => ContextInv
<1>1. <<>> \in Hits
  BY DEF Hits, R!IsInjective
<1> QED
  BY <1>1 DEF R!Init, ContextInv, Stored

LEMMA ContextStep == ContextInv /\ [R!Next]_contextVars => ContextInv'
<1> SUFFICES ASSUME ContextInv, [R!Next]_contextVars PROVE ContextInv'
  OBVIOUS
<1>1. CASE R!Searches(Blocks)
  <2>1. Hits' = Hits
    BY <1>1 DEF R!Searches, Hits, R!Visible
  <2>2. R!Rankings({c \in Blocks : R!Visible(c)}) \subseteq Hits
    BY DEF R!Rankings, Hits
  <2>3. vec' \in Hits /\ txt' \in Hits /\ picked' = <<>> /\ UNCHANGED <<owner, size, alike>>
    BY <1>1, <2>2 DEF R!Searches
  <2> QED
    BY <2>1, <2>3 DEF ContextInv, Stored
<1>2. CASE R!Retrieves
  <2>1. UNCHANGED <<owner, size, alike, vec, txt>>
    BY <1>2 DEF R!Retrieves
  <2>2. Stored'
    BY <2>1 DEF ContextInv, Stored, Hits, R!Visible
  <2>3. R!Candidates # {} /\ picked' = R!Assembled(R!Selected)
    BY <1>2 DEF R!Retrieves
  <2>4. R!Candidates' = R!Candidates
    BY <2>1 DEF R!Candidates
  <2>5. R!Assembled(R!Selected)' = R!Assembled(R!Selected)
    BY <2>1 DEF R!Assembled, R!Selected, R!Candidates, R!Best, R!Better, R!MarginalValue,
                R!Fused, R!RankShare, R!Redundancy, R!Fits, R!Tokens
  <2> QED
    BY <2>2, <2>3, <2>4, <2>5 DEF ContextInv
<1>3. CASE UNCHANGED contextVars
  <2>1. UNCHANGED <<owner, size, alike, vec, txt, picked>>
    BY <1>3 DEF contextVars
  <2>2. Stored'
    BY <2>1 DEF ContextInv, Stored, Hits, R!Visible
  <2>3. R!Candidates' = R!Candidates
    BY <2>1 DEF R!Candidates
  <2>4. R!Assembled(R!Selected)' = R!Assembled(R!Selected)
    BY <2>1 DEF R!Assembled, R!Selected, R!Candidates, R!Best, R!Better, R!MarginalValue,
                R!Fused, R!RankShare, R!Redundancy, R!Fits, R!Tokens
  <2> QED
    BY <2>1, <2>2, <2>3, <2>4 DEF ContextInv
<1> QED
  BY <1>1, <1>2, <1>3 DEF R!Next

(* Whatever the two searches find, for any chunks, sizes, likenesses and     *)
(* limits: what a model reads is of postings the person owns or nobody does, *)
(* is there once, fits the budget, starts with the best and stops only at a  *)
(* block that is too large (domain/rag).                                    *)
THEOREM ContextHolds == ServicesSpec => []ContextIsSound
<1> DEFINE Inv == part = "context" => ContextInv
<1>1. ServicesInit => Inv
  BY ContextInit DEF ServicesInit
<1>2. Inv /\ [ServicesNext]_servicesVars => Inv'
  BY OnePartMoves, ContextStep
<1>3. Inv => ContextIsSound
  <2> SUFFICES ASSUME ContextInv, picked # <<>> PROVE R!ContextIsSound
    BY DEF ContextIsSound, R!ContextIsSound
  <2> QED
    BY HandedOver DEF ContextInv
<1> QED
  BY <1>1, <1>2, <1>3, PTL DEF ServicesSpec, servicesVars

-----------------------------------------------------------------------------
(* The tables: every row refers to what is there, a deletion takes what      *)
(* hangs on the row and no more, and a user takes all that is theirs.        *)

(* What a reference can find among rows, the tables that are written anew,   *)
(* and what a row hangs on that has no user of its own (models/*.py).        *)
Keys(s) == {KeyOf(r) : r \in s}
Leaves  == {"match_components", "skill_gaps", "job_chunks", "profile_skills",
            "profile_experiences", "profile_projects"}
Parent  == [job_chunks |-> "jobs", match_components |-> "job_matches",
            agent_steps |-> "ai_sessions"]

(* Rows as the code makes them. *)
Shaped(r) ==
  /\ r.table \in DOMAIN Tables /\ r.table # "resume_chunks"
  /\ r.names \subseteq Tables[r.table].loose
  /\ r.at \in {r.owner, Shared} /\ (r.table \in {"jobs", "job_chunks"} => r.at = r.owner)
  /\ r.owner = Person => r.table \notin SeededTables

(* What a row names is there, and what a row of the person hangs on. *)
Refers(r, keys) ==
  r.table # "audit_logs" =>
    /\ \A t \in r.names : Named(r, t) \in keys
    /\ r.owner = Person => Key("users", Person, Person) \in keys
    /\ r.owner = Person /\ r.table \in DOMAIN Parent => Named(r, Parent[r.table]) \in keys

TablesInv ==
  /\ Seeded \subseteq rows
  /\ \A r \in rows : Shaped(r) /\ Refers(r, Keys(rows))

(* No reference is to a table that is written anew, and all that is owned   *)
(* goes with its user, by itself or with what it hangs on.                   *)
LEMMA ReferencesAre ==
  ASSUME NEW t \in DOMAIN Tables
  PROVE  /\ \A col \in Tables[t].fk : col[1] \notin Leaves
         /\ Tables[t].loose \cap (Leaves \cup {"job_matches"}) = {}
         /\ t \notin SeededTables \cup {"users", "audit_logs", "resume_chunks"} =>
              \/ Owned \in Tables[t].fk
              \/ /\ t \in DOMAIN Parent /\ Cascade(Parent[t]) \in Tables[t].fk
                 /\ Owned \in Tables[Parent[t]].fk
<1> DEFINE Free(table) == /\ \A col \in table.fk : col[1] \notin Leaves
                          /\ table.loose \cap (Leaves \cup {"job_matches"}) = {}
<1>1. DOMAIN Tables = {"users", "skills", "audit_logs", "refresh_tokens", "auth_tokens",
        "career_profiles", "profile_experiences", "profile_education",
        "profile_projects", "profile_certifications", "profile_skills", "resumes",
        "resume_versions", "resume_chunks", "resume_suggestions", "jobs", "job_chunks",
        "job_matches", "match_components", "skill_gaps", "learning_resources",
        "roadmap_milestones", "learning_recommendations", "ai_sessions", "messages",
        "ai_actions", "agent_steps", "cover_letters", "application_emails",
        "applications", "approval_requests", "application_events", "eval_runs",
        "eval_results"}
  BY DEF Tables
<1>2. /\ Free(User) /\ Free(Skill) /\ Free(AuditLog) /\ Free(RefreshToken)
      /\ Free(AuthToken) /\ Free(CareerProfile) /\ Free(ProfileExperience)
      /\ Free(ProfileEducation) /\ Free(ProfileProject) /\ Free(ProfileCertification)
      /\ Free(ProfileSkill) /\ Free(Resume) /\ Free(ResumeVersion) /\ Free(ResumeChunk)
      /\ Free(ResumeSuggestion) /\ Free(Job) /\ Free(JobChunk) /\ Free(JobMatch)
      /\ Free(MatchComponent) /\ Free(SkillGap) /\ Free(LearningResource)
      /\ Free(RoadmapMilestone) /\ Free(LearningRecommendation) /\ Free(AiSession)
      /\ Free(Message) /\ Free(AiAction) /\ Free(AgentStep) /\ Free(CoverLetter)
      /\ Free(ApplicationEmail) /\ Free(Application) /\ Free(ApprovalRequest)
      /\ Free(ApplicationEvent) /\ Free(EvalRun) /\ Free(EvalResult)
  <2>1. /\ Free(User) /\ Free(Skill)
    BY DEF Free, Leaves, Table, Cascade, Owned, User, Skill
  <2>2. /\ Free(AuditLog)
    BY DEF Free, Leaves, Table, Cascade, Owned, AuditLog
  <2>3. /\ Free(RefreshToken)
    <3>1. \A x, y : <<x, y>>[1] = x
      OBVIOUS
    <3>2. SetNull("refresh_tokens")[1] = "refresh_tokens"
      BY <3>1, Zenon DEF SetNull
    <3> QED
      BY <3>2 DEF Free, Leaves, Table, Cascade, Owned, RefreshToken
  <2>4. /\ Free(AuthToken) /\ Free(CareerProfile)
    BY DEF Free, Leaves, Table, Cascade, Owned, AuthToken, CareerProfile
  <2>5. /\ Free(ProfileExperience) /\ Free(ProfileEducation) /\ Free(ProfileProject)
        /\ Free(ProfileCertification) /\ Free(ProfileSkill)
    BY DEF Free, Leaves, Table, Cascade, Owned, SubEntity, ProfileExperience,
           ProfileEducation, ProfileProject, ProfileCertification, ProfileSkill
  <2>6. /\ Free(Resume) /\ Free(ResumeVersion) /\ Free(ResumeChunk)
        /\ Free(ResumeSuggestion)
    BY DEF Free, Leaves, Table, Cascade, Owned, Resume, ResumeVersion, ResumeChunk,
           ResumeSuggestion
  <2>7. /\ Free(Job) /\ Free(JobChunk) /\ Free(JobMatch) /\ Free(MatchComponent)
        /\ Free(SkillGap)
    BY DEF Free, Leaves, Table, Cascade, Owned, Job, JobChunk, JobMatch, MatchComponent,
           SkillGap
  <2>8. /\ Free(LearningResource) /\ Free(RoadmapMilestone)
        /\ Free(LearningRecommendation)
    BY DEF Free, Leaves, Table, Cascade, Owned, LearningResource, RoadmapMilestone,
           LearningRecommendation
  <2>9. /\ Free(AiSession) /\ Free(Message) /\ Free(AiAction) /\ Free(AgentStep)
    BY DEF Free, Leaves, Table, Cascade, Owned, AiSession, Message, AiAction, AgentStep
  <2>10. /\ Free(CoverLetter) /\ Free(ApplicationEmail) /\ Free(Application)
        /\ Free(ApprovalRequest) /\ Free(ApplicationEvent)
    BY DEF Free, Leaves, Table, Cascade, Owned, CoverLetter, ApplicationEmail,
           Application, ApprovalRequest, ApplicationEvent
  <2>11. /\ Free(EvalRun) /\ Free(EvalResult)
    BY DEF Free, Leaves, Table, Cascade, Owned, EvalRun, EvalResult
  <2> HIDE DEF Free
  <2> QED
    BY <2>1, <2>2, <2>3, <2>4, <2>5, <2>6, <2>7, <2>8, <2>9, <2>10, <2>11
<1>3. /\ Owned \in RefreshToken.fk /\ Owned \in AuthToken.fk
      /\ Owned \in CareerProfile.fk /\ Owned \in ProfileExperience.fk
      /\ Owned \in ProfileEducation.fk /\ Owned \in ProfileProject.fk
      /\ Owned \in ProfileCertification.fk /\ Owned \in ProfileSkill.fk
      /\ Owned \in Resume.fk /\ Owned \in ResumeVersion.fk
      /\ Owned \in ResumeSuggestion.fk /\ Owned \in Job.fk /\ Owned \in JobMatch.fk
      /\ Owned \in SkillGap.fk /\ Owned \in RoadmapMilestone.fk
      /\ Owned \in LearningRecommendation.fk /\ Owned \in AiSession.fk
      /\ Owned \in Message.fk /\ Owned \in AiAction.fk /\ Owned \in CoverLetter.fk
      /\ Owned \in ApplicationEmail.fk /\ Owned \in Application.fk
      /\ Owned \in ApprovalRequest.fk /\ Owned \in ApplicationEvent.fk
  BY DEF Table, SubEntity, RefreshToken, AuthToken, CareerProfile, ProfileExperience,
         ProfileEducation, ProfileProject, ProfileCertification, ProfileSkill, Resume,
         ResumeVersion, ResumeSuggestion, Job, JobMatch, SkillGap, RoadmapMilestone,
         LearningRecommendation, AiSession, Message, AiAction, CoverLetter,
         ApplicationEmail, Application, ApprovalRequest, ApplicationEvent
<1>4. /\ Cascade("jobs") \in JobChunk.fk /\ Cascade("job_matches") \in MatchComponent.fk
      /\ Cascade("ai_sessions") \in AgentStep.fk
  BY DEF Table, JobChunk, MatchComponent, AgentStep
<1>5. Free(Tables[t])
  BY <1>1, <1>2 DEF Tables
<1>6. ASSUME t \notin SeededTables \cup {"users", "audit_logs", "resume_chunks"},
             t \notin DOMAIN Parent
      PROVE  Owned \in Tables[t].fk
  BY <1>1, <1>3, <1>6 DEF Tables, SeededTables, Parent
<1>7. t \in DOMAIN Parent =>
        Cascade(Parent[t]) \in Tables[t].fk /\ Owned \in Tables[Parent[t]].fk
  BY <1>1, <1>3, <1>4 DEF Tables, Parent
<1> QED
  BY <1>5, <1>6, <1>7

(* Nothing takes the audit trail, or a user, along. *)
LEMMA AuditStays ==
  Tables["audit_logs"].fk = {} /\ Tables["users"].fk = {} /\ "audit_logs" \in DOMAIN Tables
BY DEF Tables, AuditLog, User, Table

(* Five steps down the references. *)
With(s) == s \cup Falls(s)
LEMMA TakenIs == ASSUME NEW s PROVE Taken(s) = With(With(With(With(With(s)))))
<1> DEFINE f == [n \in 0..5 |->
      IF n = 0 THEN s ELSE IF n = 1 THEN With(s) ELSE IF n = 2 THEN With(With(s))
      ELSE IF n = 3 THEN With(With(With(s))) ELSE IF n = 4 THEN With(With(With(With(s))))
      ELSE With(With(With(With(With(s)))))]
           Down(g) == [n \in 0..5 |-> IF n = 0 THEN s ELSE With(g[n - 1])]
<1>1. f = Down(f)
  <2> SUFFICES ASSUME NEW n \in 0..5 PROVE f[n] = IF n = 0 THEN s ELSE With(f[n - 1])
    OBVIOUS
  <2>1. n = 0 \/ n = 1 \/ n = 2 \/ n = 3 \/ n = 4 \/ n = 5
    OBVIOUS
  <2> QED
    BY <2>1
<1>2. Taken(s) = (CHOOSE g : g = Down(g))[5]
  BY DEF Taken, With
<1> DEFINE h == CHOOSE g : g = Down(g)
<1>3. h = Down(h)
  BY <1>1
<1> HIDE DEF h, f
<1>4. /\ h[0] = s /\ h[1] = With(h[0]) /\ h[2] = With(h[1]) /\ h[3] = With(h[2])
      /\ h[4] = With(h[3]) /\ h[5] = With(h[4])
  <2>1. ASSUME NEW n \in 0..5 PROVE h[n] = IF n = 0 THEN s ELSE With(h[n - 1])
    BY <1>3
  <2> HIDE DEF Down
  <2> QED
    BY <2>1
<1> QED
  BY <1>2, <1>4 DEF h

(* Nothing hangs on the rows that are written anew. *)
LEMMA LeavesFall ==
  ASSUME TablesInv, NEW s \in SUBSET rows, \A r \in s : r.table \in Leaves
  PROVE  Taken(s) = s
<1>1. Falls(s) = {}
  <2> SUFFICES ASSUME NEW r \in rows, NEW col \in Tables[r.table].fk, NEW q \in s,
                      Named(r, col[1]) = KeyOf(q)
               PROVE  FALSE
    BY DEF Falls
  <2>1. col[1] = q.table
    BY DEF Named, KeyOf, Key
  <2>2. col[1] \notin Leaves
    BY ReferencesAre DEF TablesInv, Shaped
  <2> QED
    BY <2>1, <2>2
<1>2. With(s) = s
  BY <1>1 DEF With
<1> QED
  BY <1>2, TakenIs

(* All that is the person's but the audit trail. *)
Theirs == {r \in rows : r.owner = Person /\ r.table # "audit_logs"}

(* The row of the user takes all of Theirs: what is owned at the first step, *)
(* what hangs on it at the second, and nothing after.                        *)
LEMMA AccountFalls ==
  ASSUME TablesInv, Has(Person, "users")
  PROVE  Taken(OfPerson("users")) = Theirs
<1> DEFINE u == OfPerson("users")
<1>1. u \subseteq Theirs /\ u \in SUBSET rows
  BY DEF OfPerson, Theirs
<1>2. ASSUME NEW x \in SUBSET Theirs PROVE With(x) \subseteq Theirs
  <2> SUFFICES ASSUME NEW r \in rows, NEW col \in Tables[r.table].fk, NEW q \in x,
                      Named(r, col[1]) = KeyOf(q)
               PROVE  r \in Theirs
    BY DEF Falls, With, Theirs
  <2>1. r.table # "audit_logs"
    BY AuditStays
  <2>2. OwnerFor(r, col[1]) = Person
    BY DEF Named, KeyOf, Key, Theirs
  <2>3. r.owner = Person
    BY <2>2, OwnersDiffer DEF OwnerFor, TablesInv, Shaped
  <2> QED
    BY <2>1, <2>3 DEF Theirs
<1>3. \A x : x \subseteq With(x)
  BY DEF With
<1>4. PICK o \in rows : o.table = "users" /\ o.owner = Person
  BY DEF Has
<1>5. o \in u /\ KeyOf(o) = <<"users", Person, Person>>
  BY <1>4 DEF OfPerson, KeyOf, Key
<1>6. ASSUME NEW r \in rows, r.owner = Person, Owned \in Tables[r.table].fk
      PROVE  r \in With(u)
  <2>1. Named(r, "users") = <<"users", Person, Person>>
    BY <1>6 DEF Named, Key, OwnerFor, SeededTables
  <2>2. Owned[1] = "users" /\ Owned[2] = "CASCADE"
    BY DEF Owned, Cascade
  <2>3. r \in Falls(u)
    BY <1>5, <1>6, <2>1, <2>2 DEF Falls
  <2> QED
    BY <2>3 DEF With
<1>7. ASSUME NEW r \in Theirs PROVE r \in With(With(u))
  <2>1. /\ r \in rows /\ r.owner = Person /\ r.table # "audit_logs" /\ Shaped(r)
        /\ Refers(r, Keys(rows))
    BY <1>7 DEF Theirs, TablesInv
  <2>2. CASE r.table = "users"
    BY <1>3, <2>1, <2>2 DEF OfPerson
  <2>3. CASE Owned \in Tables[r.table].fk
    BY <1>3, <1>6, <2>1, <2>3
  <2>4. CASE /\ r.table \in DOMAIN Parent /\ Cascade(Parent[r.table]) \in Tables[r.table].fk
             /\ Owned \in Tables[Parent[r.table]].fk
    <3>1. PICK q \in rows : KeyOf(q) = Named(r, Parent[r.table])
      BY <2>1, <2>4 DEF Refers, Keys
    <3>2. q.table = Parent[r.table] /\ q.owner = OwnerFor(r, Parent[r.table])
      BY <3>1 DEF KeyOf, Key, Named
    <3>3. OwnerFor(r, Parent[r.table]) = Person
      BY <2>1, <2>4 DEF OwnerFor, Parent, SeededTables, Shaped
    <3>4. q \in With(u)
      BY <1>6, <2>4, <3>2, <3>3
    <3>5. /\ Cascade(Parent[r.table])[1] = Parent[r.table]
          /\ Cascade(Parent[r.table])[2] = "CASCADE"
      BY DEF Cascade
    <3>6. r \in Falls(With(u))
      BY <2>1, <2>4, <3>1, <3>4, <3>5 DEF Falls
    <3> QED
      BY <3>6 DEF With
  <2> QED
    BY <2>1, <2>2, <2>3, <2>4, ReferencesAre DEF Shaped
<1> HIDE DEF u
<1>8. With(u) \subseteq Theirs
  BY <1>1, <1>2
<1>9. With(With(u)) = Theirs
  BY <1>2, <1>7, <1>8
<1>10. With(Theirs) = Theirs
  BY <1>2, <1>3
<1> QED
  BY <1>9, <1>10, TakenIs DEF u

(* The rows that each unit makes refer to each other and to what was there.  *)
Whose(p, at) == p # Shared /\ at \in {p, Shared}
RowsHold(s, keys) == \A r \in s : Shaped(r) /\ Refers(r, keys)

(* An account, a profile, a posting, a score, a plan, a chat, a tailored     *)
(* resume and an application, one lemma each.                                *)
LEMMA AccountRefers ==
  ASSUME NEW p, p # Shared, NEW keys, <<"users", p, p>> \in keys
  PROVE  RowsHold(Account(p), keys)
<1> SUFFICES ASSUME NEW t \in {"users", "audit_logs", "refresh_tokens", "auth_tokens"}
             PROVE  Shaped(Row(t, p, p, {})) /\ Refers(Row(t, p, p, {}), keys)
  BY DEF Account, Alone, RowsHold
<1>1. t \in DOMAIN Tables
  BY DEF Tables
<1> QED
  BY <1>1 DEF Shaped, Refers, Row, SeededTables, Parent, Key

LEMMA ProfileRefers ==
  ASSUME NEW p, p # Shared, NEW keys, <<"users", p, p>> \in keys
  PROVE  RowsHold(Profile(p), keys)
<1> SUFFICES ASSUME NEW t \in {"career_profiles", "profile_experiences", "profile_education",
                               "profile_projects", "profile_certifications", "profile_skills"}
             PROVE  Shaped(Row(t, p, p, {})) /\ Refers(Row(t, p, p, {}), keys)
  BY DEF Profile, Alone, RowsHold
<1>1. t \in DOMAIN Tables
  BY DEF Tables
<1> QED
  BY <1>1 DEF Shaped, Refers, Row, SeededTables, Parent, Key

LEMMA PostingRefers ==
  ASSUME NEW at, NEW keys, at = Person => <<"users", at, at>> \in keys, <<"jobs", at, at>> \in keys
  PROVE  RowsHold(Posting(at), keys)
<1> SUFFICES ASSUME NEW t \in {"jobs", "job_chunks"}
             PROVE  Shaped(Row(t, at, at, {})) /\ Refers(Row(t, at, at, {}), keys)
  BY DEF Posting, RowsHold
<1>1. t \in DOMAIN Tables
  BY DEF Tables
<1> QED
  BY <1>1 DEF Shaped, Refers, Row, SeededTables, Parent, Key, Named, OwnerFor

LEMMA ScoredRefers ==
  ASSUME NEW p, NEW at, Whose(p, at), NEW keys,
         <<"users", p, p>> \in keys, <<"job_matches", p, at>> \in keys
  PROVE  RowsHold(Scored(p, at), keys)
<1> SUFFICES ASSUME NEW t \in {"job_matches", "match_components", "skill_gaps"}
             PROVE  Shaped(Row(t, p, at, {})) /\ Refers(Row(t, p, at, {}), keys)
  BY DEF Scored, RowsHold
<1>1. t \in DOMAIN Tables
  BY DEF Tables
<1> QED
  BY <1>1 DEF Shaped, Refers, Row, SeededTables, Parent, Key, Named, OwnerFor, Whose

LEMMA PlannedRefers ==
  ASSUME NEW p, NEW at, Whose(p, at), NEW keys, <<"users", p, p>> \in keys, <<"jobs", at, at>> \in keys,
         <<"skills", Shared, Shared>> \in keys, <<"learning_resources", Shared, Shared>> \in keys,
         <<"learning_recommendations", p, p>> \in keys
  PROVE  RowsHold(Planned(p, at), keys)
<1>1. /\ "learning_recommendations" \in DOMAIN Tables /\ "roadmap_milestones" \in DOMAIN Tables
      /\ "skill_gaps" \in DOMAIN Tables
      /\ Tables["learning_recommendations"].loose = {"jobs"}
      /\ Tables["roadmap_milestones"].loose = {"skills", "learning_resources"}
      /\ Tables["skill_gaps"].loose = {"learning_recommendations"}
  BY DEF Tables, Table, LearningRecommendation, RoadmapMilestone, SkillGap
<1>2. LET r == Row("learning_recommendations", p, at, {"jobs"}) IN Shaped(r) /\ Refers(r, keys)
  BY <1>1 DEF Shaped, Refers, Row, SeededTables, Parent, Key, Named, OwnerFor, Whose
<1>3. LET r == Row("roadmap_milestones", p, p, {"skills", "learning_resources"}) IN
        Shaped(r) /\ Refers(r, keys)
  BY <1>1 DEF Shaped, Refers, Row, SeededTables, Parent, Key, Named, OwnerFor, Whose
<1>4. LET r == Row("skill_gaps", p, at, {"learning_recommendations"}) IN
        Shaped(r) /\ Refers(r, keys)
  BY <1>1 DEF Shaped, Refers, Row, SeededTables, Parent, Key, Named, OwnerFor, Whose
<1> QED
  BY <1>2, <1>3, <1>4 DEF Planned, RowsHold

LEMMA ChatRefers ==
  ASSUME NEW p, p # Shared, NEW keys, <<"users", p, p>> \in keys, <<"ai_sessions", p, p>> \in keys
  PROVE  RowsHold(Chat(p), keys)
<1> DEFINE row(t) == Row(t, p, p, IF t = "ai_actions" THEN {"ai_sessions"} ELSE {})
<1> SUFFICES ASSUME NEW t \in {"ai_sessions", "messages", "ai_actions", "agent_steps"}
             PROVE  Shaped(row(t)) /\ Refers(row(t), keys)
  BY DEF Chat, RowsHold
<1>1. t \in DOMAIN Tables /\ "ai_sessions" \in Tables["ai_actions"].loose
  BY DEF Tables, Table, AiAction
<1> QED
  BY <1>1 DEF Shaped, Refers, Row, SeededTables, Parent, Key, Named, OwnerFor

LEMMA TailoredRefers ==
  ASSUME NEW p, NEW at, Whose(p, at), NEW keys, <<"users", p, p>> \in keys, <<"jobs", at, at>> \in keys
  PROVE  RowsHold(Tailored(p, at), keys)
<1>1. /\ "resumes" \in DOMAIN Tables /\ "resume_versions" \in DOMAIN Tables
      /\ "jobs" \in Tables["resume_versions"].loose
  BY DEF Tables, Table, ResumeVersion
<1>2. LET r == Row("resumes", p, p, {}) IN Shaped(r) /\ Refers(r, keys)
  BY <1>1 DEF Shaped, Refers, Row, SeededTables, Parent, Key, Named, OwnerFor, Whose
<1>3. LET r == Row("resume_versions", p, at, {"jobs"}) IN Shaped(r) /\ Refers(r, keys)
  BY <1>1 DEF Shaped, Refers, Row, SeededTables, Parent, Key, Named, OwnerFor, Whose
<1> QED
  BY <1>2, <1>3 DEF Tailored, RowsHold

LEMMA AppliedRefers ==
  ASSUME NEW p, NEW at, Whose(p, at), NEW keys, <<"users", p, p>> \in keys, <<"jobs", at, at>> \in keys,
         <<"applications", p, p>> \in keys, <<"resume_versions", p, p>> \in keys,
         <<"cover_letters", p, p>> \in keys, <<"application_emails", p, p>> \in keys,
         <<"ai_sessions", p, p>> \in keys
  PROVE  RowsHold(Applied(p, at), keys)
<1> DEFINE cover == Row("cover_letters", p, at, {"jobs", "applications", "resume_versions"})
           email  == Row("application_emails", p, at, {"jobs", "applications"})
           app    == Row("applications", p, at, Application.loose)
           request  == Row("approval_requests", p, p, ApprovalRequest.loose)
           event  == Row("application_events", p, p, {})
<1>1. /\ "cover_letters" \in DOMAIN Tables /\ "application_emails" \in DOMAIN Tables
      /\ "applications" \in DOMAIN Tables /\ "approval_requests" \in DOMAIN Tables
      /\ "application_events" \in DOMAIN Tables
      /\ Tables["cover_letters"].loose =
           {"jobs", "applications", "resume_versions", "cover_letters"}
      /\ Tables["application_emails"].loose = {"jobs", "applications"}
      /\ Tables["applications"].loose = Application.loose
      /\ Tables["approval_requests"].loose = ApprovalRequest.loose
  BY DEF Tables, Table, CoverLetter, ApplicationEmail
<1>2. /\ Application.loose = {"jobs", "resume_versions", "cover_letters",
                              "application_emails", "ai_sessions"}
      /\ ApprovalRequest.loose = {"applications", "ai_sessions", "users"}
  BY DEF Table, Application, ApprovalRequest
<1>3. Shaped(cover) /\ Refers(cover, keys)
  BY <1>1 DEF Shaped, Refers, Row, SeededTables, Parent, Key, Named, OwnerFor, Whose
<1>4. Shaped(email) /\ Refers(email, keys)
  BY <1>1 DEF Shaped, Refers, Row, SeededTables, Parent, Key, Named, OwnerFor, Whose
<1>5. Shaped(app) /\ Refers(app, keys)
  BY <1>1, <1>2 DEF Shaped, Refers, Row, SeededTables, Parent, Key, Named, OwnerFor, Whose
<1>6. Shaped(request) /\ Refers(request, keys)
  BY <1>1, <1>2 DEF Shaped, Refers, Row, SeededTables, Parent, Key, Named, OwnerFor, Whose
<1>7. Shaped(event) /\ Refers(event, keys)
  BY <1>1 DEF Shaped, Refers, Row, SeededTables, Parent, Key, Named, OwnerFor, Whose
<1> HIDE DEF cover, email, app, request, event
<1>8. Applied(p, at) = {cover, email, app, request, event}
  BY DEF Applied, cover, email, app, request, event
<1> QED
  BY <1>3, <1>4, <1>5, <1>6, <1>7, <1>8 DEF RowsHold

(* Rows that are made refer to what is there or to each other. *)
LEMMA MadeKeeps ==
  ASSUME TablesInv, NEW s, RowsHold(s, Keys(rows \cup s)), rows' = rows \cup s
  PROVE  TablesInv'
<1>1. Keys(rows) \subseteq Keys(rows \cup s)
  BY DEF Keys
<1>2. \A r \in rows : Refers(r, Keys(rows)) => Refers(r, Keys(rows \cup s))
  BY <1>1 DEF Refers
<1>3. \A r \in rows \cup s : Shaped(r) /\ Refers(r, Keys(rows \cup s))
  BY <1>2 DEF TablesInv, RowsHold
<1> QED
  BY <1>3 DEF TablesInv, Seeded, Posting, Row

(* A row is found by its key. *)
LEMMA KeyIsThere ==
  ASSUME NEW s, NEW r \in s
  PROVE  Key(r.table, r.owner, r.at) \in Keys(s)
BY DEF Keys, KeyOf

(* The database that is seeded, with a bystander who has everything. *)
LEMMA TablesFirst == Init => TablesInv
<1> SUFFICES ASSUME Init PROVE TablesInv
  OBVIOUS
<1> DEFINE p == Bystander
           keys == Keys(rows)
<1>1. rows = Seeded \cup Everything(p) /\ p # Person /\ p # Shared
  BY OwnersDiffer DEF Init
<1>2. ASSUME NEW at \in {p, Shared}
      PROVE  /\ Account(p) \subseteq rows /\ Profile(p) \subseteq rows
             /\ Chat(p) \subseteq rows /\ Posting(at) \subseteq rows
             /\ Tailored(p, at) \subseteq rows /\ Scored(p, at) \subseteq rows
             /\ Planned(p, at) \subseteq rows /\ Applied(p, at) \subseteq rows
  BY <1>1 DEF Everything, Seeded
<1>3. <<"users", p, p>> \in keys
  <2>1. Row("users", p, p, {}) \in rows
    BY <1>2 DEF Account, Alone
  <2> QED
    BY <2>1, KeyIsThere DEF Row, Key
<1>4. <<"ai_sessions", p, p>> \in keys
  <2>1. Row("ai_sessions", p, p, {}) \in rows
    BY <1>2 DEF Chat
  <2> QED
    BY <2>1, KeyIsThere DEF Row, Key
<1>5. ASSUME NEW at \in {p, Shared} PROVE <<"jobs", at, at>> \in keys
  <2>1. Row("jobs", at, at, {}) \in rows
    BY <1>2 DEF Posting
  <2> QED
    BY <2>1, KeyIsThere DEF Row, Key
<1>6. ASSUME NEW at \in {p, Shared} PROVE <<"job_matches", p, at>> \in keys
  <2>1. Row("job_matches", p, at, {}) \in rows
    BY <1>2 DEF Scored
  <2> QED
    BY <2>1, KeyIsThere DEF Row, Key
<1>7. <<"skills", Shared, Shared>> \in keys /\ <<"learning_resources", Shared, Shared>> \in keys
  <2>1. /\ Row("skills", Shared, Shared, {}) \in rows
        /\ Row("learning_resources", Shared, Shared, {}) \in rows
    BY <1>1 DEF Seeded, SeededTables
  <2> QED
    BY <2>1, KeyIsThere DEF Row, Key
<1>8. /\ <<"learning_recommendations", p, p>> \in keys /\ <<"resume_versions", p, p>> \in keys
      /\ <<"applications", p, p>> \in keys /\ <<"cover_letters", p, p>> \in keys
      /\ <<"application_emails", p, p>> \in keys
  <2>1. /\ Row("learning_recommendations", p, p, {"jobs"}) \in rows
        /\ Row("resume_versions", p, p, {"jobs"}) \in rows
        /\ Row("applications", p, p, Application.loose) \in rows
        /\ Row("cover_letters", p, p, {"jobs", "applications", "resume_versions"}) \in rows
        /\ Row("application_emails", p, p, {"jobs", "applications"}) \in rows
    BY <1>2 DEF Planned, Tailored, Applied
  <2> QED
    BY <2>1, KeyIsThere DEF Row, Key
<1> HIDE DEF keys, p
<1>9. ASSUME NEW at \in {p, Shared}
      PROVE  /\ RowsHold(Tailored(p, at), keys) /\ RowsHold(Scored(p, at), keys)
             /\ RowsHold(Planned(p, at), keys) /\ RowsHold(Applied(p, at), keys)
  <2>1. Whose(p, at)
    BY <1>1 DEF Whose
  <2>2. <<"jobs", at, at>> \in keys /\ <<"job_matches", p, at>> \in keys
    BY <1>5, <1>6
  <2> QED
    BY <1>3, <1>4, <1>7, <1>8, <2>1, <2>2, TailoredRefers, ScoredRefers, PlannedRefers,
       AppliedRefers
<1>10. /\ RowsHold(Account(p), keys) /\ RowsHold(Profile(p), keys) /\ RowsHold(Chat(p), keys)
  BY <1>1, <1>3, <1>4, AccountRefers, ProfileRefers, ChatRefers
<1>11. RowsHold(Posting(p), keys) /\ RowsHold(Posting(Shared), keys)
  BY <1>1, <1>5, OwnersDiffer, PostingRefers
<1>12. RowsHold({Row(t, Shared, Shared, {}) : t \in SeededTables}, keys)
  <2> SUFFICES ASSUME NEW t \in SeededTables
               PROVE  /\ Shaped(Row(t, Shared, Shared, {}))
                      /\ Refers(Row(t, Shared, Shared, {}), keys)
    BY DEF RowsHold
  <2>1. t \in DOMAIN Tables
    BY DEF Tables, SeededTables
  <2> QED
    BY <2>1, OwnersDiffer DEF Shaped, Refers, Row, SeededTables
<1>13. \A r \in rows : Shaped(r) /\ Refers(r, keys)
  <2> SUFFICES ASSUME NEW r \in rows PROVE Shaped(r) /\ Refers(r, keys)
    OBVIOUS
  <2>1. CASE r \in Seeded
    BY <1>11, <1>12, <2>1 DEF Seeded, RowsHold
  <2>2. CASE r \in Everything(p)
    BY <1>9, <1>10, <1>11, <2>2 DEF Everything, RowsHold
  <2> QED
    BY <1>1, <2>1, <2>2
<1> QED
  BY <1>1, <1>13 DEF TablesInv, keys

(* What the person has, a reference finds. *)
LEMMA TheirUser ==
  ASSUME TablesInv, NEW t, Has(Person, t), t # "audit_logs"
  PROVE  <<"users", Person, Person>> \in Keys(rows)
BY DEF TablesInv, Has, Refers, Key

LEMMA TheirKey ==
  ASSUME NEW t, Has(Person, t), t # "job_matches"
  PROVE  <<t, Person, Person>> \in Keys(rows)
BY DEF Has, Keys, KeyOf, Key

(* A posting that is read is there, with what is seeded. *)
LEMMA ReadsIsThere ==
  ASSUME TablesInv, NEW at \in {Person, Shared}, Reads(at)
  PROVE  /\ <<"jobs", at, at>> \in Keys(rows)
         /\ <<"skills", Shared, Shared>> \in Keys(rows)
         /\ <<"learning_resources", Shared, Shared>> \in Keys(rows)
         /\ Whose(Person, at)
<1>1. /\ Row("skills", Shared, Shared, {}) \in rows
      /\ Row("learning_resources", Shared, Shared, {}) \in rows
      /\ Row("jobs", Shared, Shared, {}) \in rows
  BY DEF TablesInv, Seeded, SeededTables, Posting
<1>2. /\ <<"skills", Shared, Shared>> \in Keys(rows)
      /\ <<"learning_resources", Shared, Shared>> \in Keys(rows)
      /\ <<"jobs", Shared, Shared>> \in Keys(rows)
  BY <1>1, KeyIsThere DEF Row, Key
<1>3. at = Person => <<"jobs", Person, Person>> \in Keys(rows)
  BY TheirKey, OwnersDiffer DEF Reads
<1> QED
  BY <1>2, <1>3, OwnersDiffer DEF Whose

(* The steps that make rows. *)
Makes ==
  \/ SignsUp \/ KeepsProfile \/ AddsPosting \/ OpensChat
  \/ \E at \in {Person, Shared} : IsScored(at) \/ Plans(at) \/ Tailors(at) \/ Applies(at)

LEMMA MakesKeeps == ASSUME TablesInv, Makes PROVE TablesInv' /\ rows \subseteq rows'
<1> DEFINE After(s) == Keys(rows \cup s)
<1>0. ASSUME NEW s PROVE Keys(rows) \subseteq After(s) /\ Keys(s) \subseteq After(s)
  BY DEF Keys
<1>1. ASSUME NEW s, Made(s), RowsHold(s, After(s)) PROVE TablesInv' /\ rows \subseteq rows'
  BY <1>1, MadeKeeps DEF Made
<1>2. Person # Shared
  BY OwnersDiffer
<1> HIDE DEF After
<1>3. CASE SignsUp
  <2>1. <<"users", Person, Person>> \in Keys(Account(Person))
    <3>1. Row("users", Person, Person, {}) \in Account(Person)
      BY DEF Account, Alone
    <3> QED
      BY <3>1, KeyIsThere DEF Row, Key
  <2>2. RowsHold(Account(Person), After(Account(Person)))
    BY <1>0, <1>2, <2>1, AccountRefers
  <2> QED
    BY <1>1, <1>3, <2>2 DEF SignsUp
<1>4. CASE KeepsProfile
  <2>1. <<"users", Person, Person>> \in Keys(rows)
    BY <1>4, TheirUser DEF KeepsProfile
  <2>2. RowsHold(Profile(Person), After(Profile(Person)))
    BY <1>0, <1>2, <2>1, ProfileRefers
  <2> QED
    BY <1>1, <1>4, <2>2 DEF KeepsProfile
<1>5. CASE AddsPosting
  <2>1. <<"users", Person, Person>> \in Keys(rows)
    BY <1>5, TheirUser DEF AddsPosting
  <2>2. <<"jobs", Person, Person>> \in Keys(Posting(Person))
    <3>1. Row("jobs", Person, Person, {}) \in Posting(Person)
      BY DEF Posting
    <3> QED
      BY <3>1, KeyIsThere DEF Row, Key
  <2>3. RowsHold(Posting(Person), After(Posting(Person)))
    BY <1>0, <2>1, <2>2, PostingRefers
  <2> QED
    BY <1>1, <1>5, <2>3 DEF AddsPosting
<1>6. CASE OpensChat
  <2>1. <<"users", Person, Person>> \in Keys(rows)
    BY <1>6, TheirUser DEF OpensChat
  <2>2. <<"ai_sessions", Person, Person>> \in Keys(Chat(Person))
    <3>1. Row("ai_sessions", Person, Person, {}) \in Chat(Person)
      BY DEF Chat
    <3> QED
      BY <3>1, KeyIsThere DEF Row, Key
  <2>3. RowsHold(Chat(Person), After(Chat(Person)))
    BY <1>0, <1>2, <2>1, <2>2, ChatRefers
  <2> QED
    BY <1>1, <1>6, <2>3 DEF OpensChat
<1>7. ASSUME NEW at \in {Person, Shared}, IsScored(at) PROVE TablesInv' /\ rows \subseteq rows'
  <2>1. <<"users", Person, Person>> \in Keys(rows) /\ Whose(Person, at)
    BY <1>7, TheirUser, ReadsIsThere DEF IsScored
  <2>2. <<"job_matches", Person, at>> \in Keys(Scored(Person, at))
    <3>1. Row("job_matches", Person, at, {}) \in Scored(Person, at)
      BY DEF Scored
    <3> QED
      BY <3>1, KeyIsThere DEF Row, Key
  <2>3. RowsHold(Scored(Person, at), After(Scored(Person, at)))
    BY <1>0, <2>1, <2>2, ScoredRefers
  <2> QED
    BY <1>1, <1>7, <2>3 DEF IsScored
<1>8. ASSUME NEW at \in {Person, Shared}, Plans(at) PROVE TablesInv' /\ rows \subseteq rows'
  <2> DEFINE s == Planned(Person, at)
  <2>1. <<"users", Person, Person>> \in Keys(rows)
    BY <1>8, TheirUser DEF Plans
  <2>2. /\ <<"jobs", at, at>> \in Keys(rows) /\ <<"skills", Shared, Shared>> \in Keys(rows)
        /\ <<"learning_resources", Shared, Shared>> \in Keys(rows) /\ Whose(Person, at)
    BY <1>8, ReadsIsThere DEF Plans
  <2>3. <<"learning_recommendations", Person, Person>> \in Keys(s)
    <3>1. Row("learning_recommendations", Person, at, {"jobs"}) \in s
      BY DEF Planned
    <3> QED
      BY <3>1, KeyIsThere DEF Row, Key
  <2> HIDE DEF s
  <2>4. /\ <<"users", Person, Person>> \in After(s) /\ <<"jobs", at, at>> \in After(s)
        /\ <<"skills", Shared, Shared>> \in After(s)
        /\ <<"learning_resources", Shared, Shared>> \in After(s)
        /\ <<"learning_recommendations", Person, Person>> \in After(s)
    BY <1>0, <2>1, <2>2, <2>3
  <2>5. RowsHold(s, After(s))
    BY <2>2, <2>4, PlannedRefers DEF s
  <2> QED
    BY <1>1, <1>8, <2>5 DEF Plans, s
<1>9. ASSUME NEW at \in {Person, Shared}, Tailors(at) PROVE TablesInv' /\ rows \subseteq rows'
  <2>1. <<"users", Person, Person>> \in Keys(rows)
    BY <1>9, TheirUser DEF Tailors
  <2>2. <<"jobs", at, at>> \in Keys(rows) /\ Whose(Person, at)
    BY <1>9, ReadsIsThere DEF Tailors
  <2>3. RowsHold(Tailored(Person, at), After(Tailored(Person, at)))
    BY <1>0, <2>1, <2>2, TailoredRefers
  <2> QED
    BY <1>1, <1>9, <2>3 DEF Tailors
<1>10. ASSUME NEW at \in {Person, Shared}, Applies(at) PROVE TablesInv' /\ rows \subseteq rows'
  <2> DEFINE s == Applied(Person, at)
  <2>1. /\ <<"users", Person, Person>> \in Keys(rows)
        /\ <<"resume_versions", Person, Person>> \in Keys(rows)
        /\ <<"ai_sessions", Person, Person>> \in Keys(rows)
    BY <1>10, TheirUser, TheirKey DEF Applies
  <2>2. <<"jobs", at, at>> \in Keys(rows) /\ Whose(Person, at)
    BY <1>10, ReadsIsThere DEF Applies
  <2>3. /\ <<"applications", Person, Person>> \in Keys(s)
        /\ <<"cover_letters", Person, Person>> \in Keys(s)
        /\ <<"application_emails", Person, Person>> \in Keys(s)
    <3>1. /\ Row("applications", Person, at, Application.loose) \in s
          /\ Row("cover_letters", Person, at, {"jobs", "applications", "resume_versions"}) \in s
          /\ Row("application_emails", Person, at, {"jobs", "applications"}) \in s
      BY DEF Applied
    <3> HIDE DEF s
    <3> QED
      BY <3>1, KeyIsThere DEF Row, Key
  <2> HIDE DEF s
  <2>4. /\ <<"users", Person, Person>> \in After(s) /\ <<"jobs", at, at>> \in After(s)
        /\ <<"resume_versions", Person, Person>> \in After(s)
        /\ <<"ai_sessions", Person, Person>> \in After(s)
        /\ <<"applications", Person, Person>> \in After(s)
        /\ <<"cover_letters", Person, Person>> \in After(s)
        /\ <<"application_emails", Person, Person>> \in After(s)
    BY <1>0, <2>1, <2>2, <2>3
  <2>5. RowsHold(s, After(s))
    BY <2>2, <2>4, AppliedRefers DEF s
  <2> QED
    BY <1>1, <1>10, <2>5 DEF Applies, s
<1> QED
  BY <1>3, <1>4, <1>5, <1>6, <1>7, <1>8, <1>9, <1>10 DEF Makes

(* Of a deletion what is not the person's stays, and a table that is written *)
(* anew takes nothing along.                                                *)
LEMMA RemovedKeeps ==
  ASSUME TablesInv, AccountRemoved
  PROVE  /\ TablesInv' /\ rows' = rows \ Theirs
<1>1. Has(Person, "users") /\ OfPerson("users") \cap rows = OfPerson("users")
  BY DEF AccountRemoved, Deletes, OfPerson, Has
<1>2. rows' = rows \ Theirs
  BY <1>1, AccountFalls DEF AccountRemoved, Deletes
<1>3. Seeded \subseteq rows'
  BY <1>2, OwnersDiffer DEF TablesInv, Seeded, Posting, Row, Theirs
<1>4. ASSUME NEW r \in rows', r.table # "audit_logs" PROVE Refers(r, Keys(rows'))
  <2>1. /\ r \in rows /\ r.owner # Person /\ Shaped(r) /\ Refers(r, Keys(rows))
    BY <1>2, <1>4 DEF Theirs, TablesInv
  <2>2. ASSUME NEW t \in r.names PROVE Named(r, t) \in Keys(rows')
    <3>1. PICK q \in rows : KeyOf(q) = Named(r, t)
      BY <1>4, <2>1 DEF Refers, Keys
    <3>2. q.owner = OwnerFor(r, t)
      BY <3>1 DEF KeyOf, Named, Key
    <3>3. q.owner # Person
      BY <2>1, <3>2, OwnersDiffer DEF OwnerFor, Shaped
    <3>4. q \in rows'
      BY <1>2, <3>3 DEF Theirs
    <3> QED
      BY <3>1, <3>4 DEF Keys
  <2> QED
    BY <2>1, <2>2 DEF Refers
<1>5. \A r \in rows' : Shaped(r)
  BY <1>2 DEF TablesInv
<1>6. \A r \in rows' : Refers(r, Keys(rows'))
  BY <1>4 DEF Refers
<1> QED
  BY <1>2, <1>3, <1>5, <1>6 DEF TablesInv

(* A table that is written anew. *)
LEMMA LeafKeeps ==
  ASSUME TablesInv, NEW table \in Leaves, Deletes(OfPerson(table))
  PROVE  TablesInv' /\ rows' = rows \ OfPerson(table)
<1>1. OfPerson(table) \in SUBSET rows /\ OfPerson(table) \cap rows = OfPerson(table)
  BY DEF OfPerson
<1>2. rows' = rows \ OfPerson(table)
  <2>1. \A r \in OfPerson(table) : r.table \in Leaves
    BY DEF OfPerson
  <2>2. Taken(OfPerson(table)) = OfPerson(table)
    BY <1>1, <2>1, LeavesFall
  <2> QED
    BY <1>1, <2>2 DEF Deletes
<1>3. Seeded \subseteq rows'
  BY <1>2, OwnersDiffer DEF TablesInv, Seeded, Posting, Row, OfPerson
<1>4. ASSUME NEW keys \in Keys(rows), keys[1] \notin Leaves PROVE keys \in Keys(rows')
  <2>1. PICK q \in rows : keys = KeyOf(q)
    BY DEF Keys
  <2>2. q.table \notin Leaves
    BY <1>4, <2>1 DEF KeyOf, Key
  <2> QED
    BY <1>2, <2>1, <2>2 DEF Keys, OfPerson
<1>5. ASSUME NEW r \in rows' PROVE Shaped(r) /\ Refers(r, Keys(rows'))
  <2>1. r \in rows /\ Shaped(r) /\ Refers(r, Keys(rows))
    BY <1>2 DEF TablesInv
  <2>2. \A t : Named(r, t)[1] = t
    BY DEF Named, Key
  <2>3. ASSUME NEW t \in r.names PROVE t \notin Leaves
    BY <2>1, ReferencesAre DEF Shaped
  <2>4. "users" \notin Leaves /\ \A t \in DOMAIN Parent : Parent[t] \notin Leaves
    BY DEF Leaves, Parent
  <2>5. Key("users", Person, Person)[1] = "users"
    BY DEF Key
  <2> QED
    BY <1>4, <2>1, <2>2, <2>3, <2>4, <2>5 DEF Refers
<1> QED
  BY <1>2, <1>3, <1>5 DEF TablesInv

(* A step keeps the tables whole, and takes a user only with all of Theirs.  *)
LEMMA TablesStep ==
  ASSUME TablesInv, [Next]_sVars
  PROVE  /\ TablesInv'
         /\ \/ rows' = rows \ Theirs
            \/ \A r \in rows : r.table = "users" => r \in rows'
<1>1. CASE UNCHANGED rows
  BY <1>1 DEF TablesInv, Seeded, Posting, Row, Keys
<1>2. CASE Makes
  BY <1>2, MakesKeeps
<1>3. CASE AccountRemoved
  BY <1>3, RemovedKeeps
<1>4. ASSUME NEW table, Rewritten(table) \/ EntryRemoved(table)
      PROVE  TablesInv' /\ \A r \in rows : r.table = "users" => r \in rows'
  <2>1. table \in Leaves /\ Deletes(OfPerson(table))
    BY <1>4 DEF Rewritten, EntryRemoved, Leaves
  <2> QED
    BY <2>1, LeafKeeps DEF OfPerson, Leaves
<1>5. ASSUME NEW table, SoftDeleted(table) PROVE UNCHANGED rows
  BY <1>5 DEF SoftDeleted
<1> QED
  BY <1>1, <1>2, <1>3, <1>4, <1>5 DEF Next, Makes, sVars

(* What a loose column names is there. *)
LEMMA LooseAreThere == TablesInv => LooseRefsHold
BY DEF TablesInv, LooseRefsHold, Refers, Keys

(* Who goes leaves the audit trail and takes nothing else. *)
LEMMA TheirsGo ==
  ASSUME TablesInv, [Next]_sVars, Has(Person, "users"), ~ Has(Person, "users")'
  PROVE  /\ \A r \in rows' : r.owner = Person => r.table = "audit_logs"
         /\ \A r \in rows : r.owner # Person => r \in rows'
<1>1. rows' = rows \ Theirs
  BY TablesStep DEF Has
<1> QED
  BY <1>1 DEF Theirs

(* What holds of the database whatever part moves. *)
TablesHold == (part = "schema" => TablesInv) /\ (part # "schema" => rows = {})

LEMMA TablesInvariant == ServicesSpec => []TablesHold
<1>1. ServicesInit => TablesHold
  BY TablesFirst DEF ServicesInit, NoSchema, TablesHold
<1>2. TablesHold /\ [ServicesNext]_servicesVars => TablesHold'
  <2> SUFFICES ASSUME TablesHold, [ServicesNext]_servicesVars PROVE TablesHold'
    OBVIOUS
  <2>1. CASE part = "schema"
    BY <2>1, OnePartMoves, TablesStep DEF TablesHold
  <2>2. CASE part # "schema"
    BY <2>2, OnePartMoves DEF TablesHold, sVars
  <2> QED
    BY <2>1, <2>2
<1> QED
  BY <1>1, <1>2, PTL DEF ServicesSpec, servicesVars

(* However an account came to what it has, deleting it leaves nothing of it  *)
(* but the audit trail and takes nothing of anybody else; and no column      *)
(* without a foreign key ever names a row that is gone (models/*.py,         *)
(* domain/account/deletion.py).                                              *)
THEOREM TablesGoWhole == ServicesSpec => AccountRowsGoWhole
<1> DEFINE GoesWhole ==
      Has(Person, "users") /\ ~Has(Person, "users")' =>
        /\ \A r \in rows' : r.owner = Person => r.table = "audit_logs"
        /\ \A r \in rows : r.owner # Person => r \in rows'
<1>1. ASSUME TablesHold PROVE LooseRefsHold
  <2>1. CASE part = "schema"
    BY <1>1, <2>1, LooseAreThere DEF TablesHold
  <2>2. CASE rows = {}
    BY <2>2 DEF LooseRefsHold
  <2> QED
    BY <1>1, <2>1, <2>2 DEF TablesHold
<1>2. ASSUME TablesHold, [ServicesNext]_servicesVars PROVE [GoesWhole]_sVars
  <2>1. SUFFICES ASSUME ~ UNCHANGED sVars, Has(Person, "users"), ~ Has(Person, "users")'
                 PROVE  GoesWhole
    OBVIOUS
  <2>2. part = "schema"
    BY <1>2, <2>1, OnePartMoves
  <2>3. TablesInv /\ [Next]_sVars
    BY <1>2, <2>2, OnePartMoves DEF TablesHold
  <2> QED
    BY <2>1, <2>3, TheirsGo
<1>3. [][GoesWhole]_sVars => PersonGoesWhole
  BY DEF PersonGoesWhole
<1> QED
  BY <1>1, <1>2, <1>3, TablesInvariant, PTL
     DEF ServicesSpec, servicesVars, AccountRowsGoWhole
=============================================================================
