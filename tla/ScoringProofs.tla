----------------------------- MODULE ScoringProofs -----------------------------
(***************************************************************************)
(* What MCServices checks of the score of a posting and of the overview of *)
(* a career, for any profiles, postings, catalogues and people.  A sum over*)
(* a set is met through the smallest set for which a claim about it fails, *)
(* a list that is put in order through the number of those ahead.          *)
(***************************************************************************)
EXTENDS ComputationsProofs

(* A step of the services is a step of the part that moves, and leaves the  *)
(* rest alone.                                                              *)
LEMMA OneScoreMoves ==
  ASSUME [ServicesNext]_servicesVars
  PROVE  /\ part' = part
         /\ part = "scorer" => [S!Next]_scorerVars
         /\ part # "scorer" => UNCHANGED scorerVars
         /\ part = "career" => [C!Next]_careerVars
         /\ part # "career" => UNCHANGED careerVars
BY DEF ServicesNext, servicesVars

-----------------------------------------------------------------------------
(* The score.  Sums are taken over sets: those of a finite set with a claim  *)
(* that fails have a smallest one.                                           *)

(* Of any subsets of a finite set there is one without a smaller one. *)
LEMMA SmallestIsThere ==
  ASSUME NEW E, IsFiniteSet(E), NEW bad, bad \subseteq SUBSET E, bad # {}
  PROVE  \E s \in bad : \A t \in SUBSET s : t # s => t \notin bad
<1>1. IsWellFoundedOn(StrictSubsetOrdering(E), SUBSET E)
  BY FS_FiniteSubsetsOfFinite, FS_StrictSubsetOrderingWellFounded
<1>2. PICK s \in bad : \A t \in bad : <<t, s>> \notin StrictSubsetOrdering(E)
  BY <1>1, WFMin
<1>3. ASSUME NEW t \in SUBSET s, t # s, t \in bad PROVE FALSE
  <2>1. <<t, s>> \in StrictSubsetOrdering(E)
    BY <1>3 DEF StrictSubsetOrdering
  <2> QED
    BY <1>2, <1>3, <2>1
<1> QED
  BY <1>3

(* What adds up the values of a set, in the order in which they are chosen.  *)
Chosen(s) == CHOOSE x \in s : TRUE
AddsUp(f, E, w) ==
  f = [s \in SUBSET E |-> IF s = {} THEN 0 ELSE w[Chosen(s)] + f[s \ {Chosen(s)}]]
Counts(w, E) == \A x \in E : w[x] \in Nat
Splits(f, E, w) ==
  \A s \in SUBSET E : f[s] \in Nat /\ \A x \in s : f[s] = w[x] + f[s \ {x}]

LEMMA AddsUpIs ==
  ASSUME NEW f, NEW E, NEW w, AddsUp(f, E, w)
  PROVE  /\ f[{}] = 0
         /\ \A s \in SUBSET E : s # {} =>
              Chosen(s) \in s /\ f[s] = w[Chosen(s)] + f[s \ {Chosen(s)}]
<1>1. ASSUME NEW s \in SUBSET E
      PROVE  f[s] = IF s = {} THEN 0 ELSE w[Chosen(s)] + f[s \ {Chosen(s)}]
  BY Zenon DEF AddsUp
<1>2. \A s : s # {} => Chosen(s) \in s
  BY DEF Chosen
<1> QED
  BY <1>1, <1>2

LEMMA AddsUpExists ==
  ASSUME NEW E, IsFiniteSet(E), NEW w, Counts(w, E)
  PROVE  \E f : AddsUp(f, E, w)
<1> DEFINE N == Cardinality(E)
           Values == [SUBSET E -> Nat]
           zeros  == [s \in SUBSET E |-> 0]
           next(g) == [s \in SUBSET E |->
                         IF s = {} THEN 0 ELSE w[Chosen(s)] + g[s \ {Chosen(s)}]]
           move   == [p \in (1..N) \X Values |-> next(p[2])]
<1>1. N \in Nat /\ zeros \in Values
  BY FS_CardinalityType
<1>2. \A s \in SUBSET E : s # {} => Chosen(s) \in s
  BY DEF Chosen
<1>3. \A g \in Values : next(g) \in Values
  <2> SUFFICES ASSUME NEW g \in Values, NEW s \in SUBSET E, s # {}
               PROVE  w[Chosen(s)] + g[s \ {Chosen(s)}] \in Nat
    OBVIOUS
  <2>1. w[Chosen(s)] \in Nat
    BY <1>2 DEF Counts
  <2>2. g[s \ {Chosen(s)}] \in Nat
    OBVIOUS
  <2> QED
    BY <2>1, <2>2
<1>4. \A i \in 1..N, g \in Values : move[<<i, g>>] = next(g)
  OBVIOUS
<1>5. move \in [(1..N) \X Values -> Values]
  <2> HIDE DEF next, Values
  <2> QED
    BY <1>3
<1>6. \A g \in Values, s \in SUBSET E :
        next(g)[s] = IF s = {} THEN 0 ELSE w[Chosen(s)] + g[s \ {Chosen(s)}]
  OBVIOUS
<1> HIDE DEF N, Values, zeros, next, move
<1>7. PICK g : Recurs(g, N, Values, zeros, move)
  BY <1>1, <1>5, Recursion, Zenon
<1>8. g \in [0..N -> Values] /\ g[0] = zeros /\ \A i \in 1..N : g[i] = next(g[i - 1])
  <2>1. g \in [0..N -> Values] /\ g[0] = zeros /\ \A i \in 1..N : g[i] = move[<<i, g[i - 1]>>]
    BY <1>7 DEF Recurs
  <2>2. ASSUME NEW i \in 1..N PROVE g[i] = next(g[i - 1])
    <3>1. i - 1 \in 0..N
      BY <1>1
    <3>2. g[i - 1] \in Values
      BY <2>1, <3>1
    <3> QED
      BY <1>4, <2>1, <3>2
  <2> QED
    BY <2>1, <2>2
<1> DEFINE f == [s \in SUBSET E |-> g[Cardinality(s)][s]]
<1>9. ASSUME NEW s \in SUBSET E
      PROVE  f[s] = IF s = {} THEN 0 ELSE w[Chosen(s)] + f[s \ {Chosen(s)}]
  <2>1. IsFiniteSet(s) /\ Cardinality(s) <= N /\ Cardinality(s) \in Nat
    BY FS_Subset, FS_CardinalityType DEF N
  <2>2. CASE s = {}
    <3>1. Cardinality(s) = 0
      BY <2>2, FS_EmptySet
    <3> QED
      BY <1>8, <2>2, <3>1 DEF zeros
  <2>3. CASE s # {}
    <3> DEFINE rest == s \ {Chosen(s)}
    <3>1. Chosen(s) \in s /\ rest \in SUBSET E
      BY <1>2, <2>3
    <3>2. Cardinality(rest) = Cardinality(s) - 1
      BY <2>1, <3>1, FS_RemoveElement
    <3>3. Cardinality(rest) \in Nat
      BY <2>1, <3>1, FS_RemoveElement, FS_CardinalityType
    <3> HIDE DEF rest
    <3>4. Cardinality(s) \in 1..N /\ Cardinality(s) - 1 \in 0..N
      BY <1>1, <2>1, <3>2, <3>3
    <3>5. g[Cardinality(s)] = next(g[Cardinality(s) - 1]) /\ g[Cardinality(s) - 1] \in Values
      BY <1>8, <3>4
    <3>6. g[Cardinality(s)][s] = w[Chosen(s)] + g[Cardinality(s) - 1][rest]
      BY <1>6, <2>3, <3>5 DEF rest
    <3>7. f[rest] = g[Cardinality(s) - 1][rest]
      BY <3>1, <3>2
    <3>8. f[s] = g[Cardinality(s)][s]
      OBVIOUS
    <3> HIDE DEF f
    <3>9. f[s] = w[Chosen(s)] + f[rest]
      BY <3>6, <3>7, <3>8
    <3> QED
      BY <2>3, <3>9 DEF rest
  <2> QED
    BY <2>2, <2>3
<1>10. AddsUp(f, E, w)
  <2>1. f = [s \in SUBSET E |-> f[s]]
    OBVIOUS
  <2> HIDE DEF f
  <2> QED
    BY <1>9, <2>1 DEF AddsUp
<1> QED
  BY <1>10

(* The order does not matter. *)
LEMMA AnyFirst ==
  ASSUME NEW E, IsFiniteSet(E), NEW w, Counts(w, E), NEW f, AddsUp(f, E, w)
  PROVE  Splits(f, E, w)
<1> DEFINE Good(s) == f[s] \in Nat /\ \A x \in s : f[s] = w[x] + f[s \ {x}]
           bad == {s \in SUBSET E : ~ Good(s)}
<1>1. SUFFICES ASSUME bad # {} PROVE FALSE
  BY DEF Splits
<1>2. PICK s \in bad : \A t \in SUBSET s : t # s => t \notin bad
  <2> bad \subseteq SUBSET E
    OBVIOUS
  <2> HIDE DEF bad
  <2> QED
    BY <1>1, SmallestIsThere
<1>3. s \in SUBSET E /\ ~ Good(s)
  OBVIOUS
<1>4. ASSUME NEW t \in SUBSET s, t # s PROVE Good(t)
  <2>1. t \in SUBSET E
    BY <1>3
  <2>2. t \notin bad
    <3> HIDE DEF bad, Good
    <3> QED
      BY <1>2, <1>4
  <2> QED
    BY <2>1, <2>2
<1>5. CASE s = {}
  BY <1>3, <1>5, AddsUpIs
<1>6. CASE s # {}
  <2> DEFINE c == Chosen(s)
  <2>1. c \in s /\ f[s] = w[c] + f[s \ {c}]
    <3> HIDE DEF Good, bad
    <3> QED
      BY <1>3, <1>6, AddsUpIs
  <2>2. \A x \in s : w[x] \in Nat
    BY <1>3 DEF Counts
  <2> HIDE DEF c, Good, bad
  <2>3. \A x \in s : Good(s \ {x})
    BY <1>4
  <2>4. \A x, y \in s : Good((s \ {x}) \ {y})
    BY <1>4
  <2>5. f[s] \in Nat
    <3>1. f[s \ {c}] \in Nat
      BY <2>1, <2>3 DEF Good
    <3> QED
      BY <2>1, <2>2, <3>1
  <2>6. ASSUME NEW x \in s PROVE f[s] = w[x] + f[s \ {x}]
    <3>1. CASE x = c
      BY <2>1, <3>1
    <3>2. CASE x # c
      <4>1. x \in s \ {c} /\ c \in s \ {x} /\ (s \ {c}) \ {x} = (s \ {x}) \ {c}
        BY <2>1, <3>2
      <4>2. f[s \ {c}] = w[x] + f[(s \ {c}) \ {x}]
        BY <2>1, <2>3, <4>1 DEF Good
      <4>3. f[s \ {x}] = w[c] + f[(s \ {c}) \ {x}]
        BY <2>3, <4>1 DEF Good
      <4>4. f[(s \ {c}) \ {x}] \in Nat
        BY <2>1, <2>4 DEF Good
      <4> QED
        BY <2>1, <2>2, <4>2, <4>3, <4>4
    <3> QED
      BY <3>1, <3>2
  <2> QED
    BY <1>3, <2>5, <2>6 DEF Good
<1> QED
  BY <1>5, <1>6

(* More of it and heavier is more. *)
LEMMA MoreAddsUp ==
  ASSUME NEW B, IsFiniteSet(B), NEW A, A \subseteq B,
         NEW v, Counts(v, A), NEW w, Counts(w, B), \A x \in A : v[x] <= w[x],
         NEW f, AddsUp(f, A, v), NEW g, AddsUp(g, B, w)
  PROVE  f[A] <= g[B]
<1> DEFINE bad == {s \in SUBSET B : ~ (f[s \cap A] <= g[s])}
<1>0. IsFiniteSet(A)
  BY SubsetIsFinite
<1>1. \A s \in SUBSET A : f[s] \in Nat /\ \A x \in s : f[s] = v[x] + f[s \ {x}]
  BY <1>0, AnyFirst DEF Splits
<1>2. \A s \in SUBSET B : g[s] \in Nat /\ \A x \in s : g[s] = w[x] + g[s \ {x}]
  BY AnyFirst DEF Splits
<1>3. bad = {}
  <2> SUFFICES ASSUME bad # {} PROVE FALSE
    OBVIOUS
  <2>1. PICK s \in bad : \A t \in SUBSET s : t # s => t \notin bad
    <3> bad \subseteq SUBSET B
      OBVIOUS
    <3> HIDE DEF bad
    <3> QED
      BY SmallestIsThere
  <2>2. s \in SUBSET B /\ ~ (f[s \cap A] <= g[s]) /\ s \cap A \in SUBSET A
    OBVIOUS
  <2>3. CASE s = {}
    <3>1. f[{}] = 0 /\ g[{}] = 0 /\ s \cap A = {}
      BY <2>3, AddsUpIs
    <3> QED
      BY <2>2, <2>3, <3>1
  <2>4. CASE s # {}
    <3>1. PICK x \in s : TRUE
      BY <2>4
    <3> DEFINE t == s \ {x}
    <3>2. t \in SUBSET B /\ t \in SUBSET s /\ t # s /\ t \cap A \in SUBSET A
      BY <2>2, <3>1
    <3>3. f[t \cap A] <= g[t]
      <4>1. t \notin bad
        <5> HIDE DEF bad, t
        <5> QED
          BY <2>1, <3>2
      <4> QED
        BY <3>2, <4>1
    <3>4. /\ g[s] = w[x] + g[t] /\ g[t] \in Nat /\ w[x] \in Nat /\ g[s] \in Nat
          /\ f[t \cap A] \in Nat /\ f[s \cap A] \in Nat
      <4>1. w[x] \in Nat
        BY <2>2, <3>1 DEF Counts
      <4> QED
        BY <1>1, <1>2, <2>2, <3>1, <3>2, <4>1
    <3>5. CASE x \in A
      <4>1. x \in s \cap A /\ (s \cap A) \ {x} = t \cap A
        BY <3>5
      <4>2. f[s \cap A] = v[x] + f[t \cap A]
        BY <1>1, <2>2, <4>1
      <4>3. v[x] \in Nat /\ v[x] <= w[x]
        BY <3>5 DEF Counts
      <4> HIDE DEF t
      <4> QED
        BY <2>2, <3>3, <3>4, <4>2, <4>3
    <3>6. CASE x \notin A
      <4>1. s \cap A = t \cap A
        BY <3>6
      <4>2. f[s \cap A] = f[t \cap A]
        BY <4>1
      <4> HIDE DEF t
      <4> QED
        BY <2>2, <3>3, <3>4, <4>2
    <3> QED
      BY <3>5, <3>6
  <2> QED
    BY <2>3, <2>4
<1>4. B \notin bad /\ B \cap A = A
  BY <1>3
<1> QED
  BY <1>4

(* Fractions with a positive denominator, and those from 0 to 1.             *)
Fractions == Int \X (Nat \ {0})
Shares    == {a \in Fractions : 0 <= a[1] /\ a[1] <= a[2]}

(* a * c <= b * c only if a <= b, for a positive c. *)
LEMMA Cancel ==
  ASSUME NEW a \in Int, NEW b \in Int, NEW c \in Nat \ {0}, a * c <= b * c
  PROVE  a <= b
BY Z3

LEMMA Scale ==
  ASSUME NEW a \in Int, NEW b \in Int, NEW c \in Nat, a <= b
  PROVE  a * c <= b * c
BY Z3

LEMMA LeqTransitive ==
  ASSUME NEW a \in Fractions, NEW b \in Fractions, NEW c \in Fractions,
         S!Leq(a, b), S!Leq(b, c)
  PROVE  S!Leq(a, c)
<1>1. /\ a[1] \in Int /\ b[1] \in Int /\ c[1] \in Int
      /\ a[2] \in Nat \ {0} /\ b[2] \in Nat \ {0} /\ c[2] \in Nat \ {0}
  BY DEF Fractions
<1> DEFINE an == a[1]
           ad == a[2]
           bn == b[1]
           bd == b[2]
           cn == c[1]
           cd == c[2]
<1>2. an * bd <= bn * ad /\ bn * cd <= cn * bd
  BY DEF S!Leq
<1>t. /\ an \in Int /\ bn \in Int /\ cn \in Int
      /\ ad \in Nat \ {0} /\ bd \in Nat \ {0} /\ cd \in Nat \ {0}
  BY <1>1
<1> HIDE DEF an, ad, bn, bd, cn, cd
<1>m. an * bd \in Int /\ bn * ad \in Int /\ bn * cd \in Int /\ cn * bd \in Int
  BY <1>t
<1>3. (an * bd) * cd <= (bn * ad) * cd
  BY <1>2, <1>t, <1>m, Scale
<1>4. (bn * cd) * ad <= (cn * bd) * ad
  BY <1>2, <1>t, <1>m, Scale
<1>5. /\ (an * bd) * cd = (an * cd) * bd
      /\ (bn * ad) * cd = (bn * cd) * ad
      /\ (cn * bd) * ad = (cn * ad) * bd
  BY <1>t
<1>6. an * cd \in Int /\ cn * ad \in Int
  BY <1>t
<1>7. (an * cd) * bd <= (cn * ad) * bd
  <2>1. (an * cd) * bd \in Int /\ (bn * cd) * ad \in Int /\ (cn * ad) * bd \in Int
    BY <1>t, <1>6, <1>m
  <2> QED
    BY <1>3, <1>4, <1>5, <2>1
<1>8. an * cd <= cn * ad
  BY <1>6, <1>7, <1>t, Cancel
<1> QED
  BY <1>8 DEF S!Leq, an, ad, cn, cd

LEMMA LeqTotal ==
  ASSUME NEW a \in Fractions, NEW b \in Fractions
  PROVE  S!Leq(a, a) /\ (S!Leq(a, b) \/ S!Leq(b, a))
<1>1. a[1] \in Int /\ a[2] \in Int /\ b[1] \in Int /\ b[2] \in Int
  BY DEF Fractions
<1>2. a[1] * b[2] \in Int /\ b[1] * a[2] \in Int /\ a[1] * a[2] \in Int
  BY <1>1
<1> QED
  BY <1>2 DEF S!Leq

(* What is rounded keeps the order, and a share stays within its unit.       *)
LEMMA DivGrows ==
  ASSUME NEW n \in Int, NEW m \in Int, NEW d \in Nat \ {0}, NEW e \in Nat \ {0},
         n * e <= m * d
  PROVE  n \div d <= m \div e
<1> DEFINE p == n \div d
           q == m \div e
<1>1. /\ p \in Int /\ q \in Int
      /\ p * d <= n /\ n < p * d + d /\ q * e <= m /\ m < q * e + e
  BY Z3
<1> HIDE DEF p, q
<1>2. SUFFICES ASSUME q + 1 <= p PROVE FALSE
  BY <1>1 DEF p, q
<1>3. (q + 1) * e <= p * e
  BY <1>1, <1>2, Scale
<1>4. m + 1 <= (q + 1) * e
  BY <1>1
<1>5. m + 1 <= p * e
  BY <1>1, <1>3, <1>4
<1>6. (m + 1) * d <= (p * e) * d
  BY <1>1, <1>5, Scale
<1>7. (p * d) * e <= n * e
  BY <1>1, Scale
<1>8. (p * e) * d = (p * d) * e
  BY <1>1
<1>9. (m + 1) * d = m * d + d
  BY <1>1
<1> QED
  BY <1>1, <1>6, <1>7, <1>8, <1>9

LEMMA RoundedGrows ==
  ASSUME NEW a \in Fractions, NEW b \in Fractions, S!Leq(a, b), NEW unit \in Nat
  PROVE  S!Rounded(a, unit) <= S!Rounded(b, unit)
<1> DEFINE an == a[1]
           ad == a[2]
           bn == b[1]
           bd == b[2]
           n == 2 * an * unit + ad
           m == 2 * bn * unit + bd
<1>1. /\ an \in Int /\ bn \in Int /\ ad \in Nat \ {0} /\ bd \in Nat \ {0}
      /\ an * bd <= bn * ad
  BY DEF Fractions, S!Leq
<1>2. S!Rounded(a, unit) = n \div (2 * ad) /\ S!Rounded(b, unit) = m \div (2 * bd)
  BY DEF S!Rounded
<1> HIDE DEF an, ad, bn, bd
<1>3. n \in Int /\ m \in Int /\ 2 * ad \in Nat \ {0} /\ 2 * bd \in Nat \ {0}
  BY <1>1
<1>4. n * (2 * bd) <= m * (2 * ad)
  <2>1. (an * bd) * (4 * unit) <= (bn * ad) * (4 * unit)
    BY <1>1, Scale
  <2>2. n * (2 * bd) = (an * bd) * (4 * unit) + 2 * (ad * bd)
    BY <1>1
  <2>3. m * (2 * ad) = (bn * ad) * (4 * unit) + 2 * (ad * bd)
    BY <1>1
  <2>4. ad * bd \in Int /\ (an * bd) * (4 * unit) \in Int /\ (bn * ad) * (4 * unit) \in Int
    BY <1>1
  <2> QED
    BY <2>1, <2>2, <2>3, <2>4
<1> HIDE DEF n, m
<1>5. n \div (2 * ad) <= m \div (2 * bd)
  BY <1>3, <1>4, DivGrows
<1> QED
  BY <1>2, <1>5

LEMMA RoundedIs ==
  ASSUME NEW a \in Fractions, NEW unit \in Nat
  PROVE  /\ S!Rounded(a, unit) \in Int
         /\ a \in Shares => 0 <= S!Rounded(a, unit) /\ S!Rounded(a, unit) <= unit
<1>1. S!Rounded(a, unit) \in Int
  <2>1. a[1] \in Int /\ a[2] \in Nat \ {0}
    BY DEF Fractions
  <2>2. 2 * a[1] * unit + a[2] \in Int /\ 2 * a[2] \in Nat \ {0}
    BY <2>1
  <2> QED
    BY <2>2 DEF S!Rounded
<1>2. S!Zero \in Fractions /\ S!One \in Fractions
  BY DEF S!Zero, S!One, Fractions
<1>3. S!Rounded(S!Zero, unit) = 0 /\ S!Rounded(S!One, unit) = unit
  <2>1. S!Rounded(S!Zero, unit) = (2 * 0 * unit + 1) \div (2 * 1)
    BY DEF S!Rounded, S!Zero
  <2>2. S!Rounded(S!One, unit) = (2 * 1 * unit + 1) \div (2 * 1)
    BY DEF S!Rounded, S!One
  <2>3. 2 * 0 * unit + 1 = 1 /\ 2 * 1 * unit + 1 = 2 * unit + 1
    OBVIOUS
  <2>4. 1 \div 2 = 0 /\ (2 * unit + 1) \div 2 = unit
    OBVIOUS
  <2> QED
    BY <2>1, <2>2, <2>3, <2>4
<1>4. ASSUME a \in Shares PROVE S!Leq(S!Zero, a) /\ S!Leq(a, S!One)
  BY <1>4 DEF Shares, Fractions, S!Leq, S!Zero, S!One
<1> QED
  BY <1>1, <1>2, <1>3, <1>4, RoundedGrows

LEMMA PlusGrows ==
  ASSUME NEW a \in Fractions, NEW b \in Fractions, NEW c \in Fractions, NEW d \in Fractions,
         S!Leq(a, b), S!Leq(c, d)
  PROVE  S!Leq(S!Plus(a, c), S!Plus(b, d))
<1> DEFINE an == a[1]
           ad == a[2]
           bn == b[1]
           bd == b[2]
           cn == c[1]
           cd == c[2]
           dn == d[1]
           dd == d[2]
<1>1. /\ an \in Int /\ bn \in Int /\ cn \in Int /\ dn \in Int
      /\ ad \in Nat \ {0} /\ bd \in Nat \ {0} /\ cd \in Nat \ {0} /\ dd \in Nat \ {0}
      /\ an * bd <= bn * ad /\ cn * dd <= dn * cd
  BY DEF Fractions, S!Leq
<1>2. /\ S!Plus(a, c) = <<an * cd + cn * ad, ad * cd>>
      /\ S!Plus(b, d) = <<bn * dd + dn * bd, bd * dd>>
  BY DEF S!Plus
<1> HIDE DEF an, ad, bn, bd, cn, cd, dn, dd
<1>3. (an * bd) * (cd * dd) <= (bn * ad) * (cd * dd)
  <2>1. cd * dd \in Nat /\ an * bd \in Int /\ bn * ad \in Int
    BY <1>1
  <2> QED
    BY <1>1, <2>1, Scale
<1>4. (cn * dd) * (ad * bd) <= (dn * cd) * (ad * bd)
  <2>1. ad * bd \in Nat /\ cn * dd \in Int /\ dn * cd \in Int
    BY <1>1
  <2> QED
    BY <1>1, <2>1, Scale
<1>5. (an * cd + cn * ad) * (bd * dd) = (an * bd) * (cd * dd) + (cn * dd) * (ad * bd)
  BY <1>1
<1>6. (bn * dd + dn * bd) * (ad * cd) = (bn * ad) * (cd * dd) + (dn * cd) * (ad * bd)
  BY <1>1
<1>7. /\ (an * bd) * (cd * dd) \in Int /\ (bn * ad) * (cd * dd) \in Int
      /\ (cn * dd) * (ad * bd) \in Int /\ (dn * cd) * (ad * bd) \in Int
  BY <1>1
<1>8. (an * cd + cn * ad) * (bd * dd) <= (bn * dd + dn * bd) * (ad * cd)
  BY <1>3, <1>4, <1>5, <1>6, <1>7
<1> QED
  BY <1>2, <1>8 DEF S!Leq

(* Fractions and their sums, capped or not.                                  *)
LEMMA PlusIs ==
  ASSUME NEW a \in Fractions, NEW b \in Fractions
  PROVE  /\ S!Plus(a, b) \in Fractions
         /\ a[1] >= 0 /\ b[1] >= 0 => S!Plus(a, b)[1] >= 0
<1> DEFINE an == a[1]
           ad == a[2]
           bn == b[1]
           bd == b[2]
<1>1. an \in Int /\ bn \in Int /\ ad \in Nat \ {0} /\ bd \in Nat \ {0}
  BY DEF Fractions
<1>2. S!Plus(a, b) = <<an * bd + bn * ad, ad * bd>>
  BY DEF S!Plus
<1> HIDE DEF an, ad, bn, bd
<1>3. an * bd + bn * ad \in Int /\ ad * bd \in Nat \ {0}
  BY <1>1
<1>4. an >= 0 /\ bn >= 0 => an * bd + bn * ad >= 0
  BY <1>1
<1> QED
  BY <1>2, <1>3, <1>4 DEF Fractions, an, bn

LEMMA CappedGrows ==
  ASSUME NEW a \in Fractions, NEW b \in Fractions, S!Leq(a, b), a[1] >= 0, b[1] >= 0
  PROVE  /\ S!AtMost(S!One, a) \in Shares /\ S!AtMost(S!One, b) \in Shares
         /\ S!Leq(S!AtMost(S!One, a), S!AtMost(S!One, b))
<1>1. S!One \in Fractions
  BY DEF S!One, Fractions
<1>2. ASSUME NEW f \in Fractions, f[1] >= 0
      PROVE  /\ S!AtMost(S!One, f) \in Shares
             /\ S!AtMost(S!One, f) \in {S!One, f}
             /\ S!Leq(S!AtMost(S!One, f), f) /\ S!Leq(S!AtMost(S!One, f), S!One)
  <2>1. S!Leq(f, S!One) <=> f[1] <= f[2]
    BY DEF S!Leq, S!One, Fractions
  <2>2. S!Leq(S!One, f) \/ S!Leq(f, S!One)
    BY <1>1, LeqTotal
  <2>3. S!Leq(f, f) /\ S!Leq(S!One, S!One)
    BY <1>1, LeqTotal
  <2>4. S!One \in Shares /\ (f[1] <= f[2] => f \in Shares)
    BY <1>2 DEF Shares, S!One, Fractions
  <2> QED
    BY <2>1, <2>2, <2>3, <2>4 DEF S!AtMost
<1>3. S!AtMost(S!One, a) \in Fractions
  BY <1>2 DEF Shares
<1>4. CASE S!AtMost(S!One, b) = S!One
  BY <1>2, <1>4
<1>5. CASE S!AtMost(S!One, b) = b
  BY <1>2, <1>3, <1>5, LeqTransitive
<1> QED
  BY <1>2, <1>4, <1>5

-----------------------------------------------------------------------------
LEMMA SameSize ==
  ASSUME NEW E PROVE (S!IsFiniteSet(E) <=> IsFiniteSet(E)) /\ S!Cardinality(E) = Cardinality(E)
BY Zenon DEF S!IsFiniteSet, IsFiniteSet, S!Cardinality, Cardinality

(* Of finitely many fractions one is the greatest.                           *)
LEMMA GreatestFraction ==
  ASSUME NEW E, IsFiniteSet(E), E \subseteq Fractions, E # {}
  PROVE  \E m \in E : \A e \in E : S!Leq(e, m)
<1> DEFINE Tops(s) == \E m \in s : \A e \in s : S!Leq(e, m)
           bad == {s \in SUBSET E : s # {} /\ ~ Tops(s)}
<1>1. SUFFICES ASSUME bad # {} PROVE FALSE
  OBVIOUS
<1>2. PICK s \in bad : \A t \in SUBSET s : t # s => t \notin bad
  <2> bad \subseteq SUBSET E
    OBVIOUS
  <2> HIDE DEF bad
  <2> QED
    BY <1>1, SmallestIsThere
<1>3. s \in SUBSET E /\ s # {} /\ ~ Tops(s)
  OBVIOUS
<1>4. PICK x \in s : TRUE
  BY <1>3
<1> DEFINE t == s \ {x}
<1>5. t \notin bad
  <2> t \in SUBSET s /\ t # s
    BY <1>4
  <2> HIDE DEF bad, t
  <2> QED
    BY <1>2
<1>6. t \in SUBSET E /\ x \in Fractions /\ s = t \cup {x}
  BY <1>3, <1>4
<1>7. CASE t = {}
  <2>1. s = {x} /\ S!Leq(x, x)
    BY <1>6, <1>7, LeqTotal
  <2> QED
    BY <1>3, <2>1
<1>8. CASE t # {}
  <2>1. PICK m \in t : \A e \in t : S!Leq(e, m)
    BY <1>5, <1>6, <1>8
  <2> HIDE DEF bad, Tops, t
  <2>2. m \in Fractions /\ t \subseteq Fractions
    BY <1>6, <2>1
  <2>3. CASE S!Leq(x, m)
    <3>1. \A e \in s : S!Leq(e, m)
      BY <1>6, <2>1, <2>3
    <3> QED
      BY <1>3, <1>6, <3>1 DEF Tops
  <2>4. CASE S!Leq(m, x)
    <3>1. S!Leq(x, x)
      BY <1>6, LeqTotal
    <3>2. ASSUME NEW e \in t PROVE S!Leq(e, x)
      <4>1. e \in Fractions /\ S!Leq(e, m)
        BY <2>1, <2>2
      <4> QED
        BY <1>6, <2>2, <2>4, <4>1, LeqTransitive
    <3>3. \A e \in s : S!Leq(e, x)
      BY <1>6, <3>1, <3>2
    <3> QED
      BY <1>3, <1>4, <3>3 DEF Tops
  <2> QED
    BY <1>6, <2>2, <2>3, <2>4, LeqTotal
<1> QED
  BY <1>7, <1>8

LEMMA JaccardIs ==
  ASSUME NEW a, NEW b, IsFiniteSet(a), IsFiniteSet(b)
  PROVE  S!Jaccard(a, b) \in Shares
<1>1. CASE a = {} \/ b = {}
  BY <1>1 DEF S!Jaccard, S!Zero, Shares, Fractions
<1>2. CASE a # {} /\ b # {}
  <2> DEFINE all == a \cup b
  <2>1. IsFiniteSet(all) /\ Cardinality(all) \in Nat
    BY FS_Union, FS_CardinalityType
  <2>2. (a \cap b) \in SUBSET all
    OBVIOUS
  <2>3. all # {}
    BY <1>2
  <2> HIDE DEF all
  <2>4. /\ IsFiniteSet(a \cap b) /\ Cardinality(a \cap b) <= Cardinality(all)
        /\ Cardinality(all) # 0
    BY <2>1, <2>2, <2>3, FS_Subset, FS_EmptySet
  <2>5. Cardinality(a \cap b) \in Nat
    BY <2>4, FS_CardinalityType
  <2>6. S!Jaccard(a, b) = <<Cardinality(a \cap b), Cardinality(all)>>
    BY <1>2, SameSize DEF S!Jaccard, all
  <2> QED
    BY <2>1, <2>4, <2>5, <2>6 DEF Shares, Fractions
<1> QED
  BY <1>1, <1>2

Titled(titles) == IsFiniteSet(titles) /\ \A title \in titles : IsFiniteSet(title)

LEMMA BestIs ==
  ASSUME NEW target, IsFiniteSet(target), NEW titles, Titled(titles)
  PROVE  LET found == {S!Zero} \cup {S!Jaccard(target, t) : t \in titles} IN
         /\ S!BestJaccard(target, titles) \in found
         /\ \A f \in found : S!Leq(f, S!BestJaccard(target, titles))
         /\ found \subseteq Shares
<1> DEFINE alikes == [t \in titles |-> S!Jaccard(target, t)]
           each  == {alikes[t] : t \in DOMAIN alikes}
           found == {S!Zero} \cup {S!Jaccard(target, t) : t \in titles}
<1>1. IsFiniteSet(each)
  <2>1. IsFiniteSet(DOMAIN alikes) /\ alikes = [t \in DOMAIN alikes |-> alikes[t]]
    BY DEF Titled
  <2> HIDE DEF alikes
  <2> QED
    BY <2>1, ImageIsFinite
<1>2. each = {S!Jaccard(target, t) : t \in titles}
  OBVIOUS
<1>3. IsFiniteSet(found)
  <2>1. IsFiniteSet({S!Zero})
    BY FS_Singleton
  <2> HIDE DEF each
  <2> QED
    BY <1>1, <1>2, <2>1, FS_Union
<1>4. found \subseteq Shares
  <2>1. S!Zero \in Shares
    BY DEF S!Zero, Shares, Fractions
  <2>2. \A t \in titles : S!Jaccard(target, t) \in Shares
    BY JaccardIs DEF Titled
  <2> QED
    BY <2>1, <2>2
<1>5. found \subseteq Fractions /\ found # {}
  BY <1>4 DEF Shares
<1>6. S!BestJaccard(target, titles) = CHOOSE f \in found : \A g \in found : S!Leq(g, f)
  BY DEF S!BestJaccard
<1> HIDE DEF found
<1>7. \E f \in found : \A g \in found : S!Leq(g, f)
  BY <1>3, <1>5, GreatestFraction
<1>8. /\ S!BestJaccard(target, titles) \in found
      /\ \A g \in found : S!Leq(g, S!BestJaccard(target, titles))
  BY <1>6, <1>7
<1> QED
  BY <1>4, <1>8 DEF found

(* With more titles the best one is no further. *)
LEMMA BestGrows ==
  ASSUME NEW target, IsFiniteSet(target), NEW titles, NEW more, Titled(titles), Titled(more),
         titles \subseteq more
  PROVE  /\ S!BestJaccard(target, titles) \in Shares /\ S!BestJaccard(target, more) \in Shares
         /\ S!Leq(S!BestJaccard(target, titles), S!BestJaccard(target, more))
<1> DEFINE Found(e) == {S!Zero} \cup {S!Jaccard(target, t) : t \in e}
<1>1. Found(titles) \subseteq Found(more)
  OBVIOUS
<1>2. ASSUME NEW e, Titled(e)
      PROVE  /\ S!BestJaccard(target, e) \in Found(e) /\ Found(e) \subseteq Shares
             /\ \A f \in Found(e) : S!Leq(f, S!BestJaccard(target, e))
  BY <1>2, BestIs
<1> HIDE DEF Found
<1> QED
  BY <1>1, <1>2

(* The weights of some of the rows add up to a number, of more rows to no    *)
(* less.                                                                    *)
Rows == [skill : S!SkillIds, weight : Nat]

LEMMA WeightsGrow ==
  ASSUME NEW wants \in Seq(Rows), NEW some, NEW more, some \subseteq more,
         more \subseteq DOMAIN wants
  PROVE  /\ S!WeightOf(wants, some) \in Nat /\ S!WeightOf(wants, more) \in Nat
         /\ S!WeightOf(wants, some) <= S!WeightOf(wants, more)
         /\ \A i \in some : wants[i].weight <= S!WeightOf(wants, some)
<1> DEFINE w == [i \in DOMAIN wants |-> wants[i].weight]
<1>1. IsFiniteSet(DOMAIN wants) /\ \A i \in DOMAIN wants : wants[i] \in Rows
  <2>1. DOMAIN wants = 1..Len(wants) /\ 1 \in Int /\ Len(wants) \in Int
    OBVIOUS
  <2>2. IsFiniteSet(1..Len(wants))
    BY <2>1, FS_Interval
  <2> QED
    BY <2>1, <2>2
<1>2. \A i \in DOMAIN wants : w[i] \in Nat
  BY <1>1 DEF Rows
<1>3. ASSUME NEW I \in SUBSET DOMAIN wants
      PROVE  /\ Counts(w, I) /\ IsFiniteSet(I)
             /\ S!WeightOf(wants, I) = (CHOOSE f : AddsUp(f, I, w))[I]
  <2>1. Counts(w, I)
    BY <1>2 DEF Counts
  <2>2. IsFiniteSet(I)
    BY <1>1, SubsetIsFinite
  <2>3. S!WeightOf(wants, I) = (CHOOSE f : AddsUp(f, I, w))[I]
    <3>1. S!WeightOf(wants, I) =
            (CHOOSE f : f = [s \in SUBSET I |->
               IF s = {} THEN 0
               ELSE wants[CHOOSE x \in s : TRUE].weight + f[s \ {CHOOSE x \in s : TRUE}]])[I]
      BY Zenon DEF S!WeightOf, S!MapThenSumSet, S!MapThenFoldSet
    <3>2. \A s \in SUBSET I : s # {} =>
            w[CHOOSE x \in s : TRUE] = wants[CHOOSE x \in s : TRUE].weight
      <4> SUFFICES ASSUME NEW s \in SUBSET I, s # {}
                   PROVE  (CHOOSE x \in s : TRUE) \in DOMAIN wants
        OBVIOUS
      <4> QED
        OBVIOUS
    <3> HIDE DEF w
    <3> DEFINE Once(f) == [s \in SUBSET I |->
                 IF s = {} THEN 0
                 ELSE wants[CHOOSE x \in s : TRUE].weight + f[s \ {CHOOSE x \in s : TRUE}]]
               Weighed(f) == [s \in SUBSET I |->
                 IF s = {} THEN 0
                 ELSE w[CHOOSE x \in s : TRUE] + f[s \ {CHOOSE x \in s : TRUE}]]
    <3>3. \A f : Once(f) = Weighed(f)
      BY <3>2
    <3>4. \A f : AddsUp(f, I, w) <=> f = Weighed(f)
      BY DEF AddsUp, Chosen
    <3> HIDE DEF Once, Weighed
    <3>5. \A f : AddsUp(f, I, w) <=> f = Once(f)
      BY <3>3, <3>4
    <3>6. (CHOOSE f : AddsUp(f, I, w)) = (CHOOSE f : f = Once(f))
      BY <3>5
    <3> QED
      BY <3>1, <3>6 DEF Once
  <2> QED
    BY <2>1, <2>2, <2>3
<1> HIDE DEF w
<1>4. some \in SUBSET DOMAIN wants /\ more \in SUBSET DOMAIN wants
  OBVIOUS
<1>5. PICK f : AddsUp(f, some, w) /\ S!WeightOf(wants, some) = f[some]
  <2>1. \E f : AddsUp(f, some, w)
    BY <1>3, <1>4, AddsUpExists
  <2> QED
    BY <1>3, <1>4, <2>1
<1>6. PICK g : AddsUp(g, more, w) /\ S!WeightOf(wants, more) = g[more]
  <2>1. \E g : AddsUp(g, more, w)
    BY <1>3, <1>4, AddsUpExists
  <2> QED
    BY <1>3, <1>4, <2>1
<1>7. /\ f[some] \in Nat /\ g[more] \in Nat
      /\ \A i \in some : f[some] = w[i] + f[some \ {i}] /\ f[some \ {i}] \in Nat
  <2>1. Counts(w, some) /\ IsFiniteSet(some) /\ Counts(w, more) /\ IsFiniteSet(more)
    BY <1>3, <1>4
  <2>2. Splits(f, some, w) /\ Splits(g, more, w)
    BY <1>5, <1>6, <2>1, AnyFirst
  <2> QED
    BY <2>2 DEF Splits
<1>8. f[some] <= g[more]
  <2>1. Counts(w, some) /\ Counts(w, more) /\ IsFiniteSet(more)
    BY <1>3, <1>4
  <2>2. \A i \in some : w[i] <= w[i]
    BY <1>2, <1>4
  <2> QED
    BY <1>5, <1>6, <2>1, <2>2, MoreAddsUp
<1>9. ASSUME NEW i \in some PROVE wants[i].weight <= f[some]
  <2>1. f[some] = w[i] + f[some \ {i}] /\ f[some \ {i}] \in Nat
    BY <1>7
  <2>2. w[i] = wants[i].weight /\ w[i] \in Nat
    BY <1>2, <1>4 DEF w
  <2> QED
    BY <2>1, <2>2
<1> QED
  BY <1>5, <1>6, <1>7, <1>8, <1>9

-----------------------------------------------------------------------------
(* A profile that has grown out of another one.                              *)
Grown(p, q) ==
  /\ p.skills \subseteq q.skills /\ p.tech \subseteq q.tech /\ p.titles \subseteq q.titles
  /\ p.projectTech \subseteq q.projectTech /\ p.fields \subseteq q.fields
  /\ (p.projects => q.projects) /\ (p.degree => q.degree)
  /\ p.years = None => q.years = None
  /\ p.years # None => q.years # None /\ p.years <= q.years
  /\ q.seniority = p.seniority /\ q.roles = p.roles /\ q.floor = p.floor
  /\ q.locations = p.locations /\ q.modes = p.modes

Better(a, b) == a \in Shares /\ b \in Shares /\ S!Leq(a, b)

LEMMA GivenJob ==
  ASSUME NEW j, S!IsJob(j)
  PROVE  /\ j.required \in Seq(Rows) /\ j.preferred \in Seq(Rows) /\ IsFiniteSet(j.title)
         /\ j.expMin # None => j.expMin \in Nat
         /\ j.salaryMin # None => j.salaryMin \in Nat
         /\ j.salaryMax # None => j.salaryMax \in Nat
         /\ j.seniority # None => j.seniority \in DOMAIN S!SeniorityLadder
<1>1. /\ j.required \in Seq([skill : S!SkillIds, weight : Nat])
      /\ j.preferred \in Seq([skill : S!SkillIds, weight : Nat])
      /\ j.expMin \in Nat \cup {None} /\ j.salaryMin \in Nat \cup {None}
      /\ j.salaryMax \in Nat \cup {None}
      /\ j.seniority \in (DOMAIN S!SeniorityLadder) \cup {None}
      /\ S!IsFiniteSet(j.title)
  BY DEF S!IsJob, S!OrNone
<1> QED
  BY <1>1, SameSize DEF Rows

LEMMA GivenProfile ==
  ASSUME NEW p, S!IsProfile(p)
  PROVE  /\ Titled(p.titles) /\ Titled(p.roles) /\ p.degree \in BOOLEAN
         /\ p.years # None => p.years \in Nat
         /\ p.floor # None => p.floor \in Nat
         /\ p.seniority # None => p.seniority \in DOMAIN S!SeniorityLadder
<1>1. Titled(p.titles) /\ Titled(p.roles)
  BY SameSize DEF S!IsProfile, Titled
<1> QED
  BY <1>1 DEF S!IsProfile, S!OrNone

LEMMA Same == ASSUME NEW a \in Shares PROVE Better(a, a)
  BY LeqTotal DEF Better, Shares

(* The constants the dimensions give. *)
LEMMA Constants ==
  /\ S!Zero \in Shares /\ S!One \in Shares /\ <<1, 2>> \in Shares /\ <<4, 10>> \in Shares
  /\ <<3, 10>> \in Shares /\ <<6, 10>> \in Shares /\ <<2, 10>> \in Shares
  BY DEF Shares, Fractions, S!Zero, S!One

LEMMA ToOne ==
  ASSUME NEW a \in Shares PROVE Better(a, S!One) /\ Better(S!Zero, a)
  BY DEF Better, Shares, Fractions, S!Zero, S!One, S!Leq

LEMMA HeldGrows ==
  ASSUME NEW wants \in Seq(Rows), NEW p, NEW q, p.skills \subseteq q.skills
  PROVE  /\ S!Held(wants, p) \subseteq S!Held(wants, q)
         /\ S!Held(wants, q) \subseteq DOMAIN wants
  BY DEF S!Held

LEMMA BonusGrows ==
  ASSUME NEW j, S!IsJob(j), NEW p, NEW q, Grown(p, q)
  PROVE  Better(S!Bonus(p, j), S!Bonus(q, j))
<1> DEFINE likes == j.preferred
           m == Cardinality(S!Held(likes, p))
           n == Cardinality(S!Held(likes, q))
<1>1. likes \in Seq(Rows)
  BY GivenJob
<1>2. CASE likes = <<>>
  BY <1>2, Same, Constants DEF S!Bonus
<1>3. CASE likes # <<>>
  <2>1. Len(likes) \in Nat \ {0} /\ DOMAIN likes = 1..Len(likes)
    BY <1>1, <1>3
  <2>2. IsFiniteSet(DOMAIN likes) /\ Cardinality(DOMAIN likes) = Len(likes)
    <3>1. 1 \in Int /\ Len(likes) \in Int
      BY <2>1
    <3>2. /\ IsFiniteSet(1..Len(likes))
          /\ Cardinality(1..Len(likes)) =
               IF 1 > Len(likes) THEN 0 ELSE Len(likes) - 1 + 1
      BY <3>1, FS_Interval, Zenon
    <3> QED
      BY <2>1, <3>2
  <2>3. S!Held(likes, p) \subseteq S!Held(likes, q) /\ S!Held(likes, q) \subseteq DOMAIN likes
    BY <1>1, HeldGrows DEF Grown
  <2> HIDE DEF likes
  <2>4. IsFiniteSet(S!Held(likes, q)) /\ n <= Len(likes) /\ n \in Nat
    <3>1. S!Held(likes, q) \in SUBSET DOMAIN likes
      BY <2>3
    <3> QED
      BY <2>2, <3>1, FS_Subset, FS_CardinalityType
  <2>5. m <= n /\ m \in Nat
    <3>1. S!Held(likes, p) \in SUBSET S!Held(likes, q)
      BY <2>3
    <3> QED
      BY <2>4, <3>1, FS_Subset, FS_CardinalityType
  <2>6. /\ S!Bonus(p, j) = <<3 * m, 10 * Len(likes)>>
        /\ S!Bonus(q, j) = <<3 * n, 10 * Len(likes)>>
    BY <1>3, SameSize DEF S!Bonus, likes
  <2> HIDE DEF m, n
  <2> DEFINE l == Len(likes)
  <2>7. (3 * m) * (10 * l) <= (3 * n) * (10 * l)
    <3>1. 3 * m \in Int /\ 3 * n \in Int /\ 10 * l \in Nat /\ 3 * m <= 3 * n
      BY <2>1, <2>4, <2>5
    <3> QED
      BY <3>1, Scale
  <2>8. /\ 3 * m \in Nat /\ 3 * n \in Nat /\ 10 * l \in Nat \ {0}
        /\ 3 * m <= 10 * l /\ 3 * n <= 10 * l
    BY <2>1, <2>4, <2>5
  <2> QED
    BY <2>6, <2>7, <2>8 DEF Better, Shares, Fractions, S!Leq
<1> QED
  BY <1>2, <1>3

LEMMA SkillGrows ==
  ASSUME NEW j, S!IsJob(j), NEW p, NEW q, Grown(p, q)
  PROVE  Better(S!DimSkill(p, j), S!DimSkill(q, j))
<1> DEFINE needs == j.required
           all == S!WeightOf(needs, DOMAIN needs)
           has == S!WeightOf(needs, S!Held(needs, p))
           gets == S!WeightOf(needs, S!Held(needs, q))
           of == IF all = 0 THEN 1 ELSE all
<1>1. needs \in Seq(Rows) /\ Better(S!Bonus(p, j), S!Bonus(q, j))
  BY GivenJob, BonusGrows
<1>2. CASE needs = <<>>
  BY <1>1, <1>2, Same, Constants DEF S!DimSkill
<1>3. CASE needs # <<>>
  <2>1. S!Held(needs, p) \subseteq S!Held(needs, q) /\ S!Held(needs, q) \subseteq DOMAIN needs
    BY <1>1, HeldGrows DEF Grown
  <2>2. has \in Nat /\ gets \in Nat /\ all \in Nat /\ has <= gets
    <3> HIDE DEF needs
    <3>1. has \in Nat /\ gets \in Nat /\ has <= gets
      BY <1>1, <2>1, WeightsGrow
    <3>2. all \in Nat
      BY <1>1, WeightsGrow
    <3> QED
      BY <3>1, <3>2
  <2>3. /\ S!DimSkill(p, j) = S!AtMost(S!One, S!Plus(<<has, of>>, S!Bonus(p, j)))
        /\ S!DimSkill(q, j) = S!AtMost(S!One, S!Plus(<<gets, of>>, S!Bonus(q, j)))
    BY <1>3, Zenon DEF S!DimSkill
  <2> HIDE DEF has, gets, all
  <2>4. of \in Nat \ {0}
    BY <2>2
  <2> HIDE DEF of
  <2>5. /\ <<has, of>> \in Fractions /\ <<gets, of>> \in Fractions
        /\ <<has, of>>[1] >= 0 /\ <<gets, of>>[1] >= 0
    BY <2>2, <2>4 DEF Fractions
  <2>6. S!Leq(<<has, of>>, <<gets, of>>)
    <3>1. has * of <= gets * of
      BY <2>2, <2>4, Scale
    <3> QED
      BY <3>1 DEF S!Leq
  <2> DEFINE a == S!Plus(<<has, of>>, S!Bonus(p, j))
             b == S!Plus(<<gets, of>>, S!Bonus(q, j))
  <2>7. /\ S!Bonus(p, j) \in Fractions /\ S!Bonus(q, j) \in Fractions
        /\ S!Bonus(p, j)[1] >= 0 /\ S!Bonus(q, j)[1] >= 0
        /\ S!Leq(S!Bonus(p, j), S!Bonus(q, j))
    BY <1>1 DEF Better, Shares
  <2>8. a \in Fractions /\ a[1] >= 0 /\ b \in Fractions /\ b[1] >= 0
    BY <2>5, <2>7, PlusIs
  <2>9. S!Leq(a, b)
    BY <2>5, <2>6, <2>7, PlusGrows
  <2> HIDE DEF a, b
  <2>10. Better(S!AtMost(S!One, a), S!AtMost(S!One, b))
    BY <2>8, <2>9, CappedGrows DEF Better
  <2> QED
    BY <2>3, <2>10 DEF a, b
<1> QED
  BY <1>2, <1>3

LEMMA YearsGrow ==
  ASSUME NEW j, S!IsJob(j), NEW p, NEW q, S!IsProfile(p), S!IsProfile(q), Grown(p, q)
  PROVE  Better(S!YearsPart(p, j), S!YearsPart(q, j))
<1>1. /\ j.expMin # None => j.expMin \in Nat
      /\ p.years # None => p.years \in Nat /\ q.years \in Nat /\ p.years <= q.years
  BY GivenJob, GivenProfile DEF Grown
<1>2. CASE j.expMin = None
  BY <1>2, Same, Constants DEF S!YearsPart
<1>3. CASE j.expMin # None /\ p.years = None
  BY <1>3, Same, Constants DEF S!YearsPart, Grown
<1>4. CASE j.expMin # None /\ p.years # None
  <2>1. q.years # None
    BY <1>4 DEF Grown
  <2>2. CASE p.years >= j.expMin
    <3>1. q.years >= j.expMin
      BY <1>1, <1>4, <2>2
    <3> QED
      BY <1>4, <2>1, <2>2, <3>1, Same, Constants DEF S!YearsPart
  <2>3. CASE ~ (p.years >= j.expMin)
    <3>1. <<p.years, j.expMin>> \in Shares /\ S!YearsPart(p, j) = <<p.years, j.expMin>>
      BY <1>1, <1>4, <2>3 DEF Shares, Fractions, S!YearsPart
    <3>2. CASE q.years >= j.expMin
      BY <1>4, <2>1, <3>1, <3>2, ToOne DEF S!YearsPart
    <3>3. CASE ~ (q.years >= j.expMin)
      <4>1. <<q.years, j.expMin>> \in Shares /\ S!YearsPart(q, j) = <<q.years, j.expMin>>
        BY <1>1, <1>4, <2>1, <3>3 DEF Shares, Fractions, S!YearsPart
      <4>2. p.years * j.expMin <= q.years * j.expMin
        BY <1>1, <1>4, Scale
      <4> QED
        BY <3>1, <4>1, <4>2 DEF Better, S!Leq
    <3> QED
      BY <3>2, <3>3
  <2> QED
    BY <2>2, <2>3
<1> QED
  BY <1>2, <1>3, <1>4

(* 0.6 of one share and 0.4 of another are a share. *)
LEMMA MixGrows ==
  ASSUME NEW a, NEW b, NEW c, NEW d, Better(a, b), Better(c, d)
  PROVE  Better(S!Plus(S!Times(<<6, 10>>, a), S!Times(<<4, 10>>, c)),
                S!Plus(S!Times(<<6, 10>>, b), S!Times(<<4, 10>>, d)))
<1> DEFINE Six(x) == S!Times(<<6, 10>>, x)
           Four(x) == S!Times(<<4, 10>>, x)
<1>1. a \in Shares /\ b \in Shares /\ c \in Shares /\ d \in Shares
  BY DEF Better
<1>2. ASSUME NEW x \in Shares
      PROVE  /\ Six(x) = <<6 * x[1], 10 * x[2]>> /\ Four(x) = <<4 * x[1], 10 * x[2]>>
             /\ x[1] \in Nat /\ x[2] \in Nat \ {0} /\ x[1] <= x[2]
             /\ Six(x) \in Fractions /\ Four(x) \in Fractions
  BY DEF S!Times, Shares, Fractions
<1>3. ASSUME NEW x \in Shares, NEW y \in Shares, S!Leq(x, y)
      PROVE  S!Leq(Six(x), Six(y)) /\ S!Leq(Four(x), Four(y))
  <2>1. x[1] * y[2] <= y[1] * x[2]
    BY <1>3 DEF S!Leq
  <2>2. /\ x[1] \in Nat /\ x[2] \in Nat /\ y[1] \in Nat /\ y[2] \in Nat
    BY <1>2
  <2>3. /\ x[1] * y[2] \in Int /\ y[1] * x[2] \in Int
        /\ (6 * x[1]) * (10 * y[2]) = 60 * (x[1] * y[2])
        /\ (6 * y[1]) * (10 * x[2]) = 60 * (y[1] * x[2])
        /\ (4 * x[1]) * (10 * y[2]) = 40 * (x[1] * y[2])
        /\ (4 * y[1]) * (10 * x[2]) = 40 * (y[1] * x[2])
    BY <2>2
  <2>4. /\ (6 * x[1]) * (10 * y[2]) <= (6 * y[1]) * (10 * x[2])
        /\ (4 * x[1]) * (10 * y[2]) <= (4 * y[1]) * (10 * x[2])
    BY <2>1, <2>3
  <2> QED
    BY <1>2, <2>4 DEF S!Leq
<1>4. S!Leq(S!Plus(Six(a), Four(c)), S!Plus(Six(b), Four(d)))
  <2>1. /\ Six(a) \in Fractions /\ Six(b) \in Fractions /\ Four(c) \in Fractions
        /\ Four(d) \in Fractions
    BY <1>1, <1>2
  <2>2. S!Leq(Six(a), Six(b)) /\ S!Leq(Four(c), Four(d))
    BY <1>1, <1>3 DEF Better
  <2> HIDE DEF Six, Four
  <2> QED
    BY <2>1, <2>2, PlusGrows
<1>5. ASSUME NEW x \in Shares, NEW y \in Shares PROVE S!Plus(Six(x), Four(y)) \in Shares
  <2> DEFINE n == (6 * x[1]) * (10 * y[2]) + (4 * y[1]) * (10 * x[2])
             m == (10 * x[2]) * (10 * y[2])
  <2>1. /\ x[1] \in Nat /\ x[2] \in Nat \ {0} /\ y[1] \in Nat /\ y[2] \in Nat \ {0}
        /\ x[1] <= x[2] /\ y[1] <= y[2]
    BY <1>2
  <2>2. x[1] * y[2] <= x[2] * y[2] /\ y[1] * x[2] <= y[2] * x[2]
    BY <2>1, Scale
  <2>3. /\ x[1] * y[2] \in Nat /\ y[1] * x[2] \in Nat /\ x[2] * y[2] \in Nat
        /\ y[2] * x[2] = x[2] * y[2]
    BY <2>1
  <2>4. n = 60 * (x[1] * y[2]) + 40 * (y[1] * x[2]) /\ m = 100 * (x[2] * y[2])
    BY <2>1
  <2>5. n \in Nat /\ n <= m
    BY <2>2, <2>3, <2>4
  <2>6. m \in Nat \ {0}
    BY <2>1
  <2>7. S!Plus(Six(x), Four(y)) = <<n, m>>
    BY <1>2 DEF S!Plus
  <2> HIDE DEF n, m
  <2> QED
    BY <2>5, <2>6, <2>7 DEF Shares, Fractions
<1> QED
  BY <1>1, <1>4, <1>5 DEF Better

LEMMA ExperienceGrows ==
  ASSUME NEW j, S!IsJob(j), NEW p, NEW q, S!IsProfile(p), S!IsProfile(q), Grown(p, q)
  PROVE  Better(S!DimExperience(p, j), S!DimExperience(q, j))
<1>1. Better(S!YearsPart(p, j), S!YearsPart(q, j))
  BY YearsGrow
<1>2. Better(S!BestJaccard(j.title, p.titles), S!BestJaccard(j.title, q.titles))
  <2>1. /\ IsFiniteSet(j.title) /\ Titled(p.titles) /\ Titled(q.titles)
        /\ p.titles \subseteq q.titles
    BY GivenJob, GivenProfile DEF Grown
  <2> QED
    BY <2>1, BestGrows DEF Better
<1> QED
  BY <1>1, <1>2, MixGrows DEF S!DimExperience

LEMMA LabelsAreFinite ==
  ASSUME NEW j, S!IsJob(j) PROVE IsFiniteSet(S!LabelTokens(j))
<1>1. ASSUME NEW wants \in Seq(Rows) PROVE IsFiniteSet({wants[i].skill : i \in DOMAIN wants})
  <2> DEFINE skill == [i \in DOMAIN wants |-> wants[i].skill]
  <2>1. DOMAIN wants = 1..Len(wants) /\ 1 \in Int /\ Len(wants) \in Int
    OBVIOUS
  <2>2. IsFiniteSet(1..Len(wants))
    BY <2>1, FS_Interval
  <2>3. IsFiniteSet(DOMAIN skill) /\ skill = [i \in DOMAIN skill |-> skill[i]]
    BY <2>1, <2>2
  <2>4. {skill[i] : i \in DOMAIN skill} = {wants[i].skill : i \in DOMAIN wants}
    OBVIOUS
  <2> HIDE DEF skill
  <2> QED
    BY <2>3, <2>4, ImageIsFinite
<1> DEFINE named == {j.required[i].skill : i \in DOMAIN j.required}
           liked == {j.preferred[i].skill : i \in DOMAIN j.preferred}
<1>2. IsFiniteSet(named) /\ IsFiniteSet(liked)
  BY <1>1, GivenJob
<1>3. IsFiniteSet(named \cup liked)
  <2> HIDE DEF named, liked
  <2> QED
    BY <1>2, FS_Union
<1>4. S!LabelTokens(j) = named \cup liked
  BY DEF S!LabelTokens, S!ToSet
<1> QED
  BY <1>3, <1>4

LEMMA TechnologyGrows ==
  ASSUME NEW j, S!IsJob(j), NEW p, NEW q, Grown(p, q)
  PROVE  Better(S!DimTechnology(p, j), S!DimTechnology(q, j))
<1> DEFINE wanted == S!LabelTokens(j)
           m == Cardinality(wanted \cap p.tech)
           n == Cardinality(wanted \cap q.tech)
           of == IF wanted = {} THEN 1 ELSE Cardinality(wanted)
<1>1. IsFiniteSet(wanted) /\ (wanted \cap q.tech) \in SUBSET wanted
  BY LabelsAreFinite
<1>2. (wanted \cap p.tech) \in SUBSET (wanted \cap q.tech)
  BY DEF Grown
<1>3. S!DimTechnology(p, j) = <<m, of>> /\ S!DimTechnology(q, j) = <<n, of>>
  BY SameSize DEF S!DimTechnology
<1> HIDE DEF wanted
<1>4. IsFiniteSet(wanted \cap q.tech) /\ n <= Cardinality(wanted) /\ n \in Nat
  BY <1>1, FS_Subset, FS_CardinalityType
<1>5. m <= n /\ m \in Nat
  BY <1>2, <1>4, FS_Subset, FS_CardinalityType
<1>6. Cardinality(wanted) \in Nat /\ (Cardinality(wanted) = 0 <=> wanted = {})
  BY <1>1, FS_CardinalityType, FS_EmptySet
<1> HIDE DEF m, n
<1>7. of \in Nat \ {0} /\ n <= of
  BY <1>4, <1>6
<1> HIDE DEF of
<1>8. m * of <= n * of
  BY <1>4, <1>5, <1>7, Scale
<1> QED
  BY <1>3, <1>4, <1>5, <1>7, <1>8 DEF Better, Shares, Fractions, S!Leq

(* Whatever the embeddings give, or if there are none. *)
CosineOrNone == S!OrNone(Int)

LEMMA SemanticIs ==
  ASSUME NEW cosine \in CosineOrNone PROVE S!DimSemantic(cosine) \in Shares
<1>1. CASE cosine = None
  BY <1>1, Constants DEF S!DimSemantic
<1>2. CASE cosine # None
  <2> DEFINE c == <<cosine, 10>>
  <2>1. cosine \in Int /\ c \in Fractions
    BY <1>2 DEF CosineOrNone, S!OrNone, Fractions
  <2>2. S!DimSemantic(cosine) = S!AtLeast(S!Zero, S!AtMost(S!One, c))
    BY <1>2 DEF S!DimSemantic
  <2> QED
    BY <2>1, <2>2
    DEF S!AtLeast, S!AtMost, S!Leq, S!One, S!Zero, Shares, Fractions
<1> QED
  BY <1>1, <1>2

LEMMA RoleIs ==
  ASSUME NEW j, S!IsJob(j), NEW p, S!IsProfile(p) PROVE S!DimRole(p, j) \in Shares
<1>1. S!BestJaccard(j.title, p.roles) \in Shares
  BY GivenJob, GivenProfile, BestGrows
<1> QED
  BY <1>1, Constants DEF S!DimRole

LEMMA SeniorityIs ==
  ASSUME NEW j, S!IsJob(j), NEW p, S!IsProfile(p) PROVE S!DimSeniority(p, j) \in Shares
<1>1. CASE None \in {p.seniority, j.seniority}
  BY <1>1, Constants DEF S!DimSeniority
<1>2. CASE None \notin {p.seniority, j.seniority}
  <2> DEFINE mine == S!SeniorityLadder[p.seniority]
             theirs == S!SeniorityLadder[j.seniority]
  <2>1. \A level \in DOMAIN S!SeniorityLadder : S!SeniorityLadder[level] \in 0..5
    BY DEF S!SeniorityLadder
  <2>2. mine \in 0..5 /\ theirs \in 0..5
    BY <1>2, <2>1, GivenJob, GivenProfile
  <2>3. S!DimSeniority(p, j) = <<5 - S!Distance(mine, theirs), 5>>
    BY <1>2 DEF S!DimSeniority
  <2> HIDE DEF mine, theirs
  <2>4. S!Distance(mine, theirs) \in 0..5
    BY <2>2 DEF S!Distance
  <2> QED
    BY <2>3, <2>4 DEF Shares, Fractions
<1> QED
  BY <1>1, <1>2

LEMMA ProjectGrows ==
  ASSUME NEW j, NEW p, NEW q, Grown(p, q)
  PROVE  Better(S!DimProject(p, j), S!DimProject(q, j))
<1>1. /\ S!DimProject(p, j) \in {<<1, 2>>, S!One, <<4, 10>>, S!Zero}
      /\ S!DimProject(q, j) \in {<<1, 2>>, S!One, <<4, 10>>, S!Zero}
  BY DEF S!DimProject
<1>2. CASE S!DimProject(q, j) = S!One \/ S!DimProject(p, j) = S!Zero
  BY <1>1, <1>2, ToOne, Constants
<1>3. CASE S!DimProject(q, j) = S!DimProject(p, j)
  BY <1>1, <1>3, Same, Constants
<1>4. \/ S!DimProject(q, j) = S!One \/ S!DimProject(p, j) = S!Zero
      \/ S!DimProject(q, j) = S!DimProject(p, j)
  BY DEF S!DimProject, Grown
<1> QED
  BY <1>2, <1>3, <1>4

LEMMA EducationGrows ==
  ASSUME NEW j, NEW p, NEW q, S!IsProfile(p), S!IsProfile(q), Grown(p, q)
  PROVE  Better(S!DimEducation(p, j), S!DimEducation(q, j))
<1> DEFINE Base(x) == IF x.degree THEN <<6, 10>> ELSE <<2, 10>>
           Fits(x) == x.fields \cap j.title # {}
           both(x) == S!AtMost(S!One, S!Plus(Base(x), <<4, 10>>))
<1>1. /\ p.degree \in BOOLEAN /\ q.degree \in BOOLEAN /\ (p.degree => q.degree)
      /\ Fits(p) => Fits(q)
  BY GivenProfile DEF Grown
<1>2. ASSUME NEW x, x.degree \in BOOLEAN
      PROVE  /\ S!DimEducation(x, j) = IF Fits(x) THEN both(x) ELSE Base(x)
             /\ both(x) = IF x.degree THEN <<1, 1>> ELSE <<60, 100>>
  <2>1. S!DimEducation(x, j) = IF Fits(x) THEN both(x) ELSE Base(x)
    BY DEF S!DimEducation
  <2>2. CASE x.degree
    <3>1. S!Plus(Base(x), <<4, 10>>) = <<100, 100>>
      BY <2>2 DEF S!Plus
    <3> QED
      BY <2>1, <2>2, <3>1 DEF S!AtMost, S!Leq, S!One
  <2>3. CASE ~ x.degree
    <3>1. S!Plus(Base(x), <<4, 10>>) = <<60, 100>>
      BY <2>3 DEF S!Plus
    <3> QED
      BY <2>1, <2>3, <3>1 DEF S!AtMost, S!Leq, S!One
  <2> QED
    BY <1>2, <2>2, <2>3, <2>1
<1> QED
  BY <1>1, <1>2
  DEF Better, Shares, Fractions, S!Leq

LEMMA LocationIs ==
  ASSUME NEW j, NEW p PROVE S!DimLocation(p, j) \in Shares
BY Constants DEF S!DimLocation

LEMMA SalaryIs ==
  ASSUME NEW j, S!IsJob(j), NEW p, S!IsProfile(p) PROVE S!DimSalary(p, j) \in Shares
<1> DEFINE top == IF j.salaryMax # None THEN j.salaryMax ELSE j.salaryMin
<1>1. /\ S!DimSalary(p, j) = IF p.floor = None \/ top = None THEN <<1, 2>>
                            ELSE IF top >= p.floor THEN S!One
                            ELSE S!AtLeast(S!Zero, <<top, p.floor>>)
  BY DEF S!DimSalary
<1>2. (p.floor # None => p.floor \in Nat) /\ (top # None => top \in Nat)
  BY GivenJob, GivenProfile
<1> HIDE DEF top
<1>3. CASE p.floor = None \/ top = None \/ top >= p.floor
  BY <1>1, <1>3, Constants
<1>4. CASE p.floor # None /\ top # None /\ ~ (top >= p.floor)
  <2>1. top \in Nat /\ p.floor \in Nat /\ top < p.floor /\ <<top, p.floor>> \in Shares
    BY <1>2, <1>4 DEF Shares, Fractions
  <2>2. S!DimSalary(p, j) \in {S!Zero, <<top, p.floor>>}
    BY <1>1, <1>4 DEF S!AtLeast
  <2> QED
    BY <2>1, <2>2, Constants
<1> QED
  BY <1>3, <1>4

(* Nothing a profile gains costs a share in a dimension other than likeness. *)
LEMMA RawScoresGrow ==
  ASSUME NEW j, S!IsJob(j), NEW p, NEW q, S!IsProfile(p), S!IsProfile(q), Grown(p, q),
         NEW cosine \in CosineOrNone, NEW later \in CosineOrNone
  PROVE  /\ \A d \in S!Dimensions \ {"semantic"} :
              Better(S!RawScores(p, j, cosine)[d], S!RawScores(q, j, later)[d])
         /\ S!RawScores(p, j, cosine)["semantic"] \in Shares
<1>1. S!Dimensions = {"skill", "experience", "technology", "semantic", "role", "seniority",
                      "project", "education", "location", "salary"}
  BY DEF S!Dimensions, S!Weights
<1>2. /\ Better(S!DimSkill(p, j), S!DimSkill(q, j))
      /\ Better(S!DimExperience(p, j), S!DimExperience(q, j))
      /\ Better(S!DimTechnology(p, j), S!DimTechnology(q, j))
      /\ Better(S!DimProject(p, j), S!DimProject(q, j))
      /\ Better(S!DimEducation(p, j), S!DimEducation(q, j))
  BY SkillGrows, ExperienceGrows, TechnologyGrows, ProjectGrows, EducationGrows
<1>3. /\ Better(S!DimRole(p, j), S!DimRole(q, j))
      /\ Better(S!DimSeniority(p, j), S!DimSeniority(q, j))
      /\ Better(S!DimLocation(p, j), S!DimLocation(q, j))
      /\ Better(S!DimSalary(p, j), S!DimSalary(q, j))
  <2>1. /\ S!DimRole(p, j) = S!DimRole(q, j) /\ S!DimSeniority(p, j) = S!DimSeniority(q, j)
        /\ S!DimLocation(p, j) = S!DimLocation(q, j) /\ S!DimSalary(p, j) = S!DimSalary(q, j)
    BY DEF Grown, S!DimRole, S!DimSeniority, S!DimLocation, S!DimSalary
  <2> QED
    BY <2>1, Same, RoleIs, SeniorityIs, LocationIs, SalaryIs
<1>4. S!DimSemantic(cosine) \in Shares
  BY SemanticIs
<1> QED
  BY <1>1, <1>2, <1>3, <1>4 DEF S!RawScores

-----------------------------------------------------------------------------
(* In order: who comes after how many others of a finite set has the place   *)
(* behind them.                                                             *)
Places(ahead) ==
  [i \in 1..Cardinality(DOMAIN ahead) |->
     CHOOSE x \in DOMAIN ahead : Cardinality(ahead[x]) = i - 1]
Orders(ahead) ==
  /\ \A x \in DOMAIN ahead : ahead[x] \subseteq DOMAIN ahead /\ x \notin ahead[x]
  /\ \A x, y \in DOMAIN ahead : x = y \/ x \in ahead[y] \/ y \in ahead[x]
  /\ \A x, y \in DOMAIN ahead : x \in ahead[y] => ahead[x] \subseteq ahead[y]

LEMMA PlacesAre ==
  ASSUME NEW ahead, IsFiniteSet(DOMAIN ahead), Orders(ahead)
  PROVE  /\ DOMAIN Places(ahead) = 1..Cardinality(DOMAIN ahead)
         /\ Cardinality(DOMAIN ahead) \in Nat
         /\ \A i \in DOMAIN Places(ahead) : Places(ahead)[i] \in DOMAIN ahead
         /\ \A x \in DOMAIN ahead : \E i \in DOMAIN Places(ahead) : Places(ahead)[i] = x
         /\ \A i, k \in DOMAIN Places(ahead) : i < k => Places(ahead)[i] \in ahead[Places(ahead)[k]]
<1> DEFINE E == DOMAIN ahead
           n == Cardinality(E)
           place == [x \in E |-> Cardinality(ahead[x])]
           list == Places(ahead)
<1>1. n \in Nat
  BY FS_CardinalityType
<1>2. ASSUME NEW x \in E PROVE IsFiniteSet(ahead[x]) /\ place[x] \in 0..(n - 1)
  <2>1. ahead[x] \in SUBSET E /\ x \notin ahead[x] /\ place[x] = Cardinality(ahead[x])
    BY DEF Orders
  <2> HIDE DEF place, n, E
  <2>2. IsFiniteSet(E)
    BY DEF E
  <2>3. IsFiniteSet(ahead[x]) /\ Cardinality(ahead[x]) \in Nat
    BY <2>1, <2>2, FS_Subset, FS_CardinalityType
  <2>4. Cardinality(ahead[x]) <= n /\ (Cardinality(ahead[x]) = n => ahead[x] = E)
    BY <2>1, <2>2, FS_Subset, Zenon DEF n
  <2>5. Cardinality(ahead[x]) < n
    BY <1>1, <2>1, <2>3, <2>4
  <2> QED
    BY <1>1, <2>1, <2>3, <2>5
<1>3. ASSUME NEW x \in E, NEW y \in E, x \in ahead[y] PROVE place[x] < place[y]
  <2>1. /\ ahead[x] \in SUBSET ahead[y] /\ x \notin ahead[x]
        /\ place[x] = Cardinality(ahead[x]) /\ place[y] = Cardinality(ahead[y])
    BY <1>3 DEF Orders
  <2>2. /\ IsFiniteSet(ahead[y]) /\ Cardinality(ahead[x]) \in Nat
        /\ Cardinality(ahead[y]) \in Nat
    BY <1>2, FS_CardinalityType
  <2> HIDE DEF place
  <2>3. /\ Cardinality(ahead[x]) <= Cardinality(ahead[y])
        /\ Cardinality(ahead[x]) = Cardinality(ahead[y]) => ahead[x] = ahead[y]
    BY <2>1, <2>2, FS_Subset, Zenon
  <2> QED
    BY <1>3, <2>1, <2>2, <2>3
<1>4. place \in Injection(E, 0..(n - 1))
  <2>1. place \in [E -> 0..(n - 1)]
    BY <1>2
  <2>2. ASSUME NEW x \in E, NEW y \in E, x # y PROVE place[x] # place[y]
    <3>1. x \in ahead[y] \/ y \in ahead[x]
      BY <2>2 DEF Orders
    <3>2. place[x] \in 0..(n - 1) /\ place[y] \in 0..(n - 1)
      BY <1>2
    <3>3. place[x] \in Int /\ place[y] \in Int
      <4> HIDE DEF place
      <4> QED
        BY <3>2
    <3>4. /\ x \in ahead[y] => place[x] < place[y]
          /\ y \in ahead[x] => place[y] < place[x]
      BY <1>3
    <3> HIDE DEF place
    <3> QED
      BY <3>1, <3>3, <3>4
  <2> HIDE DEF place
  <2> QED
    BY <2>1, <2>2 DEF Injection, IsInjective
<1>5. IsFiniteSet(0..(n - 1)) /\ Cardinality(0..(n - 1)) = n
  <2>1. 0 \in Int /\ n - 1 \in Int
    BY <1>1
  <2>2. /\ IsFiniteSet(0..(n - 1))
        /\ Cardinality(0..(n - 1)) = IF 0 > n - 1 THEN 0 ELSE (n - 1) - 0 + 1
    BY <2>1, FS_Interval, Zenon
  <2> HIDE DEF n
  <2> QED
    BY <1>1, <2>2
<1>6. place \in Surjection(E, 0..(n - 1))
  <2> HIDE DEF place
  <2>1. Cardinality(E) = Cardinality(0..(n - 1))
    BY <1>5
  <2> QED
    BY <1>4, <1>5, <2>1, FS_Injection
<1>7. \A k \in 0..(n - 1) : \E x \in E : place[x] = k
  <2> HIDE DEF place
  <2> QED
    BY <1>6 DEF Surjection
<1>8. list = [i \in 1..n |-> CHOOSE x \in E : place[x] = i - 1]
  BY DEF Places
<1>9. \A i \in 1..n : i - 1 \in 0..(n - 1)
  BY <1>1
<1>10. \A i \in 1..n : i \in Int
  BY <1>1
<1> HIDE DEF place, n, E, list
<1>11. ASSUME NEW i \in 1..n PROVE list[i] \in E /\ place[list[i]] = i - 1
  BY <1>7, <1>8, <1>9
<1>12. DOMAIN list = 1..n
  BY <1>8
<1>13. ASSUME NEW x \in E PROVE \E i \in DOMAIN list : list[i] = x
  <2>1. place[x] \in 0..(n - 1)
    BY <1>2
  <2>2. place[x] + 1 \in 1..n
    BY <1>1, <2>1
  <2>3. list[place[x] + 1] \in E /\ place[list[place[x] + 1]] = (place[x] + 1) - 1
    BY <1>11, <2>2
  <2>4. place[list[place[x] + 1]] = place[x]
    BY <2>1, <2>3
  <2>5. list[place[x] + 1] = x
    BY <1>4, <2>3, <2>4 DEF Injection, IsInjective
  <2> QED
    BY <1>12, <2>2, <2>5
<1>14. ASSUME NEW i \in 1..n, NEW k \in 1..n, i < k PROVE list[i] \in ahead[list[k]]
  <2> DEFINE x == list[i]
             y == list[k]
  <2>1. x \in E /\ y \in E /\ place[x] = i - 1 /\ place[y] = k - 1
    BY <1>11
  <2> HIDE DEF x, y
  <2>2. place[x] < place[y] /\ ~ (place[y] < place[x]) /\ x # y
    BY <1>10, <1>14, <2>1
  <2>3. y \in ahead[x] => place[y] < place[x]
    BY <1>3, <2>1
  <2>4. x \in ahead[y]
    BY <2>1, <2>2, <2>3 DEF Orders, E
  <2> QED
    BY <2>4 DEF x, y
<1> QED
  BY <1>1, <1>11, <1>12, <1>13, <1>14 DEF n, list, E

Ordered(E) ==
  /\ \A a, b \in E : a # b => S!Before(a, b) \/ S!Before(b, a)
  /\ \A a \in E : ~ S!Before(a, a)
  /\ \A a, b, c \in E : S!Before(a, b) /\ S!Before(b, c) => S!Before(a, c)

(* Gaps that are put in order. *)
LEMMA SortedIs ==
  ASSUME NEW E, IsFiniteSet(E), Ordered(E)
  PROVE  /\ DOMAIN S!Sorted(E) = 1..Cardinality(E) /\ Cardinality(E) \in Nat
         /\ S!ToSet(S!Sorted(E)) = E
         /\ \A i, k \in DOMAIN S!Sorted(E) : i < k => S!Before(S!Sorted(E)[i], S!Sorted(E)[k])
<1> DEFINE ahead == [x \in E |-> {y \in E : S!Before(y, x)}]
           list == S!Sorted(E)
<1>1. DOMAIN ahead = E /\ \A x \in E : ahead[x] = {y \in E : S!Before(y, x)}
  OBVIOUS
<1>2. S!Sorted(E) = Places(ahead)
  <2>1. \A x : S!Cardinality({y \in E : S!Before(y, x)}) = Cardinality({y \in E : S!Before(y, x)})
    BY SameSize
  <2>2. S!Cardinality(E) = Cardinality(E)
    BY SameSize
  <2>3. S!Sorted(E) = [i \in 1..Cardinality(E) |->
          CHOOSE x \in E : S!Cardinality({y \in E : S!Before(y, x)}) = i - 1]
    BY <2>2 DEF S!Sorted
  <2>4. Places(ahead) = [i \in 1..Cardinality(E) |->
          CHOOSE x \in E : Cardinality(ahead[x]) = i - 1]
    BY <1>1 DEF Places
  <2>5. \A x \in E : S!Cardinality({y \in E : S!Before(y, x)}) = Cardinality(ahead[x])
    BY <1>1, <2>1
  <2> HIDE DEF ahead
  <2>6. ASSUME NEW i
        PROVE  (CHOOSE x \in E : S!Cardinality({y \in E : S!Before(y, x)}) = i - 1)
                 = CHOOSE x \in E : Cardinality(ahead[x]) = i - 1
    BY <2>5
  <2> QED
    BY <2>3, <2>4, <2>6
<1> HIDE DEF ahead
<1>3. Orders(ahead)
  <2>1. \A x \in DOMAIN ahead : ahead[x] \subseteq DOMAIN ahead /\ x \notin ahead[x]
    BY <1>1 DEF Ordered
  <2>2. \A x, y \in DOMAIN ahead : x = y \/ x \in ahead[y] \/ y \in ahead[x]
    BY <1>1 DEF Ordered
  <2>3. \A x, y \in DOMAIN ahead : x \in ahead[y] => ahead[x] \subseteq ahead[y]
    BY <1>1 DEF Ordered
  <2> QED
    BY <2>1, <2>2, <2>3 DEF Orders
<1>4. /\ DOMAIN list = 1..Cardinality(E) /\ Cardinality(E) \in Nat
      /\ \A i \in DOMAIN list : list[i] \in E
      /\ \A x \in E : \E i \in DOMAIN list : list[i] = x
      /\ \A i, k \in DOMAIN list : i < k => list[i] \in ahead[list[k]]
  BY <1>1, <1>2, <1>3, PlacesAre
<1>5. \A i, k \in DOMAIN list : i < k => S!Before(list[i], list[k])
  BY <1>1, <1>4
<1> HIDE DEF list
<1>6. S!ToSet(list) = E
  BY <1>4 DEF S!ToSet
<1> QED
  BY <1>4, <1>5, <1>6 DEF list

-----------------------------------------------------------------------------
(* The gaps of a posting for a person: a gap is told by its skill.           *)
Heavy(wants, s) ==
  \E i \in DOMAIN wants :
    wants[i].skill = s /\ wants[i].weight >= 7 /\ \A k \in 1..(i - 1) : wants[k].skill # s
Gap(j, s) ==
  [skill |-> s,
   severity |-> IF S!FirstRow(j.required, s).weight >= 7 THEN "critical" ELSE "important"]
Gaps(p, j) == {Gap(j, s) : s \in S!Missing(p, j)}

(* The first row that names a skill is there.                                *)
LEMMA FirstRowTells ==
  ASSUME NEW wants \in Seq(Rows), NEW s \in S!Named(wants)
  PROVE  S!FirstRow(wants, s).weight >= 7 <=> Heavy(wants, s)
<1> DEFINE I == {i \in DOMAIN wants : wants[i].skill = s}
<1>1. I \subseteq Nat /\ I # {} /\ DOMAIN wants = 1..Len(wants)
  BY DEF S!Named
<1>2. PICK x \in I : \A y \in I : x <= y
  <2> HIDE DEF I
  <2> QED
    BY <1>1, FirstOf
<1>3. S!Min(I) = x
  <2>1. S!Min(I) \in I /\ \A y \in I : S!Min(I) <= y
    <3> HIDE DEF I
    <3> QED
      BY <1>2, Zenon DEF S!Min
  <2>2. S!Min(I) <= x /\ x <= S!Min(I)
    BY <1>2, <2>1
  <2>3. S!Min(I) \in Nat /\ x \in Nat
    BY <1>1, <2>1, <1>2
  <2> HIDE DEF I
  <2> QED
    BY <2>2, <2>3
<1>4. S!FirstRow(wants, s) = wants[x]
  BY <1>3, Zenon DEF S!FirstRow
<1>5. x \in DOMAIN wants /\ wants[x].skill = s /\ x \in Nat
  BY <1>2
<1>6. ASSUME NEW k \in DOMAIN wants, wants[k].skill = s PROVE x <= k /\ k \in Nat
  BY <1>1, <1>2, <1>6
<1>7. ASSUME wants[x].weight >= 7 PROVE Heavy(wants, s)
  <2>1. \A k \in 1..(x - 1) : wants[k].skill # s
    <3> SUFFICES ASSUME NEW k \in 1..(x - 1), wants[k].skill = s PROVE FALSE
      OBVIOUS
    <3>1. k \in DOMAIN wants /\ ~ (x <= k)
      BY <1>1, <1>5
    <3> QED
      BY <1>6, <3>1
  <2> QED
    BY <1>5, <1>7, <2>1 DEF Heavy
<1>8. ASSUME Heavy(wants, s) PROVE wants[x].weight >= 7
  <2>1. PICK i \in DOMAIN wants :
          wants[i].skill = s /\ wants[i].weight >= 7 /\ \A k \in 1..(i - 1) : wants[k].skill # s
    BY <1>8 DEF Heavy
  <2>2. x <= i /\ i \in Nat
    BY <1>6, <2>1
  <2>3. x \notin 1..(i - 1)
    BY <1>5, <2>1
  <2>4. x = i
    BY <1>1, <1>5, <2>2, <2>3
  <2> QED
    BY <2>1, <2>4
<1> HIDE DEF I
<1> QED
  BY <1>4, <1>7, <1>8

(* A skill has its place among the labels.                                   *)
LEMMA PlacesDiffer ==
  ASSUME NEW s \in S!SkillIds, NEW t \in S!SkillIds
  PROVE  S!Place(s) \in Nat /\ (S!Place(s) = S!Place(t) => s = t)
<1>1. DOMAIN SkillLabels = 1..Len(SkillLabels)
  BY ScorerIsGiven DEF S!ScorerAssumption
<1>2. /\ \E i \in DOMAIN SkillLabels : SkillLabels[i] = s
      /\ \E i \in DOMAIN SkillLabels : SkillLabels[i] = t
  BY DEF S!SkillIds, S!ToSet
<1>3. /\ S!Place(s) \in DOMAIN SkillLabels /\ SkillLabels[S!Place(s)] = s
      /\ S!Place(t) \in DOMAIN SkillLabels /\ SkillLabels[S!Place(t)] = t
  BY <1>2, Zenon DEF S!Place
<1>4. S!Place(s) \in Nat
  BY <1>1, <1>3
<1> QED
  BY <1>3, <1>4

LEMMA GapsAreOrdered ==
  ASSUME NEW j, S!IsJob(j), NEW p
  PROVE  IsFiniteSet(Gaps(p, j)) /\ Ordered(Gaps(p, j))
<1>1. j.required \in Seq(Rows)
  BY GivenJob
<1>2. S!Missing(p, j) \in SUBSET S!LabelTokens(j) /\ S!Missing(p, j) \subseteq S!SkillIds
  <2>1. \A i \in DOMAIN j.required : j.required[i] \in Rows
    BY <1>1
  <2> QED
    BY <2>1 DEF S!Missing, S!Named, S!LabelTokens, S!ToSet, Rows
<1>3. IsFiniteSet(S!Missing(p, j))
  BY <1>2, LabelsAreFinite, SubsetIsFinite
<1>4. IsFiniteSet(Gaps(p, j))
  <2> DEFINE of == [s \in S!Missing(p, j) |-> Gap(j, s)]
  <2>1. IsFiniteSet(DOMAIN of) /\ of = [s \in DOMAIN of |-> of[s]]
    BY <1>3
  <2>2. {of[s] : s \in DOMAIN of} = Gaps(p, j)
    BY DEF Gaps
  <2> HIDE DEF of
  <2> QED
    BY <2>1, <2>2, ImageIsFinite
<1>5. ASSUME NEW a \in Gaps(p, j)
      PROVE  /\ a.skill \in S!SkillIds /\ a = Gap(j, a.skill)
             /\ S!SeverityRank[a.severity] \in Nat
  <2>1. PICK s \in S!Missing(p, j) : a = Gap(j, s)
    BY DEF Gaps
  <2>2. a.skill = s /\ a.severity \in {"critical", "important"}
    BY <2>1 DEF Gap
  <2>3. S!SeverityRank[a.severity] \in Nat
    BY <2>2 DEF S!SeverityRank
  <2> QED
    BY <1>2, <2>1, <2>2, <2>3
<1>6. ASSUME NEW a \in Gaps(p, j), NEW b \in Gaps(p, j), a # b
      PROVE  S!Before(a, b) \/ S!Before(b, a)
  <2>1. a.skill # b.skill
    BY <1>5, <1>6
  <2>2. /\ S!Place(a.skill) \in Nat /\ S!Place(b.skill) \in Nat
        /\ S!Place(a.skill) # S!Place(b.skill)
    BY <1>5, <2>1, PlacesDiffer
  <2>3. a.severity = b.severity \/ S!SeverityRank[a.severity] # S!SeverityRank[b.severity]
    BY DEF Gaps, Gap, S!SeverityRank
  <2> QED
    BY <1>5, <2>2, <2>3 DEF S!Before
<1>7. ASSUME NEW a \in Gaps(p, j) PROVE ~ S!Before(a, a)
  <2>1. S!SeverityRank[a.severity] \in Nat /\ S!Place(a.skill) \in Nat
    BY <1>5, PlacesDiffer
  <2> QED
    BY <2>1 DEF S!Before
<1>8. ASSUME NEW a \in Gaps(p, j), NEW b \in Gaps(p, j), NEW c \in Gaps(p, j),
             S!Before(a, b), S!Before(b, c)
      PROVE  S!Before(a, c)
  <2>1. /\ S!SeverityRank[a.severity] \in Nat /\ S!Place(a.skill) \in Nat
        /\ S!SeverityRank[b.severity] \in Nat /\ S!Place(b.skill) \in Nat
        /\ S!SeverityRank[c.severity] \in Nat /\ S!Place(c.skill) \in Nat
    BY <1>5, PlacesDiffer
  <2> QED
    BY <1>8, <2>1 DEF S!Before
<1> QED
  BY <1>4, <1>6, <1>7, <1>8 DEF Ordered

(* Each missing skill is listed once, the grave ones first.                  *)
LEMMA GapsListed ==
  ASSUME NEW j, S!IsJob(j), NEW p, NEW gaps, gaps = S!DeriveGaps(j, S!Missing(p, j))
  PROVE  /\ S!ToSet(gaps) = Gaps(p, j)
         /\ {g.skill : g \in S!ToSet(gaps)} = S!Missing(p, j)
         /\ \A i, k \in DOMAIN gaps : i < k =>
              /\ gaps[i].skill # gaps[k].skill
              /\ Heavy(j.required, gaps[k].skill) => Heavy(j.required, gaps[i].skill)
         /\ \A g \in S!ToSet(gaps) : g.severity = "critical" <=> Heavy(j.required, g.skill)
<1>1. gaps = S!Sorted(Gaps(p, j))
  <2>1. S!Missing(p, j) = S!Named(j.required) \cap S!Missing(p, j)
        /\ (S!Named(j.preferred) \ S!Named(j.required)) \cap S!Missing(p, j) = {}
    BY DEF S!Missing
  <2>2. {[skill |-> s, severity |->
            IF S!FirstRow(j.required, s).weight >= 7 THEN "critical" ELSE "important"] :
           s \in S!Named(j.required) \cap S!Missing(p, j)}
          \cup {[skill |-> s, severity |-> "nice_to_have"] :
                  s \in (S!Named(j.preferred) \ S!Named(j.required)) \cap S!Missing(p, j)}
         = Gaps(p, j)
    BY <2>1 DEF Gaps, Gap
  <2> QED
    BY <2>2, Zenon DEF S!DeriveGaps
<1>2. /\ S!ToSet(gaps) = Gaps(p, j)
      /\ \A i, k \in DOMAIN gaps : i < k => S!Before(gaps[i], gaps[k])
      /\ Ordered(Gaps(p, j))
  BY <1>1, GapsAreOrdered, SortedIs, Zenon
<1>3. \A g \in Gaps(p, j) : g.skill \in S!Missing(p, j) /\ g = Gap(j, g.skill)
  BY DEF Gaps, Gap
<1>4. \A s \in S!Missing(p, j) : Gap(j, s) \in Gaps(p, j) /\ Gap(j, s).skill = s
  BY DEF Gaps, Gap
<1>5. ASSUME NEW g \in Gaps(p, j)
      PROVE  g.severity = "critical" <=> Heavy(j.required, g.skill)
  <2>1. j.required \in Seq(Rows) /\ g.skill \in S!Named(j.required)
    BY <1>3, GivenJob DEF S!Missing
  <2>2. S!FirstRow(j.required, g.skill).weight >= 7 <=> Heavy(j.required, g.skill)
    BY <2>1, FirstRowTells
  <2>3. g.severity = "critical" <=> S!FirstRow(j.required, g.skill).weight >= 7
    BY <1>3 DEF Gap
  <2> QED
    BY <2>2, <2>3
<1>6. \A i \in DOMAIN gaps : gaps[i] \in Gaps(p, j)
  BY <1>2 DEF S!ToSet
<1>7. ASSUME NEW i \in DOMAIN gaps, NEW k \in DOMAIN gaps, i < k
      PROVE  /\ gaps[i].skill # gaps[k].skill
             /\ Heavy(j.required, gaps[k].skill) => Heavy(j.required, gaps[i].skill)
  <2>1. S!Before(gaps[i], gaps[k]) /\ gaps[i] \in Gaps(p, j) /\ gaps[k] \in Gaps(p, j)
    BY <1>2, <1>6, <1>7
  <2>2. gaps[i] # gaps[k]
    BY <1>2, <2>1 DEF Ordered
  <2>3. gaps[k].severity = "critical" => gaps[i].severity = "critical"
    <3>1. gaps[i].severity \in {"critical", "important"}
      BY <1>3, <2>1 DEF Gap
    <3> QED
      BY <2>1, <3>1 DEF S!Before, S!SeverityRank
  <2> QED
    BY <1>3, <1>5, <2>1, <2>2, <2>3
<1> QED
  BY <1>2, <1>3, <1>4, <1>5, <1>7

-----------------------------------------------------------------------------
(* What a dimension gives to the total, in hundredths of a point.            *)
Given(p, j, cosine) ==
  [d \in S!Dimensions |-> S!Rounded(S!RawScores(p, j, cosine)[d], 100 * S!Weights[d])]

LEMMA DimensionsAre ==
  /\ S!Dimensions = {"skill", "experience", "technology", "semantic", "role", "seniority",
                     "project", "education", "location", "salary"}
  /\ IsFiniteSet(S!Dimensions) /\ \A d \in S!Dimensions : S!Weights[d] \in Nat
<1>1. S!Dimensions = {"skill", "experience", "technology", "semantic", "role", "seniority",
                      "project", "education", "location", "salary"}
  BY DEF S!Dimensions, S!Weights
<1>2. \A d \in S!Dimensions : S!Weights[d] \in Nat
  BY <1>1 DEF S!Weights
<1>3. IsFiniteSet(S!Dimensions)
  <2>1. /\ IsFiniteSet({"skill", "experience", "technology"})
        /\ IsFiniteSet({"semantic", "role", "seniority"})
        /\ IsFiniteSet({"project", "education"}) /\ IsFiniteSet({"location", "salary"})
    <3>1. \A a, b : IsFiniteSet({a, b})
      <4> SUFFICES ASSUME NEW a, NEW b PROVE IsFiniteSet({a, b})
        OBVIOUS
      <4>1. IsFiniteSet({a}) /\ IsFiniteSet({b}) /\ {a, b} = {a} \cup {b}
        BY FS_Singleton
      <4> QED
        BY <4>1, FS_Union
    <3>2. \A a, b, c : IsFiniteSet({a, b, c})
      <4> SUFFICES ASSUME NEW a, NEW b, NEW c PROVE IsFiniteSet({a, b, c})
        OBVIOUS
      <4>1. IsFiniteSet({a, b}) /\ IsFiniteSet({c}) /\ {a, b, c} = {a, b} \cup {c}
        BY <3>1, FS_Singleton
      <4> QED
        BY <4>1, FS_Union
    <3> QED
      BY <3>1, <3>2
  <2>2. IsFiniteSet({"skill", "experience", "technology"} \cup {"semantic", "role", "seniority"})
    BY <2>1, FS_Union
  <2>3. IsFiniteSet({"project", "education"} \cup {"location", "salary"})
    BY <2>1, FS_Union
  <2>4. S!Dimensions =
          ({"skill", "experience", "technology"} \cup {"semantic", "role", "seniority"})
             \cup ({"project", "education"} \cup {"location", "salary"})
    BY <1>1
  <2> QED
    BY <2>2, <2>3, <2>4, FS_Union
<1> QED
  BY <1>1, <1>2, <1>3

LEMMA GivenCounts ==
  ASSUME NEW j, S!IsJob(j), NEW p, S!IsProfile(p), NEW cosine \in CosineOrNone
  PROVE  /\ Counts(Given(p, j, cosine), S!Dimensions)
         /\ \A d \in S!Dimensions :
              /\ S!RawScores(p, j, cosine)[d] \in Shares
              /\ Given(p, j, cosine)[d] <= 100 * S!Weights[d]
<1>1. Grown(p, p)
  <2>1. p.years # None => p.years \in Nat
    BY GivenProfile
  <2> QED
    BY <2>1 DEF Grown
<1>2. ASSUME NEW d \in S!Dimensions
      PROVE  /\ S!RawScores(p, j, cosine)[d] \in Shares /\ Given(p, j, cosine)[d] \in Nat
             /\ Given(p, j, cosine)[d] <= 100 * S!Weights[d]
  <2>1. S!RawScores(p, j, cosine)[d] \in Shares
    <3>1. CASE d = "semantic"
      BY <1>1, <3>1, RawScoresGrow
    <3>2. CASE d # "semantic"
      BY <1>1, <3>2, RawScoresGrow DEF Better
    <3> QED
      BY <3>1, <3>2
  <2>2. 100 * S!Weights[d] \in Nat /\ S!RawScores(p, j, cosine)[d] \in Fractions
    BY <2>1, DimensionsAre DEF Shares
  <2>3. /\ S!Rounded(S!RawScores(p, j, cosine)[d], 100 * S!Weights[d]) \in Int
        /\ 0 <= S!Rounded(S!RawScores(p, j, cosine)[d], 100 * S!Weights[d])
        /\ S!Rounded(S!RawScores(p, j, cosine)[d], 100 * S!Weights[d]) <= 100 * S!Weights[d]
    BY <2>1, <2>2, RoundedIs
  <2> QED
    BY <2>1, <2>2, <2>3 DEF Given
<1> QED
  BY <1>2 DEF Counts

(* The total adds up what the dimensions give.                               *)
ScoredOf(done, p, j, cosine, reply) ==
  /\ done.status = "ready" /\ done.of = <<p, j>> /\ done.band = S!BandFor(done.score)
  /\ done.dimensions = [d \in S!Dimensions |-> S!Rounded(S!RawScores(p, j, cosine)[d], 1000)]
  /\ done.contributions = Given(p, j, cosine)
  /\ done.skillGaps = S!DeriveGaps(j, S!Missing(p, j))
  /\ done.rationales = S!Rationales(done.skillGaps, reply)
  /\ \E f : AddsUp(f, S!Dimensions, Given(p, j, cosine)) /\ done.score = f[S!Dimensions]

LEMMA ScoreIs ==
  ASSUME NEW j, S!IsJob(j), NEW p, S!IsProfile(p), NEW cosine \in CosineOrNone,
         NEW reply, NEW done,
         done = S!Score(p, j, cosine, reply)
  PROVE  ScoredOf(done, p, j, cosine, reply)
<1> DEFINE D == S!Dimensions
           w == Given(p, j, cosine)
<1>1. /\ done.status = "ready" /\ done.of = <<p, j>> /\ done.band = S!BandFor(done.score)
      /\ done.dimensions = [d \in D |-> S!Rounded(S!RawScores(p, j, cosine)[d], 1000)]
      /\ done.contributions = w
      /\ done.skillGaps = S!DeriveGaps(j, S!Missing(p, j))
      /\ done.rationales = S!Rationales(done.skillGaps, reply)
  BY DEF S!Score, Given
<1>2. done.score = (CHOOSE f : AddsUp(f, D, w))[D]
  <2>1. done.score = (CHOOSE f : f = [s \in SUBSET D |->
               IF s = {} THEN 0
               ELSE w[CHOOSE x \in s : TRUE] + f[s \ {CHOOSE x \in s : TRUE}]])[D]
    BY DEF S!Score, Given, S!MapThenSumSet, S!MapThenFoldSet
  <2>2. \A f : AddsUp(f, D, w) <=> f = [s \in SUBSET D |->
               IF s = {} THEN 0
               ELSE w[CHOOSE x \in s : TRUE] + f[s \ {CHOOSE x \in s : TRUE}]]
    BY DEF AddsUp, Chosen
  <2> HIDE DEF D, w
  <2> QED
    BY <2>1, <2>2
<1>3. \E f : AddsUp(f, D, w)
  <2> HIDE DEF w
  <2>1. IsFiniteSet(D) /\ Counts(w, D)
    BY DimensionsAre, GivenCounts DEF w
  <2> HIDE DEF D
  <2> QED
    BY <2>1, AddsUpExists
<1> QED
  BY <1>1, <1>2, <1>3 DEF ScoredOf

(* A total is what the ten dimensions give. *)
LEMMA TotalIs ==
  ASSUME NEW w, Counts(w, S!Dimensions), NEW f, AddsUp(f, S!Dimensions, w)
  PROVE  f[S!Dimensions] =
           w["skill"] + w["experience"] + w["technology"] + w["semantic"] + w["role"]
             + w["seniority"] + w["project"] + w["education"] + w["location"] + w["salary"]
<1> DEFINE D == S!Dimensions
           D1 == D \ {"skill"}
           D2 == D1 \ {"experience"}
           D3 == D2 \ {"technology"}
           D4 == D3 \ {"semantic"}
           D5 == D4 \ {"role"}
           D6 == D5 \ {"seniority"}
           D7 == D6 \ {"project"}
           D8 == D7 \ {"education"}
           D9 == D8 \ {"location"}
           D10 == D9 \ {"salary"}
<1>1. Splits(f, D, w) /\ f[{}] = 0
  <2>1. IsFiniteSet(D) /\ Counts(w, D) /\ AddsUp(f, D, w)
    BY DimensionsAre
  <2> HIDE DEF D
  <2>2. Splits(f, D, w)
    BY <2>1, AnyFirst, Zenon
  <2> QED
    BY <2>1, <2>2, AddsUpIs
<1>2. /\ "skill" \in D /\ "experience" \in D1 /\ "technology" \in D2 /\ "semantic" \in D3
      /\ "role" \in D4 /\ "seniority" \in D5 /\ "project" \in D6 /\ "education" \in D7
      /\ "location" \in D8 /\ "salary" \in D9
  BY DimensionsAre
<1>3. D10 = {}
  BY DimensionsAre
<1>4. /\ D \in SUBSET D /\ D1 \in SUBSET D /\ D2 \in SUBSET D /\ D3 \in SUBSET D
      /\ D4 \in SUBSET D /\ D5 \in SUBSET D /\ D6 \in SUBSET D /\ D7 \in SUBSET D
      /\ D8 \in SUBSET D /\ D9 \in SUBSET D
  OBVIOUS
<1>5. /\ w["skill"] \in Nat /\ w["experience"] \in Nat /\ w["technology"] \in Nat
      /\ w["semantic"] \in Nat /\ w["role"] \in Nat /\ w["seniority"] \in Nat
      /\ w["project"] \in Nat /\ w["education"] \in Nat /\ w["location"] \in Nat
      /\ w["salary"] \in Nat
  BY DimensionsAre DEF Counts
<1>6. /\ f[D] = w["skill"] + f[D1] /\ f[D1] = w["experience"] + f[D2]
      /\ f[D2] = w["technology"] + f[D3] /\ f[D3] = w["semantic"] + f[D4]
      /\ f[D4] = w["role"] + f[D5] /\ f[D5] = w["seniority"] + f[D6]
      /\ f[D6] = w["project"] + f[D7] /\ f[D7] = w["education"] + f[D8]
      /\ f[D8] = w["location"] + f[D9] /\ f[D9] = w["salary"] + f[D10]
  <2>1. \A s \in SUBSET D : \A x \in s : f[s] = w[x] + f[s \ {x}]
    BY <1>1 DEF Splits
  <2> QED
    BY <1>2, <1>4, <2>1, Zenon
<1> HIDE DEF D1, D2, D3, D4, D5, D6, D7, D8, D9, D10
<1>7. f[D10] = 0
  BY <1>1, <1>3
<1> QED
  BY <1>5, <1>6, <1>7

(* A profile that has grown scores no less, but for its likeness to the      *)
(* posting, and its gaps were gaps before.                                   *)
LEMMA ScoreGrows ==
  ASSUME NEW j, S!IsJob(j), NEW p, NEW q, S!IsProfile(p), S!IsProfile(q), Grown(p, q),
         NEW cosine \in CosineOrNone, NEW later \in CosineOrNone, NEW reply, NEW answer,
         NEW before, before = S!Score(p, j, cosine, reply),
         NEW after, after = S!Score(q, j, later, answer)
  PROVE  /\ after.score - after.contributions.semantic
              >= before.score - before.contributions.semantic
         /\ \A d \in S!Dimensions \ {"semantic"} : after.dimensions[d] >= before.dimensions[d]
         /\ S!ToSet(after.skillGaps) \subseteq S!ToSet(before.skillGaps)
<1> DEFINE D == S!Dimensions
           v == Given(p, j, cosine)
           w == Given(q, j, later)
<1>1. /\ before.dimensions = [d \in D |-> S!Rounded(S!RawScores(p, j, cosine)[d], 1000)]
      /\ before.skillGaps = S!DeriveGaps(j, S!Missing(p, j)) /\ before.contributions = v
      /\ \E f : AddsUp(f, D, v) /\ before.score = f[D]
  BY ScoreIs DEF ScoredOf
<1>2. /\ after.dimensions = [d \in D |-> S!Rounded(S!RawScores(q, j, later)[d], 1000)]
      /\ after.skillGaps = S!DeriveGaps(j, S!Missing(q, j)) /\ after.contributions = w
      /\ \E f : AddsUp(f, D, w) /\ after.score = f[D]
  BY ScoreIs DEF ScoredOf
<1>3. ASSUME NEW d \in D \ {"semantic"}, NEW unit \in Nat
      PROVE  S!Rounded(S!RawScores(p, j, cosine)[d], unit)
               <= S!Rounded(S!RawScores(q, j, later)[d], unit)
  <2>1. Better(S!RawScores(p, j, cosine)[d], S!RawScores(q, j, later)[d])
    BY RawScoresGrow
  <2>2. /\ S!RawScores(p, j, cosine)[d] \in Fractions /\ S!RawScores(q, j, later)[d] \in Fractions
        /\ S!Leq(S!RawScores(p, j, cosine)[d], S!RawScores(q, j, later)[d])
    BY <2>1 DEF Better, Shares
  <2> QED
    BY <2>2, RoundedGrows
<1>4. ASSUME NEW d \in D \ {"semantic"} PROVE after.dimensions[d] >= before.dimensions[d]
  BY <1>1, <1>2, <1>3
<1>5. ASSUME NEW d \in D \ {"semantic"} PROVE v[d] <= w[d]
  <2>1. 100 * S!Weights[d] \in Nat
    BY DimensionsAre
  <2> QED
    BY <1>3, <2>1 DEF Given
<1>6. Counts(v, D) /\ Counts(w, D)
  BY GivenCounts
<1> HIDE DEF v, w
<1>7. before.score = v["skill"] + v["experience"] + v["technology"] + v["semantic"] + v["role"]
        + v["seniority"] + v["project"] + v["education"] + v["location"] + v["salary"]
  BY <1>1, <1>6, TotalIs
<1>8. after.score = w["skill"] + w["experience"] + w["technology"] + w["semantic"] + w["role"]
        + w["seniority"] + w["project"] + w["education"] + w["location"] + w["salary"]
  BY <1>2, <1>6, TotalIs
<1>9. after.score - after.contributions.semantic >= before.score - before.contributions.semantic
  <2>1. /\ v["skill"] <= w["skill"] /\ v["experience"] <= w["experience"]
        /\ v["technology"] <= w["technology"] /\ v["role"] <= w["role"]
        /\ v["seniority"] <= w["seniority"] /\ v["project"] <= w["project"]
        /\ v["education"] <= w["education"] /\ v["location"] <= w["location"]
        /\ v["salary"] <= w["salary"]
    BY <1>5, DimensionsAre
  <2>2. \A d \in D : v[d] \in Nat /\ w[d] \in Nat
    BY <1>6 DEF Counts
  <2>3. /\ v["skill"] \in Nat /\ v["experience"] \in Nat /\ v["technology"] \in Nat
        /\ v["semantic"] \in Nat /\ v["role"] \in Nat /\ v["seniority"] \in Nat
        /\ v["project"] \in Nat /\ v["education"] \in Nat /\ v["location"] \in Nat
        /\ v["salary"] \in Nat
        /\ w["skill"] \in Nat /\ w["experience"] \in Nat /\ w["technology"] \in Nat
        /\ w["semantic"] \in Nat /\ w["role"] \in Nat /\ w["seniority"] \in Nat
        /\ w["project"] \in Nat /\ w["education"] \in Nat /\ w["location"] \in Nat
        /\ w["salary"] \in Nat
    BY <2>2, DimensionsAre
  <2> DEFINE falls == before.contributions.semantic
             rises == after.contributions.semantic
  <2>4. falls = v["semantic"] /\ rises = w["semantic"]
    BY <1>1, <1>2
  <2> HIDE DEF D, falls, rises
  <2>5. after.score - rises >= before.score - falls
    BY <1>7, <1>8, <2>1, <2>3, <2>4
  <2> QED
    BY <2>5 DEF falls, rises
<1>10. S!ToSet(after.skillGaps) \subseteq S!ToSet(before.skillGaps)
  <2>1. S!ToSet(after.skillGaps) = Gaps(q, j) /\ S!ToSet(before.skillGaps) = Gaps(p, j)
    BY <1>1, <1>2, GapsListed
  <2> QED
    BY <2>1 DEF Gaps, S!Missing, Grown
<1> QED
  BY <1>4, <1>9, <1>10

(* Every other dimension together makes 78 points: a strong match has skills.*)
LEMMA StrongHasSkill ==
  ASSUME NEW j, S!IsJob(j), NEW p, S!IsProfile(p), NEW cosine \in CosineOrNone,
         NEW reply, NEW done,
         done = S!Score(p, j, cosine, reply), done.band = "strong"
  PROVE  done.dimensions["skill"] > 0
<1>0. /\ done.dimensions = [d \in S!Dimensions |-> S!Rounded(S!RawScores(p, j, cosine)[d], 1000)]
      /\ done.skillGaps = S!DeriveGaps(j, S!Missing(p, j)) /\ done.band = S!BandFor(done.score)
      /\ \E f : AddsUp(f, S!Dimensions, Given(p, j, cosine)) /\ done.score = f[S!Dimensions]
  BY ScoreIs DEF ScoredOf
<1> DEFINE D == S!Dimensions
           w == Given(p, j, cosine)
<1>1. PICK f : AddsUp(f, D, w) /\ done.score = f[D]
  BY <1>0
<1>2. /\ "skill" \in D /\ "experience" \in D /\ "technology" \in D /\ "semantic" \in D
      /\ "role" \in D /\ "seniority" \in D /\ "project" \in D /\ "education" \in D
      /\ "location" \in D /\ "salary" \in D
  BY DimensionsAre
<1>3. /\ w["experience"] <= 1600 /\ w["technology"] <= 1300 /\ w["semantic"] <= 1200
      /\ w["role"] <= 1000 /\ w["seniority"] <= 800 /\ w["project"] <= 700
      /\ w["education"] <= 500 /\ w["location"] <= 400 /\ w["salary"] <= 300
  BY DimensionsAre, GivenCounts DEF S!Weights
<1>4. Counts(w, D)
  BY GivenCounts
<1> HIDE DEF w
<1>5. /\ w["skill"] \in Nat /\ w["experience"] \in Nat /\ w["technology"] \in Nat
      /\ w["semantic"] \in Nat /\ w["role"] \in Nat /\ w["seniority"] \in Nat
      /\ w["project"] \in Nat /\ w["education"] \in Nat /\ w["location"] \in Nat
      /\ w["salary"] \in Nat
  BY <1>4, <1>2 DEF Counts
<1>6. f[D] = w["skill"] + w["experience"] + w["technology"] + w["semantic"] + w["role"]
        + w["seniority"] + w["project"] + w["education"] + w["location"] + w["salary"]
  BY <1>1, <1>4, TotalIs
<1> HIDE DEF D
<1>7. f[D] <= w["skill"] + 7800 /\ f[D] \in Nat
  BY <1>3, <1>5, <1>6
<1>8. f[D] >= 8000
  <2>1. S!BandFor(f[D]) = "strong"
    BY <1>0, <1>1
  <2>2. f[D] >= 8000 \/ S!BandFor(f[D]) \in {"good", "partial", "weak"}
    BY DEF S!BandFor
  <2> QED
    BY <2>1, <2>2
<1>9. w["skill"] >= 200
  BY <1>5, <1>7, <1>8
<1> DEFINE raw == S!RawScores(p, j, cosine)["skill"]
           n == raw[1]
           d == raw[2]
<1>10. n \in Int /\ d \in Nat \ {0}
  <2>1. raw \in Shares
    BY <1>2, GivenCounts DEF D
  <2> QED
    BY <2>1 DEF Shares, Fractions
<1>11. /\ w["skill"] = (2 * n * (100 * 22) + d) \div (2 * d)
       /\ done.dimensions["skill"] = (2 * n * 1000 + d) \div (2 * d)
  <2>1. w["skill"] = S!Rounded(raw, 100 * S!Weights["skill"]) /\ S!Weights["skill"] = 22
    BY <1>2 DEF w, Given, D, S!Weights
  <2>2. done.dimensions["skill"] = S!Rounded(raw, 1000)
    BY <1>0, <1>2 DEF D
  <2> QED
    BY <2>1, <2>2 DEF S!Rounded
<1> HIDE DEF n, d, raw
<1>12. w["skill"] * (2 * d) <= 2 * n * (100 * 22) + d
  <2> DEFINE a == 2 * n * (100 * 22) + d
             b == 2 * d
  <2>1. a \in Int /\ b \in Nat \ {0}
    BY <1>10
  <2>2. w["skill"] = a \div b
    BY <1>11
  <2> HIDE DEF a, b
  <2>3. (a \div b) * b <= a
    BY <2>1, Z3
  <2>4. w["skill"] * b <= a
    BY <2>2, <2>3
  <2> QED
    BY <2>4 DEF a, b
<1>13. 200 * (2 * d) <= w["skill"] * (2 * d)
  BY <1>5, <1>9, <1>10, Scale
<1>14. 2 * d <= 2 * n * 1000 + d
  <2>1. 200 * (2 * d) <= 4400 * n + d
    <3>1. w["skill"] * (2 * d) \in Int
      BY <1>5, <1>10
    <3> QED
      BY <1>10, <1>12, <1>13, <3>1
  <2> QED
    BY <1>10, <2>1
<1>15. (2 * n * 1000 + d) \div (2 * d) >= 1
  <2> DEFINE a == 2 * n * 1000 + d
             b == 2 * d
  <2>1. a \in Int /\ b \in Nat \ {0} /\ b <= a
    BY <1>10, <1>14
  <2> HIDE DEF a, b
  <2>2. a \div b >= 1
    BY <2>1, Z3
  <2> QED
    BY <2>2 DEF a, b
<1> QED
  <2>1. (2 * n * 1000 + d) \div (2 * d) \in Int
    BY <1>10
  <2> QED
    BY <1>11, <1>15, <2>1

(* Where any row weighs and none is a gap the skill dimension is full.       *)
LEMMA NoGapIsFull ==
  ASSUME NEW j, S!IsJob(j), NEW p, S!IsProfile(p), NEW cosine \in CosineOrNone,
         NEW reply, NEW done,
         done = S!Score(p, j, cosine, reply), done.skillGaps = <<>>,
         NEW i \in DOMAIN j.required, j.required[i].weight > 0
  PROVE  done.dimensions["skill"] = 1000
<1>0. /\ done.dimensions = [d \in S!Dimensions |-> S!Rounded(S!RawScores(p, j, cosine)[d], 1000)]
      /\ done.skillGaps = S!DeriveGaps(j, S!Missing(p, j)) /\ done.band = S!BandFor(done.score)
      /\ \E f : AddsUp(f, S!Dimensions, Given(p, j, cosine)) /\ done.score = f[S!Dimensions]
  BY ScoreIs DEF ScoredOf
<1> DEFINE needs == j.required
           all == S!WeightOf(needs, DOMAIN needs)
           more == S!Bonus(p, j)
<1>1. needs \in Seq(Rows) /\ needs # <<>> /\ needs[i].weight \in Nat
  <2>1. needs \in Seq(Rows)
    BY GivenJob
  <2>2. needs[i] \in Rows
    BY <2>1
  <2> QED
    BY <2>1, <2>2 DEF Rows
<1>2. S!Held(needs, p) = DOMAIN needs
  <2>1. S!ToSet(done.skillGaps) = Gaps(p, j)
    <3>1. done.skillGaps = S!DeriveGaps(j, S!Missing(p, j))
      BY <1>0
    <3> QED
      BY <3>1, GapsListed
  <2>2. Gaps(p, j) = {}
    BY <2>1 DEF S!ToSet
  <2>3. S!Missing(p, j) = {}
    BY <2>2 DEF Gaps
  <2> QED
    BY <2>3 DEF S!Missing, S!Named, S!Held
<1>3. all \in Nat /\ all # 0
  <2>1. all \in Nat /\ \A k \in DOMAIN needs : needs[k].weight <= all
    <3> HIDE DEF needs
    <3> QED
      BY <1>1, WeightsGrow
  <2>2. needs[i].weight <= all
    BY <2>1
  <2> HIDE DEF all, needs
  <2>3. needs[i].weight > 0
    BY DEF needs
  <2> QED
    BY <1>1, <2>1, <2>2, <2>3
<1>4. S!DimSkill(p, j) = S!AtMost(S!One, S!Plus(<<all, all>>, more))
  BY <1>1, <1>2, <1>3, Zenon DEF S!DimSkill
<1>5. more \in Shares
  <2>1. Grown(p, p)
    <3>1. p.years # None => p.years \in Nat
      BY GivenProfile
    <3> QED
      BY <3>1 DEF Grown
  <2> QED
    BY <2>1, BonusGrows DEF Better
<1> HIDE DEF all, more, needs
<1>6. S!Leq(S!One, S!Plus(<<all, all>>, more))
  <2>1. more[1] \in Nat /\ more[2] \in Nat \ {0}
    BY <1>5 DEF Shares, Fractions
  <2>2. all * more[2] \in Nat /\ more[1] * all \in Nat
    BY <1>3, <2>1
  <2>3. 1 * (all * more[2]) <= (all * more[2] + more[1] * all) * 1
    BY <2>2
  <2> QED
    BY <2>3 DEF S!Leq, S!Plus, S!One
<1>7. S!DimSkill(p, j) = S!One
  BY <1>4, <1>6 DEF S!AtMost
<1>8. done.dimensions["skill"] = S!Rounded(S!DimSkill(p, j), 1000)
  <2>1. "skill" \in S!Dimensions
    BY DimensionsAre
  <2>2. done.dimensions["skill"] = S!Rounded(S!RawScores(p, j, cosine)["skill"], 1000)
    BY <1>0, <2>1
  <2> QED
    BY <2>2 DEF S!RawScores
<1>9. S!Rounded(S!One, 1000) = 1000
  BY DEF S!Rounded, S!One
<1> QED
  BY <1>7, <1>8, <1>9

-----------------------------------------------------------------------------
(* What was scored was scored of a profile that has only grown since.        *)
ScoredOnce ==
  /\ part = "scorer" => S!IsProfile(snapshot) /\ S!IsJob(job)
  /\ \/ scored = S!Unscored
     \/ /\ part = "scorer"
        /\ \E p, reply, cosine : /\ S!IsProfile(p) /\ Grown(p, snapshot) /\ cosine \in CosineOrNone
                                 /\ scored = S!Score(p, job, cosine, reply)

LEMMA GrownOn ==
  ASSUME NEW p, NEW q, NEW r, S!IsProfile(p), S!IsProfile(q), S!IsProfile(r),
         Grown(p, q), Grown(q, r)
  PROVE  Grown(p, r)
<1>1. /\ p.years # None => p.years \in Nat
      /\ q.years # None => q.years \in Nat
      /\ r.years # None => r.years \in Nat
  BY GivenProfile
<1>2. p.years # None => r.years # None /\ p.years <= r.years
  BY <1>1 DEF Grown
<1> QED
  BY <1>2 DEF Grown

LEMMA GrownFromItself == ASSUME NEW p, S!IsProfile(p) PROVE Grown(p, p)
<1>1. p.years # None => p.years \in Nat
  BY GivenProfile
<1> QED
  BY <1>1 DEF Grown

LEMMA GrowsIsGrown ==
  ASSUME S!IsProfile(snapshot), S!Grows
  PROVE  S!IsProfile(snapshot') /\ Grown(snapshot, snapshot')
<1> DEFINE fields == {"skills", "tech", "titles", "projects", "projectTech", "degree", "fields",
                      "years", "seniority", "roles", "locations", "modes", "floor"}
<1>1. /\ DOMAIN snapshot = fields /\ snapshot.degree \in BOOLEAN /\ snapshot.projects \in BOOLEAN
      /\ snapshot.years \in S!OrNone(Nat) /\ snapshot.floor \in S!OrNone(Nat)
      /\ snapshot.seniority \in S!OrNone(DOMAIN S!SeniorityLadder)
      /\ \A title \in snapshot.titles : S!IsFiniteSet(title)
      /\ \A title \in snapshot.roles : S!IsFiniteSet(title)
      /\ S!IsFiniteSet(snapshot.titles) /\ S!IsFiniteSet(snapshot.roles)
  BY DEF S!IsProfile
<1>2. Grown(snapshot, snapshot)
  BY GrownFromItself
<1>3. ASSUME NEW s \in S!SkillIds, S!AddsSkill(s)
      PROVE  S!IsProfile(snapshot') /\ Grown(snapshot, snapshot')
  <2>1. /\ DOMAIN snapshot' = fields /\ snapshot'.skills = snapshot.skills \cup {s}
        /\ snapshot'.tech = snapshot.tech /\ snapshot'.titles = snapshot.titles
        /\ snapshot'.projects = snapshot.projects
        /\ snapshot'.projectTech = snapshot.projectTech /\ snapshot'.degree = snapshot.degree
        /\ snapshot'.fields = snapshot.fields /\ snapshot'.years = snapshot.years
        /\ snapshot'.seniority = snapshot.seniority /\ snapshot'.roles = snapshot.roles
        /\ snapshot'.locations = snapshot.locations /\ snapshot'.modes = snapshot.modes
        /\ snapshot'.floor = snapshot.floor
    BY <1>1, <1>3 DEF S!AddsSkill
  <2> QED
    BY <1>1, <1>2, <2>1 DEF S!IsProfile, Grown
<1>4. ASSUME NEW s \in S!SkillIds, S!AddsTech(s)
      PROVE  S!IsProfile(snapshot') /\ Grown(snapshot, snapshot')
  <2>1. /\ DOMAIN snapshot' = fields /\ snapshot'.skills = snapshot.skills
        /\ snapshot'.tech = snapshot.tech \cup {s} /\ snapshot'.titles = snapshot.titles
        /\ snapshot'.projects = snapshot.projects
        /\ snapshot'.projectTech = snapshot.projectTech /\ snapshot'.degree = snapshot.degree
        /\ snapshot'.fields = snapshot.fields /\ snapshot'.years = snapshot.years
        /\ snapshot'.seniority = snapshot.seniority /\ snapshot'.roles = snapshot.roles
        /\ snapshot'.locations = snapshot.locations /\ snapshot'.modes = snapshot.modes
        /\ snapshot'.floor = snapshot.floor
    BY <1>1, <1>4 DEF S!AddsTech
  <2> QED
    BY <1>1, <1>2, <2>1 DEF S!IsProfile, Grown
<1>5. ASSUME NEW tools \in SUBSET S!SkillIds, S!AddsProject(tools)
      PROVE  S!IsProfile(snapshot') /\ Grown(snapshot, snapshot')
  <2>1. /\ DOMAIN snapshot' = fields /\ snapshot'.skills = snapshot.skills
        /\ snapshot'.tech = snapshot.tech \cup tools /\ snapshot'.titles = snapshot.titles
        /\ snapshot'.projectTech = snapshot.projectTech \cup tools /\ snapshot'.projects = TRUE
        /\ snapshot'.degree = snapshot.degree
        /\ snapshot'.fields = snapshot.fields /\ snapshot'.years = snapshot.years
        /\ snapshot'.seniority = snapshot.seniority /\ snapshot'.roles = snapshot.roles
        /\ snapshot'.locations = snapshot.locations /\ snapshot'.modes = snapshot.modes
        /\ snapshot'.floor = snapshot.floor
    BY <1>1, <1>5 DEF S!AddsProject
  <2> QED
    BY <1>1, <1>2, <2>1 DEF S!IsProfile, Grown
<1>6. ASSUME NEW title \in NewTitles, S!AddsTitle(title)
      PROVE  S!IsProfile(snapshot') /\ Grown(snapshot, snapshot')
  <2>1. /\ DOMAIN snapshot' = fields /\ snapshot'.skills = snapshot.skills
        /\ snapshot'.tech = snapshot.tech /\ snapshot'.titles = snapshot.titles \cup {title}
        /\ snapshot'.projects = snapshot.projects
        /\ snapshot'.projectTech = snapshot.projectTech /\ snapshot'.degree = snapshot.degree
        /\ snapshot'.fields = snapshot.fields /\ snapshot'.years = snapshot.years
        /\ snapshot'.seniority = snapshot.seniority /\ snapshot'.roles = snapshot.roles
        /\ snapshot'.locations = snapshot.locations /\ snapshot'.modes = snapshot.modes
        /\ snapshot'.floor = snapshot.floor
    BY <1>1, <1>6 DEF S!AddsTitle
  <2>2. S!IsFiniteSet(snapshot'.titles) /\ \A t \in snapshot'.titles : S!IsFiniteSet(t)
    <3>1. S!IsFiniteSet(title)
      BY ScorerIsGiven DEF S!ScorerAssumption
    <3>2. IsFiniteSet(snapshot.titles) /\ IsFiniteSet({title})
      BY <1>1, SameSize, FS_Singleton
    <3>3. IsFiniteSet(snapshot.titles \cup {title})
      BY <3>2, FS_Union
    <3> QED
      BY <1>1, <2>1, <3>1, <3>3, SameSize
  <2> QED
    BY <1>1, <1>2, <2>1, <2>2 DEF S!IsProfile, Grown
<1>7. ASSUME NEW title \in NewTitles, S!AddsDegree(title)
      PROVE  S!IsProfile(snapshot') /\ Grown(snapshot, snapshot')
  <2>1. /\ DOMAIN snapshot' = fields /\ snapshot'.skills = snapshot.skills
        /\ snapshot'.tech = snapshot.tech /\ snapshot'.titles = snapshot.titles
        /\ snapshot'.projects = snapshot.projects
        /\ snapshot'.projectTech = snapshot.projectTech /\ snapshot'.degree = TRUE
        /\ snapshot'.fields = snapshot.fields \cup title /\ snapshot'.years = snapshot.years
        /\ snapshot'.seniority = snapshot.seniority /\ snapshot'.roles = snapshot.roles
        /\ snapshot'.locations = snapshot.locations /\ snapshot'.modes = snapshot.modes
        /\ snapshot'.floor = snapshot.floor
    BY <1>1, <1>7 DEF S!AddsDegree
  <2> QED
    BY <1>1, <1>2, <2>1 DEF S!IsProfile, Grown
<1>8. ASSUME S!AddsYear
      PROVE  S!IsProfile(snapshot') /\ Grown(snapshot, snapshot')
  <2>1. /\ DOMAIN snapshot' = fields /\ snapshot'.skills = snapshot.skills
        /\ snapshot'.tech = snapshot.tech /\ snapshot'.titles = snapshot.titles
        /\ snapshot'.projects = snapshot.projects
        /\ snapshot'.projectTech = snapshot.projectTech /\ snapshot'.degree = snapshot.degree
        /\ snapshot'.fields = snapshot.fields /\ snapshot'.years = snapshot.years + 1
        /\ snapshot'.seniority = snapshot.seniority /\ snapshot'.roles = snapshot.roles
        /\ snapshot'.locations = snapshot.locations /\ snapshot'.modes = snapshot.modes
        /\ snapshot'.floor = snapshot.floor /\ snapshot.years # None
    BY <1>1, <1>8 DEF S!AddsYear
  <2>2. /\ snapshot.years \in Nat /\ snapshot.years + 1 \in Nat
        /\ snapshot.years <= snapshot.years + 1 /\ snapshot.years + 1 # None
    <3>1. snapshot.years \in Nat /\ None \notin Nat
      BY <1>1, <2>1, ScorerIsGiven DEF S!OrNone, S!ScorerAssumption
    <3> QED
      BY <3>1
  <2>3. snapshot'.years \in S!OrNone(Nat)
    BY <2>1, <2>2 DEF S!OrNone
  <2> HIDE DEF fields
  <2>4. S!IsProfile(snapshot')
    BY <1>1, <2>1, <2>3 DEF S!IsProfile, fields
  <2> QED
    BY <1>2, <2>1, <2>2, <2>4 DEF Grown
<1> QED
  BY <1>3, <1>4, <1>5, <1>6, <1>7, <1>8 DEF S!Grows

LEMMA CosinesAre ==
  ASSUME NEW p, NEW j PROVE S!CosinesOf(p, j) \subseteq CosineOrNone
BY ScorerIsGiven DEF S!CosinesOf, S!ScorerAssumption, CosineOrNone, S!OrNone

LEMMA ScoredFirst == ServicesInit => ScoredOnce
<1> SUFFICES ASSUME ServicesInit PROVE ScoredOnce
  OBVIOUS
<1>1. CASE part = "scorer"
  <2>1. snapshot \in Starters /\ job \in Postings /\ scored = S!Unscored
    BY <1>1 DEF ServicesInit, S!Init
  <2> QED
    BY <2>1, ScorerIsGiven DEF ScoredOnce, S!ScorerAssumption
<1>2. CASE part # "scorer"
  BY <1>2 DEF ServicesInit, NoScorer, ScoredOnce
<1> QED
  BY <1>1, <1>2

LEMMA ScoredStays == ScoredOnce /\ [ServicesNext]_servicesVars => ScoredOnce'
<1> SUFFICES ASSUME ScoredOnce, [ServicesNext]_servicesVars PROVE ScoredOnce'
  OBVIOUS
<1>1. part' = part
  BY OneScoreMoves
<1>2. ASSUME UNCHANGED scorerVars PROVE ScoredOnce'
  BY <1>1, <1>2 DEF ScoredOnce, scorerVars
<1>3. ASSUME part = "scorer", S!Grows PROVE ScoredOnce'
  <2>1. S!IsProfile(snapshot') /\ Grown(snapshot, snapshot') /\ job' = job /\ scored' = scored
    BY <1>3, GrowsIsGrown DEF ScoredOnce, S!Grows
  <2>2. ASSUME NEW p, NEW reply, NEW cosine, S!IsProfile(p), Grown(p, snapshot),
               scored = S!Score(p, job, cosine, reply)
        PROVE  Grown(p, snapshot') /\ scored' = S!Score(p, job', cosine, reply)
    <3>1. S!IsProfile(snapshot)
      BY <1>3 DEF ScoredOnce
    <3> QED
      BY <2>1, <2>2, <3>1, GrownOn
  <2>3. CASE scored = S!Unscored
    BY <1>1, <1>3, <2>1, <2>3 DEF ScoredOnce
  <2>4. CASE scored # S!Unscored
    <3>1. PICK p, reply, cosine : /\ S!IsProfile(p) /\ Grown(p, snapshot) /\ cosine \in CosineOrNone
                                  /\ scored = S!Score(p, job, cosine, reply)
      BY <2>4 DEF ScoredOnce
    <3>2. Grown(p, snapshot') /\ scored' = S!Score(p, job', cosine, reply)
      BY <2>2, <3>1
    <3> QED
      BY <1>1, <1>3, <2>1, <3>1, <3>2 DEF ScoredOnce
  <2> QED
    BY <2>3, <2>4
<1>4. ASSUME part = "scorer", S!Scores PROVE ScoredOnce'
  <2>1. PICK cosine \in S!CosinesOf(snapshot, job), reply \in {{}, S!SkillIds} :
          scored' = S!Score(snapshot, job, cosine, reply)
    BY <1>4 DEF S!Scores
  <2>2. snapshot' = snapshot /\ job' = job /\ S!IsProfile(snapshot) /\ S!IsJob(job)
    BY <1>4 DEF S!Scores, ScoredOnce
  <2>3. Grown(snapshot, snapshot')
    BY <2>2, GrownFromItself
  <2>4. scored' = S!Score(snapshot, job', cosine, reply) /\ cosine \in CosineOrNone
    BY <2>1, <2>2, CosinesAre
  <2> QED
    BY <1>1, <1>4, <2>2, <2>3, <2>4 DEF ScoredOnce
<1> QED
  BY <1>2, <1>3, <1>4, OneScoreMoves DEF S!Next

LEMMA ScoredInvariant == ServicesSpec => []ScoredOnce
<1>1. ServicesInit => ScoredOnce
  BY ScoredFirst
<1>2. ScoredOnce /\ [ServicesNext]_servicesVars => ScoredOnce'
  BY ScoredStays
<1> QED
  BY <1>1, <1>2, PTL DEF ServicesSpec, servicesVars

(* The gaps a match lists are what its score is short of: each required      *)
(* skill the profile lacked, once, as grave as its first row and the grave   *)
(* ones first; with none the skill dimension is full wherever a row weighs,  *)
(* and without skills no match is strong (gaps.py, scorer.py, weights.py).   *)
THEOREM GapsExplain == ServicesSpec => []GapsExplainTheScore
<1>1. ASSUME ScoredOnce PROVE GapsExplainTheScore
  <2>1. CASE scored = S!Unscored
    BY <2>1 DEF GapsExplainTheScore, S!GapsExplainTheScore, S!Unscored
  <2>2. CASE scored # S!Unscored
    <3>1. PICK p, reply, cosine : /\ S!IsProfile(p) /\ S!IsJob(job) /\ cosine \in CosineOrNone
                                  /\ scored = S!Score(p, job, cosine, reply)
      BY <1>1, <2>2 DEF ScoredOnce
    <3>0. ScoredOf(scored, p, job, cosine, reply)
      BY <3>1, ScoreIs, Zenon
    <3> DEFINE gaps == scored.skillGaps
    <3>2. /\ scored.of = <<p, job>> /\ gaps = S!DeriveGaps(job, S!Missing(p, job))
          /\ scored.rationales = S!Rationales(gaps, reply)
      BY <3>0 DEF ScoredOf
    <3>3. scored.of[1] = p /\ scored.of[2] = job
      BY <3>2
    <3>4. /\ {g.skill : g \in S!ToSet(gaps)} = S!Missing(p, job)
          /\ \A i, k \in DOMAIN gaps : i < k =>
               /\ gaps[i].skill # gaps[k].skill
               /\ Heavy(job.required, gaps[k].skill) => Heavy(job.required, gaps[i].skill)
          /\ \A g \in S!ToSet(gaps) : g.severity = "critical" <=> Heavy(job.required, g.skill)
      BY <3>1, <3>2, GapsListed
    <3>5. S!Missing(p, job) = {r.skill : r \in S!ToSet(job.required)} \ p.skills
      BY DEF S!Missing, S!Named, S!ToSet
    <3>6. gaps = <<>> /\ (\E i \in DOMAIN job.required : job.required[i].weight > 0) =>
            scored.dimensions.skill = 1000
      BY <3>1, NoGapIsFull
    <3>7. scored.band = "strong" => scored.dimensions.skill > 0
      BY <3>1, StrongHasSkill
    <3>8. scored.rationales \subseteq {g.skill : g \in S!ToSet(gaps)}
      BY <3>2 DEF S!Rationales, S!ToSet
    <3> HIDE DEF gaps
    <3>9. S!GapsExplainTheScore
      BY <3>3, <3>4, <3>5, <3>6, <3>7, <3>8 DEF S!GapsExplainTheScore, Heavy, gaps
    <3> QED
      BY <3>9 DEF GapsExplainTheScore
  <2> QED
    BY <2>1, <2>2
<1> QED
  BY <1>1, ScoredInvariant, PTL

(* However a profile grows and whatever its new summary is like, a match     *)
(* that is computed again is no worse but for the semantic dimension, in     *)
(* total and in each other one, and it has no gap that was not there         *)
(* (scorer.py, worker/tasks/matching.py).                                    *)
THEOREM OnlyLikenessFalls == ServicesSpec => OnlyLikenessMayFall
<1> DEFINE NoWorse ==
      scored.status = "ready" /\ scored'.status = "ready" =>
        /\ scored'.score - scored'.contributions.semantic
             >= scored.score - scored.contributions.semantic
        /\ \A d \in S!Dimensions \ {"semantic"} : scored'.dimensions[d] >= scored.dimensions[d]
        /\ S!ToSet(scored'.skillGaps) \subseteq S!ToSet(scored.skillGaps)
<1>1. ASSUME ScoredOnce, [ServicesNext]_servicesVars PROVE [NoWorse]_(S!mVars)
  <2>1. SUFFICES ASSUME ~ UNCHANGED S!mVars, scored.status = "ready" PROVE NoWorse
    OBVIOUS
  <2>2. part = "scorer" /\ S!Next
    BY <1>1, <2>1, OneScoreMoves DEF scorerVars, S!mVars
  <2>3. PICK p, reply, cosine : /\ S!IsProfile(p) /\ Grown(p, snapshot) /\ cosine \in CosineOrNone
                                /\ scored = S!Score(p, job, cosine, reply)
    BY <1>1, <2>1 DEF ScoredOnce, S!Unscored
  <2>4. S!IsProfile(snapshot) /\ S!IsJob(job)
    BY <1>1, <2>2 DEF ScoredOnce
  <2>5. CASE S!Grows
    <3>1. scored' = S!Score(p, job, cosine, reply) /\ Grown(p, p)
      BY <2>3, <2>5, GrownFromItself DEF S!Grows
    <3> QED
      BY <2>3, <2>4, <3>1, ScoreGrows
  <2>6. CASE S!Scores
    <3>1. PICK later \in S!CosinesOf(snapshot, job), answer \in {{}, S!SkillIds} :
            scored' = S!Score(snapshot, job, later, answer)
      BY <2>6 DEF S!Scores
    <3>2. later \in CosineOrNone
      BY <3>1, CosinesAre
    <3> QED
      BY <2>3, <2>4, <3>1, <3>2, ScoreGrows
  <2> QED
    BY <2>2, <2>5, <2>6 DEF S!Next
<1>2. [][NoWorse]_(S!mVars) => OnlyLikenessMayFall
  BY DEF OnlyLikenessMayFall, S!OnlyLikenessMayFall
<1> QED
  BY <1>1, <1>2, ScoredInvariant, PTL DEF ServicesSpec, servicesVars

-----------------------------------------------------------------------------
(* Guidance (Career).  The postings a person may see do not change, what is  *)
(* stored of the person grows.                                              *)
CareerGiven == IsFiniteSet(jobs) /\ \A j \in jobs : C!IsPosting(j)
Suits(p)    == C!IsPerson(p)

LEMMA SameCount ==
  ASSUME NEW E PROVE (C!IsFiniteSet(E) <=> IsFiniteSet(E)) /\ C!Cardinality(E) = Cardinality(E)
BY Zenon DEF C!IsFiniteSet, IsFiniteSet, C!Cardinality, Cardinality

(* Finitely many sets, each with finitely many elements.                     *)
LEMMA AskedIsFinite ==
  ASSUME CareerGiven, NEW f
  PROVE  IsFiniteSet(C!AskedFor(f)) /\ C!AskedFor(f) \subseteq Int
<1> DEFINE asking == [j \in C!Group(f) |-> j.required \cup j.preferred]
           each == {asking[j] : j \in DOMAIN asking}
<1>1. C!Group(f) \subseteq jobs
  BY DEF C!Group
<1>2. \A j \in C!Group(f) : asking[j] = j.required \cup j.preferred
  OBVIOUS
<1>3. \A j \in C!Group(f) : IsFiniteSet(asking[j]) /\ asking[j] \subseteq Int
  <2> SUFFICES ASSUME NEW j \in C!Group(f)
               PROVE  IsFiniteSet(asking[j]) /\ asking[j] \subseteq Int
    OBVIOUS
  <2>1. C!IsPosting(j)
    BY <1>1 DEF CareerGiven
  <2>2. /\ IsFiniteSet(j.required) /\ IsFiniteSet(j.preferred)
        /\ j.required \subseteq Int /\ j.preferred \subseteq Int
    BY <2>1, SameCount DEF C!IsPosting
  <2>3. IsFiniteSet(j.required \cup j.preferred)
    BY <2>2, FS_Union
  <2> QED
    BY <1>2, <2>2, <2>3
<1>4. DOMAIN asking = C!Group(f) /\ asking = [j \in DOMAIN asking |-> asking[j]]
  OBVIOUS
<1>5. C!AskedFor(f) = UNION each
  BY <1>2, <1>4 DEF C!AskedFor
<1> HIDE DEF asking
<1>6. IsFiniteSet(each)
  <2>1. IsFiniteSet(DOMAIN asking)
    BY <1>1, <1>4, SubsetIsFinite DEF CareerGiven
  <2> QED
    BY <1>4, <2>1, ImageIsFinite
<1>7. \A e \in each : IsFiniteSet(e) /\ e \subseteq Int
  BY <1>3, <1>4
<1> HIDE DEF each
<1>8. IsFiniteSet(UNION each)
  BY <1>6, <1>7, FS_UNION
<1> QED
  BY <1>5, <1>7, <1>8

LEMMA CoreIsFinite ==
  ASSUME CareerGiven, NEW f
  PROVE  IsFiniteSet(C!Core(f)) /\ C!Core(f) \subseteq Int
<1>1. C!Core(f) \subseteq C!AskedFor(f)
  BY Zenon DEF C!Core
<1> QED
  BY <1>1, AskedIsFinite, SubsetIsFinite

LEMMA FamiliesAre ==
  ASSUME CareerGiven
  PROVE  IsFiniteSet(C!Known) /\ C!Known \subseteq Int
<1> DEFINE family == [j \in jobs |-> j.family]
<1>1. IsFiniteSet(DOMAIN family) /\ family = [j \in DOMAIN family |-> family[j]]
  BY DEF CareerGiven
<1>2. C!Families = {family[j] : j \in DOMAIN family}
  BY DEF C!Families
<1>3. C!Families \subseteq Int
  BY DEF C!Families, CareerGiven, C!IsPosting
<1> HIDE DEF family
<1>4. IsFiniteSet(C!Families)
  BY <1>1, <1>2, ImageIsFinite
<1>5. C!Known \subseteq C!Families
  BY DEF C!Known
<1> QED
  BY <1>3, <1>4, <1>5, SubsetIsFinite

(* The demand of a skill is a number.                                        *)
LEMMA DemandIsNat ==
  ASSUME CareerGiven, NEW f \in C!Known, NEW s PROVE C!Demand(f, s) \in Nat
<1> DEFINE n == Cardinality(C!Group(f))
           h == C!HalfPoints(f, s)
<1>1. n \in Nat \ {0}
  <2>1. C!Group(f) \subseteq jobs /\ C!Group(f) # {}
    BY DEF C!Group, C!Known, C!Families
  <2> QED
    BY <2>1, SubsetIsFinite, FS_CardinalityType, FS_EmptySet DEF CareerGiven
<1>2. h \in Nat
  <2>1. C!Asking(f, s) \subseteq jobs /\ C!Preferring(f, s) \subseteq jobs
    BY DEF C!Group, C!Asking, C!Preferring
  <2>2. Cardinality(C!Asking(f, s)) \in Nat /\ Cardinality(C!Preferring(f, s)) \in Nat
    BY <2>1, SubsetIsFinite, FS_CardinalityType DEF CareerGiven
  <2>3. h = 2 * Cardinality(C!Asking(f, s)) + Cardinality(C!Preferring(f, s))
    BY SameCount DEF C!HalfPoints
  <2> QED
    BY <2>2, <2>3
<1>3. C!Demand(f, s) = C!Min({100, C!Percent(h, 2 * n)})
  BY SameCount DEF C!Demand
<1> HIDE DEF n, h
<1>4. C!Percent(h, 2 * n) \in Nat
  <2>1. C!Percent(h, 2 * n) = (200 * h + 2 * n) \div (2 * (2 * n))
    BY DEF C!Percent
  <2> DEFINE a == 200 * h + 2 * n
             b == 2 * (2 * n)
  <2>2. a \in Nat /\ b \in Nat \ {0}
    BY <1>1, <1>2
  <2> HIDE DEF a, b
  <2>3. a \div b \in Nat
    BY <2>2, Z3
  <2> QED
    BY <2>1, <2>3 DEF a, b
<1> DEFINE m == C!Percent(h, 2 * n)
<1> HIDE DEF m
<1>5. m \in Nat
  BY <1>4 DEF m
<1>6. C!Min({100, m}) \in {100, m}
  <2>1. C!Min({100, m}) = CHOOSE x \in {100, m} : \A y \in {100, m} : x <= y
    BY DEF C!Min
  <2>2. \E x \in {100, m} : \A y \in {100, m} : x <= y
    BY <1>5
  <2> QED
    BY <2>1, <2>2
<1> QED
  BY <1>3, <1>5, <1>6 DEF m

(* A sum of demand, as the sums over sets above are written.                 *)
Demanded(I, w) == (CHOOSE g : AddsUp(g, I, w))[I]
DemandIsSummed ==
  \A f, I : C!DemandFor(f, I) = Demanded(I, [s \in I |-> C!Demand(f, s)])
LEMMA DemandForIs == DemandIsSummed
<1> SUFFICES ASSUME NEW f, NEW I
             PROVE  C!DemandFor(f, I) = Demanded(I, [s \in I |-> C!Demand(f, s)])
  BY DEF DemandIsSummed
<1> DEFINE w == [s \in I |-> C!Demand(f, s)]
           Once(g) == [s \in SUBSET I |->
             IF s = {} THEN 0
             ELSE C!Demand(f, CHOOSE x \in s : TRUE) + g[s \ {CHOOSE x \in s : TRUE}]]
           Weighed(g) == [s \in SUBSET I |->
             IF s = {} THEN 0
             ELSE w[CHOOSE x \in s : TRUE] + g[s \ {CHOOSE x \in s : TRUE}]]
<1>1. C!DemandFor(f, I) = (CHOOSE g : g = Once(g))[I]
  BY Zenon DEF C!DemandFor, C!MapThenSumSet, C!MapThenFoldSet
<1>2. \A s \in I : w[s] = C!Demand(f, s)
  OBVIOUS
<1> HIDE DEF w
<1>3. \A s \in SUBSET I : s # {} =>
        w[CHOOSE x \in s : TRUE] = C!Demand(f, CHOOSE x \in s : TRUE)
  <2> SUFFICES ASSUME NEW s \in SUBSET I, s # {}
               PROVE  (CHOOSE x \in s : TRUE) \in I
    BY <1>2
  <2> QED
    OBVIOUS
<1>4. \A g : Once(g) = Weighed(g)
  BY <1>3
<1>5. \A g : AddsUp(g, I, w) <=> g = Weighed(g)
  BY DEF AddsUp, Chosen
<1> HIDE DEF Once, Weighed
<1>6. \A g : AddsUp(g, I, w) <=> g = Once(g)
  BY <1>4, <1>5
<1>7. (CHOOSE g : AddsUp(g, I, w)) = (CHOOSE g : g = Once(g))
  BY <1>6
<1> QED
  BY <1>1, <1>7 DEF Demanded, w

(* What is demanded of some skills of a family, and of more of them.         *)
LEMMA DemandGrows ==
  ASSUME CareerGiven, NEW f \in C!Known, NEW some, NEW more, some \subseteq more,
         more \subseteq C!Core(f)
  PROVE  /\ C!DemandFor(f, some) \in Nat /\ C!DemandFor(f, more) \in Nat
         /\ C!DemandFor(f, some) <= C!DemandFor(f, more)
         /\ some = {} => C!DemandFor(f, some) = 0
<1> DEFINE v == [s \in some |-> C!Demand(f, s)]
           w == [s \in more |-> C!Demand(f, s)]
<1>1. \A s \in C!Core(f) : C!Demand(f, s) \in Nat
  BY DemandIsNat
<1>2. Counts(v, some) /\ Counts(w, more) /\ \A s \in some : v[s] <= w[s]
  BY <1>1 DEF Counts
<1>3. IsFiniteSet(some) /\ IsFiniteSet(more)
  BY CoreIsFinite, SubsetIsFinite
<1>4. C!DemandFor(f, some) = Demanded(some, v) /\ C!DemandFor(f, more) = Demanded(more, w)
  BY DemandForIs DEF DemandIsSummed
<1> HIDE DEF v, w
<1>5. PICK g : AddsUp(g, some, v) /\ C!DemandFor(f, some) = g[some]
  <2>1. \E g : AddsUp(g, some, v)
    BY <1>2, <1>3, AddsUpExists
  <2> QED
    BY <1>4, <2>1 DEF Demanded
<1>6. PICK h : AddsUp(h, more, w) /\ C!DemandFor(f, more) = h[more]
  <2>1. \E h : AddsUp(h, more, w)
    BY <1>2, <1>3, AddsUpExists
  <2> QED
    BY <1>4, <2>1 DEF Demanded
<1>7. g[some] \in Nat /\ h[more] \in Nat
  <2>1. Splits(g, some, v) /\ Splits(h, more, w)
    BY <1>2, <1>3, <1>5, <1>6, AnyFirst
  <2> QED
    BY <2>1 DEF Splits
<1>8. g[some] <= h[more]
  BY <1>2, <1>3, <1>5, <1>6, MoreAddsUp
<1>9. some = {} => g[some] = 0
  <2>1. g[{}] = IF {} = {} THEN 0 ELSE v[Chosen({})] + g[{} \ {Chosen({})}]
    BY <1>5, Zenon DEF AddsUp
  <2> QED
    BY <2>1
<1> QED
  BY <1>5, <1>6, <1>7, <1>8, <1>9

-----------------------------------------------------------------------------
(* The more a person has, the more of a family is covered.                   *)
Extends(p, q) ==
  /\ q.targets = p.targets /\ q.resume = p.resume /\ q.seniority = p.seniority
  /\ \A src \in C!Sources : p.mentions[src] \subseteq q.mentions[src]

LEMMA SkillsGrow ==
  ASSUME NEW p, NEW q, Suits(p), Suits(q), Extends(p, q)
  PROVE  /\ IsFiniteSet(C!SkillsOf(p)) /\ IsFiniteSet(C!SkillsOf(q))
         /\ C!SkillsOf(p) \subseteq C!SkillsOf(q)
<1>1. ASSUME NEW r, Suits(r) PROVE IsFiniteSet(C!SkillsOf(r))
  <2>1. C!Sources = {"profile", "experience", "project", "resume"}
    BY DEF C!Sources
  <2>2. \A src \in C!Sources : IsFiniteSet(r.mentions[src])
    BY <1>1, SameCount DEF Suits, C!IsPerson
  <2>3. C!SkillsOf(r) \subseteq (r.mentions["profile"] \cup r.mentions["experience"])
                                \cup (r.mentions["project"] \cup r.mentions["resume"])
    BY <2>1 DEF C!SkillsOf
  <2>4. /\ IsFiniteSet(r.mentions["profile"] \cup r.mentions["experience"])
        /\ IsFiniteSet(r.mentions["project"] \cup r.mentions["resume"])
    BY <2>1, <2>2, FS_Union
  <2>5. IsFiniteSet((r.mentions["profile"] \cup r.mentions["experience"])
                      \cup (r.mentions["project"] \cup r.mentions["resume"]))
    BY <2>4, FS_Union
  <2> QED
    BY <2>3, <2>5, SubsetIsFinite
<1>2. \A s : C!SourcesOf(p, s) \subseteq C!SourcesOf(q, s)
  BY DEF Extends, C!SourcesOf
<1>3. C!SkillsOf(p) \subseteq C!SkillsOf(q)
  BY <1>2 DEF Extends, C!SkillsOf
<1> QED
  BY <1>1, <1>3

(* Coverage is a fraction of what does not depend on the person.             *)
LEMMA CoverageGrows ==
  ASSUME CareerGiven, NEW f \in C!Known, NEW p, NEW q, Suits(p), Suits(q), Extends(p, q)
  PROVE  \E n \in Nat \ {0} : \E a \in Nat : \E b \in Nat :
           /\ C!Coverage(p, f) = <<a, n>> /\ C!Coverage(q, f) = <<b, n>> /\ a <= b
           /\ C!Have(p, f) = {} => a = 0
<1> DEFINE n == IF C!DemandFor(f, C!Core(f)) = 0 THEN 1 ELSE C!DemandFor(f, C!Core(f))
           a == C!DemandFor(f, C!Core(f) \cap C!SkillsOf(p))
           b == C!DemandFor(f, C!Core(f) \cap C!SkillsOf(q))
<1>1. C!Coverage(p, f) = <<a, n>> /\ C!Coverage(q, f) = <<b, n>>
  BY DEF C!Coverage
<1>2. C!Core(f) \cap C!SkillsOf(p) \subseteq C!Core(f) \cap C!SkillsOf(q)
  BY SkillsGrow
<1>3. /\ a \in Nat /\ b \in Nat /\ a <= b
      /\ C!Core(f) \cap C!SkillsOf(p) = {} => a = 0
  <2>1. C!Core(f) \cap C!SkillsOf(q) \subseteq C!Core(f)
    OBVIOUS
  <2> QED
    BY <1>2, <2>1, DemandGrows
<1>4. C!DemandFor(f, C!Core(f)) \in Nat
  <2>1. C!Core(f) \subseteq C!Core(f)
    OBVIOUS
  <2> QED
    BY <2>1, DemandGrows
<1>5. n \in Nat \ {0}
  BY <1>4
<1>6. C!Have(p, f) = C!Core(f) \cap C!SkillsOf(p)
  BY DEF C!Have
<1> HIDE DEF a, b, n
<1> QED
  BY <1>1, <1>3, <1>5, <1>6 DEF a

LEMMA CoverageIs ==
  ASSUME CareerGiven, NEW f \in C!Known, NEW p, Suits(p)
  PROVE  \E n \in Nat \ {0} : \E a \in Nat :
           C!Coverage(p, f) = <<a, n>> /\ (C!Have(p, f) = {} => a = 0)
<1>1. Extends(p, p)
  BY DEF Extends
<1> QED
  BY <1>1, CoverageGrows

LEMMA CoveredGrows ==
  ASSUME NEW n \in Nat \ {0}, NEW a \in Nat, NEW b \in Nat, a <= b
  PROVE  /\ C!Covered(<<a, n>>) \in Nat /\ C!Covered(<<a, n>>) <= C!Covered(<<b, n>>)
         /\ a = 0 => C!Covered(<<a, n>>) = 0
         /\ C!Covered(<<a, n>>) >= 65 => 100 * a >= 35 * n
<1> DEFINE d == 2 * n
           x == 200 * a + n
           y == 200 * b + n
<1>1. C!Covered(<<a, n>>) = x \div d /\ C!Covered(<<b, n>>) = y \div d
  BY DEF C!Covered, C!Percent
<1>2. x \in Int /\ y \in Int /\ d \in Nat \ {0} /\ x <= y /\ x >= 0
  OBVIOUS
<1>3. a = 0 => x < d
  OBVIOUS
<1>4. x >= 65 * d => 100 * a >= 35 * n
  OBVIOUS
<1> HIDE DEF d, x, y
<1>5. x * d <= y * d
  BY <1>2, Scale
<1>6. x \div d <= y \div d
  BY <1>2, <1>5, DivGrows
<1>7. x \div d \in Nat /\ (x < d => x \div d = 0)
  BY <1>2, Z3
<1>8. x \div d >= 65 => x >= 65 * d
  <2> DEFINE q == x \div d
  <2>1. q \in Int /\ q * d <= x
    BY <1>2, Z3
  <2> HIDE DEF q
  <2>2. q >= 65 => 65 * d <= q * d
    BY <1>2, <2>1, Scale
  <2>3. 65 * d \in Int /\ q * d \in Int
    BY <1>2, <2>1
  <2>4. q >= 65 => x >= 65 * d
    BY <1>2, <2>1, <2>2, <2>3
  <2> QED
    BY <2>4 DEF q
<1> QED
  BY <1>1, <1>3, <1>4, <1>6, <1>7, <1>8

(* A fit gets no worse.                                                      *)
LEMMA CoversMore ==
  ASSUME NEW n \in Nat \ {0}, NEW a \in Nat, NEW b \in Nat, a <= b, NEW percent \in Nat,
         NEW p, NEW q, NEW f, C!Coverage(p, f) = <<a, n>>, C!Coverage(q, f) = <<b, n>>,
         C!Covers(p, f, percent)
  PROVE  C!Covers(q, f, percent)
<1>1. 100 * a >= percent * n
  BY DEF C!Covers
<1>2. percent * n \in Int
  OBVIOUS
<1>3. 100 * b >= percent * n
  BY <1>1, <1>2
<1> QED
  BY <1>3 DEF C!Covers

LEMMA FitGrows ==
  ASSUME CareerGiven, NEW f \in C!Known, NEW p, NEW q, Suits(p), Suits(q), Extends(p, q)
  PROVE  C!FitRank[C!Fit(q, f)] >= C!FitRank[C!Fit(p, f)]
<1>1. PICK n \in Nat \ {0} : \E a \in Nat : \E b \in Nat :
           C!Coverage(p, f) = <<a, n>> /\ C!Coverage(q, f) = <<b, n>> /\ a <= b
  BY CoverageGrows
<1>2. PICK a \in Nat, b \in Nat :
           C!Coverage(p, f) = <<a, n>> /\ C!Coverage(q, f) = <<b, n>> /\ a <= b
  BY <1>1
<1>3. /\ C!Covers(p, f, 65) => C!Covers(q, f, 65)
      /\ C!Covers(p, f, 35) => C!Covers(q, f, 35)
  BY <1>2, CoversMore
<1>4. C!OutOfReach(p, f) = C!OutOfReach(q, f)
  BY Zenon DEF Extends, C!OutOfReach
<1>5. /\ C!FitRank["pivot"] = 0 /\ C!FitRank["stretch"] = 1 /\ C!FitRank["close"] = 2
  BY DEF C!FitRank
<1>6. /\ C!Fit(p, f) = IF C!Covers(p, f, 65) THEN IF C!OutOfReach(p, f) THEN "stretch" ELSE "close"
           ELSE IF C!Covers(p, f, 35) /\ ~ C!OutOfReach(p, f) THEN "stretch" ELSE "pivot"
      /\ C!Fit(q, f) = IF C!Covers(q, f, 65) THEN IF C!OutOfReach(q, f) THEN "stretch" ELSE "close"
           ELSE IF C!Covers(q, f, 35) /\ ~ C!OutOfReach(q, f) THEN "stretch" ELSE "pivot"
  BY DEF C!Fit
<1> QED
  BY <1>3, <1>4, <1>5, <1>6

LEMMA ArrangedIs == ASSUME NEW ahead PROVE C!Arranged(ahead) = Places(ahead)
<1> DEFINE n == Cardinality(DOMAIN ahead)
<1>1. C!Cardinality(DOMAIN ahead) = n /\ \A x : C!Cardinality(ahead[x]) = Cardinality(ahead[x])
  BY SameCount
<1>2. C!Arranged(ahead) =
        [i \in 1..n |-> CHOOSE x \in DOMAIN ahead : C!Cardinality(ahead[x]) = i - 1]
  BY <1>1 DEF C!Arranged
<1>3. Places(ahead) = [i \in 1..n |-> CHOOSE x \in DOMAIN ahead : Cardinality(ahead[x]) = i - 1]
  BY DEF Places
<1> HIDE DEF n
<1>4. ASSUME NEW i \in 1..n
      PROVE  (CHOOSE x \in DOMAIN ahead : C!Cardinality(ahead[x]) = i - 1)
               = CHOOSE x \in DOMAIN ahead : Cardinality(ahead[x]) = i - 1
  BY <1>1
<1> QED
  BY <1>2, <1>3, <1>4

-----------------------------------------------------------------------------
(* The paths in order, the first of which is the direction.                  *)
Ranks(covered) == DOMAIN covered \subseteq Int /\ \A f \in DOMAIN covered : covered[f] \in Nat

LEMMA BeforeOrders ==
  ASSUME NEW targets, NEW covered, Ranks(covered),
         NEW f \in DOMAIN covered, NEW g \in DOMAIN covered, NEW h \in DOMAIN covered
  PROVE  /\ ~ C!Before(targets, covered, f, f)
         /\ f = g \/ C!Before(targets, covered, f, g) \/ C!Before(targets, covered, g, f)
         /\ C!Before(targets, covered, f, g) /\ C!Before(targets, covered, g, h)
              => C!Before(targets, covered, f, h)
<1>1. /\ covered[f] \in Nat /\ covered[g] \in Nat /\ covered[h] \in Nat
      /\ f \in Int /\ g \in Int /\ h \in Int
  BY DEF Ranks
<1> DEFINE Less(a, b) == covered[a] > covered[b] \/ (covered[a] = covered[b] /\ a < b)
<1>2. \A a, b : C!Before(targets, covered, a, b) <=>
        \/ a \in targets /\ b \notin targets
        \/ (a \in targets <=> b \in targets) /\ Less(a, b)
  BY DEF C!Before
<1>3. ~ Less(f, f) /\ (f = g \/ Less(f, g) \/ Less(g, f)) /\ (Less(f, g) /\ Less(g, h) => Less(f, h))
  BY <1>1
<1> HIDE DEF Less
<1>4. ~ C!Before(targets, covered, f, f)
  BY <1>2, <1>3
<1>5. f = g \/ C!Before(targets, covered, f, g) \/ C!Before(targets, covered, g, f)
  BY <1>2, <1>3
<1>6. C!Before(targets, covered, f, g) /\ C!Before(targets, covered, g, h)
        => C!Before(targets, covered, f, h)
  BY <1>2, <1>3
<1> QED
  BY <1>4, <1>5, <1>6

LEMMA InOrderIs ==
  ASSUME NEW targets, NEW covered, Ranks(covered), IsFiniteSet(DOMAIN covered)
  PROVE  LET list == C!InOrder(targets, covered) IN
         /\ list = <<>> <=> DOMAIN covered = {}
         /\ list # <<>> => /\ Head(list) \in DOMAIN covered
                           /\ \A g \in DOMAIN covered : ~ C!Before(targets, covered, g, Head(list))
<1> DEFINE ahead == [f \in DOMAIN covered |-> {g \in DOMAIN covered : C!Before(targets, covered, g, f)}]
           list == Places(ahead)
           n == Cardinality(DOMAIN ahead)
<1>1. DOMAIN ahead = DOMAIN covered
  OBVIOUS
<1>2. \A f, g \in DOMAIN covered : g \in ahead[f] <=> C!Before(targets, covered, g, f)
  OBVIOUS
<1>3. \A f \in DOMAIN covered : ahead[f] \subseteq DOMAIN covered
  OBVIOUS
<1>4. C!InOrder(targets, covered) = list
  BY ArrangedIs DEF C!InOrder
<1> HIDE DEF ahead
<1>5. Orders(ahead)
  <2>1. \A f \in DOMAIN covered : f \notin ahead[f]
    BY <1>2, BeforeOrders
  <2>2. \A f, g \in DOMAIN covered : f = g \/ f \in ahead[g] \/ g \in ahead[f]
    BY <1>2, BeforeOrders
  <2>3. ASSUME NEW f \in DOMAIN covered, NEW g \in DOMAIN covered, f \in ahead[g],
               NEW h \in ahead[f]
        PROVE  h \in ahead[g]
    <3>1. h \in DOMAIN covered
      BY <1>3
    <3>2. C!Before(targets, covered, h, f) /\ C!Before(targets, covered, f, g)
      BY <1>2, <2>3, <3>1
    <3>3. C!Before(targets, covered, h, g)
      BY <3>1, <3>2, BeforeOrders
    <3> QED
      BY <1>2, <3>1, <3>3
  <2> QED
    BY <1>1, <1>3, <2>1, <2>2, <2>3 DEF Orders
<1>6. IsFiniteSet(DOMAIN ahead)
  BY <1>1
<1>7. /\ DOMAIN list = 1..n /\ n \in Nat
      /\ \A i \in DOMAIN list : list[i] \in DOMAIN ahead
      /\ \A x \in DOMAIN ahead : \E i \in DOMAIN list : list[i] = x
      /\ \A i, k \in DOMAIN list : i < k => list[i] \in ahead[list[k]]
  BY <1>5, <1>6, PlacesAre
<1> HIDE DEF list, n
<1>8. DOMAIN list = {} <=> DOMAIN covered = {}
  BY <1>1, <1>7
<1>9. list \in Seq(DOMAIN covered)
  <2>1. list = [i \in 1..n |-> list[i]]
    BY <1>4, <1>7 DEF C!InOrder, C!Arranged, list, Places
  <2> QED
    BY <1>1, <1>7, <2>1
<1>10. list = <<>> <=> DOMAIN covered = {}
  BY <1>8, <1>9
<1>11. ASSUME list # <<>>, NEW g \in DOMAIN covered
       PROVE  Head(list) \in DOMAIN covered /\ ~ C!Before(targets, covered, g, Head(list))
  <2>1. Head(list) = list[1] /\ 1 \in DOMAIN list
    BY <1>7, <1>9, <1>11
  <2>2. list[1] \in DOMAIN covered
    BY <1>1, <1>7, <2>1
  <2>3. PICK i \in DOMAIN list : list[i] = g
    BY <1>1, <1>7
  <2>4. CASE i = 1
    BY <2>1, <2>2, <2>3, <2>4, BeforeOrders
  <2>5. CASE i # 1
    <3>1. 1 < i
      BY <1>7, <2>5
    <3>2. list[1] \in ahead[g]
      BY <1>7, <2>1, <2>3, <3>1
    <3>3. C!Before(targets, covered, list[1], g)
      BY <1>2, <2>2, <3>2
    <3>4. ~ C!Before(targets, covered, g, list[1])
      BY <2>2, <3>3, BeforeOrders
    <3> QED
      BY <2>1, <2>2, <3>4
  <2> QED
    BY <2>4, <2>5
<1>12. list # <<>> => Head(list) \in DOMAIN covered
  BY <1>10, <1>11
<1> QED
  BY <1>4, <1>10, <1>11, <1>12

LEMMA PathsAre ==
  ASSUME CareerGiven, NEW p, Suits(p)
  PROVE  LET covered == [f \in C!Known |-> C!Covered(C!Coverage(p, f))] IN
         /\ Ranks(covered)
         /\ C!Paths(p) = <<>> <=> C!Known = {}
         /\ C!Paths(p) # <<>> =>
              /\ Head(C!Paths(p)) \in C!Known
              /\ \A g \in C!Known : ~ C!Before(p.targets, covered, g, Head(C!Paths(p)))
<1> DEFINE covered == [f \in C!Known |-> C!Covered(C!Coverage(p, f))]
<1>1. ASSUME NEW f \in C!Known PROVE C!Covered(C!Coverage(p, f)) \in Nat
  <2>1. PICK n \in Nat \ {0} : \E a \in Nat : C!Coverage(p, f) = <<a, n>>
    BY CoverageIs
  <2>2. PICK a \in Nat : C!Coverage(p, f) = <<a, n>>
    BY <2>1
  <2>3. a <= a
    BY <2>2
  <2> QED
    BY <2>2, <2>3, CoveredGrows
<1>2. DOMAIN covered = C!Known /\ \A f \in C!Known : covered[f] = C!Covered(C!Coverage(p, f))
  OBVIOUS
<1>3. C!Paths(p) = C!InOrder(p.targets, covered)
  BY DEF C!Paths
<1> HIDE DEF covered
<1>4. Ranks(covered)
  BY <1>1, <1>2, FamiliesAre DEF Ranks
<1>5. IsFiniteSet(DOMAIN covered)
  BY <1>2, FamiliesAre
<1>6. LET list == C!InOrder(p.targets, covered) IN
         /\ list = <<>> <=> DOMAIN covered = {}
         /\ list # <<>> => /\ Head(list) \in DOMAIN covered
                           /\ \A g \in DOMAIN covered : ~ C!Before(p.targets, covered, g, Head(list))
  BY <1>4, <1>5, InOrderIs
<1> QED
  BY <1>2, <1>3, <1>4, <1>6 DEF covered

(* A stated target that has roles is the direction.                          *)
LEMMA TargetComesFirst ==
  ASSUME CareerGiven, NEW p, Suits(p), p.targets \cap C!Known # {}
  PROVE  C!Direction(p, C!Paths(p)) \in p.targets
<1> DEFINE covered == [f \in C!Known |-> C!Covered(C!Coverage(p, f))]
           h == Head(C!Paths(p))
<1>1. PICK g \in C!Known : g \in p.targets
  OBVIOUS
<1>2. h \in C!Known /\ ~ C!Before(p.targets, covered, g, h) /\ C!Paths(p) # <<>>
  BY <1>1, PathsAre
<1>3. h \in p.targets
  BY <1>1, <1>2 DEF C!Before
<1> QED
  BY <1>2, <1>3 DEF C!Direction

(* A direction is not lost: who had something of the first path is not       *)
(* overtaken by a path of which there is nothing.                            *)
LEMMA DirectionStays ==
  ASSUME CareerGiven, NEW p, NEW q, Suits(p), Suits(q), Extends(p, q), None \notin Int,
         C!Direction(p, C!Paths(p)) # None
  PROVE  C!Direction(q, C!Paths(q)) # None
<1> DEFINE before == [f \in C!Known |-> C!Covered(C!Coverage(p, f))]
           after  == [f \in C!Known |-> C!Covered(C!Coverage(q, f))]
           h == Head(C!Paths(p))
           k == Head(C!Paths(q))
<1>1. /\ C!Paths(p) # <<>> /\ (h \in p.targets \/ C!Have(p, h) # {})
      /\ h \in C!Known /\ Ranks(before)
      /\ \A g \in C!Known : ~ C!Before(p.targets, before, g, h)
  BY PathsAre DEF C!Direction
<1>2. /\ C!Paths(q) # <<>> /\ k \in C!Known /\ Ranks(after)
      /\ \A g \in C!Known : ~ C!Before(q.targets, after, g, k)
  BY <1>1, PathsAre
<1>3. k # None
  BY <1>2, FamiliesAre
<1>4. SUFFICES k \in q.targets \/ C!Have(q, k) # {}
  BY <1>2, <1>3 DEF C!Direction
<1>5. SUFFICES ASSUME k \notin q.targets, C!Have(q, k) = {} PROVE FALSE
  OBVIOUS
<1>6. q.targets = p.targets
  BY DEF Extends
<1>7. /\ DOMAIN before = C!Known /\ DOMAIN after = C!Known
      /\ before[h] = C!Covered(C!Coverage(p, h)) /\ before[k] = C!Covered(C!Coverage(p, k))
      /\ after[h] = C!Covered(C!Coverage(q, h)) /\ after[k] = C!Covered(C!Coverage(q, k))
  BY <1>1, <1>2
<1>8. ~ C!Before(p.targets, before, k, h) /\ ~ C!Before(q.targets, after, h, k)
  BY <1>1, <1>2
<1>9. h \in Int /\ k \in Int
  BY <1>1, <1>2, FamiliesAre
<1> HIDE DEF before, after, h, k
<1>10. before[h] \in Nat /\ before[h] <= after[h] /\ after[h] \in Nat
  <2>1. PICK n \in Nat \ {0} : \E a \in Nat : \E b \in Nat :
           C!Coverage(p, h) = <<a, n>> /\ C!Coverage(q, h) = <<b, n>> /\ a <= b
    BY <1>1, CoverageGrows
  <2>2. PICK a \in Nat, b \in Nat :
           C!Coverage(p, h) = <<a, n>> /\ C!Coverage(q, h) = <<b, n>> /\ a <= b
    BY <2>1
  <2>3. C!Covered(<<a, n>>) \in Nat /\ C!Covered(<<a, n>>) <= C!Covered(<<b, n>>)
    BY <2>2, CoveredGrows
  <2>4. after[h] \in Nat
    BY <1>1, <1>2, <1>7 DEF Ranks
  <2> QED
    BY <1>7, <2>2, <2>3, <2>4
<1>11. before[k] = 0 /\ after[k] = 0
  <2>1. PICK n \in Nat \ {0} : \E a \in Nat :
          C!Coverage(q, k) = <<a, n>> /\ (C!Have(q, k) = {} => a = 0)
    BY <1>2, CoverageIs
  <2>2. C!Coverage(q, k) = <<0, n>>
    BY <1>5, <2>1
  <2>3. C!Have(p, k) = {}
    BY <1>5, SkillsGrow DEF C!Have
  <2>4. PICK m \in Nat \ {0} : \E a \in Nat :
          C!Coverage(p, k) = <<a, m>> /\ (C!Have(p, k) = {} => a = 0)
    BY <1>2, CoverageIs
  <2>5. C!Coverage(p, k) = <<0, m>>
    BY <2>3, <2>4
  <2>6. 0 \in Nat /\ 0 <= 0
    OBVIOUS
  <2>7. C!Covered(<<0, n>>) = 0 /\ C!Covered(<<0, m>>) = 0
    BY <2>1, <2>4, <2>6, CoveredGrows
  <2> QED
    BY <1>7, <2>2, <2>5, <2>7
<1>12. h \notin q.targets
  BY <1>5, <1>8 DEF C!Before
<1>13. ~ (after[h] > after[k] \/ (after[h] = after[k] /\ h < k))
  BY <1>5, <1>8, <1>12 DEF C!Before
<1>14. ~ (before[k] > before[h] \/ (before[k] = before[h] /\ k < h))
  BY <1>5, <1>6, <1>8, <1>12 DEF C!Before
<1>15. h = k
  BY <1>9, <1>10, <1>11, <1>13, <1>14
<1>16. C!Have(p, h) # {}
  BY <1>1, <1>6, <1>12
<1> QED
  BY <1>5, <1>15, <1>16, SkillsGrow DEF C!Have

(* The journey.                                                             *)
LEMMA FirstOpenIs ==
  ASSUME NEW done, DOMAIN done = 1..5
  PROVE  /\ C!FirstOpen(done) = 1 <=> ~ done[1]
         /\ C!FirstOpen(done) = 6 => done[2]
<1> DEFINE left == {i \in DOMAIN done : ~ done[i]}
<1>1. left \subseteq {1, 2, 3, 4, 5} /\ (1 \in left <=> ~ done[1]) /\ (2 \in left <=> ~ done[2])
  OBVIOUS
<1>2. C!FirstOpen(done) = IF left = {} THEN 6 ELSE C!Min(left)
  BY DEF C!FirstOpen
<1> HIDE DEF left
<1>3. ASSUME left # {}
      PROVE  C!Min(left) \in left /\ \A i \in left : C!Min(left) <= i
  <2>1. \E x \in left : \A y \in left : x <= y
    <3>1. CASE 1 \in left
      BY <1>1, <3>1
    <3>2. CASE 1 \notin left /\ 2 \in left
      BY <1>1, <3>2
    <3>3. CASE 1 \notin left /\ 2 \notin left /\ 3 \in left
      BY <1>1, <3>3
    <3>4. CASE 1 \notin left /\ 2 \notin left /\ 3 \notin left /\ 4 \in left
      BY <1>1, <3>4
    <3>5. CASE 1 \notin left /\ 2 \notin left /\ 3 \notin left /\ 4 \notin left
      <4>1. left = {5}
        BY <1>1, <1>3, <3>5
      <4> QED
        BY <4>1
    <3> QED
      BY <3>1, <3>2, <3>3, <3>4, <3>5
  <2>2. C!Min(left) = CHOOSE x \in left : \A y \in left : x <= y
    BY DEF C!Min
  <2> QED
    BY <2>1, <2>2
<1>4. ASSUME C!FirstOpen(done) = 1 PROVE 1 \in left
  <2>1. left # {}
    BY <1>2, <1>4
  <2> QED
    BY <1>2, <1>3, <1>4, <2>1
<1>5. ASSUME 1 \in left PROVE C!FirstOpen(done) = 1
  <2>0. left # {}
    BY <1>5
  <2>1. C!Min(left) \in left /\ \A i \in left : C!Min(left) <= i
    BY <1>3, <2>0
  <2>2. C!Min(left) \in {1, 2, 3, 4, 5} /\ \A i \in {1} : C!Min(left) <= i
    BY <1>1, <1>5, <2>1
  <2>3. C!Min(left) = 1
    BY <1>1, <2>1, <2>2
  <2> QED
    BY <1>2, <2>0, <2>3
<1>6. C!FirstOpen(done) = 6 => left = {}
  BY <1>1, <1>2, <1>3
<1> QED
  BY <1>1, <1>4, <1>5, <1>6

LEMMA StageIs ==
  ASSUME NEW p, NEW d
  PROVE  /\ C!Stage(p, d) = 1 <=> ~ (p.resume # "none" /\ Cardinality(C!SkillsOf(p)) >= 3)
         /\ C!Stage(p, d) = 6 => d # None /\ C!Covered(C!Coverage(p, d)) >= 65
<1> DEFINE done == C!StageDone(p, d)
<1>1. DOMAIN done = 1..5
  BY DEF C!StageDone
<1>2. /\ done[1] <=> (p.resume # "none" /\ Cardinality(C!SkillsOf(p)) >= 3)
      /\ done[2] <=> (d # None /\ C!Covered(C!Coverage(p, d)) >= 65)
  BY SameCount DEF C!StageDone
<1>3. C!Stage(p, d) = C!FirstOpen(done)
  BY DEF C!Stage
<1> HIDE DEF done
<1> QED
  BY <1>1, <1>2, <1>3, FirstOpenIs

LEMMA StageStays ==
  ASSUME NEW p, NEW q, Suits(p), Suits(q), Extends(p, q), NEW d, NEW e, C!Stage(q, e) = 1
  PROVE  C!Stage(p, d) = 1
<1>1. C!SkillsOf(p) \in SUBSET C!SkillsOf(q) /\ IsFiniteSet(C!SkillsOf(q))
      /\ IsFiniteSet(C!SkillsOf(p))
  BY SkillsGrow
<1>2. /\ Cardinality(C!SkillsOf(p)) <= Cardinality(C!SkillsOf(q))
      /\ Cardinality(C!SkillsOf(p)) \in Nat /\ Cardinality(C!SkillsOf(q)) \in Nat
  BY <1>1, FS_Subset, FS_CardinalityType
<1>3. ~ (q.resume # "none" /\ Cardinality(C!SkillsOf(q)) >= 3)
  BY StageIs
<1>4. q.resume = p.resume
  BY DEF Extends
<1>5. ~ (p.resume # "none" /\ Cardinality(C!SkillsOf(p)) >= 3)
  BY <1>2, <1>3, <1>4
<1> QED
  BY <1>5, StageIs

-----------------------------------------------------------------------------
(* A list to which an action is added only if it applies.                    *)
Listed(Y, a)   == a \in Seq(Y) /\ \A i, k \in DOMAIN a : a[i] = a[k] => i = k
Kinds(a)      == {a[i] : i \in DOMAIN a}
Begins(a, b)  == Len(a) <= Len(b) /\ \A i \in 1..Len(a) : b[i] = a[i]

Adds(a, b, c, k) ==
  /\ Begins(a, b) /\ Kinds(b) = Kinds(a) \cup {x \in {k} : c}
  /\ Len(b) = IF c THEN Len(a) + 1 ELSE Len(a)
  /\ c => b[Len(b)] = k

LEMMA OneMore ==
  ASSUME NEW Y, NEW a, Listed(Y, a), NEW k \in Y, NEW c \in BOOLEAN, c => k \notin Kinds(a),
         NEW b, b = a \o C!If(c, k)
  PROVE  Listed(Y, b) /\ Adds(a, b, c, k)
<1> USE DEF Adds
<1>1. a \in Seq(Y) /\ Len(a) \in Nat /\ DOMAIN a = 1..Len(a)
  BY DEF Listed
<1>2. CASE ~ c
  <2>1. b = a
    BY <1>1, <1>2 DEF C!If
  <2>2. {x \in {k} : c} = {}
    BY <1>2
  <2>3. Listed(Y, b) /\ Begins(a, b) /\ Len(b) = Len(a)
    BY <1>1, <2>1 DEF Begins
  <2> QED
    BY <1>2, <2>1, <2>2, <2>3
<1>3. CASE c
  <2>1. b = a \o <<k>> /\ <<k>> \in Seq(Y) /\ Len(<<k>>) = 1 /\ <<k>>[1] = k
    BY <1>3 DEF C!If
  <2>2. /\ b \in Seq(Y) /\ Len(b) = Len(a) + 1 /\ DOMAIN b = 1..(Len(a) + 1)
        /\ b[Len(a) + 1] = k /\ \A i \in 1..Len(a) : b[i] = a[i]
    BY <1>1, <2>1
  <2>3. \A i \in 1..(Len(a) + 1) : i \in 1..Len(a) \/ i = Len(a) + 1
    BY <1>1
  <2>4. \A i \in 1..Len(a) : i \in 1..(Len(a) + 1)
    BY <1>1
  <2>5. Len(a) + 1 \in 1..(Len(a) + 1)
    BY <1>1
  <2>6. \A i \in 1..Len(a) : a[i] # k
    BY <1>1, <1>3 DEF Kinds
  <2>7. \A i, j \in DOMAIN b : b[i] = b[j] => i = j
    <3> SUFFICES ASSUME NEW i \in 1..(Len(a) + 1), NEW j \in 1..(Len(a) + 1), b[i] = b[j]
                 PROVE  i = j
      BY <2>2
    <3>1. CASE i \in 1..Len(a) /\ j \in 1..Len(a)
      BY <1>1, <2>2, <3>1 DEF Listed
    <3>2. CASE i = Len(a) + 1
      BY <2>2, <2>3, <2>6, <3>2
    <3>3. CASE j = Len(a) + 1
      BY <2>2, <2>3, <2>6, <3>3
    <3> QED
      BY <2>3, <3>1, <3>2, <3>3
  <2>8. Kinds(b) = Kinds(a) \cup {k}
    <3>1. \A x \in Kinds(b) : x \in Kinds(a) \/ x = k
      BY <1>1, <2>2, <2>3 DEF Kinds
    <3>2. \A x \in Kinds(a) : x \in Kinds(b)
      BY <1>1, <2>2, <2>4 DEF Kinds
    <3>3. k \in Kinds(b)
      BY <2>2, <2>5 DEF Kinds
    <3> QED
      BY <3>1, <3>2, <3>3
  <2>9. {x \in {k} : c} = {k}
    BY <1>3
  <2>10. Listed(Y, b) /\ Begins(a, b)
    BY <1>1, <2>2, <2>7 DEF Begins, Listed
  <2> QED
    BY <1>3, <2>2, <2>8, <2>9, <2>10
<1> QED
  BY <1>2, <1>3

LEMMA BeginsOn ==
  ASSUME NEW Y, NEW a, NEW b, NEW c, Listed(Y, a), Listed(Y, b), Listed(Y, c), Begins(a, b), Begins(b, c)
  PROVE  Begins(a, c)
<1>1. Len(a) \in Nat /\ Len(b) \in Nat /\ Len(c) \in Nat
  BY DEF Listed
<1> QED
  BY <1>1 DEF Begins

(* The first few of a list.                                                  *)
LEMMA FewIs ==
  ASSUME NEW Y, NEW a \in Seq(Y), NEW few \in Nat
  PROVE  LET b == SubSeq(a, 1, C!Min({few, Len(a)})) IN
         /\ b \in Seq(Y) /\ Len(b) <= few /\ Len(b) <= Len(a)
         /\ \A i \in 1..Len(b) : b[i] = a[i]
         /\ Len(b) = few \/ Len(b) = Len(a)
<1> DEFINE m == C!Min({few, Len(a)})
<1>1. Len(a) \in Nat
  OBVIOUS
<1>2. m \in {few, Len(a)} /\ \A y \in {few, Len(a)} : m <= y
  <2>1. m = CHOOSE x \in {few, Len(a)} : \A y \in {few, Len(a)} : x <= y
    BY DEF C!Min
  <2>2. \E x \in {few, Len(a)} : \A y \in {few, Len(a)} : x <= y
    BY <1>1
  <2> QED
    BY <2>1, <2>2
<1> HIDE DEF m
<1>3. m \in Nat /\ m <= few /\ m <= Len(a) /\ (m = few \/ m = Len(a))
  BY <1>1, <1>2
<1>4. /\ SubSeq(a, 1, m) \in Seq(Y) /\ Len(SubSeq(a, 1, m)) = m
      /\ \A i \in 1..m : SubSeq(a, 1, m)[i] = a[i]
  BY <1>1, <1>3
<1> QED
  BY <1>3, <1>4 DEF m

Kind == {"review_approval", "upload_resume", "confirm_resume", "improve_resume", "roadmap",
         "project", "resume", "apply", "explore"}

(* Whatever is shown has been suggested, once; what comes early is shown.    *)
LEMMA ActionsAre ==
  ASSUME NEW p, Suits(p), NEW d
  PROVE  LET told == C!NextActions(p, d) IN
         /\ Listed(Kind, told)
         /\ "apply" \in Kinds(told) => d # None /\ C!Fit(p, d) = "close"
         /\ p.waiting => Head(told) = "review_approval"
         /\ p.resume = "none" => "upload_resume" \in Kinds(told)
         /\ C!Current(p) # None /\ ~ p.issue => "roadmap" \in Kinds(told)
         /\ p.roadmap # <<>> /\ C!Current(p) = None => "roadmap" \notin Kinds(told)
<1> DEFINE waits  == p.waiting
           none   == p.resume = "none"
           read   == p.resume = "read" /\ C!Cardinality(C!SkillsOf(p)) < 3
           flawed == p.resume # "none" /\ p.issue
           going  == C!Current(p) # None
           builds == d # None /\ C!Suggests(p, d).project
           shows  == d # None /\ C!Suggests(p, d).resume
           tries  == d # None /\ C!Suggests(p, d).apply
           learns == d # None /\ C!Suggests(p, d).roadmap /\ p.roadmap = <<>>
           looks  == d = None /\ p.resume # "none"
           a0 == <<>>
           a1 == a0 \o C!If(waits, "review_approval")
           a2 == a1 \o C!If(none, "upload_resume")
           a3 == a2 \o C!If(read, "confirm_resume")
           a4 == a3 \o C!If(flawed, "improve_resume")
           a5 == a4 \o C!If(going, "roadmap")
           a6 == a5 \o C!If(builds, "project")
           a7 == a6 \o C!If(shows, "resume")
           a8 == a7 \o C!If(tries, "apply")
           a9 == a8 \o C!If(learns, "roadmap")
           all == a9 \o C!If(looks, "explore")
           told == SubSeq(all, 1, C!Min({3, Len(all)}))
<1>1. C!NextActions(p, d) = told
  <2>1. C!If(waits, "review_approval") = a1
    BY DEF C!If
  <2> DEFINE Whole(x) == x \o C!If(none, "upload_resume")
                           \o C!If(read, "confirm_resume") \o C!If(flawed, "improve_resume")
                           \o C!If(going, "roadmap") \o C!If(builds, "project")
                           \o C!If(shows, "resume") \o C!If(tries, "apply")
                           \o C!If(learns, "roadmap") \o C!If(looks, "explore")
             Few(x) == SubSeq(x, 1, C!Min({3, Len(x)}))
  <2>2. C!NextActions(p, d) = Few(Whole(C!If(waits, "review_approval")))
    BY Zenon DEF C!NextActions
  <2>3. told = Few(Whole(a1))
    OBVIOUS
  <2> HIDE DEF told, a1, Whole, Few
  <2> QED
    BY <2>1, <2>2, <2>3
<1>2. learns => ~ going
  <2>1. ASSUME p.roadmap = <<>> PROVE C!Current(p) = None
    <3>1. C!OpenMilestones(p) = {}
      BY <2>1 DEF C!OpenMilestones
    <3> QED
      BY <3>1 DEF C!Current
  <2> QED
    BY <2>1
<1>3. tries => d # None /\ C!Fit(p, d) = "close"
  BY DEF C!Suggests
<1>4. /\ p.issue \in BOOLEAN /\ p.waiting \in BOOLEAN
  BY DEF Suits, C!IsPerson
<1>5. /\ read \in BOOLEAN /\ flawed \in BOOLEAN /\ going \in BOOLEAN /\ builds \in BOOLEAN
      /\ shows \in BOOLEAN /\ tries \in BOOLEAN /\ learns \in BOOLEAN /\ looks \in BOOLEAN
      /\ waits \in BOOLEAN /\ none \in BOOLEAN
  <2>1. waits \in BOOLEAN
    BY <1>4
  <2>2. /\ read \in BOOLEAN /\ flawed \in BOOLEAN /\ going \in BOOLEAN /\ builds \in BOOLEAN
        /\ shows \in BOOLEAN /\ tries \in BOOLEAN /\ learns \in BOOLEAN /\ looks \in BOOLEAN
        /\ none \in BOOLEAN
    BY Zenon
  <2> QED
    BY <2>1, <2>2
<1>6. /\ none => ~ read
      /\ ~ p.issue => ~ flawed
      /\ learns => p.roadmap = <<>>
  OBVIOUS
<1>7. /\ waits <=> p.waiting
      /\ none <=> p.resume = "none"
      /\ going <=> C!Current(p) # None
  BY <1>4
<1> HIDE DEF waits, none, read, flawed, going, builds, shows, tries, learns, looks
<1>8. Listed(Kind, a0) /\ Kinds(a0) = {} /\ Len(a0) = 0
  BY DEF Listed, Kinds
<1>9. /\ "review_approval" \in Kind /\ "upload_resume" \in Kind /\ "confirm_resume" \in Kind
      /\ "improve_resume" \in Kind /\ "roadmap" \in Kind /\ "project" \in Kind
      /\ "resume" \in Kind /\ "apply" \in Kind /\ "explore" \in Kind
  BY DEF Kind
<1>a. /\ a1 = a0 \o C!If(waits, "review_approval")
      /\ a2 = a1 \o C!If(none, "upload_resume")
      /\ a3 = a2 \o C!If(read, "confirm_resume")
      /\ a4 = a3 \o C!If(flawed, "improve_resume")
      /\ a5 = a4 \o C!If(going, "roadmap")
      /\ a6 = a5 \o C!If(builds, "project")
      /\ a7 = a6 \o C!If(shows, "resume")
      /\ a8 = a7 \o C!If(tries, "apply")
      /\ a9 = a8 \o C!If(learns, "roadmap")
      /\ all = a9 \o C!If(looks, "explore")
  OBVIOUS
<1> HIDE DEF a0, a1, a2, a3, a4, a5, a6, a7, a8, a9, all
<1>10. Listed(Kind, a1) /\ Adds(a0, a1, waits, "review_approval")
  <2>1. waits => "review_approval" \notin Kinds(a0)
    BY <1>8 DEF Adds
  <2>2. waits \in BOOLEAN /\ "review_approval" \in Kind /\ a1 = a0 \o C!If(waits, "review_approval")
    BY <1>5, <1>9, <1>a
  <2> QED
    BY <1>8, <2>1, <2>2, OneMore
<1>11. Listed(Kind, a2) /\ Adds(a1, a2, none, "upload_resume")
  <2>1. none => "upload_resume" \notin Kinds(a1)
    BY <1>8, <1>10 DEF Adds
  <2>2. none \in BOOLEAN /\ "upload_resume" \in Kind /\ a2 = a1 \o C!If(none, "upload_resume")
    BY <1>5, <1>9, <1>a
  <2> QED
    BY <1>10, <2>1, <2>2, OneMore
<1>12. Listed(Kind, a3) /\ Adds(a2, a3, read, "confirm_resume")
  <2>1. read => "confirm_resume" \notin Kinds(a2)
    BY <1>8, <1>10, <1>11 DEF Adds
  <2>2. read \in BOOLEAN /\ "confirm_resume" \in Kind /\ a3 = a2 \o C!If(read, "confirm_resume")
    BY <1>5, <1>9, <1>a
  <2> QED
    BY <1>11, <2>1, <2>2, OneMore
<1>13. Listed(Kind, a4) /\ Adds(a3, a4, flawed, "improve_resume")
  <2>1. flawed => "improve_resume" \notin Kinds(a3)
    BY <1>8, <1>10, <1>11, <1>12 DEF Adds
  <2>2. flawed \in BOOLEAN /\ "improve_resume" \in Kind /\ a4 = a3 \o C!If(flawed, "improve_resume")
    BY <1>5, <1>9, <1>a
  <2> QED
    BY <1>12, <2>1, <2>2, OneMore
<1>14. Listed(Kind, a5) /\ Adds(a4, a5, going, "roadmap")
  <2>1. going => "roadmap" \notin Kinds(a4)
    BY <1>8, <1>10, <1>11, <1>12, <1>13 DEF Adds
  <2>2. going \in BOOLEAN /\ "roadmap" \in Kind /\ a5 = a4 \o C!If(going, "roadmap")
    BY <1>5, <1>9, <1>a
  <2> QED
    BY <1>13, <2>1, <2>2, OneMore
<1>15. Listed(Kind, a6) /\ Adds(a5, a6, builds, "project")
  <2>1. builds => "project" \notin Kinds(a5)
    BY <1>8, <1>10, <1>11, <1>12, <1>13, <1>14 DEF Adds
  <2>2. builds \in BOOLEAN /\ "project" \in Kind /\ a6 = a5 \o C!If(builds, "project")
    BY <1>5, <1>9, <1>a
  <2> QED
    BY <1>14, <2>1, <2>2, OneMore
<1>16. Listed(Kind, a7) /\ Adds(a6, a7, shows, "resume")
  <2>1. shows => "resume" \notin Kinds(a6)
    BY <1>8, <1>10, <1>11, <1>12, <1>13, <1>14, <1>15 DEF Adds
  <2>2. shows \in BOOLEAN /\ "resume" \in Kind /\ a7 = a6 \o C!If(shows, "resume")
    BY <1>5, <1>9, <1>a
  <2> QED
    BY <1>15, <2>1, <2>2, OneMore
<1>17. Listed(Kind, a8) /\ Adds(a7, a8, tries, "apply")
  <2>1. tries => "apply" \notin Kinds(a7)
    BY <1>8, <1>10, <1>11, <1>12, <1>13, <1>14, <1>15, <1>16 DEF Adds
  <2>2. tries \in BOOLEAN /\ "apply" \in Kind /\ a8 = a7 \o C!If(tries, "apply")
    BY <1>5, <1>9, <1>a
  <2> QED
    BY <1>16, <2>1, <2>2, OneMore
<1>18. Listed(Kind, a9) /\ Adds(a8, a9, learns, "roadmap")
  <2>1. learns => "roadmap" \notin Kinds(a8)
    BY <1>2, <1>8, <1>10, <1>11, <1>12, <1>13, <1>14, <1>15, <1>16, <1>17 DEF Adds
  <2>2. learns \in BOOLEAN /\ "roadmap" \in Kind /\ a9 = a8 \o C!If(learns, "roadmap")
    BY <1>5, <1>9, <1>a
  <2> QED
    BY <1>17, <2>1, <2>2, OneMore
<1>19. Listed(Kind, all) /\ Adds(a9, all, looks, "explore")
  <2>1. looks => "explore" \notin Kinds(a9)
    BY <1>8, <1>10, <1>11, <1>12, <1>13, <1>14, <1>15, <1>16, <1>17, <1>18 DEF Adds
  <2>2. looks \in BOOLEAN /\ "explore" \in Kind /\ all = a9 \o C!If(looks, "explore")
    BY <1>5, <1>9, <1>a
  <2> QED
    BY <1>18, <2>1, <2>2, OneMore
<1>20. Begins(a9, all)
  BY <1>19 DEF Adds
<1>21. Begins(a8, all)
  <2>1. Begins(a8, a9)
    BY <1>18 DEF Adds
  <2> QED
    BY <1>17, <1>18, <1>19, <1>20, <2>1, BeginsOn
<1>22. Begins(a7, all)
  <2>1. Begins(a7, a8)
    BY <1>17 DEF Adds
  <2> QED
    BY <1>16, <1>17, <1>19, <1>21, <2>1, BeginsOn
<1>23. Begins(a6, all)
  <2>1. Begins(a6, a7)
    BY <1>16 DEF Adds
  <2> QED
    BY <1>15, <1>16, <1>19, <1>22, <2>1, BeginsOn
<1>24. Begins(a5, all)
  <2>1. Begins(a5, a6)
    BY <1>15 DEF Adds
  <2> QED
    BY <1>14, <1>15, <1>19, <1>23, <2>1, BeginsOn
<1>25. Begins(a4, all)
  <2>1. Begins(a4, a5)
    BY <1>14 DEF Adds
  <2> QED
    BY <1>13, <1>14, <1>19, <1>24, <2>1, BeginsOn
<1>26. Begins(a3, all)
  <2>1. Begins(a3, a4)
    BY <1>13 DEF Adds
  <2> QED
    BY <1>12, <1>13, <1>19, <1>25, <2>1, BeginsOn
<1>27. Begins(a2, all)
  <2>1. Begins(a2, a3)
    BY <1>12 DEF Adds
  <2> QED
    BY <1>11, <1>12, <1>19, <1>26, <2>1, BeginsOn
<1>28. Begins(a1, all)
  <2>1. Begins(a1, a2)
    BY <1>11 DEF Adds
  <2> QED
    BY <1>10, <1>11, <1>19, <1>27, <2>1, BeginsOn
<1>29. /\ told \in Seq(Kind) /\ Len(told) <= 3 /\ Len(told) <= Len(all)
       /\ \A i \in 1..Len(told) : told[i] = all[i]
       /\ Len(told) = 3 \/ Len(told) = Len(all)
  <2>1. all \in Seq(Kind) /\ 3 \in Nat
    BY <1>19 DEF Listed
  <2> QED
    BY <2>1, FewIs
<1> HIDE DEF told
<1>30. /\ Len(all) \in Nat /\ Len(told) \in Nat /\ DOMAIN told = 1..Len(told)
       /\ DOMAIN all = 1..Len(all)
  BY <1>19, <1>29 DEF Listed
<1>31. \A i \in 1..Len(told) : i \in 1..Len(all)
  <2> DEFINE m == Len(told)
             n == Len(all)
  <2>1. m \in Nat /\ n \in Nat /\ m <= n
    BY <1>29, <1>30
  <2> HIDE DEF m, n
  <2>2. \A i \in 1..m : i \in 1..n
    BY <2>1
  <2> QED
    BY <2>2 DEF m, n
<1>32. Listed(Kind, told)
  <2>1. \A i, k \in 1..Len(all) : all[i] = all[k] => i = k
    BY <1>19, <1>30 DEF Listed
  <2>2. \A i, k \in 1..Len(told) : told[i] = told[k] => i = k
    BY <1>29, <1>31, <2>1
  <2> QED
    BY <1>29, <1>30, <2>2 DEF Listed
<1>33. Kinds(told) \subseteq Kinds(all)
  BY <1>29, <1>30, <1>31 DEF Kinds
<1>34. ASSUME NEW a, Listed(Kind, a), Begins(a, all), Len(a) \in 1..3
       PROVE  a[Len(a)] \in Kinds(told) /\ (Len(a) = 1 => Head(told) = a[1])
  <2>1. Len(a) <= Len(all) /\ \A i \in 1..Len(a) : all[i] = a[i]
    BY <1>34 DEF Begins
  <2>2. Len(a) \in 1..Len(told) /\ Len(a) \in 1..Len(a) /\ 1 \in 1..Len(told)
    <3> DEFINE m == Len(told)
               n == Len(all)
               e == Len(a)
    <3>1. /\ m \in Nat /\ n \in Nat /\ m <= 3 /\ m <= n /\ (m = 3 \/ m = n)
          /\ e \in 1..3 /\ e <= n
      BY <1>29, <1>30, <1>34, <2>1
    <3> HIDE DEF m, n, e
    <3>2. e \in 1..m /\ e \in 1..e /\ 1 \in 1..m
      BY <3>1
    <3> QED
      BY <3>2 DEF m, e
  <2>3. told[Len(a)] = a[Len(a)]
    BY <1>29, <2>1, <2>2
  <2>4. Head(told) = told[1]
    BY <1>29
  <2> QED
    BY <1>30, <2>2, <2>3, <2>4 DEF Kinds
<1>35. /\ Len(a1) = IF waits THEN 1 ELSE 0
       /\ Len(a2) = IF none THEN Len(a1) + 1 ELSE Len(a1)
       /\ Len(a3) = IF read THEN Len(a2) + 1 ELSE Len(a2)
       /\ Len(a4) = IF flawed THEN Len(a3) + 1 ELSE Len(a3)
       /\ Len(a5) = IF going THEN Len(a4) + 1 ELSE Len(a4)
  BY <1>8, <1>10, <1>11, <1>12, <1>13, <1>14 DEF Adds
<1>36. "apply" \in Kinds(told) => d # None /\ C!Fit(p, d) = "close"
  <2>1. "apply" \in Kinds(all) => tries
    BY <1>8, <1>10, <1>11, <1>12, <1>13, <1>14, <1>15, <1>16, <1>17, <1>18, <1>19 DEF Adds
  <2> QED
    BY <1>3, <1>33, <2>1
<1>37. p.waiting => Head(told) = "review_approval"
  <2>1. ASSUME waits PROVE Head(told) = "review_approval"
    <3>1. Len(a1) = 1 /\ Len(a1) \in 1..3
      BY <1>35, <2>1
    <3>2. Head(told) = a1[1]
      BY <1>10, <1>28, <1>34, <3>1
    <3> QED
      BY <1>10, <2>1, <3>1, <3>2 DEF Adds
  <2> QED
    BY <1>7, <2>1
<1>38. p.resume = "none" => "upload_resume" \in Kinds(told)
  <2>1. ASSUME none PROVE "upload_resume" \in Kinds(told)
    <3>1. Len(a2) \in 1..3
      BY <1>35, <2>1
    <3>2. a2[Len(a2)] \in Kinds(told)
      BY <1>11, <1>27, <1>34, <3>1
    <3> QED
      BY <1>11, <2>1, <3>2 DEF Adds
  <2> QED
    BY <1>7, <2>1
<1>39. C!Current(p) # None /\ ~ p.issue => "roadmap" \in Kinds(told)
  <2>1. ASSUME going, ~ flawed PROVE "roadmap" \in Kinds(told)
    <3>1. Len(a5) \in 1..3
      BY <1>6, <1>35, <2>1
    <3>2. a5[Len(a5)] \in Kinds(told)
      BY <1>14, <1>24, <1>34, <3>1
    <3> QED
      BY <1>14, <2>1, <3>2 DEF Adds
  <2> QED
    BY <1>6, <1>7, <2>1
<1>40. p.roadmap # <<>> /\ C!Current(p) = None => "roadmap" \notin Kinds(told)
  <2>1. "roadmap" \in Kinds(all) => going \/ learns
    BY <1>8, <1>10, <1>11, <1>12, <1>13, <1>14, <1>15, <1>16, <1>17, <1>18, <1>19 DEF Adds
  <2> QED
    BY <1>6, <1>7, <1>33, <2>1
<1> QED
  BY <1>1, <1>32, <1>36, <1>37, <1>38, <1>39, <1>40

-----------------------------------------------------------------------------
(* The plan: what is missing, what is required first.                        *)
LEMMA SoonerOrders ==
  ASSUME CareerGiven, NEW f \in C!Known,
         NEW s \in C!Core(f), NEW t \in C!Core(f), NEW u \in C!Core(f)
  PROVE  /\ ~ C!Sooner(f, s, s)
         /\ s = t \/ C!Sooner(f, s, t) \/ C!Sooner(f, t, s)
         /\ C!Sooner(f, s, t) /\ C!Sooner(f, t, u) => C!Sooner(f, s, u)
         /\ C!Sooner(f, s, t) /\ C!Required(f, t) => C!Required(f, s)
<1> DEFINE Less(a, b) == C!Demand(f, a) > C!Demand(f, b)
                          \/ (C!Demand(f, a) = C!Demand(f, b) /\ a < b)
<1>1. /\ C!Demand(f, s) \in Nat /\ C!Demand(f, t) \in Nat /\ C!Demand(f, u) \in Nat
      /\ s \in Int /\ t \in Int /\ u \in Int
  BY DemandIsNat, CoreIsFinite
<1>2. ~ Less(s, s) /\ (s = t \/ Less(s, t) \/ Less(t, s)) /\ (Less(s, t) /\ Less(t, u) => Less(s, u))
  BY <1>1
<1>3. \A a : C!Required(f, a) \in BOOLEAN
  BY DEF C!Required
<1>4. \A a, b : C!Sooner(f, a, b) <=>
        IF C!Required(f, a) # C!Required(f, b) THEN C!Required(f, a) ELSE Less(a, b)
  BY Zenon DEF C!Sooner
<1> HIDE DEF Less
<1>5. ~ C!Sooner(f, s, s) /\ (s = t \/ C!Sooner(f, s, t) \/ C!Sooner(f, t, s))
  BY <1>2, <1>3, <1>4
<1>6. C!Sooner(f, s, t) /\ C!Sooner(f, t, u) => C!Sooner(f, s, u)
  BY <1>2, <1>3, <1>4
<1>7. C!Sooner(f, s, t) /\ C!Required(f, t) => C!Required(f, s)
  BY <1>3, <1>4
<1> QED
  BY <1>5, <1>6, <1>7

LEMMA StepsAre ==
  ASSUME CareerGiven, NEW f \in C!Known, NEW p, MaxSteps \in Nat
  PROVE  LET steps == C!Steps(p, f) IN
         /\ steps \in Seq(C!Missing(p, f))
         /\ \A i, k \in DOMAIN steps :
              i < k /\ C!Required(f, steps[k]) => C!Required(f, steps[i])
         /\ Len(steps) < MaxSteps => \A s \in C!Missing(p, f) : \E i \in DOMAIN steps : steps[i] = s
<1> DEFINE lacks == C!Missing(p, f)
           ahead == [s \in lacks |-> {t \in lacks : C!Sooner(f, t, s)}]
           order == Places(ahead)
           n     == Cardinality(DOMAIN ahead)
           steps == SubSeq(order, 1, C!Min({MaxSteps, Len(order)}))
<1>1. lacks \subseteq C!Core(f)
  BY DEF C!Missing
<1>2. C!Steps(p, f) = steps
  BY ArrangedIs DEF C!Steps
<1>3. DOMAIN ahead = lacks /\ \A s \in lacks : ahead[s] \subseteq lacks
  OBVIOUS
<1>4. \A s, t \in lacks : t \in ahead[s] <=> C!Sooner(f, t, s)
  OBVIOUS
<1> HIDE DEF lacks, ahead
<1>5. Orders(ahead)
  <2>1. \A s \in lacks : s \notin ahead[s]
    BY <1>1, <1>4, SoonerOrders
  <2>2. \A s, t \in lacks : s = t \/ s \in ahead[t] \/ t \in ahead[s]
    BY <1>1, <1>4, SoonerOrders
  <2>3. ASSUME NEW s \in lacks, NEW t \in lacks, s \in ahead[t], NEW u \in ahead[s]
        PROVE  u \in ahead[t]
    <3>1. u \in lacks
      BY <1>3
    <3>2. C!Sooner(f, u, s) /\ C!Sooner(f, s, t)
      BY <1>4, <2>3, <3>1
    <3>3. C!Sooner(f, u, t)
      BY <1>1, <3>1, <3>2, SoonerOrders
    <3> QED
      BY <1>4, <3>1, <3>3
  <2> QED
    BY <1>3, <2>1, <2>2, <2>3 DEF Orders
<1>6. IsFiniteSet(DOMAIN ahead)
  BY <1>1, <1>3, CoreIsFinite, SubsetIsFinite
<1>7. /\ DOMAIN order = 1..n /\ n \in Nat
      /\ \A i \in DOMAIN order : order[i] \in DOMAIN ahead
      /\ \A x \in DOMAIN ahead : \E i \in DOMAIN order : order[i] = x
      /\ \A i, k \in DOMAIN order : i < k => order[i] \in ahead[order[k]]
  BY <1>5, <1>6, PlacesAre
<1>8. order = [i \in 1..n |-> order[i]]
  BY DEF Places
<1> HIDE DEF order, n, steps
<1>9. order \in Seq(lacks) /\ Len(order) = n
  BY <1>3, <1>7, <1>8
<1>10. /\ steps \in Seq(lacks) /\ Len(steps) <= Len(order)
       /\ \A i \in 1..Len(steps) : steps[i] = order[i]
       /\ Len(steps) = MaxSteps \/ Len(steps) = Len(order)
  BY <1>9, FewIs DEF steps
<1>11. DOMAIN steps = 1..Len(steps) /\ Len(steps) \in Nat
  BY <1>10
<1>12. \A i \in 1..Len(steps) : i \in DOMAIN order /\ i \in Int
  <2> DEFINE m == Len(steps)
  <2>1. m \in Nat /\ n \in Nat /\ m <= n
    BY <1>7, <1>9, <1>10, <1>11
  <2> HIDE DEF m
  <2>2. \A i \in 1..m : i \in 1..n /\ i \in Int
    BY <2>1
  <2> QED
    BY <1>7, <2>2 DEF m
<1>13. ASSUME NEW i \in DOMAIN steps, NEW k \in DOMAIN steps, i < k, C!Required(f, steps[k])
       PROVE  C!Required(f, steps[i])
  <2>1. /\ i \in DOMAIN order /\ k \in DOMAIN order
        /\ steps[i] = order[i] /\ steps[k] = order[k]
    BY <1>10, <1>11, <1>12
  <2>2. order[i] \in lacks /\ order[k] \in lacks /\ order[i] \in ahead[order[k]]
    BY <1>3, <1>7, <1>13, <2>1
  <2>3. C!Sooner(f, order[i], order[k])
    BY <1>4, <2>2
  <2>4. order[i] \in C!Core(f) /\ order[k] \in C!Core(f) /\ C!Required(f, order[k])
    BY <1>1, <1>13, <2>1, <2>2
  <2> QED
    BY <2>1, <2>3, <2>4, SoonerOrders
<1>14. ASSUME Len(steps) < MaxSteps, NEW s \in lacks
       PROVE  \E i \in DOMAIN steps : steps[i] = s
  <2>1. Len(steps) = Len(order)
    <3> DEFINE m == Len(steps)
    <3>1. m \in Nat /\ m < MaxSteps /\ MaxSteps \in Nat /\ (m = MaxSteps \/ m = Len(order))
      BY <1>10, <1>11, <1>14
    <3> HIDE DEF m
    <3>2. m = Len(order)
      BY <3>1
    <3> QED
      BY <3>2 DEF m
  <2>2. PICK i \in DOMAIN order : order[i] = s
    BY <1>3, <1>7
  <2>3. i \in DOMAIN steps
    BY <1>7, <1>9, <1>11, <2>1
  <2> QED
    BY <1>10, <1>11, <2>2, <2>3
<1> QED
  BY <1>2, <1>10, <1>13, <1>14 DEF lacks

LEMMA PlanIs ==
  ASSUME CareerGiven, NEW f \in C!Known, NEW p, MaxSteps \in Nat
  PROVE  LET course == C!SkillPlan(p, f) IN
         /\ \A i, k \in DOMAIN course :
              /\ course[i].skill \notin C!SkillsOf(p)
              /\ i < k /\ C!Required(f, course[k].skill) => C!Required(f, course[i].skill)
         /\ Len(course) < MaxSteps => {s.skill : s \in C!ToSet(course)} = C!Missing(p, f)
<1> DEFINE steps == C!Steps(p, f)
           course  == C!SkillPlan(p, f)
<1>1. /\ steps \in Seq(C!Missing(p, f))
      /\ \A i, k \in DOMAIN steps :
           i < k /\ C!Required(f, steps[k]) => C!Required(f, steps[i])
      /\ Len(steps) < MaxSteps => \A s \in C!Missing(p, f) : \E i \in DOMAIN steps : steps[i] = s
  BY StepsAre
<1>2. /\ DOMAIN course = DOMAIN steps
      /\ \A i \in DOMAIN course : course[i].skill = steps[i]
      /\ course = [i \in DOMAIN steps |-> course[i]]
  BY DEF C!SkillPlan
<1> HIDE DEF steps, course
<1>3. /\ DOMAIN steps = 1..Len(steps) /\ Len(steps) \in Nat
      /\ \A i \in DOMAIN steps : steps[i] \in C!Missing(p, f)
  BY <1>1
<1>4. Len(course) = Len(steps)
  BY <1>2, <1>3
<1>5. \A s \in C!Missing(p, f) : s \notin C!SkillsOf(p)
  BY DEF C!Missing
<1>6. ASSUME NEW i \in DOMAIN course, NEW k \in DOMAIN course
      PROVE  /\ course[i].skill \notin C!SkillsOf(p)
             /\ i < k /\ C!Required(f, course[k].skill) => C!Required(f, course[i].skill)
  BY <1>1, <1>2, <1>3, <1>5
<1>7. ASSUME Len(course) < MaxSteps
      PROVE  {s.skill : s \in C!ToSet(course)} = C!Missing(p, f)
  <2>1. C!ToSet(course) = {course[i] : i \in DOMAIN course}
    BY DEF C!ToSet
  <2>2. {s.skill : s \in C!ToSet(course)} = {course[i].skill : i \in DOMAIN course}
    BY <2>1
  <2>3. \A i \in DOMAIN course : course[i].skill \in C!Missing(p, f)
    BY <1>2, <1>3
  <2>4. \A s \in C!Missing(p, f) : \E i \in DOMAIN course : course[i].skill = s
    BY <1>1, <1>2, <1>4, <1>7
  <2> QED
    BY <2>2, <2>3, <2>4
<1> QED
  BY <1>6, <1>7 DEF course

-----------------------------------------------------------------------------
(* What the overview of a person shows.                                      *)
LEMMA DirectionIs ==
  ASSUME CareerGiven, NEW p, Suits(p), C!Direction(p, C!Paths(p)) # None
  PROVE  C!Direction(p, C!Paths(p)) \in C!Known
<1>1. C!Paths(p) # <<>> /\ C!Direction(p, C!Paths(p)) = Head(C!Paths(p))
  BY DEF C!Direction
<1> QED
  BY <1>1, PathsAre

LEMMA OverviewIs ==
  ASSUME NEW p
  PROVE  LET o == C!Overview(p)
             d == C!Direction(p, C!Paths(p)) IN
         /\ o.direction = d /\ o.of = p
         /\ o.fit = [f \in C!Known |-> C!Fit(p, f)]
         /\ o.coverage = [f \in C!Known |-> C!Coverage(p, f)]
         /\ o.missing = [f \in C!Known |-> C!Missing(p, f)]
         /\ o.plan = IF d = None THEN <<>> ELSE C!SkillPlan(p, d)
         /\ o.actions = C!NextActions(p, d) /\ o.stage = C!Stage(p, d)
<1>1. C!Overview(p) = C!OverviewOf(p, C!Paths(p), C!Direction(p, C!Paths(p)))
  BY DEF C!Overview, C!OverviewAlong
<1> DEFINE d == C!Direction(p, C!Paths(p))
<1> HIDE DEF d
<1>2. C!Overview(p) = C!OverviewOf(p, C!Paths(p), d)
  BY <1>1 DEF d
<1>3. LET o == C!OverviewOf(p, C!Paths(p), d) IN
         /\ o.direction = d /\ o.of = p
         /\ o.fit = [f \in C!Known |-> C!Fit(p, f)]
         /\ o.coverage = [f \in C!Known |-> C!Coverage(p, f)]
         /\ o.missing = [f \in C!Known |-> C!Missing(p, f)]
         /\ o.plan = IF d = None THEN <<>> ELSE C!SkillPlan(p, d)
         /\ o.actions = C!NextActions(p, d) /\ o.stage = C!Stage(p, d)
  BY DEF C!OverviewOf
<1> QED
  BY <1>2, <1>3 DEF d

LEMMA OverviewAgrees ==
  ASSUME CareerGiven, NEW p, Suits(p), shown = C!Overview(p), MaxSteps \in Nat
  PROVE  C!GuidanceIsCoherent
<1> DEFINE d == C!Direction(p, C!Paths(p))
           told == C!ToSet(shown.actions)
<1>1. /\ shown.direction = d /\ shown.of = p
      /\ shown.fit = [f \in C!Known |-> C!Fit(p, f)]
      /\ shown.missing = [f \in C!Known |-> C!Missing(p, f)]
      /\ shown.plan = IF d = None THEN <<>> ELSE C!SkillPlan(p, d)
      /\ shown.actions = C!NextActions(p, d) /\ shown.stage = C!Stage(p, d)
  BY OverviewIs
<1>2. d # None => d \in C!Known
  BY DirectionIs
<1>3. p.targets \cap C!Known # {} => d \in p.targets
  BY TargetComesFirst
<1> HIDE DEF d, told
<1>4. /\ Listed(Kind, shown.actions)
      /\ "apply" \in Kinds(shown.actions) => d # None /\ C!Fit(p, d) = "close"
      /\ p.waiting => Head(shown.actions) = "review_approval"
      /\ p.resume = "none" => "upload_resume" \in Kinds(shown.actions)
      /\ C!Current(p) # None /\ ~ p.issue => "roadmap" \in Kinds(shown.actions)
      /\ p.roadmap # <<>> /\ C!Current(p) = None => "roadmap" \notin Kinds(shown.actions)
  BY <1>1, ActionsAre
<1>5. told = Kinds(shown.actions) /\ C!IsInjective(shown.actions)
  BY <1>4 DEF told, C!ToSet, Kinds, Listed, C!IsInjective
<1>6. d # None /\ "apply" \in told => ~ C!OutOfReach(p, d) /\ C!Covers(p, d, 65)
  BY <1>4, <1>5 DEF C!Fit
<1>7. \A i, k \in DOMAIN shown.plan :
         /\ shown.plan[i].skill \notin C!SkillsOf(p)
         /\ i < k /\ C!Required(d, shown.plan[k].skill) => C!Required(d, shown.plan[i].skill)
  <2>1. CASE d = None
    BY <1>1, <2>1
  <2>2. CASE d # None
    <3>1. shown.plan = C!SkillPlan(p, d) /\ d \in C!Known
      BY <1>1, <1>2, <2>2
    <3> QED
      BY <3>1, PlanIs
  <2> QED
    BY <2>1, <2>2
<1>8. d # None /\ Len(shown.plan) < MaxSteps
        => {s.skill : s \in C!ToSet(shown.plan)} = shown.missing[d]
  <2> SUFFICES ASSUME d # None, Len(shown.plan) < MaxSteps
               PROVE  {s.skill : s \in C!ToSet(shown.plan)} = shown.missing[d]
    OBVIOUS
  <2>1. shown.plan = C!SkillPlan(p, d) /\ d \in C!Known /\ shown.missing[d] = C!Missing(p, d)
    BY <1>1, <1>2
  <2>2. {s.skill : s \in C!ToSet(shown.plan)} = C!Missing(p, d)
    BY <2>1, PlanIs
  <2> QED
    BY <2>1, <2>2
<1>9. shown.stage = 6 => d # None /\ (shown.fit[d] = "pivot" => C!OutOfReach(p, d))
  <2> SUFFICES ASSUME shown.stage = 6
               PROVE  d # None /\ (shown.fit[d] = "pivot" => C!OutOfReach(p, d))
    OBVIOUS
  <2>1. d # None /\ C!Covered(C!Coverage(p, d)) >= 65
    BY <1>1, StageIs
  <2>2. d \in C!Known /\ shown.fit[d] = C!Fit(p, d)
    BY <1>1, <1>2, <2>1
  <2>3. PICK n \in Nat \ {0} : \E a \in Nat : C!Coverage(p, d) = <<a, n>>
    BY <2>2, CoverageIs
  <2>4. PICK a \in Nat : C!Coverage(p, d) = <<a, n>>
    BY <2>3
  <2>5. a <= a /\ C!Covered(<<a, n>>) >= 65
    BY <2>1, <2>4
  <2>6. 100 * a >= 35 * n
    BY <2>5, CoveredGrows
  <2>7. C!Covers(p, d, 35)
    BY <2>4, <2>6 DEF C!Covers
  <2> QED
    BY <2>1, <2>2, <2>7 DEF C!Fit
<1> QED
  BY <1>1, <1>3, <1>4, <1>5, <1>6, <1>7, <1>8, <1>9, Zenon DEF C!GuidanceIsCoherent, told

(* And what it shows later, when more is stored.                             *)
Onward(o, n) ==
  /\ \A f \in DOMAIN o.fit :
       /\ C!FitRank[n.fit[f]] >= C!FitRank[o.fit[f]]
       /\ n.coverage[f][1] >= o.coverage[f][1]
       /\ n.missing[f] \subseteq o.missing[f]
  /\ o.direction # None => n.direction # None
  /\ n.stage = 1 => o.stage = 1

LEMMA OverviewGoesOn ==
  ASSUME CareerGiven, NEW p, NEW q, Suits(p), Suits(q), Extends(p, q), None \notin Int
  PROVE  Onward(C!Overview(p), C!Overview(q))
<1> DEFINE o == C!Overview(p)
           n == C!Overview(q)
           d == C!Direction(p, C!Paths(p))
           e == C!Direction(q, C!Paths(q))
<1>1. /\ o.direction = d /\ o.stage = C!Stage(p, d)
      /\ o.fit = [f \in C!Known |-> C!Fit(p, f)]
      /\ o.coverage = [f \in C!Known |-> C!Coverage(p, f)]
      /\ o.missing = [f \in C!Known |-> C!Missing(p, f)]
  BY OverviewIs
<1>2. /\ n.direction = e /\ n.stage = C!Stage(q, e)
      /\ n.fit = [f \in C!Known |-> C!Fit(q, f)]
      /\ n.coverage = [f \in C!Known |-> C!Coverage(q, f)]
      /\ n.missing = [f \in C!Known |-> C!Missing(q, f)]
  BY OverviewIs
<1>3. d # None => e # None
  BY DirectionStays
<1> HIDE DEF o, n, d, e
<1>4. ASSUME n.stage = 1 PROVE o.stage = 1
  <2>1. C!Stage(q, e) = 1
    BY <1>2, <1>4
  <2>2. C!Stage(p, d) = 1
    BY <2>1, StageStays
  <2> QED
    BY <1>1, <2>2
<1>5. ASSUME NEW f \in C!Known
      PROVE  /\ C!FitRank[n.fit[f]] >= C!FitRank[o.fit[f]]
             /\ n.coverage[f][1] >= o.coverage[f][1]
             /\ n.missing[f] \subseteq o.missing[f]
  <2>1. /\ n.fit[f] = C!Fit(q, f) /\ o.fit[f] = C!Fit(p, f)
        /\ n.coverage[f] = C!Coverage(q, f) /\ o.coverage[f] = C!Coverage(p, f)
        /\ n.missing[f] = C!Missing(q, f) /\ o.missing[f] = C!Missing(p, f)
    BY <1>1, <1>2
  <2>2. C!FitRank[C!Fit(q, f)] >= C!FitRank[C!Fit(p, f)]
    BY FitGrows
  <2>3. PICK m \in Nat \ {0} : \E a \in Nat : \E b \in Nat :
           C!Coverage(p, f) = <<a, m>> /\ C!Coverage(q, f) = <<b, m>> /\ a <= b
    BY CoverageGrows
  <2>4. C!Coverage(q, f)[1] >= C!Coverage(p, f)[1]
    BY <2>3
  <2>5. C!Missing(q, f) \subseteq C!Missing(p, f)
    BY SkillsGrow DEF C!Missing
  <2> QED
    BY <2>1, <2>2, <2>4, <2>5
<1> QED
  BY <1>1, <1>2, <1>3, <1>4, <1>5 DEF Onward, o, n

-----------------------------------------------------------------------------
(* What was shown was the overview of the person as they were.               *)
ShownOf(p) == Suits(p) /\ Extends(p, person) /\ shown = C!Overview(p)
GuidanceInv ==
  /\ jobs \in Catalogues /\ Suits(person)
  /\ shown # None => \E p : ShownOf(p)

LEMMA CareersGiven ==
  /\ jobs \in Catalogues => CareerGiven
  /\ \A p \in People : Suits(p)
  /\ Additions \subseteq Int \X C!Sources /\ MaxSteps \in Nat /\ None \notin Int
<1>1. jobs \in Catalogues => CareerGiven
  BY CareersAreGiven, SameCount DEF C!CareerAssumption, CareerGiven
<1> QED
  BY <1>1, CareersAreGiven DEF C!CareerAssumption, Suits

LEMMA GuidanceInit == C!Init => GuidanceInv
BY CareersGiven DEF C!Init, GuidanceInv

(* A skill that is added is added to what is stored.                         *)
LEMMA GainsExtend ==
  ASSUME Suits(person), NEW g \in Additions, C!Gains(g[1], g[2])
  PROVE  Suits(person') /\ Extends(person, person') /\ UNCHANGED <<jobs, shown>>
<1> DEFINE s == g[1]
           src == g[2]
<1>1. s \in Int /\ src \in C!Sources
  BY CareersGiven
<1>2. /\ person' = [person EXCEPT !.mentions[src] = @ \cup {s}]
      /\ UNCHANGED <<jobs, shown>>
  BY DEF C!Gains
<1> HIDE DEF s, src
<1> DEFINE fields == {"mentions", "resume", "targets", "seniority", "roadmap", "projects", "issue",
                      "waiting", "sent", "interviewing"}
<1>3. /\ DOMAIN person = fields
      /\ DOMAIN person.mentions = C!Sources /\ {person.waiting, person.issue} \subseteq BOOLEAN
      /\ \A x \in C!Sources : person.mentions[x] \in SUBSET Int /\ IsFiniteSet(person.mentions[x])
  BY SameCount DEF Suits, C!IsPerson
<1>4. /\ DOMAIN person' = fields /\ person'.resume = person.resume
      /\ person'.targets = person.targets /\ person'.seniority = person.seniority
      /\ person'.waiting = person.waiting /\ person'.issue = person.issue
      /\ person'.mentions = [person.mentions EXCEPT ![src] = @ \cup {s}]
  BY <1>2, <1>3
<1>5. \A x \in C!Sources :
        person'.mentions[x] = IF x = src THEN person.mentions[x] \cup {s} ELSE person.mentions[x]
  BY <1>3, <1>4
<1>6. DOMAIN person'.mentions = C!Sources
  BY <1>3, <1>4
<1>7. IsFiniteSet(person.mentions[src] \cup {s})
  <2>1. IsFiniteSet(person.mentions[src]) /\ IsFiniteSet({s})
    BY <1>1, <1>3, FS_Singleton
  <2> QED
    BY <2>1, FS_Union
<1>8. \A x \in C!Sources :
        /\ person'.mentions[x] \in SUBSET Int /\ IsFiniteSet(person'.mentions[x])
        /\ person.mentions[x] \subseteq person'.mentions[x]
  BY <1>1, <1>3, <1>5, <1>7
<1>9. Extends(person, person')
  BY <1>4, <1>8 DEF Extends
<1>10. Suits(person')
  BY <1>3, <1>4, <1>6, <1>8, SameCount DEF Suits, C!IsPerson
<1> QED
  BY <1>2, <1>9, <1>10

(* All of it is computed from the postings. *)
LEMMA OverviewStands ==
  ASSUME UNCHANGED jobs
  PROVE  \A p : C!Overview(p)' = C!Overview(p)
<1>1. \A f : C!Group(f)' = C!Group(f)
  BY DEF C!Group
<1>2. C!Families' = C!Families
  BY DEF C!Families
<1>3. \A f, s : C!Asking(f, s)' = C!Asking(f, s)
  BY <1>1 DEF C!Asking
<1>4. \A f, s : C!Preferring(f, s)' = C!Preferring(f, s)
  BY <1>1 DEF C!Preferring
<1>5. \A f : C!AskedFor(f)' = C!AskedFor(f)
  BY <1>1 DEF C!AskedFor
<1>6. \A f, s : C!HalfPoints(f, s)' = C!HalfPoints(f, s)
  BY <1>3, <1>4 DEF C!HalfPoints
<1>7. \A f : C!Core(f)' = C!Core(f)
  BY <1>5, <1>6 DEF C!Core
<1>8. \A f, s : C!Demand(f, s)' = C!Demand(f, s)
  BY <1>6, <1>1 DEF C!Demand
<1>9. \A f, s : C!Required(f, s)' = C!Required(f, s)
  BY <1>3, <1>1 DEF C!Required
<1>10. \A f : C!Ranked(f)' = C!Ranked(f)
  BY <1>1 DEF C!Ranked
<1>11. \A f : C!TwiceMedian(f)' = C!TwiceMedian(f)
  <2> SUFFICES ASSUME NEW f PROVE C!TwiceMedian(f)' = C!TwiceMedian(f)
    OBVIOUS
  <2>1. C!Ranked(f)' = C!Ranked(f)
    BY <1>10
  <2> QED
    BY <2>1, Zenon DEF C!TwiceMedian
<1>12. \A p, f : C!OutOfReach(p, f)' = C!OutOfReach(p, f)
  <2> SUFFICES ASSUME NEW p, NEW f PROVE C!OutOfReach(p, f)' = C!OutOfReach(p, f)
    OBVIOUS
  <2>1. C!Ranked(f)' = C!Ranked(f) /\ C!TwiceMedian(f)' = C!TwiceMedian(f)
    BY <1>10, <1>11
  <2> QED
    BY <2>1, Zenon DEF C!OutOfReach
<1>13. \A f, t : C!DemandFor(f, t)' = C!DemandFor(f, t)
  <2> SUFFICES ASSUME NEW f, NEW t PROVE C!DemandFor(f, t)' = C!DemandFor(f, t)
    OBVIOUS
  <2>1. DemandIsSummed'
    BY DemandForIs, PTL
  <2>2. C!DemandFor(f, t)' = Demanded(t, [s \in t |-> C!Demand(f, s)])'
    BY <2>1 DEF DemandIsSummed
  <2>3. [s \in t |-> C!Demand(f, s)]' = [s \in t |-> C!Demand(f, s)]
    BY <1>8
  <2> QED
    BY <2>2, <2>3, DemandForIs DEF DemandIsSummed
<1>14. \A p, f : C!Coverage(p, f)' = C!Coverage(p, f)
  BY <1>13, <1>7 DEF C!Coverage
<1>15. \A p, f, n : C!Covers(p, f, n)' = C!Covers(p, f, n)
  BY <1>14 DEF C!Covers
<1>16. \A p, f : C!Fit(p, f)' = C!Fit(p, f)
  BY <1>15, <1>12 DEF C!Fit
<1>17. \A p, f : C!Have(p, f)' = C!Have(p, f)
  BY <1>7 DEF C!Have
<1>18. \A p, f : C!Missing(p, f)' = C!Missing(p, f)
  BY <1>7 DEF C!Missing
<1>19. \A p, f : C!Suggests(p, f)' = C!Suggests(p, f)
  BY <1>18, <1>17, <1>16 DEF C!Suggests
<1>20. C!Known' = C!Known
  BY <1>2, <1>7 DEF C!Known
<1>21. \A p : C!Paths(p)' = C!Paths(p)
  BY <1>20, <1>14 DEF C!Paths
<1>22. \A f, g : C!Overlap(f, g)' = C!Overlap(f, g)
  BY <1>7 DEF C!Overlap
<1>23. \A f : C!Related(f)' = C!Related(f)
  <2> SUFFICES ASSUME NEW f PROVE C!Related(f)' = C!Related(f)
    OBVIOUS
  <2> QED
    BY <1>20, <1>22, Zenon DEF C!Related
<1>24. \A p, q : C!Direction(p, q)' = C!Direction(p, q)
  BY <1>17 DEF C!Direction
<1>25. \A f, s, t : C!Sooner(f, s, t)' = C!Sooner(f, s, t)
  BY <1>9, <1>8 DEF C!Sooner
<1>26. \A p, f : C!Steps(p, f)' = C!Steps(p, f)
  BY <1>18, <1>25 DEF C!Steps
<1>27. \A p, f : C!SkillPlan(p, f)' = C!SkillPlan(p, f)
  <2> SUFFICES ASSUME NEW p, NEW f PROVE C!SkillPlan(p, f)' = C!SkillPlan(p, f)
    OBVIOUS
  <2>1. C!Steps(p, f)' = C!Steps(p, f)
    BY <1>26
  <2> QED
    BY <2>1, Zenon DEF C!SkillPlan
<1>28. \A p, d : C!NextActions(p, d)' = C!NextActions(p, d)
  <2> SUFFICES ASSUME NEW p, NEW d PROVE C!NextActions(p, d)' = C!NextActions(p, d)
    OBVIOUS
  <2>1. C!Suggests(p, d)' = C!Suggests(p, d)
    BY <1>19
  <2> DEFINE a == C!If(p.waiting, "review_approval")
             b == C!If(p.resume = "none", "upload_resume")
             c == C!If(p.resume = "read" /\ C!Cardinality(C!SkillsOf(p)) < 3, "confirm_resume")
             e == C!If(p.resume # "none" /\ p.issue, "improve_resume")
             g == C!If(C!Current(p) # None, "roadmap")
             h == C!If(d # None /\ C!Suggests(p, d).project, "project")
             i == C!If(d # None /\ C!Suggests(p, d).resume, "resume")
             k == C!If(d # None /\ C!Suggests(p, d).apply, "apply")
             l == C!If(d # None /\ C!Suggests(p, d).roadmap /\ p.roadmap = <<>>, "roadmap")
             m == C!If(d = None /\ p.resume # "none", "explore")
             all == a \o b \o c \o e \o g \o h \o i \o k \o l \o m
  <2>2. a' = a /\ b' = b /\ c' = c /\ e' = e /\ g' = g /\ m' = m
    BY DEF C!If
  <2>3. h' = h /\ i' = i /\ k' = k /\ l' = l
    BY <2>1 DEF C!If
  <2>4. C!NextActions(p, d) = SubSeq(all, 1, C!Min({3, Len(all)}))
    BY DEF C!NextActions
  <2>5. C!NextActions(p, d)' = SubSeq(all', 1, C!Min({3, Len(all')}))
    BY DEF C!NextActions
  <2> HIDE DEF a, b, c, e, g, h, i, k, l, m
  <2>6. all' = all
    BY <2>2, <2>3
  <2> HIDE DEF all
  <2> QED
    BY <2>4, <2>5, <2>6
<1>29. \A p, d : C!StageDone(p, d)' = C!StageDone(p, d)
  BY <1>14 DEF C!StageDone
<1>30. \A p, d : C!Stage(p, d)' = C!Stage(p, d)
  BY <1>29 DEF C!Stage
<1>31. \A d : C!Target(d)' = C!Target(d)
  BY <1>7, <1>8 DEF C!Target
<1> QED
  BY <1>20, <1>16, <1>14, <1>18, <1>23, <1>27, <1>28, <1>30, <1>31, <1>21, <1>24 DEF C!OverviewOf, C!OverviewAlong, C!Overview

(* A step keeps the guidance, and what was shown goes on.                    *)
LEMMA GuidanceStep ==
  ASSUME GuidanceInv, [C!Next]_(C!vars)
  PROVE  GuidanceInv' /\ (shown # None => Onward(shown, shown'))
<1>0. CareerGiven /\ None \notin Int
  BY CareersGiven DEF GuidanceInv
<1>1. jobs \in Catalogues /\ Suits(person)
  BY DEF GuidanceInv
<1>2. Extends(person, person)
  BY DEF Extends
<1>3. ASSUME shown # None, shown' = shown PROVE Onward(shown, shown')
  <2>1. PICK p : ShownOf(p)
    BY <1>3 DEF GuidanceInv
  <2>2. Suits(p) /\ Extends(p, p) /\ shown = C!Overview(p)
    BY <2>1 DEF ShownOf, Extends
  <2>3. Onward(C!Overview(p), C!Overview(p))
    BY <1>0, <2>2, OverviewGoesOn
  <2> QED
    BY <1>3, <2>2, <2>3
<1>4. CASE UNCHANGED <<jobs, person, shown>>
  <2>1. ASSUME NEW p, ShownOf(p) PROVE ShownOf(p)'
    <3>1. Suits(p)' /\ Extends(p, person)'
      BY <1>4, <2>1 DEF ShownOf, Suits, C!IsPerson, Extends, C!Sources
    <3>2. C!Overview(p)' = C!Overview(p)
      BY <1>4, OverviewStands
    <3> QED
      BY <1>4, <2>1, <3>1, <3>2 DEF ShownOf
  <2>2. GuidanceInv'
    BY <1>1, <1>4, <2>1 DEF GuidanceInv, Suits, C!IsPerson, C!Sources
  <2> QED
    BY <1>3, <1>4, <2>2
<1>5. CASE C!Looks
  <2>1. shown' = C!Overview(person) /\ UNCHANGED <<jobs, person>>
    BY <1>5 DEF C!Looks
  <2>2. GuidanceInv'
    <3> DEFINE p == person
    <3>1. \A q : C!Overview(q)' = C!Overview(q)
      BY <2>1, OverviewStands
    <3>2. PICK r : r = person
      OBVIOUS
    <3>3. shown' = C!Overview(r) /\ Suits(r) /\ Extends(r, person) /\ person' = person
      BY <1>1, <1>2, <2>1, <3>2
    <3>4. ShownOf(r)'
      BY <3>1, <3>3 DEF ShownOf, Suits, C!IsPerson, C!Sources, Extends
    <3> QED
      BY <1>1, <2>1, <3>4 DEF GuidanceInv, Suits, C!IsPerson, C!Sources
  <2>3. ASSUME shown # None PROVE Onward(shown, shown')
    <3>1. PICK p : ShownOf(p)
      BY <2>3 DEF GuidanceInv
    <3>2. Suits(p) /\ Extends(p, person) /\ shown = C!Overview(p)
      BY <3>1 DEF ShownOf
    <3>3. Onward(C!Overview(p), C!Overview(person))
      BY <1>0, <1>1, <3>2, OverviewGoesOn
    <3> QED
      BY <2>1, <3>2, <3>3
  <2> QED
    BY <2>2, <2>3
<1>6. ASSUME NEW g \in Additions, C!Gains(g[1], g[2])
      PROVE  GuidanceInv' /\ (shown # None => Onward(shown, shown'))
  <2>1. Suits(person') /\ Extends(person, person') /\ UNCHANGED <<jobs, shown>>
    BY <1>1, <1>6, GainsExtend
  <2>2. ASSUME NEW p, ShownOf(p) PROVE ShownOf(p)'
    <3>1. Suits(p) /\ Extends(p, person) /\ shown = C!Overview(p)
      BY <2>2 DEF ShownOf
    <3>2. Extends(p, person')
      BY <2>1, <3>1 DEF Extends
    <3>3. C!Overview(p)' = C!Overview(p)
      BY <2>1, OverviewStands
    <3> QED
      BY <2>1, <3>1, <3>2, <3>3 DEF ShownOf, Suits, C!IsPerson, C!Sources, Extends
  <2>3. GuidanceInv'
    BY <1>1, <2>1, <2>2 DEF GuidanceInv, Suits, C!IsPerson, C!Sources
  <2> QED
    BY <1>3, <2>1, <2>3
<1> QED
  BY <1>4, <1>5, <1>6 DEF C!Next, C!vars

(* In MCServices: what the invariant says while the overviews move.          *)
GuidanceOf == IF part = "career" THEN GuidanceInv ELSE shown = None

LEMMA GuidanceStarts == ServicesInit => GuidanceOf
<1> SUFFICES ASSUME ServicesInit PROVE GuidanceOf
  OBVIOUS
<1>1. CASE part = "career"
  BY <1>1, GuidanceInit DEF ServicesInit, GuidanceOf
<1>2. CASE part # "career"
  BY <1>2 DEF ServicesInit, NoCareer, GuidanceOf
<1> QED
  BY <1>1, <1>2

LEMMA GuidanceMoves ==
  ASSUME GuidanceOf, [ServicesNext]_servicesVars
  PROVE  GuidanceOf' /\ (shown # None => Onward(shown, shown') \/ UNCHANGED careerVars)
<1>1. CASE part = "career"
  <2>1. GuidanceInv /\ part' = part
    BY <1>1, OneScoreMoves DEF GuidanceOf
  <2>2. [C!Next]_(C!vars)
    BY <1>1, OneScoreMoves DEF careerVars, C!vars
  <2>3. GuidanceInv' /\ (shown # None => Onward(shown, shown'))
    BY <2>1, <2>2, GuidanceStep
  <2> QED
    BY <1>1, <2>1, <2>3 DEF GuidanceOf
<1>2. CASE part # "career"
  BY <1>2, OneScoreMoves DEF GuidanceOf, careerVars
<1> QED
  BY <1>1, <1>2

(* Evidence never costs readiness, and what the overview shows together      *)
(* agrees, for any postings, people, resources and additions to what is      *)
(* stored of a person (career/service.py, paths.py).                        *)
THEOREM GuidanceIsCoherentAndGrows == ServicesSpec => GuidanceHolds
<1>1. GuidanceOf => C!GuidanceIsCoherent
  <2> SUFFICES ASSUME GuidanceOf, shown # None PROVE C!GuidanceIsCoherent
    BY DEF C!GuidanceIsCoherent
  <2>1. GuidanceInv
    BY DEF GuidanceOf
  <2>2. PICK p : ShownOf(p)
    BY <2>1 DEF GuidanceInv
  <2>3. CareerGiven /\ MaxSteps \in Nat
    BY <2>1, CareersGiven DEF GuidanceInv
  <2>4. Suits(p) /\ shown = C!Overview(p)
    BY <2>2 DEF ShownOf
  <2> QED
    BY <2>3, <2>4, OverviewAgrees
<1>2. GuidanceOf /\ [ServicesNext]_servicesVars =>
        [shown # None =>
           /\ \A f \in DOMAIN shown.fit :
                /\ C!FitRank[shown'.fit[f]] >= C!FitRank[shown.fit[f]]
                /\ shown'.coverage[f][1] >= shown.coverage[f][1]
                /\ shown'.missing[f] \subseteq shown.missing[f]
           /\ shown.direction # None => shown'.direction # None
           /\ shown'.stage = 1 => shown.stage = 1]_(C!vars)
  <2> SUFFICES ASSUME GuidanceOf, [ServicesNext]_servicesVars, shown # None,
                      (C!vars)' # C!vars
               PROVE  Onward(shown, shown')
    BY DEF Onward
  <2> QED
    BY GuidanceMoves DEF careerVars, C!vars
<1>3. GuidanceOf /\ [ServicesNext]_servicesVars => GuidanceOf'
  BY GuidanceMoves
<1> QED
  BY <1>1, <1>2, <1>3, GuidanceStarts, PTL
     DEF ServicesSpec, servicesVars, GuidanceHolds, C!EvidenceNeverCosts
=============================================================================
