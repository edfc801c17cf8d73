------------------------------ MODULE Retrieval ------------------------------
(***************************************************************************)
(* What RagService.retrieve puts before a language model (domain/rag): the  *)
(* hits of a vector and a text search, fused by reciprocal rank, picked one *)
(* by one for relevance and novelty, and cut at a token budget.             *)
(*                                                                         *)
(* Fractions are scaled to integers: 1/(60 + rank) by Scale, cosines by 10. *)
(* The reranker that is configured leaves the order as it is.               *)
(***************************************************************************)
EXTENDS Integers, FiniteSets, Sequences, SequencesExt

CONSTANTS Chunks,     \* job_chunks, as numbers in the order of their ref_ids
          Owners,     \* tables Chunks -> {User, Other, Nobody}
          Sizes,      \* tables Chunks -> token counts
          Likeness,   \* cosines of pairs of chunks, in tenths
          User, Other, Nobody,
          TopN, K, Budget

Pairs == {{c, d} : c, d \in Chunks}
RetrievalAssumption ==
  /\ Chunks \subseteq Nat /\ IsFiniteSet(Chunks) /\ Other \notin {User, Nobody}
  /\ Owners \subseteq [Chunks -> {User, Other, Nobody}] /\ Sizes \subseteq [Chunks -> Nat]
  /\ Likeness \subseteq [Pairs -> Int]
  /\ {TopN, Budget} \subseteq Nat /\ K \in Nat \ {0}

VARIABLES
  owner, size, alike,  \* the table
  vec, txt,            \* hits of the two searches, the best first
  picked               \* the blocks handed over

rVars == <<owner, size, alike, vec, txt, picked>>

Init ==
  /\ owner \in Owners /\ size \in Sizes /\ alike \in Likeness
  /\ vec = <<>> /\ txt = <<>> /\ picked = <<>>

-----------------------------------------------------------------------------
Visible(c) == owner[c] \in {User, Nobody}

(* A search ranks the rows it may see, TopN at most. *)
Rankings(S) == UNION {{s \in [1..n -> S] : IsInjective(s)} : n \in 0..TopN}
Searches(S) ==
  /\ picked = <<>> /\ vec = <<>> /\ txt = <<>>
  /\ vec' \in Rankings({c \in S : Visible(c)}) /\ txt' \in Rankings({c \in S : Visible(c)})
  /\ vec' # <<>> \/ txt' # <<>>
  /\ UNCHANGED <<owner, size, alike, picked>>

-----------------------------------------------------------------------------
(* rrf.                                                                     *)

Scale == 61 * 62 * 63 * 64
RankShare(hits, c) ==
  IF c \in ToSet(hits) THEN Scale \div (60 + CHOOSE i \in DOMAIN hits : hits[i] = c) ELSE 0
Fused(c) == RankShare(vec, c) + RankShare(txt, c)

(* mmr: relevance less the likeness to what is picked already.  A chunk only *)
(* the text search found has its embedding too when the row has one; here    *)
(* every row has.                                                            *)
Candidates == ToSet(vec) \cup ToSet(txt)
Least(S)    == CHOOSE x \in S : \A y \in S : x <= y
Greatest(S) == CHOOSE x \in S : \A y \in S : x >= y

Redundancy(c, chosen) ==
  IF chosen = <<>> THEN 0 ELSE Greatest({alike[{c, d}] : d \in ToSet(chosen)})

\* 0.7 * norm - 0.3 * redundancy, times 100 * span
MarginalValue(c, chosen) ==
  LET scores == {Fused(d) : d \in Candidates}
      lo   == Least(scores)
      span == Greatest(scores) - lo IN
  IF span = 0 THEN 70 - 3 * Redundancy(c, chosen)
  ELSE 70 * (Fused(c) - lo) - 3 * Redundancy(c, chosen) * span

Better(c, d, chosen) ==
  \/ MarginalValue(c, chosen) > MarginalValue(d, chosen)
  \/ /\ MarginalValue(c, chosen) = MarginalValue(d, chosen)
     /\ Fused(c) > Fused(d) \/ (Fused(c) = Fused(d) /\ c < d)

Best(S, chosen) == CHOOSE c \in S : \A d \in S \ {c} : Better(c, d, chosen)

Selected ==
  LET n == IF Cardinality(Candidates) < K THEN Cardinality(Candidates) ELSE K
      pick[i \in 0..n] ==
        IF i = 0 THEN <<>>
        ELSE LET chosen == pick[i - 1] IN
             Append(chosen, Best(Candidates \ ToSet(chosen), chosen)) IN
  pick[n]

(* assemble_context: the first always, the others while they fit. *)
Tokens(s) ==
  LET sum[n \in 0..Len(s)] == IF n = 0 THEN 0 ELSE sum[n - 1] + size[s[n]] IN sum[Len(s)]
\* mutant: a block is taken while the budget is not used up
FitsBefore(s, n) == \A i \in 2..n : Tokens(SubSeq(s, 1, i - 1)) <= Budget
Fits(s, n)   == \A i \in 2..n : Tokens(SubSeq(s, 1, i)) <= Budget
Assembled(s) == SubSeq(s, 1, Greatest({n \in 1..Len(s) : Fits(s, n)}))

Retrieves ==
  /\ picked = <<>> /\ Candidates # {} /\ picked' = Assembled(Selected)
  /\ UNCHANGED <<owner, size, alike, vec, txt>>

Next == Searches(Chunks) \/ Retrieves
Spec == Init /\ [][Next]_rVars

-----------------------------------------------------------------------------
(* The blocks a model reads are of the person's postings or nobody's, which  *)
(* is the test of visibility the searches make, and each is there once,      *)
(* within the budget unless the first alone exceeds it; what is best by both *)
(* searches leads, and a block that is left out although there was room for  *)
(* one more is too large for what remained (domain/rag).                     *)
ContextIsSound ==
  picked # <<>> =>
    /\ \A c \in ToSet(picked) : owner[c] # Other
    /\ IsInjective(picked) /\ Len(picked) <= K
    /\ Len(picked) > 1 => Tokens(picked) <= Budget
    /\ \A c \in Candidates : Fused(c) <= Fused(picked[1])
    /\ Len(picked) < K =>
         \A c \in Candidates \ ToSet(picked) :
           \E d \in Candidates \ ToSet(picked) : Tokens(picked) + size[d] > Budget
=============================================================================
