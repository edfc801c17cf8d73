----------------------------- MODULE MatchScorer -----------------------------
(***************************************************************************)
(* The score of a posting for a person (domain/matching/scorer.py,          *)
(* weights.py), the gaps derived from it (gaps.py), the snapshots both are  *)
(* made from and the prose beside them (service.py, explainer.py), while    *)
(* the person's profile grows.                                              *)
(*                                                                         *)
(* A raw score is a fraction <<n, d>>; weights are in percent, contributions*)
(* and totals in hundredths of a point, as the code rounds them.  A skill's *)
(* label is one token, a title is its set of tokens, a place a value.       *)
(* Of the embeddings there is only the cosine they give, in tenths: any of   *)
(* Cosines whenever a match is scored, as what somebody adds moves the       *)
(* summary that is embedded, and with it the chunks that are found.         *)
(***************************************************************************)
EXTENDS Integers, FiniteSets, Sequences, FiniteSetsExt, SequencesExt

CONSTANTS Skills,    \* a sequence: skills in the order of their labels
          Profiles,  \* profiles people start with
          Jobs,      \* postings
          Roles,     \* titles people add to their profile: sets of tokens
          Cosines,   \* what the embeddings of a summary and of chunks may give
          None,      \* a field that is not set
          MaxYears   \* bound: years of experience

VARIABLES
  profile,  \* ProfileSnapshot
  job,      \* JobSnapshot
  match     \* job_matches: the score as it was computed, or Unscored

mVars == <<profile, job, match>>

SkillIds == ToSet(Skills)
Unscored == [status |-> "scoring"]

SeniorityLadder ==
  [intern |-> 0, junior |-> 1, mid |-> 2, senior |-> 3, staff |-> 4, principal |-> 5,
   lead |-> 4, manager |-> 4]

(* Postings and profiles as the tables and the extractor give them: a weight *)
(* is "from 0 to 1", a sum of money and a number of years are not negative.  *)
OrNone(S) == S \cup {None}
IsJob(j) ==
  /\ {j.required, j.preferred} \subseteq Seq([skill : SkillIds, weight : Nat])
  /\ IsFiniteSet(j.title) /\ j.seniority \in OrNone(DOMAIN SeniorityLadder)
  /\ {j.expMin, j.salaryMin, j.salaryMax} \subseteq OrNone(Nat) /\ j.chunks \in BOOLEAN
IsProfile(p) ==
  /\ DOMAIN p = {"skills", "tech", "titles", "projects", "projectTech", "degree", "fields",
                 "years", "seniority", "roles", "locations", "modes", "floor"}
  /\ {p.projects, p.degree} \subseteq BOOLEAN /\ {p.years, p.floor} \subseteq OrNone(Nat)
  /\ p.seniority \in OrNone(DOMAIN SeniorityLadder)
  /\ \A titles \in {p.titles, p.roles} :
       IsFiniteSet(titles) /\ \A title \in titles : IsFiniteSet(title)

ScorerAssumption ==
  /\ None \notin Int /\ MaxYears \in Nat /\ Cosines \subseteq Int
  /\ Skills \in Seq(SkillIds) /\ IsInjective(Skills)
  /\ \A p \in Profiles : IsProfile(p)
  /\ \A j \in Jobs : IsJob(j)
  /\ \A title \in Roles : IsFiniteSet(title)

-----------------------------------------------------------------------------
(* Fractions.                                                               *)

Zero == <<0, 1>>
One  == <<1, 1>>
Leq(a, b)     == a[1] * b[2] <= b[1] * a[2]
Plus(a, b)    == <<a[1] * b[2] + b[1] * a[2], a[2] * b[2]>>
Times(a, b)   == <<a[1] * b[1], a[2] * b[2]>>
AtMost(a, b)  == IF Leq(a, b) THEN a ELSE b
AtLeast(a, b) == IF Leq(a, b) THEN b ELSE a
\* round(f * unit), a tie up
Rounded(f, unit) == (2 * f[1] * unit + f[2]) \div (2 * f[2])
Distance(a, b) == IF a < b THEN b - a ELSE a - b

-----------------------------------------------------------------------------
(* The dimensions.                                                          *)

Jaccard(a, b) ==
  IF a = {} \/ b = {} THEN Zero ELSE <<Cardinality(a \cap b), Cardinality(a \cup b)>>

BestJaccard(target, titles) ==
  LET found == {Zero} \cup {Jaccard(target, t) : t \in titles} IN
  CHOOSE f \in found : \A g \in found : Leq(g, f)

WeightOf(rows, I) == MapThenSumSet(LAMBDA i : rows[i].weight, I)
Held(rows, p)     == {i \in DOMAIN rows : rows[i].skill \in p.skills}

Bonus(p, j) ==
  IF j.preferred = <<>> THEN Zero
  ELSE <<3 * Cardinality(Held(j.preferred, p)), 10 * Len(j.preferred)>>

DimSkill(p, j) ==
  IF j.required # <<>>
  THEN LET total == WeightOf(j.required, DOMAIN j.required) IN
       AtMost(One, Plus(<<WeightOf(j.required, Held(j.required, p)),
                          IF total = 0 THEN 1 ELSE total>>, Bonus(p, j)))
  ELSE IF j.preferred = <<>> THEN One ELSE Bonus(p, j)

YearsPart(p, j) ==
  IF j.expMin = None THEN One
  ELSE IF p.years = None THEN <<1, 2>>
  ELSE IF p.years >= j.expMin THEN One ELSE <<p.years, j.expMin>>

DimExperience(p, j) ==
  Plus(Times(<<6, 10>>, YearsPart(p, j)), Times(<<4, 10>>, BestJaccard(j.title, p.titles)))

LabelTokens(j) == {r.skill : r \in ToSet(j.required) \cup ToSet(j.preferred)}

\* mutant: as a share of both, so that unrelated tools count against one
DimTechnologyOfBoth(p, j) == Jaccard(LabelTokens(j), p.tech)
DimTechnology(p, j) ==
  LET wanted == LabelTokens(j) IN
  <<Cardinality(wanted \cap p.tech), IF wanted = {} THEN 1 ELSE Cardinality(wanted)>>

(* summary_text: the roles, skills, titles and projects, if there are any.   *)
HasSummary(p) == p.projects \/ p.roles # {} \/ p.skills # {} \/ p.titles # {}

(* The summary's embedding against the mean of the chunks that are found for *)
(* it or, if the search fails, of all of the posting's.                      *)
CosinesOf(p, j) == IF HasSummary(p) /\ j.chunks THEN Cosines ELSE {None}

DimSemantic(cosine) ==
  IF cosine = None THEN <<1, 2>> ELSE AtLeast(Zero, AtMost(One, <<cosine, 10>>))

DimRole(p, j) == IF p.roles = {} THEN <<1, 2>> ELSE BestJaccard(j.title, p.roles)

DimSeniority(p, j) ==
  IF None \in {p.seniority, j.seniority} THEN <<1, 2>>
  ELSE <<5 - Distance(SeniorityLadder[p.seniority], SeniorityLadder[j.seniority]), 5>>

DimProject(p, j) ==
  IF LabelTokens(j) = {} THEN <<1, 2>>
  ELSE IF p.projectTech \cap LabelTokens(j) # {} THEN One
  ELSE IF p.projectTech # {} THEN <<4, 10>> ELSE Zero

DimEducation(p, j) ==
  LET base == IF p.degree THEN <<6, 10>> ELSE <<2, 10>> IN
  IF p.fields \cap j.title # {} THEN AtMost(One, Plus(base, <<4, 10>>)) ELSE base

DimLocation(p, j) ==
  IF \/ j.mode = "remote"
     \/ j.mode # None /\ j.mode \in p.modes
     \/ j.location # None /\ j.location \in p.locations
  THEN One
  ELSE IF j.mode = None /\ j.location = None THEN <<1, 2>> ELSE <<3, 10>>

DimSalary(p, j) ==
  LET top == IF j.salaryMax # None THEN j.salaryMax ELSE j.salaryMin IN
  IF p.floor = None \/ top = None THEN <<1, 2>>
  ELSE IF top >= p.floor THEN One ELSE AtLeast(Zero, <<top, p.floor>>)

-----------------------------------------------------------------------------
(* The score.                                                               *)

Weights ==
  [skill |-> 22, experience |-> 16, technology |-> 13, semantic |-> 12, role |-> 10,
   seniority |-> 8, project |-> 7, education |-> 5, location |-> 4, salary |-> 3]
Dimensions == DOMAIN Weights

BandFor(total) ==
  IF total >= 8000 THEN "strong" ELSE IF total >= 6500 THEN "good"
  ELSE IF total >= 4500 THEN "partial" ELSE "weak"

RawScores(p, j, cosine) ==
  [skill |-> DimSkill(p, j), experience |-> DimExperience(p, j),
   technology |-> DimTechnology(p, j), semantic |-> DimSemantic(cosine), role |-> DimRole(p, j),
   seniority |-> DimSeniority(p, j), project |-> DimProject(p, j),
   education |-> DimEducation(p, j), location |-> DimLocation(p, j),
   salary |-> DimSalary(p, j)]

(* The first n of a set of dimensions, a tie to the heavier one. *)
Top(D, n, worth(_)) ==
  LET before(d, e) == worth(d) > worth(e) \/ (worth(d) = worth(e) /\ Weights[d] > Weights[e])
  IN {d \in D : Cardinality({e \in D : before(e, d)}) < n}

Named(rows)   == {rows[i].skill : i \in DOMAIN rows}
Missing(p, j) == Named(j.required) \ p.skills

\* mutant: the last row that names a skill gives its severity
LastRow(rows, s) == rows[Max({i \in DOMAIN rows : rows[i].skill = s})]
FirstRow(rows, s) == rows[Min({i \in DOMAIN rows : rows[i].skill = s})]

SeverityRank == [critical |-> 0, important |-> 1, nice_to_have |-> 2]
Place(s)     == CHOOSE i \in DOMAIN Skills : Skills[i] = s

(* By severity, then by label.                                              *)
Before(g, h) ==
  \/ SeverityRank[g.severity] < SeverityRank[h.severity]
  \/ g.severity = h.severity /\ Place(g.skill) < Place(h.skill)
Sorted(gaps) ==
  [i \in 1..Cardinality(gaps) |->
     CHOOSE g \in gaps : Cardinality({h \in gaps : Before(h, g)}) = i - 1]

(* derive_gaps is handed the skills the skill dimension calls missing.      *)
DeriveGaps(j, missing) ==
  LET must == {[skill |-> s, severity |->
                  IF FirstRow(j.required, s).weight >= 7 THEN "critical" ELSE "important"] :
                s \in Named(j.required) \cap missing}
      may  == {[skill |-> s, severity |-> "nice_to_have"] :
                s \in (Named(j.preferred) \ Named(j.required)) \cap missing} IN
  Sorted(must \cup may)

(* GapRationaleWriter keeps what the model says of gaps it was asked about.  *)
Rationales(gaps, reply) == reply \cap {gaps[i].skill : i \in DOMAIN gaps}

Score(p, j, cosine, reply) ==
  LET raw   == RawScores(p, j, cosine)
      given == [d \in Dimensions |-> Rounded(raw[d], 100 * Weights[d])]
      kept  == [d \in Dimensions |-> Rounded(raw[d], 1000)]
      total == MapThenSumSet(LAMBDA d : given[d], Dimensions)
      gaps  == DeriveGaps(j, Missing(p, j)) IN
  [status |-> "ready", score |-> total, band |-> BandFor(total), dimensions |-> kept,
   contributions |-> given,
   strengths |-> Top({d \in Dimensions : kept[d] >= 700}, 3, LAMBDA d : given[d]),
   weaknesses |-> Top({d \in Dimensions : kept[d] < 500}, 4, LAMBDA d : Weights[d]),
   skillGaps |-> gaps, rationales |-> Rationales(gaps, reply),
   of |-> <<p, j>>]

-----------------------------------------------------------------------------
Init == profile \in Profiles /\ job \in Jobs /\ match = Unscored

(* The profile grows: a skill, a line of experience, a project with its      *)
(* tools, a degree, a year.  The match stays as it was computed until it is  *)
(* asked for again.                                                          *)
AddsSkill(s)      == profile' = [profile EXCEPT !.skills = @ \cup {s}]
AddsTech(s)       == profile' = [profile EXCEPT !.tech = @ \cup {s}]
AddsProject(tools) ==
  profile' = [profile EXCEPT !.projects = TRUE, !.projectTech = @ \cup tools, !.tech = @ \cup tools]
AddsDegree(field) == profile' = [profile EXCEPT !.degree = TRUE, !.fields = @ \cup field]
AddsTitle(title)  == profile' = [profile EXCEPT !.titles = @ \cup {title}]
AddsYear ==
  /\ profile.years # None /\ profile.years < MaxYears
  /\ profile' = [profile EXCEPT !.years = @ + 1]

Grows ==
  /\ \/ \E s \in SkillIds : AddsSkill(s) \/ AddsTech(s)
     \/ \E tools \in SUBSET SkillIds : AddsProject(tools)
     \/ \E title \in Roles : AddsTitle(title) \/ AddsDegree(title)
     \/ AddsYear
  /\ UNCHANGED <<job, match>>

Scores ==
  /\ \E cosine \in CosinesOf(profile, job), reply \in {{}, SkillIds} :
       match' = Score(profile, job, cosine, reply)
  /\ UNCHANGED <<profile, job>>

Next == Grows \/ Scores
Spec == Init /\ [][Next]_mVars

-----------------------------------------------------------------------------
(* What somebody adds counts against them in the semantic dimension alone:   *)
(* on the same posting a profile that has only grown scores no less in any   *)
(* other, its total falls by no more than that dimension gives less, and it  *)
(* has no gap that was not there (scorer.py, worker/tasks/matching.py).      *)
OnlyLikenessMayFall ==
  [][match.status = "ready" /\ match'.status = "ready" =>
       /\ match'.score - match'.contributions.semantic
            >= match.score - match.contributions.semantic
       /\ \A d \in Dimensions \ {"semantic"} : match'.dimensions[d] >= match.dimensions[d]
       /\ ToSet(match'.skillGaps) \subseteq ToSet(match.skillGaps)]_mVars

(* The listed gaps are the required skills the profile lacked, each once,    *)
(* as grave as the first row that names it and the critical ones first; with *)
(* none, where any row weighs, the skill dimension is full, and nothing but  *)
(* its own skills makes a match strong (gaps.py, _dim_skill, weights.py).    *)
GapsExplainTheScore ==
  match.status = "ready" =>
    LET rows == match.of[2].required
        gaps == match.skillGaps
        heavy(s) == \E i \in DOMAIN rows :
          rows[i].skill = s /\ rows[i].weight >= 7 /\ \A k \in 1..(i - 1) : rows[k].skill # s IN
    /\ {g.skill : g \in ToSet(gaps)} = {r.skill : r \in ToSet(rows)} \ match.of[1].skills
    /\ \A i, k \in DOMAIN gaps : i < k =>
         gaps[i].skill # gaps[k].skill /\ (heavy(gaps[k].skill) => heavy(gaps[i].skill))
    /\ \A g \in ToSet(gaps) : g.severity = "critical" <=> heavy(g.skill)
    /\ gaps = <<>> /\ (\E i \in DOMAIN rows : rows[i].weight > 0) =>
         match.dimensions.skill = 1000
    /\ match.band = "strong" => match.dimensions.skill > 0
    /\ match.rationales \subseteq {g.skill : g \in ToSet(gaps)}

(* "a preferred skill the profile lacks is nice_to_have"                      *)
(* (derive_gaps, domain/matching/gaps.py).                                   *)
PreferredGapsListed ==
  match.status = "ready" =>
    \A r \in ToSet(match.of[2].preferred) :
      r.skill \in match.of[1].skills \cup {g.skill : g \in ToSet(match.skillGaps)}
=============================================================================
