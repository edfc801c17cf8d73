-------------------------------- MODULE Career --------------------------------
(***************************************************************************)
(* The guidance a person is shown (domain/career): role families ranked by  *)
(* how much of their demand the person covers, the gaps to work on, the     *)
(* next actions and the stage of the journey, while the person's evidence   *)
(* grows.  Everything is read from stored rows and combined by functions.   *)
(*                                                                         *)
(* Skills, families and resources are numbers in the order of their labels. *)
(* Demand is in percent, rounded as the code rounds it but for ties (no     *)
(* catalogue that is checked has one); wording is left out.  What a scan of  *)
(* texts finds is given by the person's record: the skills each source      *)
(* mentions.                                                                *)
(***************************************************************************)
EXTENDS Integers, FiniteSets, Sequences, FiniteSetsExt, SequencesExt

CONSTANTS
  Catalogues,  \* sets of ready postings: id, family, seniority, required, preferred
  People,      \* people as they start
  Resources,   \* learning_resources: id, skills, cost, level, hours
  Grown,       \* what people add: pairs of a skill and a source
  CoreSkills, MaxSteps, MaxPaths,
  None

Sources == {"profile", "experience", "project", "resume"}

IsPosting(j) ==
  /\ j.family \in Int
  /\ j.required \in SUBSET Int /\ IsFiniteSet(j.required)
  /\ j.preferred \in SUBSET Int /\ IsFiniteSet(j.preferred)
IsPerson(p) ==
  /\ DOMAIN p = {"mentions", "resume", "targets", "seniority", "roadmap", "projects", "issue",
                 "waiting", "sent", "interviewing"}
  /\ DOMAIN p.mentions = Sources /\ {p.waiting, p.issue} \subseteq BOOLEAN
  /\ \A src \in Sources : p.mentions[src] \in SUBSET Int /\ IsFiniteSet(p.mentions[src])

CareerAssumption ==
  /\ \A c \in Catalogues : IsFiniteSet(c) /\ \A j \in c : IsPosting(j)
  /\ \A p \in People : IsPerson(p)
  /\ Grown \subseteq Int \X Sources
  /\ CoreSkills \in Nat /\ MaxSteps \in Nat /\ None \notin Int

VARIABLES
  jobs,    \* the postings the person may see
  person,  \* what is stored of the person
  shown    \* the overview as last computed, or None

vars == <<jobs, person, shown>>

(* A list in the order in which each comes after those ahead of it. *)
Arranged(ahead) ==
  [i \in 1..Cardinality(DOMAIN ahead) |->
     CHOOSE x \in DOMAIN ahead : Cardinality(ahead[x]) = i - 1]

-----------------------------------------------------------------------------
(* CareerService.candidate.                                                 *)

SourcesOf(p, s) ==
  {src \in Sources : s \in p.mentions[src] /\ (src = "resume" => p.resume # "none")}
SkillsOf(p) == {s \in UNION {p.mentions[src] : src \in Sources} : SourcesOf(p, s) # {}}

-----------------------------------------------------------------------------
(* build_paths.                                                             *)

Families == {j.family : j \in jobs}
Group(f) == {j \in jobs : j.family = f}

Asking(f, s)    == {j \in Group(f) : s \in j.required}
Preferring(f, s) == {j \in Group(f) : s \in j.preferred}
HalfPoints(f, s) == 2 * Cardinality(Asking(f, s)) + Cardinality(Preferring(f, s))
AskedFor(f)     == UNION {j.required \cup j.preferred : j \in Group(f)}

(* _demand: the skills of a family, the most wanted first. *)
Core(f) ==
  LET before(s, t) == \/ HalfPoints(f, s) > HalfPoints(f, t)
                      \/ HalfPoints(f, s) = HalfPoints(f, t) /\ s < t IN
  {s \in AskedFor(f) : Cardinality({t \in AskedFor(f) : before(t, s)}) < CoreSkills}

Percent(a, b)  == (200 * a + b) \div (2 * b)
Demand(f, s)   == Min({100, Percent(HalfPoints(f, s), 2 * Cardinality(Group(f)))})
Required(f, s) == 2 * Cardinality(Asking(f, s)) >= Cardinality(Group(f))

SeniorityRank ==
  [intern |-> 0, junior |-> 1, mid |-> 2, senior |-> 3, staff |-> 4, principal |-> 5,
   lead |-> 4, manager |-> 4]

(* _seniority_note: the typical level is two above one's own, none is near.  *)
Ranked(f) == {j \in Group(f) : j.seniority # None}
TwiceMedian(f) ==
  LET rank(i) == SeniorityRank[i.seniority]
      before(i, k) == rank(i) < rank(k) \/ (rank(i) = rank(k) /\ i.id < k.id)
      order == Arranged([i \in Ranked(f) |-> {k \in Ranked(f) : before(k, i)}])
      n == Len(order) IN
  rank(order[(n + 1) \div 2]) + rank(order[(n + 2) \div 2])

OutOfReach(p, f) ==
  /\ Ranked(f) # {} /\ p.seniority # None
  /\ LET mine == SeniorityRank[p.seniority] IN
     /\ TwiceMedian(f) - 2 * mine >= 4
     /\ \A j \in Ranked(f) : SeniorityRank[j.seniority] - mine \notin -1..1

DemandFor(f, asked) == MapThenSumSet(LAMBDA s : Demand(f, s), asked)
\* mutant: the core skills one has as a share of the skills one has
CoverageOfOwn(p, f) ==
  LET have == DemandFor(f, Core(f) \cap SkillsOf(p)) IN
  <<have, have + 100 * Cardinality(SkillsOf(p) \ Core(f)) + 1>>
(* The share of the core's demand the person covers, as a fraction. *)
Coverage(p, f) ==
  LET total == DemandFor(f, Core(f)) IN
  <<DemandFor(f, Core(f) \cap SkillsOf(p)), IF total = 0 THEN 1 ELSE total>>
Covers(p, f, percent) == 100 * Coverage(p, f)[1] >= percent * Coverage(p, f)[2]

Fit(p, f) ==
  IF Covers(p, f, 65) THEN IF OutOfReach(p, f) THEN "stretch" ELSE "close"
  ELSE IF Covers(p, f, 35) /\ ~OutOfReach(p, f) THEN "stretch" ELSE "pivot"

Have(p, f)    == Core(f) \cap SkillsOf(p)
Missing(p, f) == Core(f) \ SkillsOf(p)

(* _actions: what a path suggests, in this order. *)
Suggests(p, f) ==
  [project |-> Missing(p, f) # {},
   resume  |-> \E s \in Have(p, f) : SourcesOf(p, s) = {"profile"},
   apply   |-> Fit(p, f) = "close",
   roadmap |-> Fit(p, f) # "close" /\ Missing(p, f) # {}]

Known == {f \in Families : Core(f) # {}}

(* Stated targets first, then by coverage, then by name. *)
Covered(c) == Percent(c[1], c[2])
Before(targets, covered, f, g) ==
  IF (f \in targets) # (g \in targets) THEN f \in targets
  ELSE covered[f] > covered[g] \/ (covered[f] = covered[g] /\ f < g)
InOrder(targets, covered) ==
  Arranged([f \in DOMAIN covered |-> {g \in DOMAIN covered : Before(targets, covered, g, f)}])

Paths(p) == InOrder(p.targets, [f \in Known |-> Covered(Coverage(p, f))])
Offered(paths) == SubSeq(paths, 1, Min({MaxPaths, Len(paths)}))

Overlap(f, g) == <<Cardinality(Core(f) \cap Core(g)), Cardinality(Core(f) \cup Core(g))>>
Related(f) ==
  LET closer(g, h) == LET a == Overlap(f, g)
                          b == Overlap(f, h) IN
        a[1] * b[2] > b[1] * a[2] \/ (a[1] * b[2] = b[1] * a[2] /\ g > h)
      others == Known \ {f} IN
  {g \in others : /\ Cardinality({h \in others : closer(h, g)}) < 2
                  /\ 5 * Overlap(f, g)[1] >= Overlap(f, g)[2]}

Direction(p, paths) ==
  IF paths # <<>> /\ (Head(paths) \in p.targets \/ Have(p, Head(paths)) # {})
  THEN Head(paths) ELSE None

-----------------------------------------------------------------------------
(* build_skill_plan.                                                        *)

CostRank  == [free |-> 0, freemium |-> 1, paid |-> 2]
LevelRank == [beginner |-> 0, intermediate |-> 1, advanced |-> 2]

PickResource(s) ==
  LET fits == {r \in Resources : s \in r.skills}
      key(r) == <<CostRank[r.cost], LevelRank[r.level],
                  IF r.hours = None THEN 999 ELSE r.hours, r.id>>
      before(r, q) == \E i \in 1..4 :
        key(r)[i] < key(q)[i] /\ \A k \in 1..(i - 1) : key(r)[k] = key(q)[k] IN
  IF fits = {} THEN None ELSE (CHOOSE r \in fits : \A q \in fits \ {r} : before(r, q)).id

Sooner(f, s, t) ==
  IF Required(f, s) # Required(f, t) THEN Required(f, s)
  ELSE Demand(f, s) > Demand(f, t) \/ (Demand(f, s) = Demand(f, t) /\ s < t)
Steps(p, f) ==
  LET lacks == Missing(p, f)
      order == Arranged([s \in lacks |-> {t \in lacks : Sooner(f, t, s)}]) IN
  SubSeq(order, 1, Min({MaxSteps, Len(order)}))

RoadmapPosition(p, s) ==
  LET places == {i \in DOMAIN p.roadmap : p.roadmap[i].skill = s} IN
  IF places = {} THEN None ELSE Max(places)

SkillPlan(p, f) ==
  LET step(s) == [skill |-> s, resource |-> PickResource(s), position |-> RoadmapPosition(p, s)]
      steps   == Steps(p, f) IN
  [i \in DOMAIN steps |-> step(steps[i])]

-----------------------------------------------------------------------------
(* CareerService.overview.  An active roadmap is a sequence of milestones;   *)
(* <<>> stands for none (a roadmap without milestones asks for nothing too). *)

OpenMilestones(p) == {i \in DOMAIN p.roadmap : p.roadmap[i].status # "done"}
Current(p) ==
  LET begun == {i \in OpenMilestones(p) : p.roadmap[i].status = "in_progress"} IN
  IF OpenMilestones(p) = {} THEN None
  ELSE Min(IF begun = {} THEN OpenMilestones(p) ELSE begun)
Upcoming(p) ==
  LET rest == OpenMilestones(p) \ {Current(p)} IN IF rest = {} THEN None ELSE Min(rest)
DoneSteps(p) == Cardinality(DOMAIN p.roadmap \ OpenMilestones(p))

If(condition, kind) == IF condition THEN <<kind>> ELSE <<>>

NextActions(p, d) ==
  LET all == If(p.waiting, "review_approval")
        \o If(p.resume = "none", "upload_resume")
        \o If(p.resume = "read" /\ Cardinality(SkillsOf(p)) < 3, "confirm_resume")
        \o If(p.resume # "none" /\ p.issue, "improve_resume")
        \o If(Current(p) # None, "roadmap")
        \o If(d # None /\ Suggests(p, d).project, "project")
        \o If(d # None /\ Suggests(p, d).resume, "resume")
        \o If(d # None /\ Suggests(p, d).apply, "apply")
        \o If(d # None /\ Suggests(p, d).roadmap /\ p.roadmap = <<>>, "roadmap")
        \o If(d = None /\ p.resume # "none", "explore") IN
  SubSeq(all, 1, Min({3, Len(all)}))

(* _journey: the first stage that is not done is the current one.  Here the   *)
(* coverage is the rounded one: 64.5 percent are 65, and not in a fit.       *)
StageDone(p, d) ==
  << p.resume # "none" /\ Cardinality(SkillsOf(p)) >= 3,
     d # None /\ Covered(Coverage(p, d)) >= 65,
     p.projects >= 2 \/ DoneSteps(p) >= 1,
     p.sent >= 1,
     p.interviewing >= 1 >>
FirstOpen(done) ==
  LET left == {i \in DOMAIN done : ~done[i]} IN IF left = {} THEN 6 ELSE Min(left)
Stage(p, d) == FirstOpen(StageDone(p, d))

(* _analyse: the résumé is read against the direction's most wanted skills.  *)
Target(d) ==
  {s \in Core(d) : Cardinality({t \in Core(d) : Demand(d, t) > Demand(d, s)}) < 8}

Notes(p) ==
  (IF p.targets = {} THEN {"no_target"} ELSE {}) \cup
  (IF Cardinality(SkillsOf(p)) \in 1..2 THEN {"few_skills"} ELSE {})

OverviewOf(p, paths, d) ==
  [paths |-> Offered(paths), direction |-> d,
   fit |-> [f \in Known |-> Fit(p, f)], coverage |-> [f \in Known |-> Coverage(p, f)],
   missing |-> [f \in Known |-> Missing(p, f)], related |-> [f \in Known |-> Related(f)],
   plan |-> IF d = None THEN <<>> ELSE SkillPlan(p, d),
   actions |-> NextActions(p, d), stage |-> Stage(p, d), notes |-> Notes(p),
   target |-> IF d = None THEN {} ELSE Target(d),
   roadmap |-> <<DoneSteps(p), Current(p), Upcoming(p)>>, of |-> p]
OverviewAlong(p, paths) == OverviewOf(p, paths, Direction(p, paths))
Overview(p)             == OverviewAlong(p, Paths(p))

-----------------------------------------------------------------------------
Init == jobs \in Catalogues /\ person \in People /\ shown = None

(* A skill on the profile, in a line of experience or a project, or in the   *)
(* text of the résumé.                                                       *)
Gains(s, src) ==
  /\ person' = [person EXCEPT !.mentions[src] = @ \cup {s}] /\ UNCHANGED <<jobs, shown>>

Looks == shown' = Overview(person) /\ UNCHANGED <<jobs, person>>

Next == Looks \/ \E g \in Grown : Gains(g[1], g[2])
Spec == Init /\ [][Next]_vars

-----------------------------------------------------------------------------
(* Evidence that is added never moves a path away: none is covered less,     *)
(* fits less or misses more than before, a direction is not lost, and the    *)
(* journey does not go back to its first stage (paths.py, service.py).       *)
FitRank == [pivot |-> 0, stretch |-> 1, close |-> 2]
EvidenceNeverCosts ==
  [][shown # None =>
       /\ \A f \in DOMAIN shown.fit :
            /\ FitRank[shown'.fit[f]] >= FitRank[shown.fit[f]]
            /\ shown'.coverage[f][1] >= shown.coverage[f][1]
            /\ shown'.missing[f] \subseteq shown.missing[f]
       /\ shown.direction # None => shown'.direction # None
       /\ shown'.stage = 1 => shown.stage = 1]_vars

(* What one page says agrees with itself: a stated target that has roles is  *)
(* the direction; nobody is sent to apply for roles far above them; the plan *)
(* has what they lack and are required to have first; whoever waits for an   *)
(* approval, has no résumé or a roadmap to go on with is told so, and nobody *)
(* with a roadmap is told to make one; only rank keeps new ground new ground *)
(* to who has been through the whole journey.                                *)
GuidanceIsCoherent ==
  shown # None =>
    LET p == shown.of
        d == shown.direction
        told == ToSet(shown.actions) IN
    /\ p.targets \cap Known # {} => d \in p.targets
    /\ d # None /\ "apply" \in told => ~OutOfReach(p, d) /\ Covers(p, d, 65)
    /\ \A i, k \in DOMAIN shown.plan :
         /\ shown.plan[i].skill \notin SkillsOf(p)
         /\ i < k /\ Required(d, shown.plan[k].skill) => Required(d, shown.plan[i].skill)
    /\ d # None /\ Len(shown.plan) < MaxSteps
         => {s.skill : s \in ToSet(shown.plan)} = shown.missing[d]
    /\ p.waiting => Head(shown.actions) = "review_approval"
    /\ p.resume = "none" => "upload_resume" \in told
    /\ Current(p) # None /\ ~p.issue => "roadmap" \in told
    /\ p.roadmap # <<>> /\ Current(p) = None => "roadmap" \notin told
    /\ IsInjective(shown.actions)
    /\ shown.stage = 6 => d # None /\ (shown.fit[d] = "pivot" => OutOfReach(p, d))
=============================================================================
