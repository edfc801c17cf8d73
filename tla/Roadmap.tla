------------------------------ MODULE Roadmap ------------------------------
(***************************************************************************)
(* One person's learning roadmaps: the requests of api/v1/roadmaps.py,      *)
(* plan_roadmap (worker/tasks/roadmap.py, domain/roadmap/planner.py), the   *)
(* sweep, and the aggregate skill gaps the plans are made from              *)
(* (aggregate_skill_gaps and set_gap_status of domain/matching/service.py). *)
(*                                                                         *)
(* A plan is one transaction: milestones are published as they are flushed, *)
(* and they and the new status commit together, whatever happened.  The     *)
(* planner is not told which roadmap to plan: it takes the newest that is   *)
(* planning.                                                                *)
(***************************************************************************)
EXTENDS Naturals, FiniteSets

CONSTANTS Roadmaps,      \* 1..n, in the order they are created
          Skills,        \* skills with a gap
          MaxMilestones, \* the gaps a plan takes
          PlanTries,     \* runs of a job
          Patchers,      \* bound: milestone requests
          Rebuilds       \* bound: rebuilds of the aggregate gaps

RoadmapAssumption ==
  /\ Roadmaps \subseteq Nat /\ IsFiniteSet(Roadmaps)
  /\ MaxMilestones \in Nat /\ PlanTries \in Nat \ {0}

VARIABLES
  rec,        \* learning_recommendations: status
  rOld,       \* updated_at is older than the sweep's cutoff
  milestones, \* roadmap_milestones: roadmap, the gap row it came from, status
  agg,        \* aggregate skill_gaps: skill, rebuild, status, addressed_by
  plan,       \* the arq jobs plan_roadmap:{id}: state and try
  planner,    \* a running job: place, the roadmap it plans, the gap rows it took
  patch,      \* milestone requests: place, milestone, status asked for and read
  rebuild,    \* rebuilds: place, rows deleted
  crossed     \* history: what ran together, of Crossings

rVars == <<rec, rOld, milestones, agg, plan, planner, patch, rebuild, crossed>>

(* Two plans, two rebuilds, two requests on one milestone. *)
Crossings == {"plans", "rebuilds", "patches"}

NoRoadmap == 0
NoPlan == [state |-> "none", try |-> 1]
OffPlan == [at |-> "off", target |-> NoRoadmap, took |-> {}]
(* One row per skill, as the first rebuild left them. *)
Rows(b) == {[skill |-> s, made |-> b, status |-> "open", by |-> NoRoadmap] : s \in Skills}

Init ==
  /\ rec = [r \in Roadmaps |-> "absent"] /\ rOld = [r \in Roadmaps |-> FALSE]
  /\ milestones = {} /\ agg = Rows("first")
  /\ plan = [r \in Roadmaps |-> NoPlan] /\ planner = [r \in Roadmaps |-> OffPlan]
  /\ patch = [p \in Patchers |-> [at |-> "new"]]
  /\ rebuild = [b \in Rebuilds |-> [at |-> "new", rows |-> {}]]
  /\ crossed = {}

-----------------------------------------------------------------------------
(* POST /roadmaps commits, then enqueues.                                   *)

Create(r) ==
  /\ rec[r] = "absent" /\ \A e \in Roadmaps : e < r => rec[e] # "absent"
  /\ rec' = [rec EXCEPT ![r] = "planning"]
  /\ plan' = [plan EXCEPT ![r].state = "unqueued"]
  /\ UNCHANGED <<rOld, milestones, agg, planner, patch, rebuild, crossed>>

(* The queue may refuse, and nothing asks again. *)
EnqueuePlan(r) ==
  /\ plan[r].state = "unqueued"
  /\ \E s \in {"queued", "none"} : plan' = [plan EXCEPT ![r].state = s]
  /\ UNCHANGED <<rec, rOld, milestones, agg, planner, patch, rebuild, crossed>>

SetStatus(r, status) ==
  /\ rec[r] \notin {"absent", status}
  /\ rec' = [rec EXCEPT ![r] = status] /\ rOld' = [rOld EXCEPT ![r] = FALSE]
  /\ UNCHANGED <<milestones, agg, plan, planner, patch, rebuild, crossed>>

(* set_milestone_status: the milestone as it was read, ... *)
PatchReads(p, m, status) ==
  /\ patch[p].at = "new"
  /\ patch' = [patch EXCEPT ![p] = [at |-> "read", m |-> m, status |-> status]]
  /\ UNCHANGED <<rec, rOld, milestones, agg, plan, planner, rebuild, crossed>>

(* ... then its status and the aggregate rows of its skill. *)
\* mutant: a milestone that is no longer done leaves its gap closed
GapLeftClosed(g, p) ==
  IF g.skill # patch[p].m.gap.skill THEN g
  ELSE IF patch[p].status = "done" THEN [g EXCEPT !.status = "closed", !.by = patch[p].m.rec]
  ELSE g
GapAfter(g, p) ==
  IF g.skill # patch[p].m.gap.skill THEN g
  ELSE IF patch[p].status = "done" THEN [g EXCEPT !.status = "closed", !.by = patch[p].m.rec]
  ELSE IF patch[p].m.status = "done" THEN [g EXCEPT !.status = "open", !.by = NoRoadmap]
  ELSE g

SameMilestone(m, n) == m.rec = n.rec /\ m.gap = n.gap /\ m.run = n.run

PatchCommits(p) ==
  /\ patch[p].at = "read" /\ patch' = [patch EXCEPT ![p] = [at |-> "new"]]
  /\ milestones' = {IF SameMilestone(m, patch[p].m) /\ patch[p].status # patch[p].m.status
                    THEN [m EXCEPT !.status = patch[p].status] ELSE m : m \in milestones}
  /\ agg' = {GapAfter(g, p) : g \in agg}
  /\ crossed' = crossed \cup (IF patch[p].m \in milestones THEN {} ELSE {"patches"})
  /\ UNCHANGED <<rec, rOld, plan, planner, rebuild>>

(* PATCH /skill-gaps/{id}: the status, and only that. *)
SetGapStatus(g, status) ==
  /\ g.status # status /\ agg' = (agg \ {g}) \cup {[g EXCEPT !.status = status]}
  /\ UNCHANGED <<rec, rOld, milestones, plan, planner, patch, rebuild, crossed>>

(* aggregate_skill_gaps: deletes the rows it can see, inserts one per skill. *)
RebuildDeletes(b) ==
  /\ rebuild[b].at = "new" /\ rebuild' = [rebuild EXCEPT ![b] = [at |-> "deleted", rows |-> agg]]
  /\ crossed' = crossed \cup
       (IF \E c \in Rebuilds : rebuild[c].at = "deleted" THEN {"rebuilds"} ELSE {})
  /\ UNCHANGED <<rec, rOld, milestones, agg, plan, planner, patch>>

Gone(g, b) == \E h \in rebuild[b].rows : h.skill = g.skill /\ h.made = g.made

RebuildCommits(b) ==
  /\ rebuild[b].at = "deleted"
  /\ rebuild' = [rebuild EXCEPT ![b] = [at |-> "end", rows |-> {}]]
  /\ agg' = {g \in agg : ~Gone(g, b)} \cup Rows(b)
  /\ UNCHANGED <<rec, rOld, milestones, plan, planner, patch, crossed>>

-----------------------------------------------------------------------------
(* plan_roadmap.                                                            *)

Starts(r) == rec[r] = "planning"

PlanSkips(r) ==
  /\ plan[r].state = "queued" /\ ~Starts(r) /\ plan' = [plan EXCEPT ![r] = NoPlan]
  /\ UNCHANGED <<rec, rOld, milestones, agg, planner, patch, rebuild, crossed>>

PlanStarts(r) ==
  /\ plan[r].state = "queued" /\ Starts(r)
  /\ plan' = [plan EXCEPT ![r].state = "running"]
  /\ planner' = [planner EXCEPT ![r] = [OffPlan EXCEPT !.at = "loaded"]]
  /\ UNCHANGED <<rec, rOld, milestones, agg, patch, rebuild, crossed>>

Planning == {r \in Roadmaps : rec[r] = "planning"}
Newest(R) == CHOOSE r \in R : \A e \in R : e <= r

(* _top_gaps: the open aggregate rows, the worst first. *)
Open == {g \in agg : g.status = "open"}
TopGaps == {G \in SUBSET Open : Cardinality(G) <= MaxMilestones /\
              (G = Open \/ Cardinality(G) = MaxMilestones)}

PlanPicks(r) ==
  /\ planner[r].at = "loaded"
  /\ Planning # {}
  /\ \E G \in TopGaps :
       planner' = [planner EXCEPT ![r] = [at |-> "planning", target |-> Newest(Planning),
                                          took |-> G]]
  /\ crossed' = crossed \cup (IF Newest(Planning) = r THEN {} ELSE {"plans"})
  /\ UNCHANGED <<rec, rOld, milestones, agg, plan, patch, rebuild>>

(* None is planning any more: an exception outside the planner's try block. *)
PlanFindsNone(r) ==
  /\ planner[r].at = "loaded" /\ Planning = {}
  /\ planner' = [planner EXCEPT ![r] = OffPlan] /\ plan' = [plan EXCEPT ![r] = NoPlan]
  /\ UNCHANGED <<rec, rOld, milestones, agg, patch, rebuild, crossed>>

Drafted(r, G) ==
  {[rec |-> planner[r].target, gap |-> [skill |-> g.skill, made |-> g.made],
    run |-> <<r, plan[r].try>>, status |-> "not_started"] : g \in G}

PlanCommits(r, status, G) ==
  /\ planner[r].at = "planning"
  /\ rec' = [rec EXCEPT ![planner[r].target] = status]
  /\ rOld' = [rOld EXCEPT ![planner[r].target] = FALSE]
  /\ milestones' = milestones \cup Drafted(r, G)
  /\ planner' = [planner EXCEPT ![r].at = IF status = "active" THEN "done" ELSE "failed"]
  /\ UNCHANGED <<agg, plan, patch, rebuild, crossed>>

PlanSucceeds(r) == PlanCommits(r, "active", planner[r].took)

(* A draft, a flush or a publish raises: what was drafted so far stays. *)
PlanFails(r) == \E G \in SUBSET planner[r].took : PlanCommits(r, "archived", G)

PlanEnds(r) ==
  /\ planner[r].at \in {"done", "failed"}
  /\ planner' = [planner EXCEPT ![r] = OffPlan] /\ plan' = [plan EXCEPT ![r] = NoPlan]
  /\ UNCHANGED <<rec, rOld, milestones, agg, patch, rebuild, crossed>>

(* A dead worker's job runs again, one past its timeout does not. *)
PlanDies(r) ==
  /\ planner[r].at # "off" /\ planner' = [planner EXCEPT ![r] = OffPlan]
  /\ \/ /\ plan[r].try < PlanTries
        /\ plan' = [plan EXCEPT ![r] = [state |-> "queued", try |-> @.try + 1]]
     \/ plan' = [plan EXCEPT ![r] = NoPlan]
  /\ UNCHANGED <<rec, rOld, milestones, agg, patch, rebuild, crossed>>

-----------------------------------------------------------------------------
\* mutant: the sweep waits for the plan's job to be gone
StuckWithoutJob(r) == rec[r] = "planning" /\ rOld[r] /\ plan[r].state = "running"
Stuck(r) == rec[r] = "planning" /\ rOld[r]

SweepRoadmap(r) ==
  /\ Stuck(r)
  /\ rec' = [rec EXCEPT ![r] = "archived"] /\ rOld' = [rOld EXCEPT ![r] = FALSE]
  /\ UNCHANGED <<milestones, agg, plan, planner, patch, rebuild, crossed>>

TimePasses(r) ==
  /\ rec[r] = "planning" /\ ~rOld[r] /\ rOld' = [rOld EXCEPT ![r] = TRUE]
  /\ UNCHANGED <<rec, milestones, agg, plan, planner, patch, rebuild, crossed>>

-----------------------------------------------------------------------------
MilestoneStatuses == {"not_started", "in_progress", "done"}

Next ==
  \/ \E r \in Roadmaps :
       \/ Create(r) \/ EnqueuePlan(r)
       \/ \E status \in {"active", "archived"} : SetStatus(r, status)
       \/ PlanSkips(r) \/ PlanStarts(r) \/ PlanPicks(r) \/ PlanFindsNone(r)
       \/ PlanSucceeds(r) \/ PlanFails(r) \/ PlanEnds(r) \/ PlanDies(r)
       \/ SweepRoadmap(r) \/ TimePasses(r)
  \/ \E p \in Patchers :
       \/ \E m \in milestones, status \in MilestoneStatuses : PatchReads(p, m, status)
       \/ PatchCommits(p)
  \/ \E g \in agg, status \in {"open", "closed"} : SetGapStatus(g, status)
  \/ \E b \in Rebuilds : RebuildDeletes(b) \/ RebuildCommits(b)

Fair == \A r \in Roadmaps : WF_rVars(SweepRoadmap(r)) /\ WF_rVars(TimePasses(r))
Spec == Init /\ [][Next]_rVars /\ Fair

-----------------------------------------------------------------------------
(* Properties.                                                              *)

TypeOK ==
  /\ rec \in [Roadmaps -> {"absent", "planning", "active", "failed", "archived"}]
  /\ rOld \in [Roadmaps -> BOOLEAN]
  /\ \A g \in agg : /\ g.skill \in Skills /\ g.status \in {"open", "closed"}
                   /\ g.by \in Roadmaps \cup {NoRoadmap}
  /\ \A m \in milestones : m.rec \in Roadmaps /\ m.status \in MilestoneStatuses
  /\ plan \in [Roadmaps -> [state : {"none", "unqueued", "queued", "running"}, try : 1..PlanTries]]
  /\ \A r \in Roadmaps : planner[r].at = "off" <=> plan[r].state # "running"
  /\ crossed \subseteq Crossings

(* A roadmap asks for each skill once, also when its job was run again after *)
(* a worker's death or its user changed its status meanwhile, unless two     *)
(* plans or two rebuilds ran together (plan_roadmap's status check,          *)
(* aggregate_skill_gaps).                                                    *)
OneMilestonePerSkill ==
  crossed \cap {"plans", "rebuilds"} = {} =>
    \A m, n \in milestones : m.rec = n.rec /\ m.gap.skill = n.gap.skill => m = n

(* A gap that a roadmap is said to have addressed has a milestone that is    *)
(* done there, through rebuilds and changes of mind, unless two requests on  *)
(* one milestone crossed (set_milestone_status).                             *)
AddressedWasDone ==
  "patches" \notin crossed =>
    \A g \in agg : g.by # NoRoadmap =>
      \E m \in milestones : m.rec = g.by /\ m.gap.skill = g.skill /\ m.status = "done"

(* "nothing stays in an in-progress state forever" (worker/tasks/sweeper.py): *)
(* nobody asks again when the enqueue after the commit has failed.            *)
PlanSettles == \A r \in Roadmaps : rec[r] = "planning" ~> rec[r] # "planning"

(* "the recommendation reached status='active' and a terminal done frame      *)
(* landed on sse:roadmap:{rec_id}" (tests/worker/test_plan_roadmap_task.py):  *)
(* the job that announces roadmap r has planned roadmap r.                    *)
DoneIsPlanned ==
  \A r \in Roadmaps : planner[r].at = "done" => planner[r].target = r
=============================================================================
