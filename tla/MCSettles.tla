------------------------------- MODULE MCSettles -------------------------------
(* What must end, each system on its own: `part' says which of them moves -  *)
(* a run of the agent (AgentRun), the sending of an email, the reading of a  *)
(* posting, its scoring, or the plan of a roadmap.  The fairness is each     *)
(* module's own, said of the part that moves.                               *)
EXTENDS AgentRun, TLC

CONSTANTS ann, d1, r1, q1, q2, p1, b1, s1, Agent, NoOne, Off

VARIABLES part,
  sApproval, sSession, sEmail, sApplied, sDeleted, sJob, sAge, sRunAge, sDpc, sReq, sQueue,
  sCkpt, sPc, sRead, sPend, sClaims, sSentTo, sAccepted,
  posting, pOld, patched, create, ingest, reader, pSweep, viewer, untold,
  match, mOld, inputs, listed, ask, asked, task, scorer, owed, slips,
  rec, rOld, milestones, agg, plan, planner, patch, rebuild, crossed

S == INSTANCE ApprovalSend WITH
       Deciders <- {d1}, Retriers <- {r1}, Recipients <- {ann},
       Deadline <- 1, Grace <- 2, Stale <- 3, MaxTries <- 2,
       approval <- sApproval, session <- sSession, email <- sEmail, applied <- sApplied,
       deleted <- sDeleted, job <- sJob, age <- sAge, runAge <- sRunAge, dpc <- sDpc,
       req <- sReq, queue <- sQueue, ckpt <- sCkpt, pc <- sPc, read <- sRead,
       pend <- sPend, claims <- sClaims, sentTo <- sSentTo, accepted <- sAccepted
P == INSTANCE JobIngest WITH IngestTries <- 2
M == INSTANCE MatchScoring WITH
       Asks <- {q1, q2}, ScoreTries <- 2, MaxInputs <- 2, MaxAsked <- 2
L == INSTANCE Roadmap WITH
       Roadmaps <- {1}, Skills <- {s1}, MaxMilestones <- 2, PlanTries <- 2,
       Patchers <- {p1}, Rebuilds <- {b1}

ASSUME P!IngestAssumption /\ M!ScoringAssumption /\ L!RoadmapAssumption

sendVars    == <<sApproval, sSession, sEmail, sApplied, sDeleted, sJob, sAge, sRunAge, sDpc,
                 sReq, sQueue, sCkpt, sPc, sRead, sPend, sClaims, sSentTo, sAccepted>>
postingVars == <<posting, pOld, patched, create, ingest, reader, pSweep, viewer, untold>>
scoreVars   == <<match, mOld, inputs, listed, ask, asked, task, scorer, owed, slips>>
planVars    == <<rec, rOld, milestones, agg, plan, planner, patch, rebuild, crossed>>
allVars     == <<part, vars, sendVars, postingVars, scoreVars, planVars>>

(* What does not move is in one of its initial states; the run is Off.       *)
NoRun ==
  /\ goal = Off /\ session = Off /\ stop = Off /\ late = Off /\ approval = Off /\ email = Off
  /\ saved = Off /\ job = Off /\ mem = Off /\ said = Off /\ delivered = Off

SettlesInit ==
  /\ part \in {"run", "send", "posting", "score", "plan"}
  /\ IF part = "run" THEN Init ELSE NoRun
  /\ S!Init /\ P!Init /\ M!Init /\ L!Init
  /\ part # "send" => sRunAge = 0

SettlesNext ==
  \/ part = "run" /\ Next /\ UNCHANGED <<part, sendVars, postingVars, scoreVars, planVars>>
  \/ part = "send" /\ S!Next /\ UNCHANGED <<part, vars, postingVars, scoreVars, planVars>>
  \/ part = "posting" /\ P!Next /\ UNCHANGED <<part, vars, sendVars, scoreVars, planVars>>
  \/ part = "score" /\ M!Next /\ UNCHANGED <<part, vars, sendVars, postingVars, planVars>>
  \/ part = "plan" /\ L!Next /\ UNCHANGED <<part, vars, sendVars, postingVars, scoreVars>>

In(p, A) == part = p /\ A

(* AgentRun!FairSpec, ApprovalSend!Fairness, and the three Fair.             *)
RunFair == WF_vars(In("run", DeadlinePasses)) /\ WF_vars(In("run", SweepRun))
SendFair ==
  /\ WF_sendVars(In("send", S!Tick)) /\ WF_sendVars(In("send", S!SweepEmail))
  /\ \A c \in {Agent, r1} : WF_sendVars(In("send", S!Send(c)))
  /\ WF_sendVars(In("send", S!RetryCommit(r1) \/ S!RetryDies(r1)))
  /\ WF_sendVars(In("send", S!AgentCheckpoint \/ S!AgentCommit \/ S!AgentRaises \/ S!AgentDies))
  /\ WF_sendVars(In("send", S!DecideCommit(d1) \/ S!DecideAbort(d1)))
PostingFair ==
  /\ WF_postingVars(In("posting", P!SweepPosting)) /\ WF_postingVars(In("posting", P!SweepTells))
  /\ WF_postingVars(In("posting", P!TimePasses)) /\ WF_postingVars(In("posting", P!IngestGoesOn))
ScoreFair ==
  WF_scoreVars(In("score", M!SweepMatch)) /\ WF_scoreVars(In("score", M!TimePasses))
PlanFair ==
  WF_planVars(In("plan", L!SweepRoadmap(1))) /\ WF_planVars(In("plan", L!TimePasses(1)))

SettlesSpec ==
  /\ SettlesInit /\ [][SettlesNext]_allVars
  /\ RunFair /\ SendFair /\ PostingFair /\ ScoreFair /\ PlanFair

-----------------------------------------------------------------------------
(* RunningSettles is AgentRun's own.                                        *)

(* An email does not stay "sending" (sending.py, sweeper.py).                *)
SendingSettles == S!SendingSettles

(* "nothing stays in an in-progress state forever" (sweeper.py): the reading *)
(* of a posting, its scoring and the plan for its gaps end, although workers *)
(* die and enqueues are lost.                                               *)
MatchingSettles == P!PostingSettles /\ M!ScoringSettles /\ L!PlanSettles
=============================================================================
