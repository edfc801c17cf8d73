---------------------------- MODULE AgentSession ----------------------------
(***************************************************************************)
(* Several runs of one chat session (domain/agents/service.py): requests   *)
(* that start a run, the approval a paused run leaves behind, the decision *)
(* that resumes one, and jobs that outlive their run's turn.               *)
(*                                                                         *)
(* The session row knows one run, by run_id.  Jobs find their session by   *)
(* that run_id but write it by the session's id, start_run refuses only a  *)
(* session it read as "running", and resume_run resumes whatever run the   *)
(* session knows.  The graph is reduced to its outcomes (AgentRun has it); *)
(* a run prepares at most one application, so its approval has its number. *)
(***************************************************************************)
EXTENDS Naturals

CONSTANTS
  Posters,  \* requests that may start a run, any number of times
  MaxRuns   \* bound: runs started in the session

ASSUME BoundAssumption == MaxRuns \in Nat \ {0}

Runs  == 1..MaxRuns
Kinds == {"run", "resume"}

VARIABLES
  session,   \* ai_sessions: status, and the run it knows (0: none yet)
  stale,     \* updated_at is older than the sweep's cutoff
  approval,  \* approval_requests.status of each run's application
  thread,    \* the LangGraph thread of each run
  started,   \* the last run id handed out
  post,      \* the posts: where they are and the run they start
  decide,    \* the request that decides: which approval, how, run resumed
  job,       \* the arq jobs: state, and the decision carried
  mem,       \* what a running job holds and has not committed
  sent       \* history: runs whose application was sent

vars == <<session, stale, approval, thread, started, post, decide, job, mem, sent>>

NoPost     == [at |-> "idle", run |-> 0]
NoDecision == [at |-> "idle", approval |-> 0, answer |-> "none", run |-> 0]
NoJob      == [state |-> "none", answer |-> "none"]
Idle       == [at |-> "off", saw |-> "idle", status |-> "running", new |-> FALSE]

Init ==
  /\ session = [status |-> "idle", run |-> 0] /\ stale = FALSE
  /\ approval = [r \in Runs |-> "none"]
  /\ thread = [r \in Runs |-> "empty"]
  /\ started = 0
  /\ post = [p \in Posters |-> NoPost]
  /\ decide = NoDecision
  /\ job = [r \in Runs |-> [k \in Kinds |-> NoJob]]
  /\ mem = [r \in Runs |-> [k \in Kinds |-> Idle]]
  /\ sent = {}

(* Nobody else has flushed the session row and not committed it yet. *)
SessionFree == decide.at # "written" /\ \A p \in Posters : post[p].at # "written"

-----------------------------------------------------------------------------
(* POST messages, POST goal: start_run.                                     *)

MayStart == session.status # "running"

PostRead(p) ==
  /\ post[p].at = "idle" /\ MayStart
  /\ post' = [post EXCEPT ![p].at = "read"]
  /\ UNCHANGED <<session, stale, approval, thread, started, decide, job, mem, sent>>

(* The flush, then the job, deferred by a second but before the commit. *)
PostWrite(p) ==
  /\ post[p].at = "read" /\ SessionFree /\ started < MaxRuns
  /\ started' = started + 1
  /\ post' = [post EXCEPT ![p] = [at |-> "written", run |-> started']]
  /\ job' = [job EXCEPT ![started'].run = [NoJob EXCEPT !.state = "queued"]]
  /\ UNCHANGED <<session, stale, approval, thread, decide, mem, sent>>

PostCommit(p) ==
  /\ post[p].at = "written"
  /\ session' = [status |-> "running", run |-> post[p].run]
  /\ stale' = FALSE
  /\ post' = [post EXCEPT ![p] = NoPost]
  /\ UNCHANGED <<approval, thread, started, decide, job, mem, sent>>

(* The request fails; a job it has queued stays. *)
PostFails(p) ==
  /\ post[p].at # "idle"
  /\ post' = [post EXCEPT ![p] = NoPost]
  /\ UNCHANGED <<session, stale, approval, thread, started, decide, job, mem, sent>>

-----------------------------------------------------------------------------
(* POST approvals/{id}: decide_approval and resume_run.                     *)

(* resume_run takes the run the session knows; enqueue drops a duplicate.   *)
DecideWrite(a) ==
  /\ decide.at = "idle" /\ SessionFree
  /\ approval[a] = "pending"
  /\ session.status = "awaiting_approval" /\ session.run # 0
  /\ \E answer \in {"approved", "rejected"} :
       /\ decide' = [at |-> "written", approval |-> a, answer |-> answer,
                     run |-> session.run]
       /\ job' = IF job[session.run].resume = NoJob
                 THEN [job EXCEPT ![session.run].resume =
                                    [state |-> "queued", answer |-> answer]]
                 ELSE job
  /\ UNCHANGED <<session, stale, approval, thread, started, post, mem, sent>>

\* mutant: the decision leaves the session as it was
LeavesAwaiting == session
Resumed == [session EXCEPT !.status = "running"]

DecideCommit ==
  /\ decide.at = "written"
  /\ approval' = [approval EXCEPT ![decide.approval] = decide.answer]
  /\ session' = Resumed /\ stale' = FALSE
  /\ decide' = NoDecision
  /\ UNCHANGED <<thread, started, post, job, mem, sent>>

DecideFails ==
  /\ decide.at = "written"
  /\ decide' = NoDecision
  /\ UNCHANGED <<session, stale, approval, thread, started, post, job, mem, sent>>

-----------------------------------------------------------------------------
(* The jobs of a run.                                                       *)

(* The session no longer (or not yet) knows this run: status "missing". *)
JobMissing(r, k) ==
  /\ job[r][k].state = "queued" /\ session.run # r
  /\ job' = [job EXCEPT ![r][k] = NoJob]
  /\ UNCHANGED <<session, stale, approval, thread, started, post, decide, mem, sent>>

(* run_agent gives the thread a fresh input, resume_agent takes it as it is. *)
JobStart(r, k) ==
  /\ job[r][k].state = "queued" /\ session.run = r
  /\ job' = [job EXCEPT ![r][k].state = "running"]
  /\ mem' = [mem EXCEPT ![r][k] = [Idle EXCEPT !.at = "driving", !.saw = session.status]]
  /\ thread' = IF k = "run" THEN [thread EXCEPT ![r] = "open"] ELSE thread
  /\ UNCHANGED <<session, stale, approval, started, post, decide, sent>>

Outcome(r, k, status) ==
  /\ thread' = [thread EXCEPT ![r] = IF status = "awaiting_approval" THEN "paused" ELSE status]
  /\ mem' = [mem EXCEPT ![r][k].at = "ready", ![r][k].status = status,
                        ![r][k].new = status = "awaiting_approval"]
  /\ UNCHANGED <<session, stale, approval, started, post, decide, job>>

\* mutant: the schema has another word for a pause
PausesAsPaused == "paused"
PauseStatus == "awaiting_approval"

(* The graph prepares an application and pauses (one open approval per run, *)
(* uq_approval_requests_run_pending) or ends.                               *)
DriveOpen(r, k) ==
  /\ mem[r][k].at = "driving" /\ thread[r] = "open"
  /\ \/ /\ approval[r] = "none" /\ \A other \in Kinds : ~mem[r][other].new
        /\ Outcome(r, k, "awaiting_approval")
     \/ \E status \in {"completed", "halted"} : Outcome(r, k, status)
  /\ UNCHANGED sent

\* mutant: the send node trusts the answer the job carries
TrustsAnswer(r) == TRUE

(* email_external_action reads its own application's approval. *)
SendApproved(r) == approval[r] = "approved"

DrivePaused(r) ==
  /\ mem[r].resume.at = "driving" /\ thread[r] = "paused"
  /\ \/ /\ job[r].resume.answer = "rejected"
        /\ Outcome(r, "resume", "rejected") /\ UNCHANGED sent
     \/ /\ job[r].resume.answer = "approved" /\ SendApproved(r)
        /\ Outcome(r, "resume", "completed") /\ sent' = sent \cup {r}
     \/ /\ job[r].resume.answer = "approved"
        /\ Outcome(r, "resume", "halted") /\ UNCHANGED sent

(* The thread has ended already: nothing runs, the job finalizes once more. *)
DriveEnded(r) ==
  /\ mem[r].resume.at = "driving" /\ thread[r] \in {"completed", "halted", "rejected"}
  /\ Outcome(r, "resume", thread[r]) /\ UNCHANGED sent

(* mark_awaiting_approval or finalize, by session id, and the commit.  The  *)
(* ORM writes the status only if it differs from the one the job loaded;    *)
(* finalize writes its totals in any case.                                  *)
JobCommit(r, k) ==
  /\ mem[r][k].at = "ready" /\ SessionFree
  /\ LET m == mem[r][k]
         status == IF m.status = "awaiting_approval" THEN PauseStatus ELSE m.status
     IN /\ session' = IF m.saw = status THEN session
                      ELSE [session EXCEPT !.status = status]
        /\ stale' = (stale /\ m.saw = status /\ m.new)
        /\ approval' = IF m.new THEN [approval EXCEPT ![r] = "pending"] ELSE approval
  /\ mem' = [mem EXCEPT ![r][k] = Idle]
  /\ job' = [job EXCEPT ![r][k] = NoJob]
  /\ UNCHANGED <<thread, started, post, decide, sent>>

(* A retry, or the last try: the session is ended if it still knows the run. *)
JobRaises(r, k) ==
  /\ mem[r][k].at # "off"
  /\ mem' = [mem EXCEPT ![r][k] = Idle]
  /\ \/ /\ job' = [job EXCEPT ![r][k].state = "queued"]
        /\ UNCHANGED <<session, stale>>
     \/ /\ job' = [job EXCEPT ![r][k] = NoJob]
        /\ IF session.run = r
           THEN SessionFree /\ session' = [session EXCEPT !.status = "error"] /\ stale' = FALSE
           ELSE UNCHANGED <<session, stale>>
  /\ UNCHANGED <<approval, thread, started, post, decide, sent>>

(* job_timeout: no handler runs.  (A dead worker's job is queued again, as  *)
(* after a retry.)                                                          *)
JobTimesOut(r, k) ==
  /\ mem[r][k].at # "off"
  /\ mem' = [mem EXCEPT ![r][k] = Idle]
  /\ job' = [job EXCEPT ![r][k] = NoJob]
  /\ UNCHANGED <<session, stale, approval, thread, started, post, decide, sent>>

-----------------------------------------------------------------------------
SweepRun ==
  /\ session.status = "running" /\ stale /\ SessionFree
  /\ session' = [session EXCEPT !.status = "error"] /\ stale' = FALSE
  /\ UNCHANGED <<approval, thread, started, post, decide, job, mem, sent>>

TimePasses ==
  /\ session.status = "running" /\ ~stale /\ stale' = TRUE
  /\ UNCHANGED <<session, approval, thread, started, post, decide, job, mem, sent>>

Next ==
  \/ \E p \in Posters : PostRead(p) \/ PostWrite(p) \/ PostCommit(p) \/ PostFails(p)
  \/ \E a \in Runs : DecideWrite(a)
  \/ DecideCommit \/ DecideFails
  \/ \E r \in Runs : DrivePaused(r) \/ DriveEnded(r)
  \/ \E r \in Runs, k \in Kinds :
       \/ JobMissing(r, k) \/ JobStart(r, k) \/ DriveOpen(r, k)
       \/ JobCommit(r, k) \/ JobRaises(r, k) \/ JobTimesOut(r, k)
  \/ SweepRun \/ TimePasses

Spec == Init /\ [][Next]_vars

-----------------------------------------------------------------------------
(* Properties.                                                              *)

Statuses == {"idle", "running", "awaiting_approval", "completed", "rejected",
             "halted", "error"}

TypeOK ==
  /\ session \in [status : Statuses, run : Runs \cup {0}] /\ stale \in BOOLEAN
  /\ approval \in [Runs -> {"none", "pending", "approved", "rejected"}]
  /\ thread \in [Runs -> {"empty", "open", "paused", "completed", "halted", "rejected"}]
  /\ started \in 0..MaxRuns
  /\ post \in [Posters -> [at : {"idle", "read", "written"}, run : Runs \cup {0}]]
  /\ decide \in [at : {"idle", "written"}, approval : Runs \cup {0},
                 answer : {"none", "approved", "rejected"}, run : Runs \cup {0}]
  /\ job \in [Runs -> [Kinds -> [state : {"none", "queued", "running"},
                                 answer : {"none", "approved", "rejected"}]]]
  /\ mem \in [Runs -> [Kinds -> [at : {"off", "driving", "ready"}, saw : Statuses,
                                 status : Statuses, new : BOOLEAN]]]
  /\ sent \subseteq Runs

(* Whatever run a decision ends up resuming, a run sends its application    *)
(* only if that application's own approval was given (resume_run,           *)
(* email_external_action).                                                  *)
OwnApproval == \A r \in sent : approval[r] = "approved"

(* A session that says it awaits approval has one that can be decided, also *)
(* after runs have replaced each other and late jobs have written its       *)
(* status (decide_approval refuses any other session).                      *)
AwaitingIsDecidable ==
  session.status = "awaiting_approval" => \E a \in Runs : approval[a] = "pending"

-----------------------------------------------------------------------------
(* What the program says and does not keep.                                 *)

(* "approve/reject resumes the paused run": the run a decision resumes is   *)
(* the one whose application was decided.                                   *)
DecisionReachesItsRun == decide.at = "written" => decide.run = decide.approval
=============================================================================
