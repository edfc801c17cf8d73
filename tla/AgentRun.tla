------------------------------ MODULE AgentRun ------------------------------
(***************************************************************************)
(* One agent run from the moment start_run committed it: the LangGraph     *)
(* graph (domain/agents/graph.py) with guard() around its worker nodes     *)
(* (budget.py), the run_agent and resume_agent jobs that drive it          *)
(* (worker/tasks/agent.py), the pause at human_approval and the decision   *)
(* that resumes it, the stop button and the stuck-run sweep.               *)
(*                                                                         *)
(* The graph's state is checkpointed on a connection of its own while the  *)
(* rows its nodes write stay in the job's transaction until the run pauses *)
(* or ends, so a crash between the two splits them.  A job whose commit    *)
(* went through but whose last publish failed runs again, also while the   *)
(* decision's job runs: both may be driving the same thread.               *)
(***************************************************************************)
EXTENDS Naturals

CONSTANTS
  Goals,       \* the goals a run may be started with
  MaxSteps,    \* budget.max_steps
  MaxLlmCalls, \* budget.max_llm_calls
  MaxTries,    \* arq max_tries
  MayStop      \* whether somebody may press stop

AllGoals == {"understand_job", "enrich_job", "analyze_profile",
             "prepare_application", "tailor_resume"}

ASSUME GoalsAssumption == Goals \subseteq AllGoals
ASSUME CapsAssumption ==
  /\ MaxSteps \in Nat \ {0} /\ MaxLlmCalls \in Nat \ {0} /\ MaxTries \in Nat \ {0}
  /\ MayStop \in BOOLEAN

Kinds == {"run", "resume"}
\* every try of run_agent prepares at most one application; 0 is "none yet"
Applications == 1..MaxTries

VARIABLES
  goal,      \* ai_sessions.goal
  session,   \* ai_sessions.status
  stop,      \* ai_sessions.run_config.stop
  late,      \* the budget's deadline_ts has passed
  approval,  \* approval_requests.status per prepared application
  email,     \* application_emails.status per prepared application
  saved,     \* the thread's last checkpoint: next node and graph state
  job,       \* the two arq jobs: state, tries, and the decision carried
  mem,       \* what each running job holds in memory and has not committed
  said,      \* kinds of assistant messages committed to the chat
  delivered  \* history: applications whose email the mail server took

rows == <<session, stop, approval, email, said>>
vars == <<goal, late, rows, saved, job, mem, delivered>>

(* ManaState: the keys that steer the graph. *)
Fresh == [status |-> "running", steps |-> 0, llm |-> 0, application |-> 0,
          stop |-> FALSE]

Idle == [at |-> "off", st |-> Fresh, saw |-> "running", answer |-> FALSE,
         seen |-> "unread", new |-> 0, mail |-> "none", note |-> "none"]

(* A job that is not in the queue, or no longer. *)
NoJob == [state |-> "none", tries |-> 0, decision |-> "none"]

Init ==
  /\ goal \in Goals
  /\ session = "running" /\ stop = FALSE /\ late = FALSE
  /\ approval = [a \in Applications |-> "none"]
  /\ email = [a \in Applications |-> "draft"]
  /\ saved = [at |-> "supervisor", st |-> Fresh]
  /\ job = [run |-> [NoJob EXCEPT !.state = "queued"], resume |-> NoJob]
  /\ mem = [j \in Kinds |-> Idle]
  /\ said = {} /\ delivered = {}

-----------------------------------------------------------------------------
(* The graph.                                                               *)

Guarded == {"job_research", "job_retrieval", "match_analysis", "skill_gap",
  "recommendation", "resume_tailoring", "claim_validator", "cover_letter",
  "letter_claim_validator", "email_draft", "application_prep",
  "email_external_action", "respond"}

(* supervisor: the route per goal. *)
Route == [understand_job |-> "job_retrieval", enrich_job |-> "job_research",
          tailor_resume |-> "resume_tailoring",
          prepare_application |-> "resume_tailoring", analyze_profile |-> "halted"]

(* The edge a worker node takes when it did not halt. *)
Onward(n) ==
  CASE n = "job_research"           -> "job_retrieval"
    [] n = "job_retrieval"          -> "match_analysis"
    [] n = "match_analysis"         -> "skill_gap"
    [] n = "skill_gap"              -> "recommendation"
    [] n = "recommendation"         -> "respond"
    [] n = "resume_tailoring"       -> "claim_validator"
    [] n = "claim_validator"        -> IF goal = "prepare_application"
                                       THEN "cover_letter" ELSE "respond"
    [] n = "cover_letter"           -> "letter_claim_validator"
    [] n = "letter_claim_validator" -> "email_draft"
    [] n = "email_draft"            -> "application_prep"
    [] n = "application_prep"       -> "human_approval"
    [] n = "email_external_action"  -> "respond"

\* mutant: the edge out of the send node is unconditional, so that a failed
\* send goes on to respond, which reports "completed"
AfterSendResponds(n, st) ==
  IF n = "respond" THEN "end"
  ELSE IF n # "email_external_action" /\ st.status \in {"halted", "error"}
       THEN "halted" ELSE Onward(n)

(* _halt_or; the edge out of respond is unconditional. *)
After(n, st) == IF n = "respond" THEN "end"
                ELSE IF st.status \in {"halted", "error"} THEN "halted" ELSE Onward(n)

(* LLM calls a node may add to the budget when it returns. *)
LlmCalls(n) == CASE n \in {"resume_tailoring", "cover_letter", "email_draft"} -> {1}
                 [] n \in {"job_research", "respond"} -> {0, 1}
                 [] OTHER -> {0}

Goes(j, n, m) ==
  /\ mem' = [mem EXCEPT ![j] = [m EXCEPT !.at = n]]
  /\ UNCHANGED <<goal, late, session, stop, approval, said, job>>

(* The job's next node and memory, and the thread's checkpoint of them.     *)
Step(j, n, m) == Goes(j, n, m) /\ saved' = [at |-> n, st |-> m.st]

Supervisor(j) ==
  /\ mem[j].at = "supervisor"
  /\ Step(j, Route[goal],
          IF Route[goal] = "halted"
          THEN [mem[j] EXCEPT !.st.status = "halted"] ELSE mem[j])
  /\ UNCHANGED <<email, delivered>>

(* guard's checks before a node runs: stop first, then check_budget's order. *)
Breach(st) == IF st.stop THEN "stopped"
              ELSE IF st.steps >= MaxSteps THEN "steps"
              ELSE IF late THEN "deadline"
              ELSE IF st.llm >= MaxLlmCalls THEN "llm"
              ELSE "none"

GuardHalts(j) ==
  /\ mem[j].at \in Guarded
  /\ Breach(mem[j].st) # "none"
  /\ LET m == [mem[j] EXCEPT !.st.status = "halted"]
     IN Step(j, After(mem[j].at, m.st), m)
  /\ UNCHANGED <<email, delivered>>

(* The node raised (guard turns it into status "error") or gave up itself   *)
(* with status "halted" (no confirmed resume to tailor, ...).               *)
NodeFails(j) ==
  /\ mem[j].at \in Guarded
  /\ Breach(mem[j].st) = "none"
  /\ \E status \in {"error"} \cup IF mem[j].at = "resume_tailoring" THEN {"halted"} ELSE {} :
       LET m == [mem[j] EXCEPT !.st.status = status]
       IN Step(j, After(mem[j].at, m.st), m)
  /\ UNCHANGED <<email, delivered>>

(* A worker node's partial, with guard's bookkeeping. *)
Worked(j, calls) == [mem[j] EXCEPT !.st.steps = @ + 1, !.st.llm = @ + calls]

Runs(j, n) == mem[j].at = n /\ Breach(mem[j].st) = "none"

WorkNode(j) ==
  /\ mem[j].at \in Guarded \ {"application_prep", "email_external_action", "respond"}
  /\ Breach(mem[j].st) = "none"
  /\ \E calls \in LlmCalls(mem[j].at) :
       LET m == Worked(j, calls) IN Step(j, After(mem[j].at, m.st), m)
  /\ UNCHANGED <<email, delivered>>

\* mutant: no unique index on pending approvals
NoIndexOnPending == TRUE

(* The unique index on pending approvals: the other job's uncommitted row   *)
(* blocks the insert, a committed one makes it fail (the job then raises).  *)
NoPendingApproval ==
  /\ \A a \in Applications : approval[a] # "pending"
  /\ \A j \in Kinds : mem[j].new = 0

ApplicationPrep(j) ==
  /\ Runs(j, "application_prep")
  /\ NoPendingApproval
  /\ \E a \in Applications :
       /\ approval[a] = "none" /\ \A b \in 1..(a - 1) : approval[b] # "none"
       /\ LET m == [Worked(j, 0) EXCEPT !.st.application = a, !.new = a]
          IN Step(j, After("application_prep", m.st), m)
  /\ UNCHANGED <<email, delivered>>

(* interrupt() pauses, unless the job brought the answer. *)
HumanApproval(j) ==
  /\ mem[j].at = "human_approval"
  /\ LET m == [mem[j] EXCEPT !.answer = FALSE,
                 !.seen = IF mem[j].st.application = 0 THEN "none"
                          ELSE approval[mem[j].st.application]]
     IN \/ /\ ~mem[j].answer
           /\ mem' = [mem EXCEPT ![j].at = "paused"]
           /\ UNCHANGED <<goal, late, session, stop, approval, said, job, saved>>
        \/ /\ mem[j].answer /\ job[j].decision = "approve"
           /\ Step(j, "email_external_action", m)
        \/ /\ mem[j].answer /\ job[j].decision = "reject"
           /\ Step(j, "halted", [m EXCEPT !.st.status = "rejected"])
  /\ UNCHANGED <<email, delivered>>

(* The approval as this job's database session knows it. *)
ApprovalSeen(j) == IF mem[j].seen # "unread" THEN mem[j].seen
                   ELSE IF mem[j].st.application = 0 THEN "none"
                   ELSE approval[mem[j].st.application]

(* The node's own check, before it hands over to the sender. *)
SendNodeApproved(j) == ApprovalSeen(j) = "approved"

(* email_external_action over send_approved_application: refused, or the    *)
(* claim commits by itself and the outcome waits for the job's commit.      *)
EmailExternalAction(j) ==
  /\ Runs(j, "email_external_action")
  /\ LET a    == mem[j].st.application
         done(status, mail) == [Worked(j, 0) EXCEPT !.st.status = status, !.mail = mail]
         refused == [Worked(j, 0) EXCEPT !.st.status = "halted"]
         \* a crash may lose the checkpoint but not the claim
         go(m) == /\ Goes(j, After("email_external_action", m.st), m)
                  /\ saved' \in {saved, [at |-> After("email_external_action", m.st),
                                        st |-> m.st]}
     IN \/ go(refused) /\ UNCHANGED <<email, delivered>>
        \/ /\ SendNodeApproved(j) /\ email[a] \in {"draft", "failed"}
           /\ email' = [email EXCEPT ![a] = "sending"]
           /\ \/ delivered' = delivered \cup {a} /\ go(done("completed", "sent"))
              \/ /\ delivered' \in {delivered, delivered \cup {a}}
                 /\ go([refused EXCEPT !.mail = "failed"])

Respond(j) ==
  /\ Runs(j, "respond")
  /\ \E calls \in LlmCalls("respond") :
       LET told == IF mem[j].st.application # 0 /\ mem[j].st.status = "completed"
                   THEN "sent" ELSE "answer"
       IN Step(j, "end", [Worked(j, calls) EXCEPT !.st.status = "completed", !.note = told])
  /\ UNCHANGED <<email, delivered>>

Halted(j) ==
  /\ mem[j].at = "halted"
  /\ Step(j, "end", [mem[j] EXCEPT !.note = "halted"])
  /\ UNCHANGED <<email, delivered>>

Node(j) == \/ Supervisor(j) \/ GuardHalts(j) \/ NodeFails(j) \/ WorkNode(j)
           \/ ApplicationPrep(j) \/ HumanApproval(j) \/ EmailExternalAction(j)
           \/ Respond(j) \/ Halted(j)

-----------------------------------------------------------------------------
(* The jobs.                                                                *)

TriesLeft(j) == job[j].tries < MaxTries

(* run_agent starts over with a fresh input, which leaves the keys it does  *)
(* not name as the thread has them; resume_agent goes on from the           *)
(* checkpoint, answering its interrupt if that is where it is.              *)
JobStart(j) ==
  /\ job[j].state = "queued" /\ TriesLeft(j)
  /\ job' = [job EXCEPT ![j].state = "running", ![j].tries = @ + 1]
  /\ LET fresh == [saved.st EXCEPT !.status = "running", !.steps = 0, !.llm = 0,
                                   !.stop = stop]
         m == [Idle EXCEPT !.saw = session]
     IN IF j = "run"
        THEN /\ mem' = [mem EXCEPT ![j] = [m EXCEPT !.at = "supervisor", !.st = fresh]]
             /\ saved' = [at |-> "supervisor", st |-> fresh]
        ELSE /\ mem' = [mem EXCEPT ![j] = [m EXCEPT !.at = saved.at, !.st = saved.st,
                                             !.answer = saved.at = "human_approval"]]
             /\ UNCHANGED saved
  /\ UNCHANGED <<goal, late, rows, delivered>>

(* arq gives up on a job that has used its tries: nobody finalizes the run. *)
JobDropped(j) ==
  /\ job[j].state = "queued" /\ ~TriesLeft(j)
  /\ job' = [job EXCEPT ![j] = NoJob]
  /\ UNCHANGED <<goal, late, rows, saved, mem, delivered>>

(* mark_awaiting_approval or finalize, and the commit.  The ORM writes the  *)
(* status only if it differs from the one the job loaded.                   *)
FinalStatus(j) == IF mem[j].at = "paused" THEN "awaiting_approval" ELSE mem[j].st.status

JobCommit(j) ==
  /\ mem[j].at \in {"paused", "end"}
  /\ session' = IF FinalStatus(j) = mem[j].saw THEN session ELSE FinalStatus(j)
  /\ approval' = [a \in Applications |-> IF a = mem[j].new THEN "pending" ELSE approval[a]]
  /\ email' = [a \in Applications |->
       IF a = mem[j].st.application /\ mem[j].mail # "none" THEN mem[j].mail ELSE email[a]]
  /\ said' = IF mem[j].note = "none" THEN said ELSE said \cup {mem[j].note}
  /\ mem' = [mem EXCEPT ![j] = [Idle EXCEPT !.at = "publishing"]]
  /\ UNCHANGED <<goal, late, stop, saved, job, delivered>>

(* The last events are published and the job returns. *)
JobDone(j) ==
  /\ mem[j].at = "publishing"
  /\ mem' = [mem EXCEPT ![j] = Idle]
  /\ job' = [job EXCEPT ![j] = NoJob]
  /\ UNCHANGED <<goal, late, rows, saved, delivered>>

Rollback(j) ==
  /\ mem' = [mem EXCEPT ![j] = Idle]
  /\ approval' = [a \in Applications |-> IF a = mem[j].new THEN "lost" ELSE approval[a]]

(* A publish, a checkpoint write, a flush or the commit raises: rollback,   *)
(* then arq.Retry, or (permanent, or the last try) the run ends in error.   *)
JobRaises(j) ==
  /\ mem[j].at # "off"
  /\ Rollback(j)
  /\ \/ /\ TriesLeft(j)
        /\ job' = [job EXCEPT ![j].state = "queued"] /\ UNCHANGED session
     \/ job' = [job EXCEPT ![j] = NoJob] /\ session' = "error"
  /\ UNCHANGED <<goal, late, stop, email, said, saved, delivered>>

(* The worker dies (the job runs again) or the job hits job_timeout (it     *)
(* does not, and no handler runs).                                          *)
JobDies(j) ==
  /\ mem[j].at # "off"
  /\ Rollback(j)
  /\ \/ job' = [job EXCEPT ![j].state = "queued"]
     \/ job' = [job EXCEPT ![j] = NoJob]
  /\ UNCHANGED <<goal, late, session, stop, email, said, saved, delivered>>

Job(j) == \/ JobStart(j) \/ JobDropped(j) \/ JobCommit(j) \/ JobDone(j)
          \/ JobRaises(j) \/ JobDies(j)

-----------------------------------------------------------------------------
(* The person, the sweep and the clock.                                     *)

(* decide_approval and resume_run; the enqueue is dropped if a job with the *)
(* same _job_id is still queued or running.                                 *)
Decide(a) ==
  /\ approval[a] = "pending" /\ session = "awaiting_approval"
  /\ session' = "running"
  /\ \E decision \in {"approve", "reject"} :
       /\ approval' = [approval EXCEPT ![a] =
                         IF decision = "approve" THEN "approved" ELSE "rejected"]
       /\ job' = IF job.resume = NoJob
                 THEN [job EXCEPT !.resume = [NoJob EXCEPT !.state = "queued",
                                                           !.decision = decision]]
                 ELSE job
  /\ UNCHANGED <<goal, late, stop, email, said, saved, mem, delivered>>

StopRun ==
  /\ MayStop /\ ~stop /\ stop' = TRUE
  /\ UNCHANGED <<goal, late, session, approval, email, said, saved, job, mem, delivered>>

\* mutant: the cutoff is compared the wrong way round
StaleReversed == session = "running" /\ ~late

(* The sweep's STALE_AFTER is far behind the budget's deadline. *)
RunIsStale == session = "running" /\ late

SweepRun ==
  /\ RunIsStale
  /\ session' = "error"
  /\ UNCHANGED <<goal, late, stop, approval, email, said, saved, job, mem, delivered>>

DeadlinePasses ==
  /\ ~late /\ late' = TRUE
  /\ UNCHANGED <<goal, rows, saved, job, mem, delivered>>

Next ==
  \/ \E j \in Kinds : Node(j) \/ Job(j)
  \/ \E a \in Applications : Decide(a)
  \/ StopRun \/ SweepRun \/ DeadlinePasses

Spec == Init /\ [][Next]_vars

(* Time passes and the sweep comes round every five minutes. *)
FairSpec == Spec /\ WF_vars(DeadlinePasses) /\ WF_vars(SweepRun)

-----------------------------------------------------------------------------
(* Properties.                                                              *)

SessionStatuses  == {"running", "awaiting_approval", "completed", "rejected",
                     "halted", "error"}
ApprovalStatuses == {"none", "pending", "approved", "rejected", "lost"}
GraphState ==
  [status : SessionStatuses, steps : 0..MaxSteps, llm : 0..MaxLlmCalls,
   application : Applications \cup {0}, stop : BOOLEAN]
Places == Guarded \cup {"supervisor", "human_approval", "halted", "end"}

TypeOK ==
  /\ goal \in Goals /\ session \in SessionStatuses
  /\ stop \in BOOLEAN /\ late \in BOOLEAN
  /\ approval \in [Applications -> ApprovalStatuses]
  /\ email \in [Applications -> {"draft", "sending", "sent", "failed"}]
  /\ saved \in [at : Places, st : GraphState]
  /\ job \in [Kinds -> [state : {"none", "queued", "running"}, tries : 0..MaxTries,
                        decision : {"none", "approve", "reject"}]]
  /\ mem \in [Kinds ->
       [at : Places \cup {"off", "paused", "publishing"}, st : GraphState,
        saw : SessionStatuses, answer : BOOLEAN, seen : ApprovalStatuses \cup {"unread"},
        new : Applications \cup {0}, mail : {"none", "sent", "failed"},
        note : {"none", "sent", "answer", "halted"}]]
  /\ said \subseteq {"sent", "answer", "halted"}
  /\ delivered \subseteq Applications

(* No email leaves for an application whose own approval was not given,     *)
(* although a decision only carries "approve" to whatever interrupt the     *)
(* thread has reached by then (human_approval, email_external_action).      *)
OwnApproval == \A a \in Applications : email[a] # "draft" => approval[a] = "approved"

(* A run never leaves two approvals open, although run_agent may prepare    *)
(* the application again after the pause was committed.                     *)
OnePendingApproval ==
  \A a, b \in Applications : approval[a] = "pending" /\ approval[b] = "pending" => a = b

(* A session that says it awaits approval has an approval to decide.        *)
AwaitingIsDecidable ==
  session = "awaiting_approval" => \E a \in Applications : approval[a] = "pending"

(* A prepare_application run that ends "completed", and the chat message    *)
(* that says the application was sent, are about an email the mail server   *)
(* took - across retries that resume after the send.                        *)
CompletedWasDelivered ==
  (session = "completed" /\ goal = "prepare_application") \/ "sent" \in said
    => delivered # {}

(* The session never stays "running": the run pauses, ends or is swept.     *)
RunningSettles == session = "running" ~> session # "running"

-----------------------------------------------------------------------------
(* What the documents promise and the code does not do.                     *)

(* "can pause indefinitely at approval": an approved run is not ended by    *)
(* the deadline of the part before its pause.                               *)
PauseIsIndefinite ==
  [][mem["resume"].at \in Guarded /\ Breach(mem["resume"].st) = "deadline"
     => mem'["resume"].st.status # "halted"]_vars

(* "a run survives worker restarts": the record of a completed              *)
(* prepare_application run shows its email as sent.                         *)
CompletedIsRecorded ==
  session = "completed" /\ goal = "prepare_application"
    => \E a \in Applications : email[a] = "sent"
=============================================================================
