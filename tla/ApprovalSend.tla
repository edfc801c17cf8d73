---------------------------- MODULE ApprovalSend ----------------------------
(***************************************************************************)
(* One prepared application from the moment its run pauses for review: the *)
(* decisions posted on its approval (api/v1/approvals.py), the agent job   *)
(* that resumes the run (worker/tasks/agent.py) and reaches the send node, *)
(* the "Try sending again" endpoint (api/v1/applications.py), the stuck-   *)
(* email sweep (worker/tasks/sweeper.py), and the one function that talks  *)
(* to the mail server (domain/applications/sending.py), which the agent    *)
(* and the endpoint both run.  Every actor may die between two steps.      *)
(*                                                                         *)
(* A database transaction is a step that reads, and a later step that      *)
(* commits; what is flushed but not committed is kept in `pend' and holds  *)
(* the row's lock.  Time is counted in ticks: Deadline, Grace and Stale    *)
(* stand for the 180 s run budget, the 10 min SENDING_GRACE and the 20 min *)
(* STALE_AFTER.                                                            *)
(***************************************************************************)
EXTENDS Naturals

CONSTANTS
  Deciders,    \* POST /approvals/{id} requests
  Retriers,    \* POST /applications/{id}/send requests
  Recipients,  \* addresses an approver may type
  Agent,       \* the agent job's execution of the send node
  NoOne,       \* to_email before anybody approved
  Deadline,    \* DEFAULT_DEADLINE_SECONDS
  Grace,       \* SENDING_GRACE
  Stale,       \* STALE_AFTER
  MaxTries     \* arq max_tries

Callers == Retriers \cup {Agent}

ASSUME CallersAssumption == Agent \notin Retriers /\ NoOne \notin Recipients
ASSUME MaxTriesAssumption == MaxTries \in Nat
\* 180 s <= 10 min <= 20 min: the order of the three timeouts is what keeps a
\* re-run job from repeating an attempt.
ASSUME TimingAssumption ==
  /\ Deadline \in Nat \ {0} /\ Grace \in Nat /\ Stale \in Nat
  /\ Deadline <= Grace /\ Grace <= Stale

VARIABLES
  approval,  \* approval_requests row: status and the hash it covers
  session,   \* ai_sessions.status, its terminal values collapsed to "ended"
  email,     \* application_emails row: status and to_email
  applied,   \* applications.status was set to "applied" by a send
  deleted,   \* applications.deleted_at is set
  job,       \* the job posting the snapshot names: title version, or "gone"
  age,       \* ticks since the email row's updated_at while "sending"
  runAge,    \* ticks since start_run fixed the budget's deadline
  dpc, req,  \* per decision: its step, and what it asked and read
  queue,     \* the resume_agent job: state, the decision it carries, its tries
  ckpt,      \* where the run's last graph checkpoint resumes
  pc,        \* per caller of the send function: its step
  read,      \* per caller: the approval, then the email status its session read
  pend,      \* per caller: the write it flushed and has not committed
  claims,    \* history: attempts each caller started
  sentTo,    \* history: recipients handed to the mail server
  accepted   \* history: the attempts whose message the server took

dbVars   == <<approval, session, email, applied>>
userVars == <<deleted, job>>
timeVars == <<age, runAge>>
decVars  == <<dpc, req>>
jobVars  == <<queue, ckpt>>
sendVars == <<pc, read, pend>>
wireVars == <<claims, sentTo, accepted>>
vars == <<dbVars, userVars, timeVars, decVars, jobVars, sendVars, wireVars>>

Titles == {"orig", "edited"}
Hash   == [title : Titles, to : Recipients \cup {NoOne}]
Lesser(a, b) == IF a < b THEN a ELSE b

(* hash_snapshot of the current rows: the parts of it that can change. *)
SnapshotHash == [title |-> job, to |-> email.to]

Init ==
  /\ approval = [status |-> "pending", hash |-> [title |-> "orig", to |-> NoOne]]
  /\ session = "awaiting_approval"
  /\ email = [status |-> "draft", to |-> NoOne]
  /\ applied = FALSE /\ deleted = FALSE /\ job = "orig"
  /\ age = 0 /\ runAge \in 0..Deadline
  /\ dpc = [d \in Deciders |-> "idle"]
  /\ req = [d \in Deciders |-> [decision |-> "reject", to |-> NoOne, title |-> "orig"]]
  /\ queue = [state |-> "none", decision |-> "reject", tries |-> 0]
  /\ ckpt = "interrupt"
  /\ pc = [c \in Callers |-> "idle"]
  /\ read = [c \in Callers |-> "draft"]
  /\ pend = [c \in Callers |-> "none"]
  /\ claims = [c \in Callers |-> 0]
  /\ sentTo = {} /\ accepted = {}

-----------------------------------------------------------------------------
(* Decisions: decide_approval, set_approval_recipient, resume_run.          *)

Locked == \E d \in Deciders : dpc[d] = "locked"

(* The request finds the approval pending; approving also needs the content *)
(* to hash to what was reviewed (409 approval.changed otherwise).           *)
DecideRead(d) ==
  /\ dpc[d] = "idle"
  /\ \E decision \in {"approve", "reject"}, to \in Recipients :
       /\ req' = [req EXCEPT ![d] =
            [decision |-> decision,
             to |-> IF decision = "approve" THEN to ELSE NoOne,
             title |-> approval.hash.title]]
       /\ dpc' = [dpc EXCEPT ![d] =
            IF approval.status = "pending"
               /\ (decision = "approve" => SnapshotHash = approval.hash)
            THEN "read" ELSE "done"]
  /\ UNCHANGED <<dbVars, userVars, timeVars, jobVars, sendVars, wireVars>>

\* mutant: a decision does not look at the session
AwaitsNothing == TRUE

(* resume_run's condition on the session it has just read. *)
AwaitsApproval == session = "awaiting_approval"

(* The flush takes the row locks, resume_run re-reads the session and       *)
(* refuses unless it awaits approval, then enqueues before the commit; a    *)
(* job with the same _job_id is dropped by the queue.                       *)
DecideWrite(d) ==
  /\ dpc[d] = "read" /\ ~Locked
  /\ IF AwaitsApproval
     THEN /\ dpc' = [dpc EXCEPT ![d] = "locked"]
          /\ queue' = IF queue.state = "none"
                      THEN [state |-> "queued", decision |-> req[d].decision, tries |-> 0]
                      ELSE queue
     ELSE dpc' = [dpc EXCEPT ![d] = "done"] /\ UNCHANGED queue
  /\ UNCHANGED <<dbVars, userVars, timeVars, req, ckpt, sendVars, wireVars>>

DecideCommit(d) ==
  /\ dpc[d] = "locked"
  /\ dpc' = [dpc EXCEPT ![d] = "done"]
  /\ session' = "running"
  /\ IF req[d].decision = "approve"
     THEN /\ approval' = [status |-> "approved",
                          hash |-> [title |-> req[d].title, to |-> req[d].to]]
          /\ email' = [email EXCEPT !.to = req[d].to]
     ELSE /\ approval' = [approval EXCEPT !.status = "rejected"]
          /\ UNCHANGED email
  /\ UNCHANGED <<applied, userVars, timeVars, req, jobVars, sendVars, wireVars>>

(* The commit fails or the API process dies: rolled back, the job stays.    *)
DecideAbort(d) ==
  /\ dpc[d] = "locked"
  /\ dpc' = [dpc EXCEPT ![d] = "done"]
  /\ UNCHANGED <<dbVars, userVars, timeVars, req, jobVars, sendVars, wireVars>>

-----------------------------------------------------------------------------
(* send_approved_application, as the agent and the endpoint both run it.    *)

(* The email row carries no uncommitted write of anybody else. *)
RowFree(c) == ~Locked /\ \A o \in Callers \ {c} : pend[o] = "none"

Finish(c, write) ==
  /\ pc' = [pc EXCEPT ![c] = "flushed"]
  /\ pend' = [pend EXCEPT ![c] = write]

(* The checks before an attempt, on the rows the caller reads; `status' is  *)
(* the email status its session holds.                                      *)
SendChecks(c, approved, status) ==
  /\ read' = [read EXCEPT ![c] = status]
  /\ \/ /\ \/ ~approved
           \/ job = "gone" \/ SnapshotHash # approval.hash
           \/ status = "sent"
           \/ status = "sending" /\ age < Grace
        /\ Finish(c, "none")
     \/ /\ approved /\ job # "gone" /\ SnapshotHash = approval.hash
        /\ \/ status = "sending" /\ age >= Grace /\ pc' = [pc EXCEPT ![c] = "failing"]
           \/ status \in {"draft", "failed"}
              \* the daily caps may or may not be used up by other emails
              /\ \E next \in {"checked", "failing"} : pc' = [pc EXCEPT ![c] = next]
        /\ UNCHANGED pend

\* mutant: the failure is written whatever the session read
FailAlways(c) == "failed"

(* _fail: the ORM writes the status only if it differs from the one this    *)
(* session read; the reason is written either way.                          *)
FailWrite(c) == IF read[c] = "failed" THEN "reason" ELSE "failed"

(* _fail without an attempt. *)
SendFail(c) ==
  /\ pc[c] = "failing" /\ RowFree(c)
  /\ Finish(c, FailWrite(c))
  /\ UNCHANGED <<dbVars, userVars, timeVars, decVars, jobVars, read, wireVars>>

\* mutant: the claim only refuses what was sent
ClaimsSending == email.status # "sent"
\* mutant: the claim records the success beforehand
ClaimsSuccess == "sent"

(* The WHERE and the SET of the claim. *)
Claimable     == email.status \notin {"sending", "sent"}
ClaimedStatus == "sending"

(* _claim and its commit: one conditional UPDATE decides who sends. *)
SendClaim(c) ==
  /\ pc[c] = "checked"
  /\ \/ /\ Claimable /\ RowFree(c)
        /\ email' = [email EXCEPT !.status = ClaimedStatus]
        /\ age' = 0
        /\ pc' = [pc EXCEPT ![c] = "delivering"]
        /\ claims' = [claims EXCEPT ![c] = @ + 1]
        /\ sentTo' = sentTo \cup {email.to}
        /\ UNCHANGED pend
     \/ /\ ~Claimable
        /\ Finish(c, "none")
        /\ UNCHANGED <<email, age, claims, sentTo>>
  /\ UNCHANGED <<approval, session, applied, userVars, runAge, decVars, jobVars,
                 read, accepted>>

(* The mail server answers.  A timeout after the data was sent is an error  *)
(* to the client although the server took the message; an error outside     *)
(* EmailDeliveryError leaves no write at all.                               *)
SendDelivered(c) ==
  /\ pc[c] = "delivering"
  /\ \/ /\ accepted' = accepted \cup {c} /\ RowFree(c) /\ Finish(c, "sent")
     \/ /\ accepted' \in {accepted, accepted \cup {c}} /\ RowFree(c) /\ Finish(c, "failed")
     \/ /\ accepted' \in {accepted, accepted \cup {c}} /\ Finish(c, "none")
  /\ UNCHANGED <<dbVars, userVars, timeVars, decVars, jobVars, read, claims, sentTo>>

(* The commit of whatever the caller flushed. *)
CommitSend(c) ==
  /\ email' = IF pend[c] \in {"sent", "failed"}
              THEN [email EXCEPT !.status = pend[c]] ELSE email
  /\ applied' = (applied \/ pend[c] = "sent")
  /\ age' = IF pend[c] = "none" THEN age ELSE 0
  /\ pend' = [pend EXCEPT ![c] = "none"]

(* The caller's process dies or its transaction is rolled back; a message   *)
(* in flight may still be taken.                                            *)
LoseSend(c, step) ==
  /\ pc' = [pc EXCEPT ![c] = step]
  /\ pend' = [pend EXCEPT ![c] = "none"]
  /\ accepted' \in IF pc[c] = "delivering" THEN {accepted, accepted \cup {c}}
                                         ELSE {accepted}

-----------------------------------------------------------------------------
(* POST /applications/{id}/send.                                            *)

RetryStart(r) ==
  /\ pc[r] = "idle"
  /\ IF ~deleted /\ email.status = "failed" /\ approval.status = "approved"
     THEN SendChecks(r, TRUE, "failed")
     ELSE pc' = [pc EXCEPT ![r] = "done"] /\ UNCHANGED <<read, pend>>
  /\ UNCHANGED <<dbVars, userVars, timeVars, decVars, jobVars, wireVars>>

RetryCommit(r) ==
  /\ pc[r] = "flushed"
  /\ pc' = [pc EXCEPT ![r] = "done"]
  /\ CommitSend(r)
  /\ UNCHANGED <<approval, session, userVars, runAge, decVars, jobVars, read, wireVars>>

RetryDies(r) ==
  /\ pc[r] \in {"checked", "failing", "delivering", "flushed"}
  /\ LoseSend(r, "done")
  /\ UNCHANGED <<dbVars, userVars, timeVars, decVars, jobVars, read, claims, sentTo>>

-----------------------------------------------------------------------------
(* The resume_agent job: human_approval, then the guarded send node.        *)

\* mutant: the queue retries without a limit
TriesUnlimited == TRUE
TriesLeft == queue.tries < MaxTries

(* The job starts and human_approval routes on the decision it carries; a   *)
(* run whose checkpoint is past the send node goes straight to its end.     *)
JobStart ==
  /\ queue.state = "queued" /\ TriesLeft
  /\ queue' = [queue EXCEPT !.state = "running", !.tries = @ + 1]
  /\ \/ /\ ckpt = "interrupt" /\ queue.decision = "reject"
        /\ ckpt' = "tail" /\ pc' = [pc EXCEPT ![Agent] = "tail"]
        /\ UNCHANGED read
     \/ /\ ckpt = "interrupt" /\ queue.decision = "approve"
        /\ pc' = [pc EXCEPT ![Agent] = "routed"]
        \* the approval row is cached by the session: what it says now counts
        /\ read' = [read EXCEPT ![Agent] = approval.status]
        /\ UNCHANGED ckpt
     \/ /\ ckpt = "send"
        /\ pc' = [pc EXCEPT ![Agent] = "routed"]
        /\ read' = [read EXCEPT ![Agent] = "unread"]
        /\ UNCHANGED ckpt
     \/ /\ ckpt = "tail" /\ pc' = [pc EXCEPT ![Agent] = "tail"]
        /\ UNCHANGED <<ckpt, read>>
  /\ UNCHANGED <<dbVars, userVars, timeVars, decVars, pend, wireVars>>

(* arq gives up on a job that has used its tries: nothing finalizes the run. *)
JobDropped ==
  /\ queue.state = "queued" /\ ~TriesLeft
  /\ queue' = [queue EXCEPT !.state = "none"]
  /\ UNCHANGED <<dbVars, userVars, timeVars, decVars, ckpt, sendVars, wireVars>>

ApprovedForAgent ==
  IF read[Agent] = "unread" THEN approval.status = "approved"
                            ELSE read[Agent] = "approved"

\* mutant: no deadline
BudgetUnlimited == TRUE

(* check_budget's deadline, fixed by start_run and kept in the checkpoint.   *)
BudgetLeft == runAge < Deadline

(* guard() refuses the send node once the budget's deadline has passed;     *)
(* otherwise email_external_action runs the checks.                         *)
AgentSendNode ==
  /\ pc[Agent] = "routed"
  /\ ckpt' = "send"
  /\ IF BudgetLeft
     THEN SendChecks(Agent, ApprovedForAgent, email.status)
     ELSE Finish(Agent, "none") /\ UNCHANGED read
  /\ UNCHANGED <<dbVars, userVars, timeVars, decVars, queue, wireVars>>

(* The node returned: the graph saves its checkpoint on its own connection, *)
(* before the business transaction commits.                                 *)
AgentCheckpoint ==
  /\ pc[Agent] = "flushed"
  /\ pc' = [pc EXCEPT ![Agent] = "tail"]
  /\ ckpt' = "tail"
  /\ UNCHANGED <<dbVars, userVars, timeVars, decVars, queue, read, pend, wireVars>>

(* finalize and the commit that makes the send's outcome visible. *)
AgentCommit ==
  /\ pc[Agent] = "tail" /\ ~Locked
  /\ pc' = [pc EXCEPT ![Agent] = "idle"]
  /\ CommitSend(Agent)
  /\ session' = "ended"
  /\ queue' = [queue EXCEPT !.state = "none"]
  /\ UNCHANGED <<approval, userVars, runAge, decVars, ckpt, read, wireVars>>

(* A step outside a node raises (a publish, a checkpoint write, the commit): *)
(* rollback, then arq.Retry, or on the last try the run is finalized.        *)
AgentRaises ==
  /\ pc[Agent] \in {"routed", "flushed", "tail"}
  /\ LoseSend(Agent, "idle")
  /\ IF TriesLeft
     THEN queue' = [queue EXCEPT !.state = "queued"] /\ UNCHANGED session
     ELSE ~Locked /\ queue' = [queue EXCEPT !.state = "none"] /\ session' = "ended"
  /\ UNCHANGED <<approval, email, applied, userVars, timeVars, decVars, ckpt, read,
                 claims, sentTo>>

(* The worker dies or is stopped (the job runs again), or the job hits      *)
(* job_timeout (it does not, and no handler runs).                          *)
AgentDies ==
  /\ pc[Agent] # "idle"
  /\ LoseSend(Agent, "idle")
  /\ \E state \in {"queued", "none"} : queue' = [queue EXCEPT !.state = state]
  /\ UNCHANGED <<dbVars, userVars, timeVars, decVars, ckpt, read, claims, sentTo>>

-----------------------------------------------------------------------------
(* The sweep, the person, and the clock.                                    *)

\* mutant: the sweep does not look at the row's age
SendingIsStale == email.status = "sending"
\* mutant: an age that is never reached
NeverStale == email.status = "sending" /\ age > Stale
EmailIsStale == email.status = "sending" /\ age >= Stale

SweepEmail ==
  /\ EmailIsStale
  /\ \A c \in Callers : pend[c] = "none"    \* FOR UPDATE SKIP LOCKED
  /\ email' = [email EXCEPT !.status = "failed"]
  /\ age' = 0
  /\ UNCHANGED <<approval, session, applied, userVars, runAge, decVars, jobVars,
                 sendVars, wireVars>>

EditJob ==
  /\ job \in Titles /\ job' \in Titles \ {job}
  /\ UNCHANGED <<dbVars, deleted, timeVars, decVars, jobVars, sendVars, wireVars>>

DeleteJob ==
  /\ job \in Titles /\ job' = "gone"
  /\ UNCHANGED <<dbVars, deleted, timeVars, decVars, jobVars, sendVars, wireVars>>

DeleteApplication ==
  /\ ~deleted /\ deleted' = TRUE
  /\ UNCHANGED <<dbVars, job, timeVars, decVars, jobVars, sendVars, wireVars>>

(* SENDING_GRACE is "longer than any single delivery can take".             *)
DeliveryFits == \A c \in Callers : pc[c] = "delivering" => age + 1 < Grace

Tick ==
  /\ DeliveryFits
  /\ age' = IF email.status = "sending" THEN Lesser(age + 1, Stale) ELSE 0
  /\ runAge' = Lesser(runAge + 1, Deadline)
  /\ <<age', runAge'>> # <<age, runAge>>
  /\ UNCHANGED <<dbVars, userVars, decVars, jobVars, sendVars, wireVars>>

Decide(d) == DecideRead(d) \/ DecideWrite(d) \/ DecideCommit(d) \/ DecideAbort(d)
Send(c)   == SendFail(c) \/ SendClaim(c) \/ SendDelivered(c)
Retry(r)  == RetryStart(r) \/ RetryCommit(r) \/ RetryDies(r)
AgentJob  == \/ JobStart \/ JobDropped \/ AgentSendNode \/ AgentCheckpoint
             \/ AgentCommit \/ AgentRaises \/ AgentDies
Person    == EditJob \/ DeleteJob \/ DeleteApplication

Next ==
  \/ \E d \in Deciders : Decide(d)
  \/ \E c \in Callers : Send(c)
  \/ \E r \in Retriers : Retry(r)
  \/ AgentJob \/ SweepEmail \/ Person \/ Tick

Spec == Init /\ [][Next]_vars

(* The sweep runs every five minutes, time passes, a delivery is bounded by *)
(* the SMTP timeouts and a request or job that is running goes on or dies.  *)
Fairness ==
  /\ WF_vars(Tick) /\ WF_vars(SweepEmail)
  /\ \A c \in Callers : WF_vars(Send(c))
  /\ \A r \in Retriers : WF_vars(RetryCommit(r) \/ RetryDies(r))
  /\ WF_vars(AgentCheckpoint \/ AgentCommit \/ AgentRaises \/ AgentDies)
  /\ \A d \in Deciders : WF_vars(DecideCommit(d) \/ DecideAbort(d))

FairSpec == Spec /\ Fairness

-----------------------------------------------------------------------------
(* Properties.                                                              *)

EmailStatuses    == {"draft", "sending", "sent", "failed"}
ApprovalStatuses == {"pending", "approved", "rejected"}
ReadStatuses == {"unread", "pending", "approved", "rejected",
                 "draft", "sending", "sent", "failed"}
SendSteps == {"idle", "routed", "checked", "failing", "delivering", "flushed",
              "tail", "done"}

TypeOK ==
  /\ approval \in [status : ApprovalStatuses, hash : Hash]
  /\ session \in {"awaiting_approval", "running", "ended"}
  /\ email \in [status : EmailStatuses, to : Recipients \cup {NoOne}]
  /\ applied \in BOOLEAN /\ deleted \in BOOLEAN
  /\ job \in Titles \cup {"gone"}
  /\ age \in 0..Stale /\ runAge \in 0..Deadline
  /\ dpc \in [Deciders -> {"idle", "read", "locked", "done"}]
  /\ req \in [Deciders -> [decision : {"approve", "reject"},
                           to : Recipients \cup {NoOne}, title : Titles]]
  /\ queue \in [state : {"none", "queued", "running"},
                decision : {"approve", "reject"}, tries : 0..MaxTries]
  /\ ckpt \in {"interrupt", "send", "tail"}
  /\ pc \in [Callers -> SendSteps]
  /\ read \in [Callers -> ReadStatuses]
  /\ pend \in [Callers -> {"none", "reason", "failed", "sent"}]
  /\ claims \in [Callers -> Nat]
  /\ sentTo \subseteq Recipients \cup {NoOne} /\ accepted \subseteq Callers

(* Two callers never talk to the mail server for the same email at once,    *)
(* whatever claims, sweeps, crashes and stale readers do (_claim).          *)
OneAttemptInFlight ==
  \A c, o \in Callers : pc[c] = "delivering" /\ pc[o] = "delivering" => c = o

(* An attempt is never repeated automatically: over all its tries the job   *)
(* contacts the mail server at most once, also when a crash left the email  *)
(* "sending" and the sweep or a person has since made it "failed".          *)
AgentSendsOnce == claims[Agent] <= 1

(* Nothing leaves before an approval is committed, nothing leaves after a   *)
(* rejection, and all of it goes to the address in the approved hash, with  *)
(* two people deciding at once and jobs that start before the commit.       *)
OnlyApprovedIsSent ==
  sentTo # {} => approval.status = "approved" /\ sentTo = {approval.hash.to}

(* "sent" is only recorded for a message the server took, and with it the   *)
(* application becomes applied.                                             *)
SentWasAccepted == email.status = "sent" => accepted # {} /\ applied

(* Once recorded as sent an email stays sent: no stale failure, sweep or    *)
(* second attempt overwrites it.                                            *)
SentIsFinal ==
  [][email.status = "sent" => email'.status = "sent"]_vars

(* A "sending" email does not stay so: its attempt ends or the sweep fails  *)
(* it, so that "Try sending again" becomes possible.                        *)
SendingSettles == email.status = "sending" ~> email.status # "sending"

-----------------------------------------------------------------------------
(* Refinement: this system delivers once in the sense of DeliverOnce.       *)

(* An attempt is in flight until its outcome is committed or it is lost. *)
InFlight == {c \in Callers :
  \/ pc[c] = "delivering"
  \/ email.status = "sending" /\ pend[c] \in {"sent", "failed"}}

Once == INSTANCE DeliverOnce WITH
  Auto <- Agent, Humans <- Retriers,
  box <- email.status, flight <- InFlight, used <- {c \in Callers : claims[c] > 0}

(* Every step of the approvals, jobs, retries, crashes and sweeps is a step *)
(* the sending module's docstring allows.                                   *)
DeliversOnce == Once!AbstractSpec
=============================================================================
