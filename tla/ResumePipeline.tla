--------------------------- MODULE ResumePipeline ---------------------------
(***************************************************************************)
(* One uploaded resume: parse_resume and extract_resume                    *)
(* (worker/tasks/resume.py), the requests that upload, reprocess and delete *)
(* it (domain/resume/service.py), the sweep, and a browser that follows    *)
(* its status (api/v1/resumes.py, core/events.py).                         *)
(*                                                                         *)
(* A job loads the row once and then writes by what it remembers: the ORM  *)
(* omits a column whose value it believes unchanged.  parse_resume has a   *)
(* job id, so there is one at a time; extract_resume has none.             *)
(***************************************************************************)
EXTENDS Naturals

CONSTANTS
  Extracts,      \* extract_resume jobs (bound: alive at once)
  MaxTries,      \* tries of a job
  MaxReprocess,  \* bound: reprocess requests
  CommitsInTime  \* whether a request commits within its job's deferral

ASSUME BoundsAssumption ==
  MaxTries \in Nat \ {0} /\ MaxReprocess \in Nat /\ CommitsInTime \in BOOLEAN
ASSUME ExtractsAssumption == "parse" \notin Extracts

Jobs == {"parse"} \cup Extracts
InProgress == {"uploaded", "parsing", "parsed", "extracting"}
Terminal   == {"extracted", "failed"}

VARIABLES
  row,          \* the resume, status "absent" before the upload commits
  stale,        \* updated_at is older than the sweep's cutoff
  req,          \* an upload or reprocess request: place, and what it has read
  reprocessed,  \* reprocess requests so far
  job,          \* the arq jobs: state and try
  mem,          \* a running job's place and its copy of the row
  sweep,        \* the sweep has committed and not published yet
  watcher,      \* a browser opening the event stream, and the status it saw
  lost          \* history: what has gone wrong, of Losses

vars == <<row, stale, req, reprocessed, job, mem, sweep, watcher, lost>>

(* A worker died or a job timed out; a parse failed between its commit and   *)
(* the enqueue; a final status was not published.                            *)
Losses == {"unseen", "unqueued", "untold"}

Idle == [at |-> "idle", status |-> "uploaded", error |-> "none"]
Off  == [at |-> "off", status |-> "uploaded", error |-> "none", wrote |-> FALSE]
None == [state |-> "none", try |-> 1]
Queued == [state |-> "queued", try |-> 1]

(* ResumeService.create has flushed the row and queued the job. *)
Init ==
  /\ row = [status |-> "absent", error |-> "none", deleted |-> FALSE]
  /\ stale = FALSE
  /\ req = [Idle EXCEPT !.at = "uploading"] /\ reprocessed = 0
  /\ job = [j \in Jobs |-> IF j = "parse" THEN Queued ELSE None]
  /\ mem = [j \in Jobs |-> Off]
  /\ sweep = FALSE /\ watcher = [at |-> "off", saw |-> "absent"] /\ lost = {}

(* What saving a status and an error changes, given the copy c of the row. *)
Differs(c, status, error) == c.status # status \/ c.error # error
Written(c, status, error) ==
  [row EXCEPT !.status = IF c.status = status THEN @ ELSE status,
              !.error  = IF c.error  = error  THEN @ ELSE error]

(* No request has flushed a change and not committed it. *)
RowFree == ~(req.at = "flushed" /\ Differs(req, "uploaded", "none"))

-----------------------------------------------------------------------------
(* Requests.                                                                *)

UploadCommit ==
  /\ req.at = "uploading" /\ req' = Idle
  /\ row' = [row EXCEPT !.status = "uploaded"] /\ stale' = FALSE
  /\ UNCHANGED <<reprocessed, job, mem, sweep, watcher, lost>>

RequestFails ==
  /\ req.at # "idle" /\ req' = Idle
  /\ UNCHANGED <<row, stale, reprocessed, job, mem, sweep, watcher, lost>>

ReprocessRead ==
  /\ req.at = "idle" /\ reprocessed < MaxReprocess
  /\ row.status # "absent" /\ ~row.deleted
  /\ req' = [at |-> "read", status |-> row.status, error |-> row.error]
  /\ reprocessed' = reprocessed + 1
  /\ UNCHANGED <<row, stale, job, mem, sweep, watcher, lost>>

(* The flush, then the job; a parse job still there makes it a no-op. *)
ReprocessWrite ==
  /\ req.at = "read" /\ req' = [req EXCEPT !.at = "flushed"]
  /\ job' = IF job["parse"].state = "none" THEN [job EXCEPT !["parse"] = Queued] ELSE job
  /\ UNCHANGED <<row, stale, reprocessed, mem, sweep, watcher, lost>>

ReprocessCommit ==
  /\ req.at = "flushed" /\ req' = Idle
  /\ row' = Written(req, "uploaded", "none")
  /\ stale' = (stale /\ ~Differs(req, "uploaded", "none"))
  /\ UNCHANGED <<reprocessed, job, mem, sweep, watcher, lost>>

(* The row stays, the file goes. *)
Delete ==
  /\ row.status # "absent" /\ ~row.deleted /\ RowFree
  /\ row' = [row EXCEPT !.deleted = TRUE] /\ stale' = FALSE
  /\ UNCHANGED <<req, reprocessed, job, mem, sweep, watcher, lost>>

-----------------------------------------------------------------------------
(* The jobs.                                                                *)

\* mutant: a retry finds the status its first try has committed
AdmitsFirstTry(j) == IF j = "parse" THEN {"uploaded"} ELSE {"parsed"}
Admits(j) == IF j = "parse" THEN {"uploaded", "parsing"} ELSE {"parsed", "extracting"}

\* mutant: a status the schema does not know
WorkingUnknown(j) == IF j = "parse" THEN "reading" ELSE "extracting"
Working(j) == IF j = "parse" THEN "parsing" ELSE "extracting"
Message(j) == IF j = "parse" THEN "unread" ELSE "unextracted"

(* A request's job is deferred by two seconds. *)
Due(j) == j = "parse" /\ CommitsInTime => req.at \notin {"uploading", "flushed"}

Ends(j) == job' = [job EXCEPT ![j] = None] /\ mem' = [mem EXCEPT ![j] = Off]

(* "missing" or "skipped". *)
JobSkips(j) ==
  /\ job[j].state = "queued" /\ Due(j) /\ row.status \notin Admits(j)
  /\ Ends(j)
  /\ UNCHANGED <<row, stale, req, reprocessed, sweep, watcher, lost>>

JobStarts(j) ==
  /\ job[j].state = "queued" /\ Due(j) /\ row.status \in Admits(j)
  /\ job' = [job EXCEPT ![j].state = "running"]
  /\ mem' = [mem EXCEPT ![j] = [at |-> "loaded", status |-> row.status,
                                error |-> row.error, wrote |-> FALSE]]
  /\ UNCHANGED <<row, stale, req, reprocessed, sweep, watcher, lost>>

(* Job j commits a status and an error, and goes on at the given place. *)
Saves(j, status, error, at) ==
  /\ RowFree
  /\ stale' = (stale /\ ~Differs(mem[j], status, error))
  /\ mem' = [mem EXCEPT ![j] = [at |-> at, status |-> status, error |-> error,
                                wrote |-> @.wrote \/ Differs(@, status, error)]]
  /\ UNCHANGED <<req, reprocessed, job, sweep, watcher, lost>>

JobBegins(j) ==
  /\ mem[j].at = "loaded"
  /\ row' = Written(mem[j], Working(j), mem[j].error)
  /\ Saves(j, Working(j), mem[j].error, "working")

(* The file may be gone with a deleted resume, and JobRaises then.  It need   *)
(* not be: that it could not be removed is not noticed.                      *)
ParseFile ==
  /\ mem["parse"].at = "working"
  /\ mem' = [mem EXCEPT !["parse"].at = "read"]
  /\ UNCHANGED <<row, stale, req, reprocessed, job, sweep, watcher, lost>>

(* Too many pages, or a scan without text. *)
ParseRefuses ==
  /\ mem["parse"].at = "read"
  /\ row' = Written(mem["parse"], "failed", "limits")
  /\ Saves("parse", "failed", "limits", "telling")

ParseCommits ==
  /\ mem["parse"].at = "read"
  /\ row' = Written(mem["parse"], "parsed", mem["parse"].error)
  /\ Saves("parse", "parsed", mem["parse"].error, "handing_over")

(* Publishes "parsed", queues the extraction without a job id, returns. *)
ParseHandsOver(e) ==
  /\ mem["parse"].at = "handing_over" /\ job[e].state = "none"
  /\ job' = [job EXCEPT !["parse"] = None, ![e] = Queued]
  /\ mem' = [mem EXCEPT !["parse"] = Off]
  /\ UNCHANGED <<row, stale, req, reprocessed, sweep, watcher, lost>>

ExtractCommits(e) ==
  /\ mem[e].at = "working"
  /\ row' = Written(mem[e], "extracted", mem[e].error)
  /\ Saves(e, "extracted", mem[e].error, "telling")

(* A final status ends every stream whose subscription is live. *)
Published ==
  watcher' = IF watcher.at \in {"subscribed", "live"} THEN [watcher EXCEPT !.at = "told"]
             ELSE watcher

(* A publish that may fail and be ignored. *)
BestEffort ==
  \/ Published /\ UNCHANGED lost
  \/ lost' = lost \cup {"untold"} /\ UNCHANGED watcher

JobTells(j) ==
  /\ mem[j].at = "telling" /\ Published /\ Ends(j)
  /\ UNCHANGED <<row, stale, req, reprocessed, sweep, lost>>

(* An exception, from the work, a publish or the queue: rolled back, and a  *)
(* Retry, or, if it is permanent or the last try, the row loaded again.     *)
JobRaises(j) ==
  /\ mem[j].at \in {"loaded", "working", "read", "handing_over", "telling"}
  /\ \/ /\ job[j].try < MaxTries
        /\ job' = [job EXCEPT ![j] = [state |-> "queued", try |-> @.try + 1]]
        /\ mem' = [mem EXCEPT ![j] = Off]
     \/ /\ job[j].try = MaxTries \/ mem[j].at = "working"
        /\ mem' = [mem EXCEPT ![j] = [at |-> "giving_up", status |-> row.status,
                                      error |-> row.error, wrote |-> @.wrote]]
        /\ UNCHANGED job
  /\ lost' = lost \cup (IF mem[j].at = "telling" THEN {"untold"} ELSE {})
                  \cup (IF mem[j].at = "handing_over" THEN {"unqueued"} ELSE {})
  /\ UNCHANGED <<row, stale, req, reprocessed, sweep, watcher>>

JobGivesUp(j) ==
  /\ mem[j].at = "giving_up"
  /\ row' = Written(mem[j], "failed", Message(j))
  /\ Saves(j, "failed", Message(j), "telling_last")

(* A publish whose failure is suppressed. *)
JobTellsLast(j) ==
  /\ mem[j].at = "telling_last" /\ Ends(j) /\ BestEffort
  /\ UNCHANGED <<row, stale, req, reprocessed, sweep>>

(* A dead worker's job is run again, one that exceeds job_timeout is not. *)
JobDies(j) ==
  /\ mem[j].at # "off"
  /\ mem' = [mem EXCEPT ![j] = Off]
  /\ \/ /\ job[j].try < MaxTries
        /\ job' = [job EXCEPT ![j] = [state |-> "queued", try |-> @.try + 1]]
     \/ job' = [job EXCEPT ![j] = None]
  /\ lost' = lost \cup {"unseen"}
       \cup (IF mem[j].at \in {"telling", "telling_last"} THEN {"untold"} ELSE {})
  /\ UNCHANGED <<row, stale, req, reprocessed, sweep, watcher>>

-----------------------------------------------------------------------------
(* The sweep, every five minutes, and the clock.                            *)

\* mutant: a parsed resume is not counted as in progress
SweptButParsed == InProgress \ {"parsed"}
Swept == InProgress

SweepResume ==
  /\ ~sweep /\ stale /\ row.status \in Swept /\ RowFree
  /\ row' = [row EXCEPT !.status = "failed", !.error = "swept"] /\ stale' = FALSE
  /\ sweep' = TRUE
  /\ UNCHANGED <<req, reprocessed, job, mem, watcher, lost>>

SweepTells ==
  /\ sweep /\ sweep' = FALSE /\ BestEffort
  /\ UNCHANGED <<row, stale, req, reprocessed, job, mem>>

(* A try lasts 300 s at most, so the row it has updated is younger than the *)
(* 20 minutes of the cutoff.                                                *)
TimePasses ==
  /\ row.status \in InProgress /\ ~stale /\ \A j \in Jobs : ~mem[j].wrote
  /\ stale' = TRUE
  /\ UNCHANGED <<row, req, reprocessed, job, mem, sweep, watcher, lost>>

-----------------------------------------------------------------------------
(* GET events: the owner's check, the subscription, then the status again.   *)

Opens ==
  /\ watcher.at = "off" /\ row.status # "absent" /\ ~row.deleted
  /\ watcher' = [at |-> "opened", saw |-> row.status]
  /\ UNCHANGED <<row, stale, req, reprocessed, job, mem, sweep, lost>>

Subscribes ==
  /\ watcher.at = "opened" /\ watcher' = [watcher EXCEPT !.at = "subscribed"]
  /\ UNCHANGED <<row, stale, req, reprocessed, job, mem, sweep, lost>>

\* mutant: the status of the owner's check is good enough
StatusOfCheck == watcher.saw
Current == row.status

ReadsStatus ==
  /\ watcher.at = "subscribed"
  /\ watcher' = [at |-> IF Current \in Terminal \/ row.deleted THEN "told" ELSE "live",
                 saw |-> Current]
  /\ UNCHANGED <<row, stale, req, reprocessed, job, mem, sweep, lost>>

-----------------------------------------------------------------------------
JobGoesOn(j) ==
  \/ JobBegins(j) \/ JobTells(j) \/ JobRaises(j) \/ JobGivesUp(j) \/ JobTellsLast(j)
  \/ JobDies(j)

Next ==
  \/ UploadCommit \/ RequestFails
  \/ ReprocessRead \/ ReprocessWrite \/ ReprocessCommit \/ Delete
  \/ \E j \in Jobs : JobSkips(j) \/ JobStarts(j) \/ JobGoesOn(j)
  \/ ParseFile \/ ParseRefuses \/ ParseCommits
  \/ \E e \in Extracts : ParseHandsOver(e) \/ ExtractCommits(e)
  \/ SweepResume \/ SweepTells \/ TimePasses
  \/ Opens \/ Subscribes \/ ReadsStatus

Spec == Init /\ [][Next]_vars

(* Requests end, jobs that run go on or die, the sweep comes and the clock  *)
(* runs.  Nothing is assumed of the queue or of people.                     *)
FairSpec ==
  /\ Spec
  /\ WF_vars(UploadCommit \/ ReprocessCommit \/ RequestFails)
  /\ \A j \in Jobs : WF_vars(JobGoesOn(j))
  /\ WF_vars(SweepResume) /\ WF_vars(SweepTells) /\ WF_vars(TimePasses)

-----------------------------------------------------------------------------
(* Properties.                                                              *)

Errors == {"none", "limits", "unread", "unextracted", "swept"}

TypeOK ==
  /\ row \in [status : {"absent"} \cup InProgress \cup Terminal, error : Errors,
              deleted : BOOLEAN]
  /\ stale \in BOOLEAN
  /\ req \in [at : {"idle", "uploading", "read", "flushed"},
              status : InProgress \cup Terminal, error : Errors]
  /\ reprocessed \in 0..MaxReprocess
  /\ job \in [Jobs -> [state : {"none", "queued", "running"}, try : 1..MaxTries]]
  /\ mem \in [Jobs -> [at : {"off", "loaded", "working", "read", "handing_over",
                             "telling", "giving_up", "telling_last"},
                       status : InProgress \cup Terminal, error : Errors,
                       wrote : BOOLEAN]]
  /\ sweep \in BOOLEAN
  /\ watcher \in [at : {"off", "opened", "subscribed", "live", "told"},
                  saw : {"absent"} \cup InProgress \cup Terminal]
  /\ lost \subseteq Losses

(* Nobody has a job that would go on with this resume. *)
NoJob == \A j \in Jobs : job[j].state = "none"

(* Retries continue what an earlier try began: until somebody asks to        *)
(* reprocess it, a resume in progress has a job, unless a worker was lost or *)
(* a parse failed after its commit and before its enqueue (parse_resume,     *)
(* extract_resume, retry_or_fail).                                           *)
WorkHasAJob ==
  row.status \in InProgress /\ reprocessed = 0 /\ NoJob
    => "unseen" \in lost \/ "unqueued" \in lost

(* "a transition between the read and the subscribe cannot be missed": a     *)
(* browser that goes on listening to a finished resume is about to be told,  *)
(* unless a final status was never published (resume_events, status_stream). *)
WatcherWillKnow ==
  watcher.at = "live" /\ row.status \in Terminal /\ "untold" \notin lost
    => sweep \/ \E j \in Jobs : mem[j].at \in {"telling", "telling_last"}

(* "nothing stays in an in-progress state forever" (worker/tasks/sweeper.py): *)
(* also with jobs lost, refused or skipped.                                   *)
ResumeSettles == row.status \in InProgress ~> row.status \in Terminal

-----------------------------------------------------------------------------
(* What the program says and does not keep.                                 *)

(* "Retries handle failures a worker can see.  This cron job handles the ones *)
(* it can't": work without a job that would finish it was lost unseen.        *)
StuckOnlyUnseen ==
  row.status \in InProgress /\ req.at = "idle" /\ NoJob => "unseen" \in lost

(* "the DB already holds the truth; streams are a courtesy": an extracted    *)
(* resume stays so until somebody asks for it to be processed again.         *)
ExtractedStays ==
  [][row.status = "extracted" => row'.status \in {"extracted", "uploaded"}]_vars
=============================================================================
