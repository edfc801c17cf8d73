----------------------------- MODULE JobIngest -----------------------------
(***************************************************************************)
(* One pasted job posting: the request that creates it, a later edit and    *)
(* its removal (domain/jobs/service.py, api/v1/jobs.py), ingest_job         *)
(* (worker/tasks/jobs.py), the sweep, and a browser following its status.   *)
(*                                                                         *)
(* ingest_job commits once, at its end; what it publishes on the way only   *)
(* matters because a publish may raise, also after that commit.             *)
(***************************************************************************)
EXTENDS Naturals

CONSTANT IngestTries   \* tries of a job

IngestAssumption == IngestTries \in Nat \ {0}

VARIABLES
  posting,   \* the row: status, error, deleted
  pOld,      \* its updated_at is older than the sweep's cutoff
  patched,   \* bound: one edit of an old row
  create,    \* the request that pastes it: "open", "done" or "failed"
  ingest,    \* the arq job: state and try
  reader,    \* the running job's place
  pSweep,    \* the sweep has committed and not published yet
  viewer,    \* GET /jobs/{id}/events: place
  untold     \* history: a final status was not published, or a worker was lost

iVars == <<posting, pOld, patched, create, ingest, reader, pSweep, viewer, untold>>

NoIngest == [state |-> "none", try |-> 1]

(* JobService.create has flushed the row and queued ingest_job. *)
Init ==
  /\ posting = [status |-> "absent", error |-> FALSE, deleted |-> FALSE]
  /\ create = "open" /\ ingest = [NoIngest EXCEPT !.state = "queued"]
  /\ pOld = FALSE /\ patched = FALSE /\ reader = "off" /\ pSweep = FALSE
  /\ viewer = "off" /\ untold = FALSE

-----------------------------------------------------------------------------
(* Requests.                                                                *)

CreateEnds ==
  /\ create = "open"
  /\ \/ create' = "done" /\ posting' = [posting EXCEPT !.status = "ingesting"]
     \/ create' = "failed" /\ UNCHANGED posting
  /\ UNCHANGED <<pOld, patched, ingest, reader, pSweep, viewer, untold>>

Owned == posting.status # "absent" /\ ~posting.deleted

(* A new title: nothing the job looks at, but the row is younger. *)
Patch ==
  /\ Owned /\ pOld /\ pOld' = FALSE /\ ~patched /\ patched' = TRUE
  /\ UNCHANGED <<posting, create, ingest, reader, pSweep, viewer, untold>>

Delete ==
  /\ Owned /\ posting' = [posting EXCEPT !.deleted = TRUE] /\ pOld' = FALSE
  /\ UNCHANGED <<patched, create, ingest, reader, pSweep, viewer, untold>>

-----------------------------------------------------------------------------
(* ingest_job.                                                              *)

Admits == posting.status = "ingesting"

(* The deferral of two seconds is not relied on: the job may find no row. *)
Due == ingest.state = "queued"

IngestSkips ==
  /\ Due /\ ~Admits /\ ingest' = NoIngest
  /\ UNCHANGED <<posting, pOld, patched, create, reader, pSweep, viewer, untold>>

IngestStarts ==
  /\ Due /\ Admits /\ ingest' = [ingest EXCEPT !.state = "running"]
  /\ reader' = "working"
  /\ UNCHANGED <<posting, pOld, patched, create, pSweep, viewer, untold>>

(* apply_ingestion: what differs from the loaded row, then the commit.  The  *)
(* loaded row had no error, so the text of a sweep in between stays.        *)
IngestCommits ==
  /\ reader = "working" /\ reader' = "telling"
  /\ posting' = [posting EXCEPT !.status = "ready"]
  /\ pOld' = FALSE
  /\ UNCHANGED <<patched, create, ingest, pSweep, viewer, untold>>

Told == IF viewer \in {"subscribed", "live"} THEN "told" ELSE viewer

IngestTells ==
  /\ reader = "telling" /\ reader' = "off" /\ ingest' = NoIngest
  /\ viewer' = Told
  /\ UNCHANGED <<posting, pOld, patched, create, pSweep, untold>>

Requeued == [state |-> "queued", try |-> ingest.try + 1]

\* mutant: retried for ever
TriesUnlimited == ingest.try \in Nat
TriesLeft == ingest.try < IngestTries

(* An exception of the work, or of the publish that follows its commit: a    *)
(* Retry, or, if it is permanent or the last try, "failed" on a fresh row.  *)
IngestRetries ==
  /\ reader \in {"working", "telling"} /\ reader' = "off"
  /\ TriesLeft /\ ingest' = Requeued
  /\ untold' = (untold \/ reader = "telling")
  /\ UNCHANGED <<posting, pOld, patched, create, pSweep, viewer>>

IngestFails ==
  /\ reader = "working" \/ (reader = "telling" /\ ~TriesLeft)
  /\ posting' = [posting EXCEPT !.status = "failed", !.error = TRUE]
  /\ pOld' = FALSE /\ reader' = "telling_last"
  /\ untold' = (untold \/ reader = "telling")
  /\ UNCHANGED <<patched, create, ingest, pSweep, viewer>>

(* A publish whose failure is suppressed. *)
BestEffort ==
  \/ viewer' = Told /\ UNCHANGED untold
  \/ untold' = TRUE /\ UNCHANGED viewer

IngestTellsLast ==
  /\ reader = "telling_last" /\ reader' = "off" /\ ingest' = NoIngest /\ BestEffort
  /\ UNCHANGED <<posting, pOld, patched, create, pSweep>>

(* A dead worker's job runs again, one past job_timeout does not. *)
IngestDies ==
  /\ reader # "off" /\ reader' = "off"
  /\ \/ TriesLeft /\ ingest' = Requeued
     \/ ingest' = NoIngest
  /\ untold' = TRUE
  /\ UNCHANGED <<posting, pOld, patched, create, pSweep, viewer>>

-----------------------------------------------------------------------------
(* The sweep and the clock.                                                 *)

Stuck == posting.status = "ingesting" /\ pOld

SweepPosting ==
  /\ ~pSweep /\ Stuck
  /\ posting' = [posting EXCEPT !.status = "failed", !.error = TRUE]
  /\ pOld' = FALSE /\ pSweep' = TRUE
  /\ UNCHANGED <<patched, create, ingest, reader, viewer, untold>>

SweepTells ==
  /\ pSweep /\ pSweep' = FALSE /\ BestEffort
  /\ UNCHANGED <<posting, pOld, patched, create, ingest, reader>>

TimePasses ==
  /\ posting.status = "ingesting" /\ ~pOld /\ pOld' = TRUE
  /\ UNCHANGED <<posting, patched, create, ingest, reader, pSweep, viewer, untold>>

-----------------------------------------------------------------------------
(* job_events: the owner's check, the subscription, then the status.        *)

Opens ==
  /\ viewer = "off" /\ Owned /\ viewer' = "opened"
  /\ UNCHANGED <<posting, pOld, patched, create, ingest, reader, pSweep, untold>>

Subscribes ==
  /\ viewer = "opened" /\ viewer' = "subscribed"
  /\ UNCHANGED <<posting, pOld, patched, create, ingest, reader, pSweep, untold>>

\* mutant: the stream of a failed posting stays open
FinalIsReady == {"ready"}
Final == {"ready", "failed"}

ReadsStatus ==
  /\ viewer = "subscribed"
  /\ viewer' = IF posting.status \in Final \/ posting.deleted
               THEN "told" ELSE "live"
  /\ UNCHANGED <<posting, pOld, patched, create, ingest, reader, pSweep, untold>>

-----------------------------------------------------------------------------
IngestGoesOn ==
  IngestTells \/ IngestRetries \/ IngestFails \/ IngestTellsLast \/ IngestDies

Next ==
  \/ CreateEnds \/ Patch \/ Delete
  \/ IngestSkips \/ IngestStarts \/ IngestCommits \/ IngestGoesOn
  \/ SweepPosting \/ SweepTells \/ TimePasses
  \/ Opens \/ Subscribes \/ ReadsStatus

(* Jobs that run end, the sweep comes, the clock runs.  *)
Fair == WF_iVars(SweepPosting) /\ WF_iVars(SweepTells) /\ WF_iVars(TimePasses)
        /\ WF_iVars(IngestGoesOn)
Spec == Init /\ [][Next]_iVars /\ Fair

-----------------------------------------------------------------------------
TypeOK ==
  /\ posting \in [status : {"absent", "ingesting", "ready", "failed"},
                  error : BOOLEAN, deleted : BOOLEAN]
  /\ create \in {"open", "done", "failed"}
  /\ ingest \in [state : {"none", "queued", "running"}, try : 1..IngestTries]
  /\ reader \in {"off", "working", "telling", "telling_last"}
  /\ viewer \in {"off", "opened", "subscribed", "live", "told"}
  /\ {pOld, patched, pSweep, untold} \subseteq BOOLEAN

(* A posting that was read stays read: no retry, sweep or re-run of          *)
(* ingest_job turns "ready" into "failed", unless the publish that follows   *)
(* its commit fails on the last try.                                         *)
ReadyStays ==
  [][posting.status = "ready" /\ posting'.status # "ready"
      => reader = "telling" /\ ingest.try = IngestTries]_iVars

(* A browser that goes on listening to a finished posting is about to be     *)
(* told, unless its status was never published (job_events, ingest_job).     *)
ViewerWillKnow ==
  viewer = "live" /\ posting.status \in {"ready", "failed"} /\ ~untold
    => pSweep \/ reader \in {"telling", "telling_last"}

(* "nothing stays in an in-progress state forever" (worker/tasks/sweeper.py). *)
PostingSettles == posting.status = "ingesting" ~> posting.status # "ingesting"
=============================================================================
