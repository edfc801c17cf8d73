---------------------------- MODULE MatchScoring ----------------------------
(***************************************************************************)
(* The score of one posting for one person: the requests that ask for it    *)
(* (MatchService.get_or_create and recompute), score_match                  *)
(* (worker/tasks/matching.py) and the sweep.                                *)
(*                                                                         *)
(* score_match loads the match once and writes what differs from that copy. *)
(* Its job id makes the queue drop a second one while the first is queued   *)
(* or running, and the key of a job outlives its commit for a moment.       *)
(* What is scored (profile, posting, chunks) is a version number; the row's *)
(* inputs_hash is the version it was scored for, 0 for none.                *)
(***************************************************************************)
EXTENDS Naturals

CONSTANTS Asks,          \* requests in flight at once
          ScoreTries,    \* tries of a job
          MaxInputs,     \* bound: versions of the inputs
          MaxAsked       \* bound: requests made

ScoringAssumption ==
  ScoreTries \in Nat \ {0} /\ MaxInputs \in Nat \ {0} /\ MaxAsked \in Nat

VARIABLES
  match,     \* the row: status, error, hash
  mOld,      \* its updated_at is older than the sweep's cutoff
  inputs,    \* the present version of profile and posting
  listed,    \* the posting is visible, ready and not removed
  ask,       \* the requests
  asked,     \* how many there have been
  task,      \* the arq job score_match:{id}: state and try
  scorer,    \* the running job: place, its copy of the row, what it has read
  owed,      \* history: the inputs of the last recompute that was answered
  slips      \* history: what has gone wrong, of Slips

mVars == <<match, mOld, inputs, listed, ask, asked, task, scorer, owed, slips>>

(* A request committed after the job it relies on had started; a worker died *)
(* or a job timed out.                                                       *)
Slips == {"late", "unseen"}

Idle    == [at |-> "idle", kind |-> "create", status |-> "absent", error |-> "none",
            wants |-> 0, late |-> FALSE]
NoTask  == [state |-> "none", try |-> 1]
NoScore == [at |-> "off", status |-> "scoring", error |-> "none", hash |-> 0, sees |-> 0]

Init ==
  /\ match = [status |-> "absent", error |-> "none", hash |-> 0] /\ mOld = FALSE
  /\ inputs = 1 /\ listed = TRUE
  /\ ask = [q \in Asks |-> Idle] /\ asked = 0
  /\ task = NoTask /\ scorer = NoScore /\ owed = 0 /\ slips = {}

(* Another version of the profile, of the posting or of its chunks. *)
InputsChange ==
  /\ inputs < MaxInputs /\ inputs' = inputs + 1
  /\ UNCHANGED <<match, mOld, listed, ask, asked, task, scorer, owed, slips>>

PostingRemoved ==
  /\ listed /\ listed' = FALSE
  /\ UNCHANGED <<match, mOld, inputs, ask, asked, task, scorer, owed, slips>>

-----------------------------------------------------------------------------
(* Requests.                                                                *)

(* POST /matches and POST /matches/recompute: the posting, then the row.  A  *)
(* score that is ready answers the first at once.                            *)
Reads(q, kind) ==
  /\ ask[q].at = "idle" /\ asked < MaxAsked /\ listed
  /\ kind = "recompute" \/ match.status # "ready"
  /\ ask' = [ask EXCEPT ![q] = [Idle EXCEPT !.at = "read", !.kind = kind,
                                  !.status = match.status, !.error = match.error]]
  /\ asked' = asked + 1
  /\ UNCHANGED <<match, mOld, inputs, listed, task, scorer, owed, slips>>

(* The partial unique index: an insert waits for another's transaction, and  *)
(* fails once that has committed.                                            *)
Inserting == \E q \in Asks : ask[q].at = "queued" /\ ask[q].status = "absent"

InsertFails(q) ==
  /\ ask[q].at = "read" /\ ask[q].status = "absent" /\ match.status # "absent"
  /\ ask' = [ask EXCEPT ![q] = Idle]
  /\ UNCHANGED <<match, mOld, inputs, listed, asked, task, scorer, owed, slips>>

(* _enqueue_score: a job of that id, queued or running, makes it a no-op. *)
Enqueued == IF task.state = "none" THEN [NoTask EXCEPT !.state = "queued"] ELSE task

\* mutant: recompute leaves a score that is ready to get_or_create
SkipsReady(q) == ask[q].status = "ready"
Skips(q) == FALSE

Enqueues(q) ==
  /\ ask[q].at = "read"
  /\ ask[q].status = "absent" => match.status = "absent" /\ ~Inserting
  /\ task' = IF Skips(q) THEN task ELSE Enqueued
  /\ ask' = [ask EXCEPT ![q].at = "queued", ![q].wants = inputs,
                        ![q].late = task.state = "running"]
  /\ UNCHANGED <<match, mOld, inputs, listed, asked, scorer, owed, slips>>

(* What a request writes: an inserted row; "scoring" over "failed", with the *)
(* error cleared; and, for a recompute, over "ready".                        *)
Requested(q) ==
  CASE ask[q].status = "absent" -> [match EXCEPT !.status = "scoring"]
    [] ask[q].status = "failed" ->
         [match EXCEPT !.status = "scoring", !.error = IF ask[q].error = "none" THEN @ ELSE "none"]
    [] ask[q].status = "ready" -> IF Skips(q) THEN match ELSE [match EXCEPT !.status = "scoring"]
    [] ask[q].status = "scoring" -> match

Commits(q) ==
  /\ ask[q].at = "queued" /\ ask' = [ask EXCEPT ![q] = Idle]
  /\ match' = Requested(q) /\ mOld' = (mOld /\ match' = match)
  /\ owed' = IF ask[q].kind = "recompute" /\ ask[q].wants > owed THEN ask[q].wants ELSE owed
  /\ slips' = IF ask[q].late THEN slips \cup {"late"} ELSE slips
  /\ UNCHANGED <<inputs, listed, asked, task, scorer>>

RequestFails(q) ==
  /\ ask[q].at # "idle" /\ ask' = [ask EXCEPT ![q] = Idle]
  /\ UNCHANGED <<match, mOld, inputs, listed, asked, task, scorer, owed, slips>>

-----------------------------------------------------------------------------
(* score_match.                                                             *)

(* Requests that have not committed are late for a job that starts. *)
Overtaken == [q \in Asks |-> [ask[q] EXCEPT !.late = @ \/ ask[q].at = "queued"]]

(* "missing": the insert has not committed, or never will. *)
ScoreMisses ==
  /\ task.state = "queued" /\ match.status = "absent"
  /\ task' = NoTask /\ ask' = Overtaken
  /\ UNCHANGED <<match, mOld, inputs, listed, asked, scorer, owed, slips>>

ScoreStarts ==
  /\ task.state = "queued" /\ match.status # "absent"
  /\ task' = [task EXCEPT !.state = "running"] /\ ask' = Overtaken
  /\ scorer' = [at |-> "loaded", status |-> match.status, error |-> match.error,
                hash |-> match.hash, sees |-> 0]
  /\ UNCHANGED <<match, mOld, inputs, listed, asked, owed, slips>>

UpToDate == scorer.status = "ready" /\ scorer.hash = inputs

ScoreSkips ==
  /\ scorer.at = "loaded" /\ UpToDate
  /\ scorer' = [scorer EXCEPT !.at = "done"]
  /\ UNCHANGED <<match, mOld, inputs, listed, ask, asked, task, owed, slips>>

ScoreReads ==
  /\ scorer.at = "loaded" /\ ~UpToDate
  /\ scorer' = [scorer EXCEPT !.at = "scored", !.sees = inputs]
  /\ UNCHANGED <<match, mOld, inputs, listed, ask, asked, task, owed, slips>>

(* apply_score and the commit: the columns that differ from the copy. *)
ScoreCommits ==
  /\ scorer.at = "scored" /\ scorer' = [scorer EXCEPT !.at = "done"]
  /\ match' = [status |-> IF scorer.status = "ready" THEN match.status ELSE "ready",
               error  |-> IF scorer.error = "none" THEN match.error ELSE "none",
               hash   |-> IF scorer.hash = scorer.sees THEN match.hash ELSE scorer.sees]
  /\ mOld' = FALSE
  /\ UNCHANGED <<inputs, listed, ask, asked, task, owed, slips>>

Requeued == [state |-> "queued", try |-> task.try + 1]

(* Rolled back; a Retry, or "failed" on a row loaded again. *)
ScoreRetries ==
  /\ scorer.at \in {"loaded", "scored"} /\ task.try < ScoreTries
  /\ task' = Requeued /\ scorer' = NoScore
  /\ UNCHANGED <<match, mOld, inputs, listed, ask, asked, owed, slips>>

ScoreFails ==
  /\ scorer.at \in {"loaded", "scored"}
  /\ match' = [match EXCEPT !.status = "failed", !.error = "unscored"] /\ mOld' = FALSE
  /\ scorer' = [scorer EXCEPT !.at = "done"]
  /\ UNCHANGED <<inputs, listed, ask, asked, task, owed, slips>>

(* The job returns or raises, and the queue forgets its id. *)
ScoreEnds ==
  /\ scorer.at = "done" /\ scorer' = NoScore /\ task' = NoTask
  /\ UNCHANGED <<match, mOld, inputs, listed, ask, asked, owed, slips>>

ScoreDies ==
  /\ scorer.at # "off" /\ scorer' = NoScore
  /\ \/ task.try < ScoreTries /\ task' = Requeued
     \/ task' = NoTask
  /\ slips' = slips \cup {"unseen"}
  /\ UNCHANGED <<match, mOld, inputs, listed, ask, asked, owed>>

-----------------------------------------------------------------------------
Stuck == match.status = "scoring" /\ mOld

SweepMatch ==
  /\ Stuck /\ mOld' = FALSE
  /\ match' = [match EXCEPT !.status = "failed", !.error = "swept"]
  /\ UNCHANGED <<inputs, listed, ask, asked, task, scorer, owed, slips>>

TimePasses ==
  /\ match.status = "scoring" /\ ~mOld /\ mOld' = TRUE
  /\ UNCHANGED <<match, inputs, listed, ask, asked, task, scorer, owed, slips>>

-----------------------------------------------------------------------------
Next ==
  \/ InputsChange \/ PostingRemoved
  \/ \E q \in Asks :
       \/ \E kind \in {"create", "recompute"} : Reads(q, kind)
       \/ InsertFails(q) \/ Enqueues(q) \/ Commits(q) \/ RequestFails(q)
  \/ ScoreMisses \/ ScoreStarts \/ ScoreSkips \/ ScoreReads \/ ScoreCommits
  \/ ScoreRetries \/ ScoreFails \/ ScoreEnds \/ ScoreDies
  \/ SweepMatch \/ TimePasses

(* The sweep comes and the clock runs; nothing is assumed of the queue. *)
Fair == WF_mVars(SweepMatch) /\ WF_mVars(TimePasses)
Spec == Init /\ [][Next]_mVars /\ Fair

-----------------------------------------------------------------------------
Statuses == {"absent", "scoring", "ready", "failed"}
Errors   == {"none", "unscored", "swept"}

TypeOK ==
  /\ match \in [status : Statuses, error : Errors, hash : 0..MaxInputs]
  /\ {mOld, listed} \subseteq BOOLEAN /\ inputs \in 1..MaxInputs
  /\ ask \in [Asks -> [at : {"idle", "read", "queued"}, kind : {"create", "recompute"},
                       status : Statuses, error : Errors, wants : 0..MaxInputs,
                       late : BOOLEAN]]
  /\ asked \in 0..MaxAsked
  /\ task \in [state : {"none", "queued", "running"}, try : 1..ScoreTries]
  /\ scorer \in [at : {"off", "loaded", "scored", "done"}, status : Statuses,
                 error : Errors, hash : 0..MaxInputs, sees : 0..MaxInputs]
  /\ owed \in 0..MaxInputs /\ slips \subseteq Slips

Quiet == task.state = "none" /\ \A q \in Asks : ask[q].at # "queued"

(* A match that says "scoring" has a score to come, unless a worker was lost *)
(* or a request committed after the job it relies on had started             *)
(* (get_or_create, recompute and the job id, score_match's early return).    *)
ScoringHasAJob == match.status = "scoring" /\ Quiet => slips # {}

(* A recompute is answered for the profile and the posting as they were when *)
(* it was asked for: once all is quiet, a score that is ready is no older    *)
(* (recompute's flip to "scoring", inputs_hash, the queue's dedup), with the *)
(* same two exceptions.                                                      *)
ScoreIsAsAsked == match.status = "ready" /\ Quiet /\ slips = {} => match.hash >= owed

(* "nothing stays in an in-progress state forever" (worker/tasks/sweeper.py). *)
ScoringSettles == match.status = "scoring" ~> match.status # "scoring"
=============================================================================
