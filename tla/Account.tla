------------------------------ MODULE Account ------------------------------
(***************************************************************************)
(* What an account keeps outside the rows that cascade from `users', and    *)
(* its deletion, by the person or by the retention job                      *)
(* (domain/account/deletion.py, api/v1/account.py, worker/tasks/            *)
(* retention.py): the files of uploaded resumes (domain/resume/service.py,  *)
(* infra/storage), the checkpoints of agent runs (domain/agents/service.py, *)
(* worker/tasks/agent.py) and audit rows.  None of the three is in the      *)
(* transaction of the rows that name it.                                    *)
(*                                                                         *)
(* An insert of a row that refers to the user holds a lock on the user's    *)
(* row until its commit, and fails once the user is gone.                   *)
(***************************************************************************)
EXTENDS FiniteSets

CONSTANTS Uploads,   \* resumes: the request that uploads one, its row and file
          Runs,      \* agent runs of the person's chat session
          Traces,    \* requests that leave an audit row with an IP
          Deleters   \* "person", "retention": who deletes the account

VARIABLES
  user,      \* the account is there
  resume,    \* resumes: row (absent, live, deleted), the upload's and removal's place
  files,     \* the store
  run,       \* runs: job (new, on, off), whether a step row names the run
  latest,    \* ai_sessions.run_id
  saved,     \* runs with checkpoints
  trace,     \* audit rows: absent, flushed, personal, scrubbed
  del,       \* deleters: place, the CleanupPlan
  slips      \* history: of Slips

aVars == <<user, resume, files, run, latest, saved, trace, del, slips>>

(* An upload whose row never came to be; a run forgotten before a row of its *)
(* own was committed; requests or jobs that crossed the deletion; a cleanup  *)
(* that did not remove all it meant to; a removal undone after its file went.*)
Slips == {"orphan", "forgotten", "crossed", "uncleaned", "undone"}

NoRun == "none"

AccountAssumption == NoRun \notin Runs

Init ==
  /\ user = TRUE /\ files = {} /\ latest = NoRun /\ saved = {} /\ slips = {}
  /\ resume = [u \in Uploads |-> [row |-> "absent", upload |-> "new", removal |-> "new"]]
  /\ run = [r \in Runs |-> [job |-> "new", named |-> FALSE]]
  /\ trace = [t \in Traces |-> "absent"]
  /\ del = [d \in Deleters |-> [at |-> "off", refs |-> {}, runs |-> {}]]

Busy == \E d \in Deleters : del[d].at \notin {"off", "refused"}
Crossed(yes) == slips' = IF yes THEN slips \cup {"crossed"} ELSE slips

(* The DELETE of the user's row has run and is not committed. *)
Locked == \E d \in Deleters : del[d].at = "removed"

-----------------------------------------------------------------------------
(* Resumes.                                                                 *)

(* ResumeService.create: the file, then the row, then the commit. *)
UploadPuts(u) ==
  /\ user /\ resume[u].upload = "new"
  /\ files' = files \cup {u} /\ resume' = [resume EXCEPT ![u].upload = "put"]
  /\ UNCHANGED <<user, run, latest, saved, trace, del, slips>>

UploadInserts(u) ==
  /\ resume[u].upload = "put" /\ user /\ ~Locked
  /\ resume' = [resume EXCEPT ![u].upload = "inserted"]
  /\ UNCHANGED <<user, files, run, latest, saved, trace, del, slips>>

UploadCommits(u) ==
  /\ resume[u].upload = "inserted"
  /\ resume' = [resume EXCEPT ![u].upload = "end", ![u].row = "live"]
  /\ Crossed(Busy)
  /\ UNCHANGED <<user, files, run, latest, saved, trace, del>>

(* The insert, the enqueue, the audit row or the commit fails. *)
UploadFails(u) ==
  /\ resume[u].upload \in {"put", "inserted"}
  /\ resume' = [resume EXCEPT ![u].upload = "end"]
  /\ slips' = slips \cup (IF Busy THEN {"crossed"} ELSE {"orphan"})
  /\ UNCHANGED <<user, files, run, latest, saved, trace, del>>

(* ResumeService.delete: the file (or not), then the commit (or not). *)
RemovalFiles(u) ==
  /\ resume[u].row = "live" /\ resume[u].removal = "new"
  /\ resume' = [resume EXCEPT ![u].removal = "filed"]
  /\ \E gone \in {{}, {u}} : files' = files \ gone
  /\ UNCHANGED <<user, run, latest, saved, trace, del, slips>>

RemovalCommits(u) ==
  /\ resume[u].removal = "filed"
  /\ \/ resume[u].row = "live" /\ ~Locked /\ UNCHANGED slips
        /\ resume' = [resume EXCEPT ![u].row = "deleted", ![u].removal = "end"]
     \/ /\ resume' = [resume EXCEPT ![u].removal = "end"]
        /\ slips' = slips \cup {"undone"}
  /\ UNCHANGED <<user, files, run, latest, saved, trace, del>>

-----------------------------------------------------------------------------
(* Runs: the session names the latest; the steps and actions of a run name   *)
(* it once its job commits, its checkpoints are there from its first node.   *)

RunPosted(r) ==
  /\ user /\ ~Locked /\ run[r].job = "new"
  /\ latest # NoRun => run[latest].job = "off"
  /\ run' = [run EXCEPT ![r].job = "on"] /\ latest' = r
  /\ slips' = slips \cup
       (IF Busy THEN {"crossed"} ELSE {}) \cup
       (IF latest # NoRun /\ ~run[latest].named THEN {"forgotten"} ELSE {})
  /\ UNCHANGED <<user, resume, files, saved, trace, del>>

RunSaves(r) ==
  /\ run[r].job = "on" /\ saved' = saved \cup {r} /\ Crossed(Busy)
  /\ UNCHANGED <<user, resume, files, run, latest, trace, del>>

RunEnds(r) ==
  /\ run[r].job = "on" /\ user /\ ~Locked
  /\ run' = [run EXCEPT ![r] = [job |-> "off", named |-> TRUE]]
  /\ UNCHANGED <<user, resume, files, latest, saved, trace, del, slips>>

(* A dead worker, or rows that no longer have a user to refer to. *)
RunDies(r) ==
  /\ run[r].job = "on" /\ run' = [run EXCEPT ![r].job = "off"]
  /\ UNCHANGED <<user, resume, files, latest, saved, trace, del, slips>>

(* A sign-in: its refresh token refers to the user, its audit row does not.  *)
TraceFlushed(t) ==
  /\ trace[t] = "absent" /\ user /\ ~Locked /\ trace' = [trace EXCEPT ![t] = "flushed"]
  /\ UNCHANGED <<user, resume, files, run, latest, saved, del, slips>>

TraceCommits(t) ==
  /\ trace[t] = "flushed" /\ trace' = [trace EXCEPT ![t] = "personal"] /\ Crossed(Busy)
  /\ UNCHANGED <<user, resume, files, run, latest, saved, del>>

-----------------------------------------------------------------------------
(* Deleting the account.                                                    *)

Named == {r \in Runs : run[r].named} \cup ({latest} \ {NoRun})

FileRefs == {u \in Uploads : resume[u].row # "absent"}

(* _remove: the plan and the audit rows as they are, before the DELETE. *)
Plans(d) ==
  /\ del[d].at = "off" /\ user
  /\ del' = [del EXCEPT ![d] = [at |-> "planned", refs |-> FileRefs, runs |-> Named]]
  /\ trace' = [t \in Traces |-> IF trace[t] = "personal" THEN "scrubbed" ELSE trace[t]]
  /\ UNCHANGED <<user, resume, files, run, latest, saved, slips>>

(* The password is wrong, or a statement fails. *)
Refused(d) ==
  /\ del[d].at \in {"off", "planned", "removed"}
  /\ del' = [del EXCEPT ![d].at = "refused"]
  /\ UNCHANGED <<user, resume, files, run, latest, saved, trace, slips>>

(* It waits for those who refer to the user, and for another deletion. *)
Removes(d) ==
  /\ del[d].at = "planned" /\ ~Locked
  /\ \A u \in Uploads : resume[u].upload # "inserted"
  /\ \A t \in Traces : trace[t] # "flushed"
  /\ del' = [del EXCEPT ![d].at = "removed"]
  /\ UNCHANGED <<user, resume, files, run, latest, saved, trace, slips>>

DeletionCommits(d) ==
  /\ del[d].at = "removed" /\ del' = [del EXCEPT ![d].at = "committed"]
  /\ user' = FALSE /\ latest' = NoRun
  /\ resume' = [u \in Uploads |-> [resume[u] EXCEPT !.row = "absent"]]
  /\ run' = [r \in Runs |-> [run[r] EXCEPT !.named = FALSE]]
  /\ Crossed(\/ \E r \in Runs : run[r].job = "on"
             \/ \E u \in Uploads : resume[u].upload = "put")
  /\ UNCHANGED <<files, saved, trace>>

(* cleanup: the run state, then the files, each best effort. *)
\* mutant: files and run state go before the commit
CleansEarly(d) == del[d].at \in {"removed", "committed"}
Cleans(d) == del[d].at = "committed"

CleansRun(d, r) ==
  /\ Cleans(d) /\ r \in del[d].runs
  /\ del' = [del EXCEPT ![d].runs = @ \ {r}]
  /\ \/ saved' = saved \ {r} /\ UNCHANGED slips
     \/ slips' = slips \cup {"uncleaned"} /\ UNCHANGED saved
  /\ UNCHANGED <<user, resume, files, run, latest, trace>>

CleansFile(d, u) ==
  /\ Cleans(d) /\ del[d].runs = {} /\ u \in del[d].refs
  /\ del' = [del EXCEPT ![d].refs = @ \ {u}]
  /\ \/ files' = files \ {u} /\ UNCHANGED slips
     \/ slips' = slips \cup {"uncleaned"} /\ UNCHANGED files
  /\ UNCHANGED <<user, resume, run, latest, saved, trace>>

(* All is done; or the checkpointer cannot be reached, or the process dies.  *)
CleanupEnds(d) ==
  /\ del[d].at = "committed"
  /\ slips' = IF del[d].runs \cup del[d].refs = {} THEN slips ELSE slips \cup {"uncleaned"}
  /\ del' = [del EXCEPT ![d] = [at |-> "end", refs |-> {}, runs |-> {}]]
  /\ UNCHANGED <<user, resume, files, run, latest, saved, trace>>

-----------------------------------------------------------------------------
Next ==
  \/ \E u \in Uploads :
       \/ UploadPuts(u) \/ UploadInserts(u) \/ UploadCommits(u) \/ UploadFails(u)
       \/ RemovalFiles(u) \/ RemovalCommits(u)
  \/ \E r \in Runs : RunPosted(r) \/ RunSaves(r) \/ RunEnds(r) \/ RunDies(r)
  \/ \E t \in Traces : TraceFlushed(t) \/ TraceCommits(t)
  \/ \E d \in Deleters :
       \/ Plans(d) \/ Refused(d) \/ Removes(d) \/ DeletionCommits(d)
       \/ \E r \in Runs : CleansRun(d, r)
       \/ \E u \in Uploads : CleansFile(d, u)
       \/ CleanupEnds(d)

Spec == Init /\ [][Next]_aVars

-----------------------------------------------------------------------------
TypeOK ==
  /\ user \in BOOLEAN /\ files \subseteq Uploads /\ saved \subseteq Runs
  /\ resume \in [Uploads -> [row : {"absent", "live", "deleted"},
                             upload : {"new", "put", "inserted", "end"},
                             removal : {"new", "filed", "end"}]]
  /\ run \in [Runs -> [job : {"new", "on", "off"}, named : BOOLEAN]]
  /\ latest \in Runs \cup {NoRun}
  /\ trace \in [Traces -> {"absent", "flushed", "personal", "scrubbed"}]
  /\ del \in [Deleters -> [at : {"off", "refused", "planned", "removed", "committed", "end"},
                           refs : SUBSET Uploads, runs : SUBSET Runs]]
  /\ slips \subseteq Slips

(* "no file or checkpoint is removed for an account that turned out not to   *)
(* be deleted" (domain/account/deletion.py): whatever happens to a deletion,  *)
(* while the account is there only the person's own removals take a file.    *)
KeptUntilGone ==
  [][user' => /\ saved \subseteq saved'
              /\ \A u \in files \ files' : resume'[u].removal # "new"]_aVars

Remains == files # {} \/ saved # {} \/ \E t \in Traces : trace[t] = "personal"
Deleted == ~user /\ \A d \in Deleters : del[d].at \in {"off", "refused", "end"}

(* Once the account is deleted nothing is left of its files, its runs'       *)
(* checkpoints and the addresses in its audit rows, also of resumes it had   *)
(* removed and of runs before the last, unless one of the Slips happened.    *)
NothingNamedRemains == Deleted /\ slips \subseteq {"undone"} => ~Remains

(* "Delete an account so that nothing of the person remains"                 *)
(* (domain/account/deletion.py), when nothing ran beside the deletion and no *)
(* step of its cleanup failed.                                               *)
NothingRemains == Deleted /\ slips \cap {"crossed", "uncleaned"} = {} => ~Remains
=============================================================================
