------------------------ MODULE ResumePipelineProofs ------------------------
(***************************************************************************)
(* Proofs about ResumePipeline, for any number of extractions, tries and   *)
(* reprocess requests.                                                     *)
(***************************************************************************)
EXTENDS ResumePipeline, TLAPS

(* A job that runs is somewhere in its task, and the resume it has loaded   *)
(* is committed.                                                            *)
Running == \A j \in Jobs : /\ mem[j].at # "off" <=> job[j].state = "running"
                           /\ mem[j].at # "off" => row.status # "absent"

(* Until a reprocess request there is one job at a time, and a request in   *)
(* time commits the upload before it starts.                                *)
OneJob == reprocessed = 0 =>
  \A i, j \in Jobs : job[i].state # "none" /\ job[j].state # "none" => i = j
Uploading == req.at = "uploading" =>
  reprocessed = 0 /\ row.status = "absent" /\ job["parse"].state = "queued"
Reprocessing == req.at \in {"read", "flushed"} => reprocessed # 0

(* A job at work remembers the status it has committed. *)
Remembers == \A j \in Jobs : mem[j].at \in {"working", "read"} => mem[j].status = Working(j)

(* Until something is lost, a job finds the row at its own stage or finished, *)
(* and one that has only to publish finds it finished.                        *)
Sound == reprocessed = 0 /\ "unseen" \notin lost /\ "unqueued" \notin lost
Tracks == Sound => \A j \in Jobs :
  /\ job[j].state = "queued" \/ mem[j].at \in {"loaded", "working", "read", "giving_up"}
       => row.status \in Admits(j) \cup Terminal \cup {"absent"}
  /\ mem[j].at = "giving_up" /\ mem[j].status = "failed" => row.status \in Terminal
  /\ mem[j].at = "handing_over" => row.status \in {"parsed"} \cup Terminal
  /\ mem[j].at \in {"telling", "telling_last"} => row.status \in Terminal

Base == TypeOK /\ Running /\ WatcherWillKnow
Work == OneJob /\ Uploading /\ Reprocessing /\ Remembers /\ Tracks /\ WorkHasAJob

-----------------------------------------------------------------------------
(* The types, by name.                                                      *)
Statuses == InProgress \cup Terminal
RowSet   == [status : {"absent"} \cup Statuses, error : Errors, deleted : BOOLEAN]
ReqSet   == [at : {"idle", "uploading", "read", "flushed"}, status : Statuses,
             error : Errors]
JobSet   == [state : {"none", "queued", "running"}, try : 1..MaxTries]
Places   == {"off", "loaded", "working", "read", "handing_over", "telling",
             "giving_up", "telling_last"}
MemSet   == [at : Places, status : Statuses, error : Errors, wrote : BOOLEAN]
WatchSet == [at : {"off", "opened", "subscribed", "live", "told"},
             saw : {"absent"} \cup Statuses]

Types == /\ row \in RowSet /\ stale \in BOOLEAN
         /\ req \in ReqSet /\ reprocessed \in 0..MaxReprocess
         /\ job \in [Jobs -> JobSet] /\ mem \in [Jobs -> MemSet]
         /\ sweep \in BOOLEAN /\ watcher \in WatchSet /\ lost \subseteq Losses

LEMMA TypesAreTypes == TypeOK <=> Types
  BY DEF TypeOK, Types, Statuses, RowSet, ReqSet, JobSet, Places, MemSet, WatchSet

(* The values the actions write. *)
LEMMA Values ==
  /\ Idle \in ReqSet /\ Off \in MemSet /\ None \in JobSet /\ Queued \in JobSet
  /\ Idle.at = "idle" /\ Off.at = "off" /\ None.state = "none" /\ Queued.state = "queued"
  /\ "parse" \in Jobs /\ Extracts \subseteq Jobs
  /\ \A j \in Jobs : Working(j) \in InProgress /\ Working(j) \in Statuses /\ Message(j) \in Errors
                     /\ Admits(j) \subseteq Statuses
  BY BoundsAssumption
  DEF Idle, Off, None, Queued, Jobs, Working, Message, Admits, Statuses, InProgress,
      Terminal, Errors, ReqSet, MemSet, JobSet, Places

LEMMA Replace ==
  ASSUME NEW S, NEW T, NEW f \in [S -> T], NEW s \in S, NEW x \in T
  PROVE  [f EXCEPT ![s] = x] \in [S -> T]
  OBVIOUS

(* A save changes the status and the error of the row, or leaves them. *)
LEMMA WrittenRow ==
  ASSUME row \in RowSet, NEW c, NEW status \in Statuses, NEW error \in Errors
  PROVE  /\ Written(c, status, error) \in RowSet
         /\ Written(c, status, error).status = IF c.status = status THEN row.status ELSE status
  BY DEF Written, RowSet

LEMMA SavedMem ==
  ASSUME Types, NEW j \in Jobs, NEW status \in Statuses, NEW error \in Errors,
         NEW at \in Places, Saves(j, status, error, at)
  PROVE  /\ mem' \in [Jobs -> MemSet] /\ stale' \in BOOLEAN
         /\ mem'[j].at = at /\ mem'[j].status = status
         /\ \A i \in Jobs \ {j} : mem'[i] = mem[i]
         /\ UNCHANGED <<req, reprocessed, job, sweep, watcher, lost>>
  <1> DEFINE saved == [at |-> at, status |-> status, error |-> error,
                       wrote |-> mem[j].wrote \/ Differs(mem[j], status, error)]
  <1>1. mem' = [mem EXCEPT ![j] = saved]
    BY DEF Saves
  <1>2. mem[j].wrote \in BOOLEAN
    BY DEF Types, MemSet
  <1>3. saved \in MemSet
    BY <1>2 DEF MemSet, Differs
  <1>4. mem \in [Jobs -> MemSet] /\ saved.at = at /\ saved.status = status
    BY DEF Types
  <1> HIDE DEF saved
  <1>5. mem' \in [Jobs -> MemSet]
    BY <1>1, <1>3, <1>4, Replace
  <1>6. mem'[j] = saved /\ \A i \in Jobs \ {j} : mem'[i] = mem[i]
    BY <1>1, <1>4
  <1>7. stale' \in BOOLEAN /\ UNCHANGED <<req, reprocessed, job, sweep, watcher, lost>>
    BY DEF Saves
  <1>8. QED
    BY <1>4, <1>5, <1>6, <1>7

(* A job that ends. *)
LEMMA EndedJob ==
  ASSUME Types, NEW j \in Jobs, Ends(j)
  PROVE  /\ job' \in [Jobs -> JobSet] /\ mem' \in [Jobs -> MemSet]
         /\ job'[j] = None /\ mem'[j] = Off
         /\ \A i \in Jobs \ {j} : job'[i] = job[i] /\ mem'[i] = mem[i]
  BY Values, Replace DEF Ends, Types

(* A try that is given back to the queue. *)
LEMMA NextTry ==
  ASSUME Types, NEW j \in Jobs, job[j].try < MaxTries
  PROVE  [state |-> "queued", try |-> job[j].try + 1] \in JobSet
  BY BoundsAssumption DEF Types, JobSet

(* The steps of a job as seen from its place: a save, a start, an exception, *)
(* a death, and the end of a parse that hands its resume over.               *)
JobSaves(j) == \/ JobBegins(j) \/ JobGivesUp(j)
               \/ j = "parse" /\ (ParseRefuses \/ ParseCommits)
               \/ j \in Extracts /\ ExtractCommits(j)

SavesFrom(j, from, status, at) ==
  \/ from = "loaded" /\ status = Working(j) /\ at = "working"
  \/ from = "giving_up" /\ status = "failed" /\ at = "telling_last"
  \/ j = "parse" /\ from = "read" /\ status = "failed" /\ at = "telling"
  \/ j = "parse" /\ from = "read" /\ status = "parsed" /\ at = "handing_over"
  \/ j \in Extracts /\ from = "working" /\ status = "extracted" /\ at = "telling"

OthersRest(j) == \A i \in Jobs \ {j} : job'[i] = job[i] /\ mem'[i] = mem[i]

LEMMA Saving ==
  ASSUME Types, NEW j \in Jobs, JobSaves(j)
  PROVE  /\ \E status \in Statuses, at \in Places :
              /\ SavesFrom(j, mem[j].at, status, at)
              /\ mem'[j].at = at /\ mem'[j].status = status
              /\ row'.status = IF mem[j].status = status THEN row.status ELSE status
         /\ row' \in RowSet /\ stale' \in BOOLEAN /\ mem' \in [Jobs -> MemSet]
         /\ OthersRest(j)
         /\ UNCHANGED <<req, reprocessed, job, sweep, watcher, lost>>
  <1>1. PICK status \in Statuses, error \in Errors, at \in Places :
          /\ SavesFrom(j, mem[j].at, status, at)
          /\ Saves(j, status, error, at) /\ row' = Written(mem[j], status, error)
    <2>1. mem[j].error \in Errors
      BY DEF Types, MemSet
    <2>2. CASE JobBegins(j)
      BY <2>1, <2>2, Values DEF JobBegins, SavesFrom, Places
    <2>3. CASE JobGivesUp(j)
      BY <2>3, Values DEF JobGivesUp, SavesFrom, Places, Statuses, Terminal
    <2>4. CASE j = "parse" /\ ParseRefuses
      BY <2>4 DEF ParseRefuses, SavesFrom, Places, Statuses, Terminal, Errors
    <2>5. CASE j = "parse" /\ ParseCommits
      BY <2>1, <2>5 DEF ParseCommits, SavesFrom, Places, Statuses, InProgress
    <2>6. CASE j \in Extracts /\ ExtractCommits(j)
      BY <2>1, <2>6 DEF ExtractCommits, SavesFrom, Places, Statuses, Terminal
    <2>7. QED
      BY <2>2, <2>3, <2>4, <2>5, <2>6 DEF JobSaves
  <1>2. row' \in RowSet /\ row'.status = IF mem[j].status = status THEN row.status ELSE status
    BY <1>1, WrittenRow DEF Types
  <1>3. QED
    BY <1>1, <1>2, SavedMem DEF OthersRest

LEMMA Starting ==
  ASSUME Types, NEW j \in Jobs, JobStarts(j)
  PROVE  /\ job[j].state = "queued" /\ Due(j) /\ row.status \in Admits(j)
         /\ job' \in [Jobs -> JobSet] /\ mem' \in [Jobs -> MemSet]
         /\ job'[j].state = "running" /\ mem'[j].at = "loaded" /\ OthersRest(j)
         /\ UNCHANGED <<row, stale, req, reprocessed, sweep, watcher, lost>>
  <1>1. job' \in [Jobs -> JobSet] /\ job'[j].state = "running"
    BY DEF JobStarts, Types, JobSet
  <1>2. [at |-> "loaded", status |-> row.status, error |-> row.error, wrote |-> FALSE]
          \in MemSet
    BY Values DEF JobStarts, Types, RowSet, MemSet, Places
  <1>3. mem' \in [Jobs -> MemSet] /\ mem'[j].at = "loaded"
    BY <1>2, Replace DEF JobStarts, Types
  <1>4. QED
    BY <1>1, <1>3 DEF JobStarts, Types, OthersRest

LEMMA Raising ==
  ASSUME Types, Running, NEW j \in Jobs, JobRaises(j)
  PROVE  /\ mem[j].at \in {"loaded", "working", "read", "handing_over", "telling"}
         /\ job' \in [Jobs -> JobSet] /\ mem' \in [Jobs -> MemSet] /\ OthersRest(j)
         /\ \/ job'[j].state = "queued" /\ mem'[j].at = "off"
            \/ job' = job /\ mem'[j].at = "giving_up" /\ mem'[j].status = row.status
         /\ lost' = lost \cup (IF mem[j].at = "telling" THEN {"untold"} ELSE {})
                         \cup (IF mem[j].at = "handing_over" THEN {"unqueued"} ELSE {})
         /\ UNCHANGED <<row, stale, req, reprocessed, sweep, watcher>>
  <1> DEFINE again == [state |-> "queued", try |-> job[j].try + 1]
             up == [at |-> "giving_up", status |-> row.status, error |-> row.error,
                    wrote |-> mem[j].wrote]
  <1>1. CASE job[j].try < MaxTries /\ job' = [job EXCEPT ![j] = again]
               /\ mem' = [mem EXCEPT ![j] = Off]
    <2>1. again \in JobSet /\ again.state = "queued"
      BY <1>1, NextTry
    <2> HIDE DEF again
    <2>2. QED
      BY <1>1, <2>1, Values, Replace DEF JobRaises, Types, OthersRest
  <1>2. CASE mem' = [mem EXCEPT ![j] = up] /\ job' = job
    <2>1. row.status \in Statuses /\ row.error \in Errors /\ mem[j].wrote \in BOOLEAN
      BY DEF JobRaises, Running, Types, RowSet, MemSet
    <2>2. up \in MemSet /\ up.at = "giving_up" /\ up.status = row.status
      BY <2>1 DEF MemSet, Places
    <2> HIDE DEF up
    <2>3. QED
      BY <1>2, <2>2, Replace DEF JobRaises, Types, OthersRest
  <1>3. QED
    BY <1>1, <1>2 DEF JobRaises

LEMMA Dying ==
  ASSUME Types, NEW j \in Jobs, JobDies(j)
  PROVE  /\ mem[j].at # "off" /\ mem'[j].at = "off" /\ job'[j].state \in {"queued", "none"}
         /\ job' \in [Jobs -> JobSet] /\ mem' \in [Jobs -> MemSet] /\ OthersRest(j)
         /\ "unseen" \in lost'
         /\ lost' \subseteq Losses /\ lost \subseteq lost'
         /\ mem[j].at \in {"telling", "telling_last"} => "untold" \in lost'
         /\ UNCHANGED <<row, stale, req, reprocessed, sweep, watcher>>
  <1>1. mem' \in [Jobs -> MemSet] /\ mem'[j].at = "off"
    BY Values, Replace DEF JobDies, Types
  <1>2. job' \in [Jobs -> JobSet] /\ job'[j].state \in {"queued", "none"}
    BY Values, NextTry, Replace DEF JobDies, Types
  <1>3. OthersRest(j)
    BY DEF JobDies, Types, OthersRest
  <1>4. QED
    BY <1>1, <1>2, <1>3 DEF JobDies, Types, Losses

LEMMA Reading ==
  ASSUME Types, ParseFile
  PROVE  /\ mem["parse"].at = "working" /\ mem' \in [Jobs -> MemSet]
         /\ mem'["parse"].at = "read" /\ mem'["parse"].status = mem["parse"].status
         /\ \A i \in Jobs \ {"parse"} : mem'[i] = mem[i]
         /\ UNCHANGED <<row, stale, req, reprocessed, job, sweep, watcher, lost>>
  BY Values DEF ParseFile, Types, MemSet, Places

LEMMA HandingOver ==
  ASSUME Types, NEW e \in Extracts, ParseHandsOver(e)
  PROVE  /\ mem["parse"].at = "handing_over" /\ job[e].state = "none" /\ e \in Jobs
         /\ job' \in [Jobs -> JobSet] /\ mem' \in [Jobs -> MemSet]
         /\ job'["parse"].state = "none" /\ job'[e].state = "queued"
         /\ mem'["parse"].at = "off" /\ mem'[e] = mem[e] /\ e # "parse"
         /\ \A i \in Jobs \ {"parse", e} : job'[i] = job[i] /\ mem'[i] = mem[i]
         /\ UNCHANGED <<row, stale, req, reprocessed, sweep, watcher, lost>>
  <1>1. "parse" \in Jobs /\ e \in Jobs /\ e # "parse"
    BY Values, ExtractsAssumption
  <1>2. job' = [[job EXCEPT !["parse"] = None] EXCEPT ![e] = Queued]
    BY DEF ParseHandsOver
  <1>3. job' \in [Jobs -> JobSet] /\ mem' \in [Jobs -> MemSet]
    BY <1>1, <1>2, Values, Replace DEF ParseHandsOver, Types
  <1>4. QED
    BY <1>1, <1>2, <1>3, Values DEF ParseHandsOver, Types

LEMMA WatcherPublished ==
  ASSUME watcher \in WatchSet, Published
  PROVE  watcher' \in WatchSet /\ watcher'.at # "live" /\ watcher'.at # "subscribed"
  BY DEF WatchSet, Published

(* What the requests and the sweep do to the row. *)
LEMMA Uploaded ==
  ASSUME Types, UploadCommit
  PROVE  /\ req.at = "uploading" /\ req' = Idle /\ row' \in RowSet /\ row'.status = "uploaded"
         /\ stale' \in BOOLEAN /\ UNCHANGED <<reprocessed, job, mem, sweep, watcher, lost>>
  BY DEF UploadCommit, Types, RowSet, Statuses, InProgress

LEMMA Recommitting ==
  ASSUME Types, ReprocessCommit
  PROVE  /\ req.at = "flushed" /\ req' = Idle /\ row' \in RowSet /\ stale' \in BOOLEAN
         /\ row'.status = row.status \/ row'.status = "uploaded"
         /\ UNCHANGED <<reprocessed, job, mem, sweep, watcher, lost>>
  <1>1. "uploaded" \in Statuses /\ "none" \in Errors
    BY DEF Statuses, InProgress, Errors
  <1>2. QED
    BY <1>1, WrittenRow DEF ReprocessCommit, Types

LEMMA Deleting ==
  ASSUME Types, Delete
  PROVE  /\ row' \in RowSet /\ row'.status = row.status /\ row.status # "absent"
         /\ stale' \in BOOLEAN /\ UNCHANGED <<req, reprocessed, job, mem, sweep, watcher, lost>>
  BY DEF Delete, Types, RowSet

LEMMA Sweeping ==
  ASSUME Types, SweepResume
  PROVE  /\ row' \in RowSet /\ row'.status = "failed" /\ row.status \in InProgress
         /\ stale' \in BOOLEAN /\ sweep'
         /\ UNCHANGED <<req, reprocessed, job, mem, watcher, lost>>
  BY DEF SweepResume, Swept, Types, RowSet, Statuses, Terminal, Errors

(* Every step keeps the variables in their types. *)
LEMMA TypeStep ==
  ASSUME Types, Running, [Next]_vars
  PROVE  Types'
  <1> USE DEF Types
  <1>1. CASE TimePasses \/ UNCHANGED vars
    BY <1>1 DEF TimePasses, vars
  <1>2. ASSUME NEW j \in Jobs, JobSaves(j) PROVE Types'
    BY <1>2, Saving
  <1>3. ASSUME NEW j \in Jobs, JobSkips(j) PROVE Types'
    BY <1>3, EndedJob, Values DEF JobSkips
  <1>4. ASSUME NEW j \in Jobs, JobStarts(j) PROVE Types'
    BY <1>4, Starting
  <1>5. ASSUME NEW j \in Jobs, JobTells(j) PROVE Types'
    BY <1>5, EndedJob, Values, WatcherPublished DEF JobTells
  <1>6. ASSUME NEW j \in Jobs, JobRaises(j) PROVE Types'
    BY <1>6, Raising DEF Losses
  <1>7. ASSUME NEW j \in Jobs, JobTellsLast(j) PROVE Types'
    BY <1>7, EndedJob, Values, WatcherPublished DEF JobTellsLast, BestEffort,
       Losses
  <1>8. ASSUME NEW j \in Jobs, JobDies(j) PROVE Types'
    BY <1>8, Dying
  <1>9. ASSUME ParseFile PROVE Types'
    BY <1>9, Reading
  <1>10. ASSUME NEW e \in Extracts, ParseHandsOver(e) PROVE Types'
    BY <1>10, HandingOver
  <1>11. ASSUME UploadCommit PROVE Types'
    BY <1>11, Uploaded, Values
  <1>12. ASSUME RequestFails PROVE Types'
    BY <1>12, Values DEF RequestFails
  <1>13. ASSUME ReprocessRead PROVE Types'
    <2>1. row.status \in Statuses
      BY <1>13 DEF ReprocessRead, RowSet
    <2>2. QED
      BY <1>13, <2>1, BoundsAssumption DEF ReprocessRead, RowSet, ReqSet
  <1>14. ASSUME ReprocessWrite PROVE Types'
    <2>1. req' \in ReqSet
      BY <1>14 DEF ReprocessWrite, ReqSet
    <2>2. job' \in [Jobs -> JobSet]
      BY <1>14, Values, Replace DEF ReprocessWrite
    <2>3. QED
      BY <1>14, <2>1, <2>2 DEF ReprocessWrite
  <1>15. ASSUME ReprocessCommit PROVE Types'
    BY <1>15, Recommitting, Values
  <1>16. ASSUME Delete PROVE Types'
    BY <1>16, Deleting
  <1>17. ASSUME SweepResume PROVE Types'
    BY <1>17, Sweeping
  <1>18. ASSUME SweepTells PROVE Types'
    BY <1>18, WatcherPublished DEF SweepTells, BestEffort, Losses
  <1>19. ASSUME Opens PROVE Types'
    BY <1>19 DEF Opens, RowSet, WatchSet
  <1>20. ASSUME Subscribes PROVE Types'
    BY <1>20 DEF Subscribes, WatchSet
  <1>21. ASSUME ReadsStatus PROVE Types'
    BY <1>21 DEF ReadsStatus, Current, RowSet, WatchSet
  <1>22. QED
    BY <1>1, <1>2, <1>3, <1>4, <1>5, <1>6, <1>7, <1>8, <1>9, <1>10, <1>11,
       <1>12, <1>13, <1>14, <1>15, <1>16, <1>17, <1>18, <1>19, <1>20, <1>21,
       Values DEF Next, JobGoesOn, JobSaves

(* Jobs take and leave their places with their state. *)
LEMMA RunningStep ==
  ASSUME Types, Running, [Next]_vars
  PROVE  Running'
  <1> USE DEF Types, Running, OthersRest
  <1>1. CASE RequestFails \/ ReprocessRead \/ SweepTells \/ TimePasses \/
             Opens \/ Subscribes \/ ReadsStatus \/ UNCHANGED vars
    BY <1>1 DEF RequestFails, ReprocessRead, SweepTells, BestEffort,
       TimePasses, Opens, Subscribes, WatchSet, ReadsStatus, Current, vars
  <1>2. ASSUME NEW j \in Jobs, JobSaves(j) PROVE Running'
    <2>1. PICK status \in Statuses, at \in Places :
            /\ SavesFrom(j, mem[j].at, status, at) /\ mem'[j].at = at
            /\ row'.status = IF mem[j].status = status THEN row.status ELSE status
      BY <1>2, Saving
    <2>2. mem[j].at # "off" /\ at # "off"
      BY <2>1 DEF SavesFrom
    <2>3. row'.status # "absent"
      BY <2>1, <2>2 DEF Statuses, InProgress, Terminal
    <2>4. QED
      BY <1>2, <2>1, <2>2, <2>3, Saving
  <1>3. ASSUME NEW j \in Jobs, JobSkips(j) PROVE Running'
    BY <1>3, EndedJob, Values DEF JobSkips
  <1>4. ASSUME NEW j \in Jobs, JobStarts(j) PROVE Running'
    BY <1>4, Starting, Values DEF Statuses, InProgress, Terminal
  <1>5. ASSUME NEW j \in Jobs, JobTells(j) PROVE Running'
    BY <1>5, EndedJob, Values, WatcherPublished DEF JobTells
  <1>6. ASSUME NEW j \in Jobs, JobRaises(j) PROVE Running'
    BY <1>6, Raising
  <1>7. ASSUME NEW j \in Jobs, JobTellsLast(j) PROVE Running'
    BY <1>7, EndedJob, Values, WatcherPublished DEF JobTellsLast, BestEffort
  <1>8. ASSUME NEW j \in Jobs, JobDies(j) PROVE Running'
    BY <1>8, Dying
  <1>9. ASSUME ParseFile PROVE Running'
    BY <1>9, Reading
  <1>10. ASSUME NEW e \in Extracts, ParseHandsOver(e) PROVE Running'
    BY <1>10, HandingOver
  <1>11. ASSUME UploadCommit PROVE Running'
    BY <1>11, Uploaded, Values
  <1>12. ASSUME ReprocessWrite PROVE Running'
    BY <1>12, Values DEF ReprocessWrite, ReqSet
  <1>13. ASSUME ReprocessCommit PROVE Running'
    BY <1>13, Recommitting, Values
  <1>14. ASSUME Delete PROVE Running'
    BY <1>14, Deleting
  <1>15. ASSUME SweepResume PROVE Running'
    BY <1>15, Sweeping
  <1>16. QED
    BY <1>1, <1>2, <1>3, <1>4, <1>5, <1>6, <1>7, <1>8, <1>9, <1>10, <1>11,
       <1>12, <1>13, <1>14, <1>15, Values DEF Next, JobGoesOn, JobSaves

(* Who makes a resume final also publishes it. *)
LEMMA WatcherStep ==
  ASSUME Types, Running, WatcherWillKnow, [Next]_vars
  PROVE  WatcherWillKnow'
  <1> USE DEF Types, Running, WatcherWillKnow, OthersRest
  <1>1. CASE RequestFails \/ ReprocessRead \/ ReprocessWrite \/ TimePasses \/
             Opens \/ UNCHANGED vars
    BY <1>1 DEF RequestFails, ReprocessRead, ReprocessWrite, ReqSet,
       TimePasses, Opens, vars
  <1>2. ASSUME NEW j \in Jobs, JobSaves(j) PROVE WatcherWillKnow'
    BY <1>2, Saving, Values DEF SavesFrom, InProgress, Terminal
  <1>3. ASSUME NEW j \in Jobs, JobSkips(j) PROVE WatcherWillKnow'
    BY <1>3, EndedJob, Values DEF JobSkips
  <1>4. ASSUME NEW j \in Jobs, JobStarts(j) PROVE WatcherWillKnow'
    BY <1>4, Starting
  <1>5. ASSUME NEW j \in Jobs, JobTells(j) PROVE WatcherWillKnow'
    BY <1>5, EndedJob, Values, WatcherPublished DEF JobTells
  <1>6. ASSUME NEW j \in Jobs, JobRaises(j) PROVE WatcherWillKnow'
    BY <1>6, Raising
  <1>7. ASSUME NEW j \in Jobs, JobTellsLast(j) PROVE WatcherWillKnow'
    BY <1>7, EndedJob, Values, WatcherPublished DEF JobTellsLast, BestEffort
  <1>8. ASSUME NEW j \in Jobs, JobDies(j) PROVE WatcherWillKnow'
    BY <1>8, Dying
  <1>9. ASSUME ParseFile PROVE WatcherWillKnow'
    BY <1>9, Reading
  <1>10. ASSUME NEW e \in Extracts, ParseHandsOver(e) PROVE WatcherWillKnow'
    BY <1>10, HandingOver
  <1>11. ASSUME UploadCommit PROVE WatcherWillKnow'
    BY <1>11, Uploaded, Values DEF Terminal
  <1>12. ASSUME ReprocessCommit PROVE WatcherWillKnow'
    BY <1>12, Recommitting, Values DEF Terminal
  <1>13. ASSUME Delete PROVE WatcherWillKnow'
    BY <1>13, Deleting
  <1>14. ASSUME SweepResume PROVE WatcherWillKnow'
    BY <1>14, Sweeping
  <1>15. ASSUME SweepTells PROVE WatcherWillKnow'
    BY <1>15, WatcherPublished DEF SweepTells, BestEffort
  <1>16. ASSUME Subscribes PROVE WatcherWillKnow'
    BY <1>16 DEF Subscribes, WatchSet
  <1>17. ASSUME ReadsStatus PROVE WatcherWillKnow'
    BY <1>17 DEF ReadsStatus, Current
  <1>18. QED
    BY <1>1, <1>2, <1>3, <1>4, <1>5, <1>6, <1>7, <1>8, <1>9, <1>10, <1>11,
       <1>12, <1>13, <1>14, <1>15, <1>16, <1>17, Values DEF Next, JobGoesOn,
       JobSaves

(* Only a parse queues another job, and ends. *)
LEMMA OneJobStep ==
  ASSUME Types, Running, Reprocessing, OneJob, [Next]_vars
  PROVE  OneJob'
  <1> USE DEF Types, Running, Reprocessing, OneJob, OthersRest
  <1>1. CASE UploadCommit \/ RequestFails \/ ReprocessRead \/ ReprocessCommit
             \/ Delete \/ SweepResume \/ SweepTells \/ TimePasses \/ Opens \/
             Subscribes \/ ReadsStatus \/ UNCHANGED vars
    BY <1>1, Uploaded, Recommitting, Deleting, Sweeping DEF RequestFails,
       ReprocessRead, SweepTells, BestEffort, TimePasses, Opens, Subscribes,
       WatchSet, ReadsStatus, Current, vars
  <1>2. ASSUME NEW j \in Jobs, JobSaves(j) PROVE OneJob'
    BY <1>2, Saving
  <1>3. ASSUME NEW j \in Jobs, JobSkips(j) PROVE OneJob'
    BY <1>3, EndedJob, Values DEF JobSkips
  <1>4. ASSUME NEW j \in Jobs, JobStarts(j) PROVE OneJob'
    BY <1>4, Starting
  <1>5. ASSUME NEW j \in Jobs, JobTells(j) PROVE OneJob'
    BY <1>5, EndedJob, Values, WatcherPublished DEF JobTells
  <1>6. ASSUME NEW j \in Jobs, JobRaises(j) PROVE OneJob'
    BY <1>6, Raising
  <1>7. ASSUME NEW j \in Jobs, JobTellsLast(j) PROVE OneJob'
    BY <1>7, EndedJob, Values, WatcherPublished DEF JobTellsLast, BestEffort
  <1>8. ASSUME NEW j \in Jobs, JobDies(j) PROVE OneJob'
    BY <1>8, Dying
  <1>9. ASSUME ParseFile PROVE OneJob'
    BY <1>9, Reading
  <1>10. ASSUME NEW e \in Extracts, ParseHandsOver(e) PROVE OneJob'
    BY <1>10, HandingOver
  <1>11. ASSUME ReprocessWrite PROVE OneJob'
    BY <1>11, Values DEF ReprocessWrite, ReqSet
  <1>12. QED
    BY <1>1, <1>2, <1>3, <1>4, <1>5, <1>6, <1>7, <1>8, <1>9, <1>10, <1>11,
       Values DEF Next, JobGoesOn, JobSaves

(* The first job waits for the upload. *)
LEMMA UploadingStep ==
  ASSUME CommitsInTime, Types, Running, Uploading, [Next]_vars
  PROVE  Uploading'
  <1> USE DEF Types, Running, Uploading, OthersRest
  <1>1. CASE RequestFails \/ ReprocessRead \/ SweepTells \/ TimePasses \/
             Opens \/ Subscribes \/ ReadsStatus \/ UNCHANGED vars
    BY <1>1, Values DEF RequestFails, ReprocessRead, SweepTells, BestEffort,
       TimePasses, Opens, Subscribes, WatchSet, ReadsStatus, Current, vars
  <1>2. ASSUME NEW j \in Jobs, JobSaves(j) PROVE Uploading'
    BY <1>2, Saving DEF SavesFrom
  <1>3. ASSUME NEW j \in Jobs, JobSkips(j) PROVE Uploading'
    BY <1>3, EndedJob, Values DEF JobSkips, Due
  <1>4. ASSUME NEW j \in Jobs, JobStarts(j) PROVE Uploading'
    BY <1>4, Starting, Values DEF Due, Statuses, InProgress, Terminal
  <1>5. ASSUME NEW j \in Jobs, JobTells(j) PROVE Uploading'
    BY <1>5, EndedJob, Values, WatcherPublished DEF JobTells
  <1>6. ASSUME NEW j \in Jobs, JobRaises(j) PROVE Uploading'
    BY <1>6, Raising
  <1>7. ASSUME NEW j \in Jobs, JobTellsLast(j) PROVE Uploading'
    BY <1>7, EndedJob, Values, WatcherPublished DEF JobTellsLast, BestEffort
  <1>8. ASSUME NEW j \in Jobs, JobDies(j) PROVE Uploading'
    BY <1>8, Dying
  <1>9. ASSUME ParseFile PROVE Uploading'
    BY <1>9, Reading
  <1>10. ASSUME NEW e \in Extracts, ParseHandsOver(e) PROVE Uploading'
    BY <1>10, HandingOver
  <1>11. ASSUME UploadCommit PROVE Uploading'
    BY <1>11, Uploaded, Values
  <1>12. ASSUME ReprocessWrite PROVE Uploading'
    BY <1>12, Values DEF ReprocessWrite, ReqSet
  <1>13. ASSUME ReprocessCommit PROVE Uploading'
    BY <1>13, Recommitting, Values
  <1>14. ASSUME Delete PROVE Uploading'
    BY <1>14, Deleting
  <1>15. ASSUME SweepResume PROVE Uploading'
    BY <1>15, Sweeping DEF InProgress
  <1>16. QED
    BY <1>1, <1>2, <1>3, <1>4, <1>5, <1>6, <1>7, <1>8, <1>9, <1>10, <1>11,
       <1>12, <1>13, <1>14, <1>15, Values DEF Next, JobGoesOn, JobSaves

(* A reprocess request is counted when it reads. *)
LEMMA ReprocessingStep ==
  ASSUME Types, Reprocessing, [Next]_vars
  PROVE  Reprocessing'
  <1> USE DEF Types, Reprocessing
  <1>1. CASE UploadCommit \/ RequestFails \/ ReprocessRead \/ ReprocessWrite
             \/ ReprocessCommit \/ Delete \/ SweepResume \/ SweepTells \/
             TimePasses \/ Opens \/ Subscribes \/ ReadsStatus \/ UNCHANGED
             vars
    BY <1>1, Values, Uploaded, Recommitting, Deleting, Sweeping DEF
       RequestFails, ReprocessRead, ReprocessWrite, ReqSet, SweepTells,
       BestEffort, TimePasses, Opens, Subscribes, WatchSet, ReadsStatus,
       Current, vars
  <1>2. ASSUME NEW j \in Jobs, JobSaves(j) PROVE Reprocessing'
    BY <1>2, Saving
  <1>3. ASSUME NEW j \in Jobs, JobSkips(j) PROVE Reprocessing'
    BY <1>3, EndedJob, Values DEF JobSkips
  <1>4. ASSUME NEW j \in Jobs, JobStarts(j) PROVE Reprocessing'
    BY <1>4, Starting
  <1>5. ASSUME NEW j \in Jobs, JobTells(j) PROVE Reprocessing'
    BY <1>5, EndedJob, Values, WatcherPublished DEF JobTells
  <1>6. ASSUME NEW j \in Jobs, JobRaises(j) PROVE Reprocessing'
    BY <1>6, Raising DEF JobRaises
  <1>7. ASSUME NEW j \in Jobs, JobTellsLast(j) PROVE Reprocessing'
    BY <1>7, EndedJob, Values, WatcherPublished DEF JobTellsLast, BestEffort
  <1>8. ASSUME NEW j \in Jobs, JobDies(j) PROVE Reprocessing'
    BY <1>8, Dying
  <1>9. ASSUME ParseFile PROVE Reprocessing'
    BY <1>9, Reading
  <1>10. ASSUME NEW e \in Extracts, ParseHandsOver(e) PROVE Reprocessing'
    BY <1>10, HandingOver
  <1>11. QED
    BY <1>1, <1>2, <1>3, <1>4, <1>5, <1>6, <1>7, <1>8, <1>9, <1>10, Values DEF
       Next, JobGoesOn, JobSaves

(* A job writes what it then remembers. *)
LEMMA RemembersStep ==
  ASSUME Types, Running, Remembers, [Next]_vars
  PROVE  Remembers'
  <1> USE DEF Types, Running, Remembers, OthersRest
  <1>1. CASE UploadCommit \/ RequestFails \/ ReprocessRead \/ ReprocessWrite
             \/ ReprocessCommit \/ Delete \/ SweepResume \/ SweepTells \/
             TimePasses \/ Opens \/ Subscribes \/ ReadsStatus \/ UNCHANGED
             vars
    BY <1>1, Uploaded, Recommitting, Deleting, Sweeping DEF RequestFails,
       ReprocessRead, ReprocessWrite, ReqSet, SweepTells, BestEffort,
       TimePasses, Opens, Subscribes, WatchSet, ReadsStatus, Current, vars
  <1>2. ASSUME NEW j \in Jobs, JobSaves(j) PROVE Remembers'
    BY <1>2, Saving DEF SavesFrom
  <1>3. ASSUME NEW j \in Jobs, JobSkips(j) PROVE Remembers'
    BY <1>3, EndedJob, Values DEF JobSkips
  <1>4. ASSUME NEW j \in Jobs, JobStarts(j) PROVE Remembers'
    BY <1>4, Starting
  <1>5. ASSUME NEW j \in Jobs, JobTells(j) PROVE Remembers'
    BY <1>5, EndedJob, Values, WatcherPublished DEF JobTells
  <1>6. ASSUME NEW j \in Jobs, JobRaises(j) PROVE Remembers'
    BY <1>6, Raising
  <1>7. ASSUME NEW j \in Jobs, JobTellsLast(j) PROVE Remembers'
    BY <1>7, EndedJob, Values, WatcherPublished DEF JobTellsLast, BestEffort
  <1>8. ASSUME NEW j \in Jobs, JobDies(j) PROVE Remembers'
    BY <1>8, Dying
  <1>9. ASSUME ParseFile PROVE Remembers'
    BY <1>9, Reading
  <1>10. ASSUME NEW e \in Extracts, ParseHandsOver(e) PROVE Remembers'
    BY <1>10, HandingOver
  <1>11. QED
    BY <1>1, <1>2, <1>3, <1>4, <1>5, <1>6, <1>7, <1>8, <1>9, <1>10, Values DEF
       Next, JobGoesOn, JobSaves

(* A job and the row stay in step. *)
LEMMA TracksStep ==
  ASSUME CommitsInTime, Types, Running, Work, [Next]_vars
  PROVE  Tracks'
  <1> USE DEF Types, Running, Work, OneJob, Uploading, Reprocessing,
          Remembers, Tracks, Sound, OthersRest
  <1>1. CASE RequestFails \/ ReprocessRead \/ SweepTells \/ TimePasses \/
             Opens \/ Subscribes \/ ReadsStatus \/ UNCHANGED vars
    BY <1>1 DEF RequestFails, ReprocessRead, SweepTells, BestEffort,
       TimePasses, Opens, Subscribes, WatchSet, ReadsStatus, Current, vars
  <1>2. ASSUME NEW j \in Jobs, JobSaves(j) PROVE Tracks'
    <2>1. PICK status \in Statuses, at \in Places :
            /\ SavesFrom(j, mem[j].at, status, at)
            /\ mem'[j].at = at /\ mem'[j].status = status
            /\ row'.status = IF mem[j].status = status THEN row.status ELSE status
      BY <1>2, Saving
    <2>2. mem[j].at # "off" /\ job'[j].state = "running" /\ (Sound' <=> Sound)
      BY <1>2, <2>1, Saving DEF SavesFrom
    <2>3. ASSUME Sound, NEW i \in Jobs \ {j}
          PROVE  job'[i].state = "none" /\ mem'[i].at = "off"
      BY <1>2, <2>2, <2>3, Saving
    <2>4. ASSUME Sound, at = "working" PROVE row'.status \in Admits(j) \cup Terminal \cup {"absent"}
      BY <2>1, <2>4 DEF SavesFrom, Admits, Working
    <2>5. ASSUME Sound, at \in {"telling", "telling_last"} PROVE row'.status \in Terminal
      BY <2>1, <2>5 DEF SavesFrom, Working, Terminal
    <2>6. ASSUME Sound, at = "handing_over" PROVE row'.status = "parsed"
      BY <2>1, <2>6 DEF SavesFrom, Working
    <2>7. at \in {"working", "telling", "telling_last", "handing_over"}
      BY <2>1 DEF SavesFrom
    <2>8. QED
      BY <2>1, <2>2, <2>3, <2>4, <2>5, <2>6, <2>7
  <1>3. ASSUME NEW j \in Jobs, JobSkips(j) PROVE Tracks'
    BY <1>3, EndedJob, Values DEF JobSkips, Admits, Working, Terminal
  <1>4. ASSUME NEW j \in Jobs, JobStarts(j) PROVE Tracks'
    BY <1>4, Starting DEF Admits, Working, Terminal
  <1>5. ASSUME NEW j \in Jobs, JobTells(j) PROVE Tracks'
    BY <1>5, EndedJob, Values, WatcherPublished DEF JobTells, Admits, Working,
       Terminal
  <1>6. ASSUME NEW j \in Jobs, JobRaises(j) PROVE Tracks'
    BY <1>6, Raising DEF Admits, Working, Terminal
  <1>7. ASSUME NEW j \in Jobs, JobTellsLast(j) PROVE Tracks'
    BY <1>7, EndedJob, Values, WatcherPublished DEF JobTellsLast, BestEffort,
       Admits, Working, Terminal
  <1>8. ASSUME NEW j \in Jobs, JobDies(j) PROVE Tracks'
    BY <1>8, Dying DEF Admits, Working, Terminal
  <1>9. ASSUME ParseFile PROVE Tracks'
    BY <1>9, Reading DEF Admits, Working, Terminal
  <1>10. ASSUME NEW e \in Extracts, ParseHandsOver(e) PROVE Tracks'
    BY <1>10, HandingOver DEF Admits, Working, Terminal
  <1>11. ASSUME UploadCommit PROVE Tracks'
    <2>1. \A i \in Jobs : mem[i].at = "off" /\ (i # "parse" => job[i].state = "none")
      BY <1>11, Uploaded, Values
    <2>2. QED
      BY <1>11, <2>1, Uploaded DEF Admits
  <1>12. ASSUME ReprocessWrite PROVE Tracks'
    <2>1. req.at = "read" /\ reprocessed' = reprocessed
      BY <1>12 DEF ReprocessWrite
    <2>2. QED
      BY <2>1
  <1>13. ASSUME ReprocessCommit PROVE Tracks'
    <2>1. req.at = "flushed" /\ reprocessed' = reprocessed
      BY <1>13, Recommitting
    <2>2. QED
      BY <2>1
  <1>14. ASSUME Delete PROVE Tracks'
    BY <1>14, Deleting
  <1>15. ASSUME SweepResume PROVE Tracks'
    BY <1>15, Sweeping DEF Admits, Working, Terminal
  <1>16. QED
    BY <1>1, <1>2, <1>3, <1>4, <1>5, <1>6, <1>7, <1>8, <1>9, <1>10, <1>11,
       <1>12, <1>13, <1>14, <1>15, Values DEF Next, JobGoesOn, JobSaves

(* A job ends only when the resume is finished. *)
LEMMA WorkStep ==
  ASSUME CommitsInTime, Types, Running, Work, [Next]_vars
  PROVE  WorkHasAJob'
  <1> USE DEF Types, Running, Work, OneJob, Uploading, Reprocessing,
          Remembers, Tracks, Sound, WorkHasAJob, NoJob, OthersRest
  <1>1. CASE RequestFails \/ ReprocessRead \/ SweepTells \/ TimePasses \/
             Opens \/ Subscribes \/ ReadsStatus \/ UNCHANGED vars
    BY <1>1 DEF RequestFails, ReprocessRead, SweepTells, BestEffort,
       TimePasses, Opens, Subscribes, WatchSet, ReadsStatus, Current, vars
  <1>2. ASSUME NEW j \in Jobs, JobSaves(j) PROVE WorkHasAJob'
    <2>1. job'[j].state = "running"
      BY <1>2, Saving DEF SavesFrom
    <2>2. QED
      BY <2>1
  <1>3. ASSUME NEW j \in Jobs, JobSkips(j) PROVE WorkHasAJob'
    BY <1>3, EndedJob, Values DEF JobSkips, Admits, InProgress, Terminal
  <1>4. ASSUME NEW j \in Jobs, JobStarts(j) PROVE WorkHasAJob'
    BY <1>4, Starting DEF Admits, InProgress, Terminal
  <1>5. ASSUME NEW j \in Jobs, JobTells(j) PROVE WorkHasAJob'
    BY <1>5, EndedJob, Values, WatcherPublished DEF JobTells, Admits,
       InProgress, Terminal
  <1>6. ASSUME NEW j \in Jobs, JobRaises(j) PROVE WorkHasAJob'
    BY <1>6, Raising DEF Admits, InProgress, Terminal
  <1>7. ASSUME NEW j \in Jobs, JobTellsLast(j) PROVE WorkHasAJob'
    BY <1>7, EndedJob, Values, WatcherPublished DEF JobTellsLast, BestEffort,
       Admits, InProgress, Terminal
  <1>8. ASSUME NEW j \in Jobs, JobDies(j) PROVE WorkHasAJob'
    BY <1>8, Dying DEF Admits, InProgress, Terminal
  <1>9. ASSUME ParseFile PROVE WorkHasAJob'
    BY <1>9, Reading DEF Admits, InProgress, Terminal
  <1>10. ASSUME NEW e \in Extracts, ParseHandsOver(e) PROVE WorkHasAJob'
    BY <1>10, HandingOver DEF Admits, InProgress, Terminal
  <1>11. ASSUME UploadCommit PROVE WorkHasAJob'
    <2>1. job'["parse"].state = "queued" /\ "parse" \in Jobs
      BY <1>11, Uploaded, Values
    <2>2. QED
      BY <2>1
  <1>12. ASSUME ReprocessWrite PROVE WorkHasAJob'
    BY <1>12, Values DEF ReprocessWrite, ReqSet, Admits, InProgress, Terminal
  <1>13. ASSUME ReprocessCommit PROVE WorkHasAJob'
    <2>1. req.at = "flushed" /\ reprocessed' = reprocessed
      BY <1>13, Recommitting
    <2>2. QED
      BY <2>1
  <1>14. ASSUME Delete PROVE WorkHasAJob'
    BY <1>14, Deleting
  <1>15. ASSUME SweepResume PROVE WorkHasAJob'
    BY <1>15, Sweeping DEF Admits, InProgress, Terminal
  <1>16. QED
    BY <1>1, <1>2, <1>3, <1>4, <1>5, <1>6, <1>7, <1>8, <1>9, <1>10, <1>11,
       <1>12, <1>13, <1>14, <1>15, Values DEF Next, JobGoesOn, JobSaves

-----------------------------------------------------------------------------
LEMMA BaseInvariant == Spec => []Base
  <1>1. Init => Base
    <2> SUFFICES ASSUME Init PROVE Types /\ Running /\ WatcherWillKnow
      BY TypesAreTypes DEF Base
    <2>1. row \in RowSet /\ req \in ReqSet /\ watcher \in WatchSet
      BY DEF Init, Idle, RowSet, ReqSet, WatchSet, Statuses, InProgress, Errors
    <2>2. job \in [Jobs -> JobSet] /\ mem \in [Jobs -> MemSet]
      BY Values DEF Init
    <2>3. Types
      <3>1. reprocessed \in 0..MaxReprocess
        BY BoundsAssumption DEF Init
      <3>2. stale \in BOOLEAN /\ sweep \in BOOLEAN /\ lost \subseteq Losses
        BY DEF Init
      <3>3. QED
        BY <2>1, <2>2, <3>1, <3>2 DEF Types
    <2>4. Running
      BY Values DEF Init, Running
    <2>5. WatcherWillKnow
      BY DEF Init, WatcherWillKnow
    <2>6. QED
      BY <2>3, <2>4, <2>5
  <1>2. Base /\ [Next]_vars => Base'
    <2> SUFFICES ASSUME Base, [Next]_vars PROVE Types' /\ Running' /\ WatcherWillKnow'
      BY TypesAreTypes DEF Base, Types, TypeOK, Statuses, RowSet, ReqSet, JobSet,
         Places, MemSet, WatchSet, Jobs, Losses
    <2>1. QED
      BY TypesAreTypes, TypeStep, RunningStep, WatcherStep DEF Base
  <1>3. QED
    BY <1>1, <1>2, PTL DEF Spec

(* The row, the jobs, the request and the browser stay in their types, for  *)
(* any number of extractions, tries and reprocess requests.                 *)
THEOREM ResumeTypes == Spec => []TypeOK
  <1>1. Base => TypeOK
    BY DEF Base
  <1>2. QED
    BY <1>1, BaseInvariant, PTL

(* A browser that has subscribed and goes on listening to a finished resume *)
(* is about to be told, unless a final status was never published.          *)
THEOREM WatcherIsToldOrWillBe == Spec => []WatcherWillKnow
  <1>1. Base => WatcherWillKnow
    BY DEF Base
  <1>2. QED
    BY <1>1, BaseInvariant, PTL

(* Where requests commit within the deferral of their job, retries find     *)
(* their work again: a resume in progress that nobody has reprocessed has a *)
(* job, unless a worker was lost or a parse failed before its enqueue.      *)
THEOREM RetriesFindTheirWork ==
  ASSUME CommitsInTime
  PROVE  Spec => []WorkHasAJob
  <1>1. Init => Work
    <2> SUFFICES ASSUME Init PROVE Work
      OBVIOUS
    <2>1. \A j \in Jobs : mem[j].at = "off" /\ (j # "parse" => job[j].state = "none")
      BY Values DEF Init
    <2>2. job["parse"].state = "queued" /\ reprocessed = 0 /\ req.at = "uploading"
          /\ row.status = "absent"
      BY Values DEF Init, Idle
    <2>3. OneJob /\ Uploading /\ Reprocessing /\ Remembers
      BY <2>1, <2>2 DEF OneJob, Uploading, Reprocessing, Remembers
    <2>4. Tracks /\ WorkHasAJob
      BY <2>1, <2>2 DEF Tracks, WorkHasAJob, InProgress
    <2>5. QED
      BY <2>3, <2>4 DEF Work
  <1>2. Base /\ Work /\ [Next]_vars => Work'
    BY TypesAreTypes, OneJobStep, UploadingStep, ReprocessingStep, RemembersStep,
       TracksStep, WorkStep DEF Base, Work
  <1>3. Spec => []Base
    BY BaseInvariant
  <1>4. Work => WorkHasAJob
    BY DEF Work
  <1>5. QED
    BY <1>1, <1>2, <1>3, <1>4, PTL DEF Spec
=============================================================================
