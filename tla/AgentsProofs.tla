---------------------------- MODULE AgentsProofs ----------------------------
(***************************************************************************)
(* Proofs about AgentSession, for any number of runs and of clients; about *)
(* AgentRun (the instance R), for any caps, any number of tries and any    *)
(* goals; and about the two beside each other as MCAgents puts them.       *)
(***************************************************************************)
EXTENDS MCAgents, TLAPS

(* The approval being decided is pending until the commit; an uncommitted   *)
(* approval is its run's first; a job pauses the session only together with *)
(* a new approval.                                                          *)
DecidesPending  == decide.at = "written" =>
                     decide.approval \in Runs /\ approval[decide.approval] = "pending"
FirstApproval   == \A r \in Runs, k \in Kinds : mem[r][k].new =>
                     approval[r] = "none" /\ \A o \in Kinds \ {k} : ~mem[r][o].new
PauseHasApproval == \A r \in Runs, k \in Kinds :
  mem[r][k].at = "ready" /\ mem[r][k].status = "awaiting_approval" => mem[r][k].new

IInv == /\ TypeOK /\ DecidesPending /\ FirstApproval /\ PauseHasApproval
        /\ OwnApproval /\ AwaitingIsDecidable

-----------------------------------------------------------------------------
Rows(S) == [Runs -> [Kinds -> S]]
JobRow == [state : {"none", "queued", "running"},
           answer : {"none", "approved", "rejected"}]
MemRow == [at : {"off", "driving", "ready"}, saw : Statuses, status : Statuses,
           new : BOOLEAN]

(* Replacing one job's row. *)
LEMMA RowSet ==
  ASSUME NEW S, NEW f \in Rows(S), NEW r \in Runs, NEW k \in Kinds, NEW x \in S
  PROVE  [f EXCEPT ![r][k] = x] \in Rows(S)
  BY DEF Rows

(* What an outcome leaves in memory and in the thread. *)
LEMMA OutcomeLeaves ==
  ASSUME TypeOK, NEW r \in Runs, NEW k \in Kinds,
         NEW ends \in {"awaiting_approval", "completed", "halted", "rejected"},
         Outcome(r, k, ends)
  PROVE  /\ mem' \in Rows(MemRow)
         /\ mem'[r][k].at = "ready" /\ mem'[r][k].status = ends
         /\ mem'[r][k].new = (ends = "awaiting_approval")
         /\ \A q \in Runs, o \in Kinds : q # r \/ o # k => mem'[q][o] = mem[q][o]
         /\ thread' \in [Runs -> {"empty", "open", "paused", "completed", "halted",
                                  "rejected"}]
         /\ UNCHANGED <<session, stale, approval, started, post, decide, job>>
  <1> DEFINE row == [mem[r][k] EXCEPT !.at = "ready", !.status = ends,
                                      !.new = ends = "awaiting_approval"]
  <1>1. mem' = [mem EXCEPT ![r][k] = row]
    BY DEF Outcome
  <1>2. mem \in Rows(MemRow) /\ mem[r][k] \in MemRow
    BY DEF TypeOK, Rows, MemRow
  <1>3. row \in MemRow
    BY <1>2 DEF MemRow, Statuses
  <1>4. mem' \in Rows(MemRow)
    BY <1>1, <1>2, <1>3, RowSet
  <1>5. mem'[r][k] = row
    BY <1>1, <1>2 DEF Rows
  <1>6. row.at = "ready" /\ row.status = ends /\ row.new = (ends = "awaiting_approval")
    BY <1>2 DEF MemRow
  <1>7. \A q \in Runs, o \in Kinds : q # r \/ o # k => mem'[q][o] = mem[q][o]
    BY <1>1, <1>2 DEF Rows
  <1>8. /\ thread' \in [Runs -> {"empty", "open", "paused", "completed", "halted",
                                 "rejected"}]
        /\ UNCHANGED <<session, stale, approval, started, post, decide, job>>
    BY DEF Outcome, TypeOK
  <1> HIDE DEF row
  <1>9. QED
    BY <1>4, <1>5, <1>6, <1>7, <1>8

(* The three ways a drive ends are outcomes. *)
LEMMA DriveOutcome ==
  ASSUME NEW r \in Runs, NEW k \in Kinds,
         DriveOpen(r, k) \/ (k = "resume" /\ (DrivePaused(r) \/ DriveEnded(r)))
  PROVE  \E ends \in {"awaiting_approval", "completed", "halted", "rejected"} :
           /\ Outcome(r, k, ends)
           /\ ends = "awaiting_approval" =>
                approval[r] = "none" /\ \A o \in Kinds : ~mem[r][o].new
  <1>1. CASE DriveOpen(r, k)
    BY <1>1 DEF DriveOpen
  <1>2. CASE k = "resume" /\ DrivePaused(r)
    BY <1>2 DEF DrivePaused
  <1>3. CASE k = "resume" /\ DriveEnded(r)
    BY <1>3 DEF DriveEnded
  <1>4. QED
    BY <1>1, <1>2, <1>3

(* Every step of the graph keeps the types. *)
LEMMA DriveType ==
  ASSUME TypeOK, NEW r \in Runs, NEW k \in Kinds,
         DriveOpen(r, k) \/ (k = "resume" /\ (DrivePaused(r) \/ DriveEnded(r)))
  PROVE  TypeOK'
  <1>1. PICK ends \in {"awaiting_approval", "completed", "halted", "rejected"} :
          Outcome(r, k, ends)
    BY DriveOutcome
  <1>2. /\ mem' \in Rows(MemRow)
        /\ thread' \in [Runs -> {"empty", "open", "paused", "completed", "halted",
                                 "rejected"}]
        /\ UNCHANGED <<session, stale, approval, started, post, decide, job>>
    BY <1>1, OutcomeLeaves
  <1>3. (sent \subseteq Runs)'
    BY DEF DriveOpen, DrivePaused, DriveEnded, TypeOK
  <1>4. QED
    BY <1>2, <1>3 DEF TypeOK, Rows, MemRow

(* Every step keeps the variables in their types. *)
LEMMA TypeStep ==
  ASSUME TypeOK, [Next]_vars
  PROVE  TypeOK'
  <1>1. job \in Rows(JobRow) /\ mem \in Rows(MemRow) /\ NoJob \in JobRow /\ Idle \in MemRow
    BY DEF TypeOK, Rows, JobRow, MemRow, NoJob, Idle, Statuses
  <1>2. \A r \in Runs, k \in Kinds : job[r][k] \in JobRow /\ mem[r][k] \in MemRow
    BY <1>1 DEF Rows
  <1>3. ASSUME NEW p \in Posters, PostRead(p) PROVE TypeOK'
    BY <1>3 DEF PostRead, TypeOK, Runs
  <1>4. ASSUME NEW p \in Posters, PostWrite(p) PROVE TypeOK'
    <2>1. started' \in Runs /\ "run" \in Kinds /\ [NoJob EXCEPT !.state = "queued"] \in JobRow
      <3>1. started' \in Runs
        BY <1>4, BoundAssumption DEF PostWrite, TypeOK, Runs
      <3>2. [NoJob EXCEPT !.state = "queued"] \in JobRow
        BY DEF NoJob, JobRow
      <3>3. QED
        BY <3>1, <3>2 DEF Kinds
    <2>2. job' = [job EXCEPT ![started']["run"] = [NoJob EXCEPT !.state = "queued"]]
      BY <1>4 DEF PostWrite
    <2>3. job' \in Rows(JobRow)
      BY <1>1, <2>1, <2>2, RowSet
    <2>4. post' \in [Posters -> [at : {"idle", "read", "written"}, run : Runs \cup {0}]]
      BY <1>4, <2>1 DEF PostWrite, TypeOK
    <2>5. started' \in 0..MaxRuns
      BY <2>1, BoundAssumption DEF Runs
    <2>6. UNCHANGED <<session, stale, approval, thread, decide, mem, sent>>
      BY <1>4 DEF PostWrite
    <2>7. QED
      BY <2>3, <2>4, <2>5, <2>6 DEF TypeOK, Rows, JobRow
  <1>5. ASSUME NEW p \in Posters, PostCommit(p) PROVE TypeOK'
    BY <1>5 DEF PostCommit, TypeOK, NoPost, Statuses
  <1>6. ASSUME NEW p \in Posters, PostFails(p) PROVE TypeOK'
    BY <1>6 DEF PostFails, TypeOK, NoPost
  <1>7. ASSUME NEW a \in Runs, DecideWrite(a) PROVE TypeOK'
    <2>1. PICK answer \in {"approved", "rejected"} :
            /\ decide' = [at |-> "written", approval |-> a, answer |-> answer,
                          run |-> session.run]
            /\ job' = IF job[session.run].resume = NoJob
                      THEN [job EXCEPT ![session.run].resume =
                                         [state |-> "queued", answer |-> answer]]
                      ELSE job
      BY <1>7 DEF DecideWrite
    <2>2. /\ session.run \in Runs /\ "resume" \in Kinds
          /\ [state |-> "queued", answer |-> answer] \in JobRow
      BY <1>7 DEF DecideWrite, TypeOK, JobRow, Kinds
    <2>3. CASE job' = job
      BY <2>1, <2>2, <2>3, <1>7 DEF DecideWrite, TypeOK
    <2>4. CASE job' = [job EXCEPT ![session.run]["resume"] =
                                    [state |-> "queued", answer |-> answer]]
      <3>1. job' \in Rows(JobRow)
        BY <1>1, <2>2, <2>4, RowSet
      <3>2. QED
        BY <3>1, <2>1, <2>2, <1>7 DEF DecideWrite, TypeOK, Rows, JobRow
    <2>5. QED
      BY <2>1, <2>3, <2>4
  <1>8. CASE DecideCommit
    BY <1>8 DEF DecideCommit, Resumed, TypeOK, NoDecision, Statuses
  <1>9. CASE DecideFails
    BY <1>9 DEF DecideFails, TypeOK, NoDecision
  <1>10. ASSUME NEW r \in Runs, DrivePaused(r) \/ DriveEnded(r) PROVE TypeOK'
    BY <1>10, DriveType DEF Kinds
  <1>11. ASSUME NEW r \in Runs, NEW k \in Kinds, DriveOpen(r, k) PROVE TypeOK'
    BY <1>11, DriveType
  <1>12. ASSUME NEW r \in Runs, NEW k \in Kinds, JobMissing(r, k) PROVE TypeOK'
    <2>1. job' \in Rows(JobRow)
      BY <1>12, <1>1, RowSet DEF JobMissing
    <2>2. QED
      BY <2>1, <1>12 DEF JobMissing, TypeOK, Rows, JobRow
  <1>13. ASSUME NEW r \in Runs, NEW k \in Kinds, JobStart(r, k) PROVE TypeOK'
    <2>1. /\ [job[r][k] EXCEPT !.state = "running"] \in JobRow
          /\ [Idle EXCEPT !.at = "driving", !.saw = session.status] \in MemRow
      <3>1. [job[r][k] EXCEPT !.state = "running"] \in JobRow
        BY <1>2 DEF JobRow
      <3>2. session.status \in Statuses
        BY DEF TypeOK
      <3>3. [Idle EXCEPT !.at = "driving", !.saw = session.status] \in MemRow
        BY <3>2 DEF Idle, MemRow, Statuses
      <3>4. QED
        BY <3>1, <3>3
    <2>2. job' = [job EXCEPT ![r][k] = [job[r][k] EXCEPT !.state = "running"]]
      BY <1>13 DEF JobStart
    <2>3. job' \in Rows(JobRow)
      BY <1>1, <2>1, <2>2, RowSet
    <2>4. mem' \in Rows(MemRow)
      BY <1>1, <1>13, <2>1, RowSet DEF JobStart
    <2>5. QED
      BY <2>3, <2>4, <1>13 DEF JobStart, TypeOK, Rows, JobRow, MemRow
  <1>14. ASSUME NEW r \in Runs, NEW k \in Kinds, JobCommit(r, k) PROVE TypeOK'
    <2>1. job' \in Rows(JobRow) /\ mem' \in Rows(MemRow)
      BY <1>14, <1>1, RowSet DEF JobCommit
    <2>2. (session \in [status : Statuses, run : Runs \cup {0}])'
      BY <1>14, <1>2 DEF JobCommit, PauseStatus, TypeOK, MemRow, Statuses
    <2>3. (stale \in BOOLEAN)' /\ (approval \in [Runs -> {"none", "pending", "approved", "rejected"}])'
      BY <1>14 DEF JobCommit, TypeOK
    <2>4. QED
      BY <2>1, <2>2, <2>3, <1>14 DEF JobCommit, TypeOK, Rows, JobRow, MemRow
  <1>15. ASSUME NEW r \in Runs, NEW k \in Kinds, JobRaises(r, k) PROVE TypeOK'
    <2>1. mem' \in Rows(MemRow)
      BY <1>15, <1>1, RowSet DEF JobRaises
    <2>2. [job[r][k] EXCEPT !.state = "queued"] \in JobRow
      BY <1>2 DEF JobRow
    <2>3. \/ job' = [job EXCEPT ![r][k] = [job[r][k] EXCEPT !.state = "queued"]]
          \/ job' = [job EXCEPT ![r][k] = NoJob]
      BY <1>15 DEF JobRaises
    <2>4. job' \in Rows(JobRow)
      BY <1>1, <2>2, <2>3, RowSet
    <2>5. QED
      BY <2>1, <2>4, <1>15 DEF JobRaises, TypeOK, Rows, JobRow, MemRow, Statuses
  <1>16. ASSUME NEW r \in Runs, NEW k \in Kinds, JobTimesOut(r, k) PROVE TypeOK'
    <2>1. job' \in Rows(JobRow) /\ mem' \in Rows(MemRow)
      BY <1>16, <1>1, RowSet DEF JobTimesOut
    <2>2. QED
      BY <2>1, <1>16 DEF JobTimesOut, TypeOK, Rows, JobRow, MemRow
  <1>17. CASE SweepRun
    BY <1>17 DEF SweepRun, TypeOK, Statuses
  <1>18. CASE TimePasses
    BY <1>18 DEF TimePasses, TypeOK
  <1>19. CASE UNCHANGED vars
    BY <1>19 DEF vars, TypeOK
  <1>20. QED
    BY <1>3, <1>4, <1>5, <1>6, <1>7, <1>8, <1>9, <1>10, <1>11, <1>12, <1>13, <1>14,
       <1>15, <1>16, <1>17, <1>18, <1>19 DEF Next

(* No step decides, or reopens, the approval that a decision has in hand. *)
LEMMA DecidesStep ==
  ASSUME IInv, [Next]_vars
  PROVE  DecidesPending'
  <1> USE BoundAssumption DEF IInv, TypeOK, vars, Runs, Kinds, Statuses, NoJob, NoPost, NoDecision, Idle, DecidesPending, FirstApproval
  <1>1. ASSUME NEW p \in Posters, PostRead(p) PROVE DecidesPending'
    BY <1>1 DEF PostRead, MayStart
  <1>2. ASSUME NEW p \in Posters, PostWrite(p) PROVE DecidesPending'
    BY <1>2 DEF PostWrite
  <1>3. ASSUME NEW p \in Posters, PostCommit(p) PROVE DecidesPending'
    BY <1>3 DEF PostCommit
  <1>4. ASSUME NEW p \in Posters, PostFails(p) PROVE DecidesPending'
    BY <1>4 DEF PostFails
  <1>5. ASSUME NEW a \in Runs, DecideWrite(a) PROVE DecidesPending'
    BY <1>5 DEF DecideWrite
  <1>6. ASSUME DecideCommit PROVE DecidesPending'
    BY <1>6 DEF DecideCommit, Resumed
  <1>7. ASSUME DecideFails PROVE DecidesPending'
    BY <1>7 DEF DecideFails
  <1>8. ASSUME NEW r \in Runs, DrivePaused(r) PROVE DecidesPending'
    BY <1>8 DEF DrivePaused, Outcome, SendApproved
  <1>9. ASSUME NEW r \in Runs, DriveEnded(r) PROVE DecidesPending'
    BY <1>9 DEF DriveEnded, Outcome
  <1>10. ASSUME NEW r \in Runs, NEW k \in Kinds, JobMissing(r, k) PROVE DecidesPending'
    BY <1>10 DEF JobMissing
  <1>11. ASSUME NEW r \in Runs, NEW k \in Kinds, JobStart(r, k) PROVE DecidesPending'
    BY <1>11 DEF JobStart
  <1>12. ASSUME NEW r \in Runs, NEW k \in Kinds, DriveOpen(r, k) PROVE DecidesPending'
    BY <1>12 DEF DriveOpen, Outcome
  <1>13. ASSUME NEW r \in Runs, NEW k \in Kinds, JobCommit(r, k) PROVE DecidesPending'
    BY <1>13 DEF JobCommit, PauseStatus, SessionFree
  <1>14. ASSUME NEW r \in Runs, NEW k \in Kinds, JobRaises(r, k) PROVE DecidesPending'
    BY <1>14 DEF JobRaises
  <1>15. ASSUME NEW r \in Runs, NEW k \in Kinds, JobTimesOut(r, k) PROVE DecidesPending'
    BY <1>15 DEF JobTimesOut
  <1>16. ASSUME SweepRun PROVE DecidesPending'
    BY <1>16 DEF SweepRun
  <1>17. ASSUME TimePasses PROVE DecidesPending'
    BY <1>17 DEF TimePasses
  <1>18. CASE UNCHANGED vars
    BY <1>18
  <1>19. QED
    BY <1>1, <1>2, <1>3, <1>4, <1>5, <1>6, <1>7, <1>8, <1>9, <1>10, <1>11, <1>12, <1>13, <1>14, <1>15, <1>16, <1>17, <1>18 DEF Next

(* A step of the graph keeps both facts about the approval it may add. *)
LEMMA DriveKeeps ==
  ASSUME IInv, NEW r \in Runs, NEW k \in Kinds,
         DriveOpen(r, k) \/ (k = "resume" /\ (DrivePaused(r) \/ DriveEnded(r)))
  PROVE  FirstApproval' /\ PauseHasApproval'
  <1>1. PICK ends \in {"awaiting_approval", "completed", "halted", "rejected"} :
          /\ Outcome(r, k, ends)
          /\ ends = "awaiting_approval" =>
               approval[r] = "none" /\ \A o \in Kinds : ~mem[r][o].new
    BY DriveOutcome
  <1>2. TypeOK
    BY DEF IInv
  <1>3. /\ mem'[r][k].at = "ready" /\ mem'[r][k].status = ends
        /\ mem'[r][k].new = (ends = "awaiting_approval")
        /\ \A q \in Runs, o \in Kinds : q # r \/ o # k => mem'[q][o] = mem[q][o]
        /\ approval' = approval
    BY <1>1, <1>2, OutcomeLeaves
  <1>4. PauseHasApproval'
    BY <1>3 DEF IInv, PauseHasApproval
  <1>5. ASSUME NEW q \in Runs, NEW o \in Kinds, mem'[q][o].new
        PROVE  approval[q] = "none" /\ \A x \in Kinds \ {o} : ~mem'[q][x].new
    <2>1. CASE q # r
      BY <1>3, <1>5, <2>1 DEF IInv, FirstApproval
    <2>2. CASE q = r /\ o = k
      BY <1>1, <1>3, <1>5, <2>2
    <2>3. CASE q = r /\ o # k
      <3>1. mem[q][o].new
        BY <1>3, <1>5, <2>3
      <3>2. approval[q] = "none" /\ \A x \in Kinds \ {o} : ~mem[q][x].new
        BY <3>1 DEF IInv, FirstApproval
      <3>3. ends # "awaiting_approval"
        BY <1>1, <3>1, <2>3
      <3>4. QED
        BY <1>3, <2>3, <3>2, <3>3
    <2>4. QED
      BY <2>1, <2>2, <2>3
  <1>6. FirstApproval'
    BY <1>3, <1>5 DEF FirstApproval
  <1>7. QED
    BY <1>4, <1>6

(* An approval not committed yet stays its run's first. *)
LEMMA FirstStep ==
  ASSUME IInv, [Next]_vars
  PROVE  FirstApproval'
  <1>8. ASSUME NEW r \in Runs, DrivePaused(r) PROVE FirstApproval'
    BY <1>8, DriveKeeps DEF Kinds
  <1>9. ASSUME NEW r \in Runs, DriveEnded(r) PROVE FirstApproval'
    BY <1>9, DriveKeeps DEF Kinds
  <1>12. ASSUME NEW r \in Runs, NEW k \in Kinds, DriveOpen(r, k) PROVE FirstApproval'
    BY <1>12, DriveKeeps
  <1> USE BoundAssumption DEF IInv, TypeOK, vars, Runs, Kinds, Statuses, NoJob, NoPost, NoDecision, Idle, FirstApproval, DecidesPending
  <1>1. ASSUME NEW p \in Posters, PostRead(p) PROVE FirstApproval'
    BY <1>1 DEF PostRead, MayStart
  <1>2. ASSUME NEW p \in Posters, PostWrite(p) PROVE FirstApproval'
    BY <1>2 DEF PostWrite
  <1>3. ASSUME NEW p \in Posters, PostCommit(p) PROVE FirstApproval'
    BY <1>3 DEF PostCommit
  <1>4. ASSUME NEW p \in Posters, PostFails(p) PROVE FirstApproval'
    BY <1>4 DEF PostFails
  <1>5. ASSUME NEW a \in Runs, DecideWrite(a) PROVE FirstApproval'
    BY <1>5 DEF DecideWrite
  <1>6. ASSUME DecideCommit PROVE FirstApproval'
    BY <1>6 DEF DecideCommit, Resumed
  <1>7. ASSUME DecideFails PROVE FirstApproval'
    BY <1>7 DEF DecideFails
  <1>10. ASSUME NEW r \in Runs, NEW k \in Kinds, JobMissing(r, k) PROVE FirstApproval'
    BY <1>10 DEF JobMissing
  <1>11. ASSUME NEW r \in Runs, NEW k \in Kinds, JobStart(r, k) PROVE FirstApproval'
    BY <1>11 DEF JobStart
  <1>13. ASSUME NEW r \in Runs, NEW k \in Kinds, JobCommit(r, k) PROVE FirstApproval'
    BY <1>13 DEF JobCommit, PauseStatus, SessionFree
  <1>14. ASSUME NEW r \in Runs, NEW k \in Kinds, JobRaises(r, k) PROVE FirstApproval'
    BY <1>14 DEF JobRaises
  <1>15. ASSUME NEW r \in Runs, NEW k \in Kinds, JobTimesOut(r, k) PROVE FirstApproval'
    BY <1>15 DEF JobTimesOut
  <1>16. ASSUME SweepRun PROVE FirstApproval'
    BY <1>16 DEF SweepRun
  <1>17. ASSUME TimePasses PROVE FirstApproval'
    BY <1>17 DEF TimePasses
  <1>18. CASE UNCHANGED vars
    BY <1>18
  <1>19. QED
    BY <1>1, <1>2, <1>3, <1>4, <1>5, <1>6, <1>7, <1>8, <1>9, <1>10, <1>11, <1>12, <1>13, <1>14, <1>15, <1>16, <1>17, <1>18 DEF Next

(* A job about to pause its session brings a new approval. *)
LEMMA PauseStep ==
  ASSUME IInv, [Next]_vars
  PROVE  PauseHasApproval'
  <1>8. ASSUME NEW r \in Runs, DrivePaused(r) PROVE PauseHasApproval'
    BY <1>8, DriveKeeps DEF Kinds
  <1>9. ASSUME NEW r \in Runs, DriveEnded(r) PROVE PauseHasApproval'
    BY <1>9, DriveKeeps DEF Kinds
  <1>12. ASSUME NEW r \in Runs, NEW k \in Kinds, DriveOpen(r, k) PROVE PauseHasApproval'
    BY <1>12, DriveKeeps
  <1> USE BoundAssumption DEF IInv, TypeOK, vars, Runs, Kinds, Statuses, NoJob, NoPost, NoDecision, Idle, PauseHasApproval
  <1>1. ASSUME NEW p \in Posters, PostRead(p) PROVE PauseHasApproval'
    BY <1>1 DEF PostRead, MayStart
  <1>2. ASSUME NEW p \in Posters, PostWrite(p) PROVE PauseHasApproval'
    BY <1>2 DEF PostWrite
  <1>3. ASSUME NEW p \in Posters, PostCommit(p) PROVE PauseHasApproval'
    BY <1>3 DEF PostCommit
  <1>4. ASSUME NEW p \in Posters, PostFails(p) PROVE PauseHasApproval'
    BY <1>4 DEF PostFails
  <1>5. ASSUME NEW a \in Runs, DecideWrite(a) PROVE PauseHasApproval'
    BY <1>5 DEF DecideWrite
  <1>6. ASSUME DecideCommit PROVE PauseHasApproval'
    BY <1>6 DEF DecideCommit, Resumed
  <1>7. ASSUME DecideFails PROVE PauseHasApproval'
    BY <1>7 DEF DecideFails
  <1>10. ASSUME NEW r \in Runs, NEW k \in Kinds, JobMissing(r, k) PROVE PauseHasApproval'
    BY <1>10 DEF JobMissing
  <1>11. ASSUME NEW r \in Runs, NEW k \in Kinds, JobStart(r, k) PROVE PauseHasApproval'
    BY <1>11 DEF JobStart
  <1>13. ASSUME NEW r \in Runs, NEW k \in Kinds, JobCommit(r, k) PROVE PauseHasApproval'
    BY <1>13 DEF JobCommit, PauseStatus, SessionFree
  <1>14. ASSUME NEW r \in Runs, NEW k \in Kinds, JobRaises(r, k) PROVE PauseHasApproval'
    BY <1>14 DEF JobRaises
  <1>15. ASSUME NEW r \in Runs, NEW k \in Kinds, JobTimesOut(r, k) PROVE PauseHasApproval'
    BY <1>15 DEF JobTimesOut
  <1>16. ASSUME SweepRun PROVE PauseHasApproval'
    BY <1>16 DEF SweepRun
  <1>17. ASSUME TimePasses PROVE PauseHasApproval'
    BY <1>17 DEF TimePasses
  <1>18. CASE UNCHANGED vars
    BY <1>18
  <1>19. QED
    BY <1>1, <1>2, <1>3, <1>4, <1>5, <1>6, <1>7, <1>8, <1>9, <1>10, <1>11, <1>12, <1>13, <1>14, <1>15, <1>16, <1>17, <1>18 DEF Next

(* The approval of an application that was sent stays given. *)
LEMMA OwnStep ==
  ASSUME IInv, [Next]_vars
  PROVE  OwnApproval'
  <1> USE BoundAssumption DEF IInv, TypeOK, vars, Runs, Kinds, Statuses, NoJob, NoPost, NoDecision, Idle, OwnApproval, DecidesPending, FirstApproval
  <1>1. ASSUME NEW p \in Posters, PostRead(p) PROVE OwnApproval'
    BY <1>1 DEF PostRead, MayStart
  <1>2. ASSUME NEW p \in Posters, PostWrite(p) PROVE OwnApproval'
    BY <1>2 DEF PostWrite
  <1>3. ASSUME NEW p \in Posters, PostCommit(p) PROVE OwnApproval'
    BY <1>3 DEF PostCommit
  <1>4. ASSUME NEW p \in Posters, PostFails(p) PROVE OwnApproval'
    BY <1>4 DEF PostFails
  <1>5. ASSUME NEW a \in Runs, DecideWrite(a) PROVE OwnApproval'
    BY <1>5 DEF DecideWrite
  <1>6. ASSUME DecideCommit PROVE OwnApproval'
    BY <1>6 DEF DecideCommit, Resumed
  <1>7. ASSUME DecideFails PROVE OwnApproval'
    BY <1>7 DEF DecideFails
  <1>8. ASSUME NEW r \in Runs, DrivePaused(r) PROVE OwnApproval'
    BY <1>8 DEF DrivePaused, Outcome, SendApproved
  <1>9. ASSUME NEW r \in Runs, DriveEnded(r) PROVE OwnApproval'
    BY <1>9 DEF DriveEnded, Outcome
  <1>10. ASSUME NEW r \in Runs, NEW k \in Kinds, JobMissing(r, k) PROVE OwnApproval'
    BY <1>10 DEF JobMissing
  <1>11. ASSUME NEW r \in Runs, NEW k \in Kinds, JobStart(r, k) PROVE OwnApproval'
    BY <1>11 DEF JobStart
  <1>12. ASSUME NEW r \in Runs, NEW k \in Kinds, DriveOpen(r, k) PROVE OwnApproval'
    BY <1>12 DEF DriveOpen, Outcome
  <1>13. ASSUME NEW r \in Runs, NEW k \in Kinds, JobCommit(r, k) PROVE OwnApproval'
    BY <1>13 DEF JobCommit, PauseStatus, SessionFree
  <1>14. ASSUME NEW r \in Runs, NEW k \in Kinds, JobRaises(r, k) PROVE OwnApproval'
    BY <1>14 DEF JobRaises
  <1>15. ASSUME NEW r \in Runs, NEW k \in Kinds, JobTimesOut(r, k) PROVE OwnApproval'
    BY <1>15 DEF JobTimesOut
  <1>16. ASSUME SweepRun PROVE OwnApproval'
    BY <1>16 DEF SweepRun
  <1>17. ASSUME TimePasses PROVE OwnApproval'
    BY <1>17 DEF TimePasses
  <1>18. CASE UNCHANGED vars
    BY <1>18
  <1>19. QED
    BY <1>1, <1>2, <1>3, <1>4, <1>5, <1>6, <1>7, <1>8, <1>9, <1>10, <1>11, <1>12, <1>13, <1>14, <1>15, <1>16, <1>17, <1>18 DEF Next

(* The session's "awaiting_approval" comes and goes with a pending approval. *)
LEMMA AwaitingStep ==
  ASSUME IInv, [Next]_vars
  PROVE  AwaitingIsDecidable'
  <1> USE BoundAssumption DEF IInv, TypeOK, vars, Runs, Kinds, Statuses, NoJob, NoPost, NoDecision, Idle, AwaitingIsDecidable, DecidesPending, FirstApproval, PauseHasApproval
  <1>1. ASSUME NEW p \in Posters, PostRead(p) PROVE AwaitingIsDecidable'
    BY <1>1 DEF PostRead, MayStart
  <1>2. ASSUME NEW p \in Posters, PostWrite(p) PROVE AwaitingIsDecidable'
    BY <1>2 DEF PostWrite
  <1>3. ASSUME NEW p \in Posters, PostCommit(p) PROVE AwaitingIsDecidable'
    BY <1>3 DEF PostCommit
  <1>4. ASSUME NEW p \in Posters, PostFails(p) PROVE AwaitingIsDecidable'
    BY <1>4 DEF PostFails
  <1>5. ASSUME NEW a \in Runs, DecideWrite(a) PROVE AwaitingIsDecidable'
    BY <1>5 DEF DecideWrite
  <1>6. ASSUME DecideCommit PROVE AwaitingIsDecidable'
    BY <1>6 DEF DecideCommit, Resumed
  <1>7. ASSUME DecideFails PROVE AwaitingIsDecidable'
    BY <1>7 DEF DecideFails
  <1>8. ASSUME NEW r \in Runs, DrivePaused(r) PROVE AwaitingIsDecidable'
    BY <1>8 DEF DrivePaused, Outcome, SendApproved
  <1>9. ASSUME NEW r \in Runs, DriveEnded(r) PROVE AwaitingIsDecidable'
    BY <1>9 DEF DriveEnded, Outcome
  <1>10. ASSUME NEW r \in Runs, NEW k \in Kinds, JobMissing(r, k) PROVE AwaitingIsDecidable'
    BY <1>10 DEF JobMissing
  <1>11. ASSUME NEW r \in Runs, NEW k \in Kinds, JobStart(r, k) PROVE AwaitingIsDecidable'
    BY <1>11 DEF JobStart
  <1>12. ASSUME NEW r \in Runs, NEW k \in Kinds, DriveOpen(r, k) PROVE AwaitingIsDecidable'
    BY <1>12 DEF DriveOpen, Outcome
  <1>13. ASSUME NEW r \in Runs, NEW k \in Kinds, JobCommit(r, k) PROVE AwaitingIsDecidable'
    BY <1>13 DEF JobCommit, PauseStatus, SessionFree
  <1>14. ASSUME NEW r \in Runs, NEW k \in Kinds, JobRaises(r, k) PROVE AwaitingIsDecidable'
    BY <1>14 DEF JobRaises
  <1>15. ASSUME NEW r \in Runs, NEW k \in Kinds, JobTimesOut(r, k) PROVE AwaitingIsDecidable'
    BY <1>15 DEF JobTimesOut
  <1>16. ASSUME SweepRun PROVE AwaitingIsDecidable'
    BY <1>16 DEF SweepRun
  <1>17. ASSUME TimePasses PROVE AwaitingIsDecidable'
    BY <1>17 DEF TimePasses
  <1>18. CASE UNCHANGED vars
    BY <1>18
  <1>19. QED
    BY <1>1, <1>2, <1>3, <1>4, <1>5, <1>6, <1>7, <1>8, <1>9, <1>10, <1>11, <1>12, <1>13, <1>14, <1>15, <1>16, <1>17, <1>18 DEF Next

-----------------------------------------------------------------------------
(* The invariant is inductive. *)
LEMMA Inductive == Spec => []IInv
  <1>1. ASSUME Init PROVE IInv
    <2>1. TypeOK
      <3>1. job \in Rows(JobRow) /\ mem \in Rows(MemRow)
        BY <1>1 DEF Init, Rows, JobRow, MemRow, NoJob, Idle, Statuses
      <3>2. /\ session \in [status : Statuses, run : Runs \cup {0}] /\ stale \in BOOLEAN
            /\ started \in 0..MaxRuns /\ sent \subseteq Runs
        <4>1. session \in [status : Statuses, run : Runs \cup {0}] /\ stale \in BOOLEAN
          BY <1>1 DEF Init, Statuses
        <4>2. started \in 0..MaxRuns
          BY <1>1, BoundAssumption DEF Init
        <4>3. sent \subseteq Runs
          BY <1>1 DEF Init
        <4>4. QED
          BY <4>1, <4>2, <4>3
      <3>3. /\ post \in [Posters -> [at : {"idle", "read", "written"}, run : Runs \cup {0}]]
            /\ decide \in [at : {"idle", "written"}, approval : Runs \cup {0},
                           answer : {"none", "approved", "rejected"}, run : Runs \cup {0}]
        BY <1>1 DEF Init, NoPost, NoDecision
      <3>4. QED
        BY <1>1, <3>1, <3>2, <3>3 DEF Init, TypeOK, Rows, JobRow, MemRow
    <2>2. \A r \in Runs, k \in Kinds : mem[r][k] = Idle
      BY <1>1 DEF Init
    <2>3. FirstApproval /\ PauseHasApproval
      BY <2>2 DEF FirstApproval, PauseHasApproval, Idle
    <2>4. DecidesPending /\ OwnApproval /\ AwaitingIsDecidable
      BY <1>1 DEF Init, DecidesPending, OwnApproval, AwaitingIsDecidable, NoDecision
    <2>5. QED
      BY <2>1, <2>3, <2>4 DEF IInv
  <1>2. IInv /\ [Next]_vars => IInv'
    BY TypeStep, DecidesStep, FirstStep, PauseStep, OwnStep, AwaitingStep DEF IInv
  <1>3. QED
    BY <1>1, <1>2, PTL DEF Spec

(* The variables of the session, its approvals, threads and jobs stay in    *)
(* their types however many runs and clients there are.                     *)
THEOREM SessionTypes == Spec => []TypeOK
  BY Inductive, PTL DEF IInv

(* However the runs of a session replace each other, and whichever run a    *)
(* decision is handed to, a run sends its application only after that       *)
(* application's own approval (resume_run, email_external_action).          *)
THEOREM SentWithOwnApproval == Spec => []OwnApproval
  BY Inductive, PTL DEF IInv

(* A session that says it awaits approval always has an approval that       *)
(* decide_approval accepts.                                                 *)
THEOREM AwaitingCanBeDecided == Spec => []AwaitingIsDecidable
  BY Inductive, PTL DEF IInv

-----------------------------------------------------------------------------
(* One run in depth.                                                        *)
(*                                                                         *)
(* What a job holds in memory is only as good as the place of the graph it *)
(* has reached, and the thread's checkpoint hands that place and state to  *)
(* the next job.  The inductive invariant says, per place, what the memory *)
(* (Holds) and the graph state (Tracks) may be there.                      *)

(* The caps and the goals a run is given. *)
LEMMA CapsGiven ==
  /\ MaxSteps \in Nat \ {0} /\ MaxLlmCalls \in Nat \ {0} /\ MaxTries \in Nat \ {0}
  /\ MayStop \in BOOLEAN
  BY RunAssumption DEF R!CapsAssumption

LEMMA GoalsGiven == Goals \subseteq R!AllGoals
  BY RunAssumption DEF R!GoalsAssumption

(* The nodes that only a prepare_application run reaches, and those it does *)
(* not.                                                                     *)
Applying == {"cover_letter", "letter_claim_validator", "email_draft", "application_prep",
             "human_approval", "paused", "email_external_action"}
Matching == {"job_research", "job_retrieval", "match_analysis", "skill_gap",
             "recommendation"}

(* The graph's state at a place, in memory or in the checkpoint: an          *)
(* application run is "completed" before respond only by its send.          *)
Tracks(at, st, taken) ==
  /\ st.status # "awaiting_approval"
  /\ (at \in Applying \/ st.application # 0) => goal = "prepare_application"
  /\ at \in Matching => goal # "prepare_application"
  /\ goal = "prepare_application" => /\ at = "respond" => st.status = "completed"
                                     /\ st.status = "completed" => taken # {}

(* What a job holds besides: an uncommitted approval only from the pause     *)
(* on, the answer only at the interrupt, and the approval it read and the   *)
(* outcome of its send are about the application it still carries.          *)
Holds(m, given, taken) ==
  /\ m.at \in {"off", "publishing"} => m.new = 0
  /\ m.new # 0 => m.at \in {"human_approval", "paused", "halted", "end"}
  /\ m.answer => m.at = "human_approval" /\ m.new = 0
  /\ ((m.at = "human_approval" /\ ~m.answer) \/ m.at = "paused") => m.new # 0
  /\ m.seen # "unread" => m.at \in {"email_external_action", "respond", "halted", "end"}
  /\ m.mail # "none" => m.at \in {"respond", "halted", "end"}
  /\ (m.seen = "approved" \/ m.mail # "none") =>
       m.st.application # 0 /\ given[m.st.application] = "approved"
  /\ m.note = "sent" => taken # {}

JobsHold    == \A j \in R!Kinds : Holds(held[j], asked, delivered)
JobsTrack   == \A j \in R!Kinds : Tracks(held[j].at, held[j].st, delivered)
ThreadTrack == Tracks(saved.at, saved.st, delivered)

(* An uncommitted approval is its application's first, and alone.           *)
NewAlone == \A j \in R!Kinds : held[j].new # 0 =>
  /\ asked[held[j].new] = "none"
  /\ \A a \in R!Applications : asked[a] # "pending"
  /\ \A k \in R!Kinds \ {j} : held[k].new = 0

RunIInv == /\ R!TypeOK /\ JobsHold /\ JobsTrack /\ ThreadTrack /\ NewAlone
        /\ R!OwnApproval /\ R!OnePendingApproval /\ R!AwaitingIsDecidable /\ R!CompletedWasDelivered

-----------------------------------------------------------------------------
(* The graph.                                                               *)

MemPlaces == R!Places \cup {"off", "paused", "publishing"}
RunMemRow ==
  [at : MemPlaces, st : R!GraphState,
   saw : R!SessionStatuses, answer : BOOLEAN, seen : R!ApprovalStatuses \cup {"unread"},
   new : R!Applications \cup {0}, mail : {"none", "sent", "failed"},
   note : {"none", "sent", "answer", "halted"}]
RunJobRow == [state : {"none", "queued", "running"}, tries : 0..MaxTries,
           decision : {"none", "approve", "reject"}]
Mails == {"draft", "sending", "sent", "failed"}

(* The types, with the sets above named. *)
LEMMA Types ==
  R!TypeOK <=>
    /\ goal \in Goals /\ status \in R!SessionStatuses
    /\ stop \in BOOLEAN /\ late \in BOOLEAN
    /\ asked \in [R!Applications -> R!ApprovalStatuses]
    /\ email \in [R!Applications -> Mails]
    /\ saved \in [at : R!Places, st : R!GraphState]
    /\ worker \in [R!Kinds -> RunJobRow] /\ held \in [R!Kinds -> RunMemRow]
    /\ said \subseteq {"sent", "answer", "halted"}
    /\ delivered \subseteq R!Applications
  BY DEF R!TypeOK, RunMemRow, MemPlaces, RunJobRow, Mails

(* A row of memory with another place is still a row. *)
LEMMA Placed ==
  ASSUME NEW m \in RunMemRow, NEW n \in MemPlaces
  PROVE  LET row == [m EXCEPT !.at = n]
         IN /\ row \in RunMemRow /\ row.at = n
            /\ row.st = m.st /\ row.saw = m.saw /\ row.answer = m.answer
            /\ row.seen = m.seen /\ row.new = m.new /\ row.mail = m.mail
            /\ row.note = m.note
  BY DEF RunMemRow

(* So is one whose graph state has another status. *)
LEMMA Restated ==
  ASSUME NEW m \in RunMemRow, NEW ends \in R!SessionStatuses
  PROVE  LET row == [m EXCEPT !.st.status = ends]
         IN /\ row \in RunMemRow
            /\ row.st.status = ends /\ row.st.application = m.st.application
            /\ row.at = m.at /\ row.saw = m.saw /\ row.answer = m.answer
            /\ row.seen = m.seen /\ row.new = m.new /\ row.mail = m.mail
            /\ row.note = m.note
  <1>1. m.st \in R!GraphState
    BY DEF RunMemRow
  <1>2. QED
    BY <1>1 DEF RunMemRow, R!GraphState

(* guard's bookkeeping stays within the caps it has just checked. *)
LEMMA WorkedRow ==
  ASSUME R!TypeOK, NEW j \in R!Kinds, R!Breach(held[j].st) = "none", NEW calls \in {0, 1}
  PROVE  LET row == R!Worked(j, calls)
         IN /\ row \in RunMemRow /\ row.st.status = held[j].st.status
            /\ row.st.application = held[j].st.application
            /\ row.at = held[j].at /\ row.saw = held[j].saw /\ row.answer = held[j].answer
            /\ row.seen = held[j].seen /\ row.new = held[j].new /\ row.mail = held[j].mail
            /\ row.note = held[j].note
  <1>1. held[j] \in RunMemRow /\ held[j].st \in R!GraphState
    BY Types DEF RunMemRow
  <1>2. /\ held[j].st.steps + 1 \in 0..MaxSteps
        /\ held[j].st.llm + calls \in 0..MaxLlmCalls
    BY <1>1, CapsGiven DEF R!Breach, R!GraphState
  <1>3. ASSUME NEW s \in 0..MaxSteps, NEW l \in 0..MaxLlmCalls,
               NEW st, st = [held[j].st EXCEPT !.steps = s, !.llm = l]
        PROVE  /\ st \in R!GraphState
               /\ st.status = held[j].st.status /\ st.application = held[j].st.application
    BY <1>1, <1>3 DEF R!GraphState
  <1> DEFINE next == [held[j].st EXCEPT !.steps = held[j].st.steps + 1,
                                       !.llm = held[j].st.llm + calls]
  <1>4. /\ next \in R!GraphState
        /\ next.status = held[j].st.status /\ next.application = held[j].st.application
    BY <1>2, <1>3
  <1>5. R!Worked(j, calls) = [held[j] EXCEPT !.st = next]
    BY <1>1 DEF R!Worked, RunMemRow, R!GraphState
  <1> HIDE DEF next
  <1>6. QED
    BY <1>1, <1>4, <1>5 DEF RunMemRow

(* A step of the graph: the job's new row, with what its place requires,     *)
(* and the checkpoint, the old one or the row's.                            *)
Leads(j, row) ==
  /\ row \in RunMemRow /\ held' = [held EXCEPT ![j] = row]
  /\ Holds(row, asked, delivered') /\ Tracks(row.at, row.st, delivered')
  /\ saved' = saved \/ (row.at \in R!Places /\ saved' = [at |-> row.at, st |-> row.st])
  /\ UNCHANGED <<goal, late, status, stop, asked, said, worker>>

(* Where a node leads, for each outcome. *)
LEMMA Afterwards ==
  ASSUME R!TypeOK, NEW n \in R!Guarded, NEW st
  PROVE  /\ R!After(n, st) \in R!Places
         /\ n = "respond" => R!After(n, st) = "end"
         /\ n # "respond" /\ st.status \in {"halted", "error"} => R!After(n, st) = "halted"
         /\ n # "respond" /\ st.status \notin {"halted", "error"} => R!After(n, st) = R!Onward(n)
  <1>1. R!Onward(n) \in R!Places \/ n = "respond"
    BY DEF R!Onward, R!Places, R!Guarded
  <1>2. QED
    BY <1>1 DEF R!After, R!Places

(* The edges of a worker node, as the invariant needs them. *)
LEMMA Edges ==
  ASSUME R!TypeOK, NEW n \in R!Guarded \ {"respond"}
  PROVE  /\ R!Onward(n) = "human_approval" <=> n = "application_prep"
         /\ R!Onward(n) \in Applying =>
              goal = "prepare_application" \/ n \in Applying
         /\ R!Onward(n) \in Matching => n \in Matching
         /\ R!Onward(n) = "respond" => \/ n = "email_external_action" \/ n \in Matching
                                     \/ goal # "prepare_application"
         /\ n = "email_external_action" => R!Onward(n) = "respond"
         /\ R!Onward(n) \notin {"off", "publishing", "paused"}
  BY DEF R!Onward, R!Guarded, Applying, Matching

(* A node that halts, fails or works on without touching an approval: the    *)
(* row keeps what it held, and goes where the status sends it.              *)
LEMMA NodeKeeps ==
  ASSUME RunIInv, NEW j \in R!Kinds, held[j].at \in R!Guarded,
         NEW m \in RunMemRow, NEW row,
         m.at = held[j].at, m.st.application = held[j].st.application,
         m.answer = held[j].answer, m.seen = held[j].seen, m.new = held[j].new,
         m.mail = held[j].mail, m.note = held[j].note,
         m.st.status \in {"halted", "error"} \/
           (m.st.status = held[j].st.status /\
            held[j].at \notin {"application_prep", "email_external_action", "respond"}),
         row = [m EXCEPT !.at = R!After(held[j].at, m.st)],
         held' = [held EXCEPT ![j] = row],
         saved' = [at |-> row.at, st |-> row.st] \/ saved' = saved,
         UNCHANGED <<goal, late, status, stop, asked, said, worker, delivered>>
  PROVE  Leads(j, row) /\ row.new = held[j].new
  <1> DEFINE n == R!After(held[j].at, m.st)
  <1>1. /\ R!TypeOK /\ held[j] \in RunMemRow
        /\ Holds(held[j], asked, delivered)
        /\ Tracks(held[j].at, held[j].st, delivered)
    BY Types DEF RunIInv, JobsHold, JobsTrack
  <1>2. /\ n \in R!Places
        /\ held[j].at = "respond" => n = "end"
        /\ held[j].at # "respond" /\ m.st.status \in {"halted", "error"} => n = "halted"
        /\ held[j].at # "respond" /\ m.st.status \notin {"halted", "error"}
             => n = R!Onward(held[j].at)
    BY <1>1, Afterwards
  <1>3. /\ row \in RunMemRow /\ row.at = n /\ row.st = m.st /\ row.answer = m.answer
        /\ row.seen = m.seen /\ row.new = m.new /\ row.mail = m.mail /\ row.note = m.note
    BY <1>2, Placed DEF MemPlaces
  <1> HIDE DEF n
  <1>4. held[j].at # "respond" => 
         /\ R!Onward(held[j].at) = "human_approval" <=> held[j].at = "application_prep"
         /\ R!Onward(held[j].at) \in Applying =>
              goal = "prepare_application" \/ held[j].at \in Applying
         /\ R!Onward(held[j].at) \in Matching => held[j].at \in Matching
         /\ R!Onward(held[j].at) = "respond" =>
              \/ held[j].at = "email_external_action" \/ held[j].at \in Matching
              \/ goal # "prepare_application"
         /\ R!Onward(held[j].at) \notin {"off", "publishing", "paused"}
    BY <1>1, Edges
  <1>5. /\ held[j].at \notin {"human_approval", "paused", "halted", "end", "off", "publishing"}
        /\ n \notin {"off", "publishing", "paused"}
    BY <1>2, <1>4 DEF R!Guarded, R!Places
  <1>6. Holds(row, asked, delivered')
    BY <1>1, <1>2, <1>3, <1>4, <1>5 DEF Holds
  <1>7. Tracks(row.at, row.st, delivered')
    BY <1>1, <1>2, <1>3, <1>4, <1>5 DEF Tracks, Applying, Matching
  <1>8. QED
    BY <1>2, <1>3, <1>6, <1>7 DEF Leads

(* What else a step of the graph may do: prepare an application's first      *)
(* approval when no other is open, and send one that is approved.           *)
Effects(j, row) ==
  /\ \/ row.new = held[j].new
     \/ row.new \in R!Applications /\ asked[row.new] = "none" /\ R!NoPendingApproval
  /\ email' \in [R!Applications -> Mails]
  /\ \A a \in R!Applications :
       email'[a] # "draft" => email[a] # "draft" \/ asked[a] = "approved"
  /\ delivered \subseteq delivered' /\ delivered' \subseteq R!Applications

LEMMA SupervisorLeads ==
  ASSUME RunIInv, NEW j \in R!Kinds, R!Supervisor(j)
  PROVE  \E row : Leads(j, row) /\ Effects(j, row)
  <1> DEFINE next == IF R!Route[goal] = "halted" THEN [held[j] EXCEPT !.st.status = "halted"]
                  ELSE held[j]
  <1>1. /\ R!TypeOK /\ held[j] \in RunMemRow /\ held[j].at = "supervisor"
        /\ Holds(held[j], asked, delivered)
        /\ Tracks(held[j].at, held[j].st, delivered)
    BY Types DEF RunIInv, JobsHold, JobsTrack, R!Supervisor
  <1>2. /\ next \in RunMemRow /\ next.st.application = held[j].st.application
        /\ next.answer = held[j].answer /\ next.seen = held[j].seen /\ next.new = held[j].new
        /\ next.mail = held[j].mail /\ next.note = held[j].note
        /\ next.st.status = held[j].st.status \/ next.st.status = "halted"
    <2>1. "halted" \in R!SessionStatuses
      BY DEF R!SessionStatuses
    <2>2. CASE R!Route[goal] = "halted"
      BY <1>1, <2>1, <2>2, Restated
    <2>3. CASE R!Route[goal] # "halted"
      BY <1>1, <2>3
    <2>4. QED
      BY <2>2, <2>3
  <1>3. /\ R!Route[goal] \in {"job_retrieval", "job_research", "resume_tailoring", "halted"}
        /\ goal = "prepare_application" => R!Route[goal] = "resume_tailoring"
    BY <1>1, GoalsGiven DEF R!Route, R!AllGoals, R!TypeOK
  <1>4. R!Route[goal] \in R!Places
    BY <1>3 DEF R!Places, R!Guarded
  <1> DEFINE row == [next EXCEPT !.at = R!Route[goal]]
  <1>5. held' = [held EXCEPT ![j] = row] /\ saved' = [at |-> R!Route[goal], st |-> next.st]
        /\ UNCHANGED <<goal, late, status, stop, asked, said, worker, email, delivered>>
    BY DEF R!Supervisor, R!Step, R!Goes
  <1> HIDE DEF next
  <1>6. /\ row \in RunMemRow /\ row.at = R!Route[goal]
        /\ row.st = next.st /\ row.answer = next.answer
        /\ row.seen = next.seen /\ row.new = next.new /\ row.mail = next.mail /\ row.note = next.note
    BY <1>2, <1>4, Placed DEF MemPlaces
  <1> HIDE DEF row
  <1>7. Holds(row, asked, delivered')
    BY <1>1, <1>2, <1>3, <1>5, <1>6 DEF Holds
  <1>8. Tracks(row.at, row.st, delivered')
    BY <1>1, <1>2, <1>3, <1>5, <1>6 DEF Tracks, Applying, Matching
  <1>9. Leads(j, row)
    BY <1>4, <1>5, <1>6, <1>7, <1>8 DEF Leads
  <1>10. Effects(j, row)
    BY <1>1, <1>2, <1>5, <1>6, Types DEF Effects, RunIInv
  <1>11. QED
    BY <1>9, <1>10

(* guard's refusal, a node that raises or gives up, and the worker nodes.    *)
LEMMA KeepingLeads ==
  ASSUME RunIInv, NEW j \in R!Kinds, R!GuardHalts(j) \/ R!NodeFails(j) \/ R!WorkNode(j)
  PROVE  \E row : Leads(j, row) /\ Effects(j, row)
  <1>1. /\ R!TypeOK /\ held[j] \in RunMemRow /\ held[j].at \in R!Guarded
        /\ "halted" \in R!SessionStatuses /\ "error" \in R!SessionStatuses
    BY Types DEF RunIInv, R!GuardHalts, R!NodeFails, R!WorkNode, R!SessionStatuses
  <1>2. \E m \in RunMemRow :
          /\ m.at = held[j].at /\ m.st.application = held[j].st.application
          /\ m.answer = held[j].answer /\ m.seen = held[j].seen /\ m.new = held[j].new
          /\ m.mail = held[j].mail /\ m.note = held[j].note
          /\ m.st.status \in {"halted", "error"} \/
               (m.st.status = held[j].st.status /\
                held[j].at \notin {"application_prep", "email_external_action", "respond"})
          /\ R!Step(j, R!After(held[j].at, m.st), m)
    <2>1. CASE R!GuardHalts(j)
      <3> DEFINE m == [held[j] EXCEPT !.st.status = "halted"]
      <3>1. R!Step(j, R!After(held[j].at, m.st), m)
        BY <2>1 DEF R!GuardHalts
      <3>2. /\ m \in RunMemRow /\ m.st.status = "halted"
            /\ m.st.application = held[j].st.application
            /\ m.at = held[j].at /\ m.answer = held[j].answer /\ m.seen = held[j].seen
            /\ m.new = held[j].new /\ m.mail = held[j].mail /\ m.note = held[j].note
        BY <1>1, Restated
      <3> HIDE DEF m
      <3>3. QED
        BY <3>1, <3>2
    <2>2. CASE R!NodeFails(j)
      <3>1. PICK ends \in {"halted", "error"} :
              R!Step(j, R!After(held[j].at, [held[j] EXCEPT !.st.status = ends].st),
                   [held[j] EXCEPT !.st.status = ends])
        BY <2>2 DEF R!NodeFails
      <3> DEFINE m == [held[j] EXCEPT !.st.status = ends]
      <3>2. /\ m \in RunMemRow /\ m.st.status = ends
            /\ m.st.application = held[j].st.application
            /\ m.at = held[j].at /\ m.answer = held[j].answer /\ m.seen = held[j].seen
            /\ m.new = held[j].new /\ m.mail = held[j].mail /\ m.note = held[j].note
        BY <1>1, Restated
      <3>3. R!Step(j, R!After(held[j].at, m.st), m)
        BY <3>1
      <3> HIDE DEF m
      <3>4. QED
        BY <3>2, <3>3
    <2>3. CASE R!WorkNode(j)
      <3>1. PICK calls \in {0, 1} :
              R!Step(j, R!After(held[j].at, R!Worked(j, calls).st), R!Worked(j, calls))
        BY <2>3 DEF R!WorkNode, R!LlmCalls
      <3> DEFINE m == R!Worked(j, calls)
      <3>2. /\ m \in RunMemRow /\ m.st.status = held[j].st.status
            /\ m.st.application = held[j].st.application
            /\ m.at = held[j].at /\ m.answer = held[j].answer /\ m.seen = held[j].seen
            /\ m.new = held[j].new /\ m.mail = held[j].mail /\ m.note = held[j].note
        BY <1>1, <2>3, WorkedRow DEF R!WorkNode
      <3>3. /\ R!Step(j, R!After(held[j].at, m.st), m)
            /\ held[j].at \notin {"application_prep", "email_external_action", "respond"}
        BY <3>1, <2>3 DEF R!WorkNode
      <3> HIDE DEF m
      <3>4. QED
        BY <3>2, <3>3
    <2>4. QED
      BY <2>1, <2>2, <2>3
  <1>3. PICK m \in RunMemRow :
          /\ m.at = held[j].at /\ m.st.application = held[j].st.application
          /\ m.answer = held[j].answer /\ m.seen = held[j].seen /\ m.new = held[j].new
          /\ m.mail = held[j].mail /\ m.note = held[j].note
          /\ m.st.status \in {"halted", "error"} \/
               (m.st.status = held[j].st.status /\
                held[j].at \notin {"application_prep", "email_external_action", "respond"})
          /\ R!Step(j, R!After(held[j].at, m.st), m)
    BY <1>2
  <1> DEFINE n == R!After(held[j].at, m.st)
             row == [m EXCEPT !.at = n]
  <1>4. n \in MemPlaces
    BY <1>1, Afterwards DEF MemPlaces
  <1>5. /\ held' = [held EXCEPT ![j] = row] /\ saved' = [at |-> n, st |-> m.st]
        /\ UNCHANGED <<goal, late, status, stop, asked, said, worker, email, delivered>>
    BY <1>3 DEF R!Step, R!Goes, R!GuardHalts, R!NodeFails, R!WorkNode
  <1>6. row.at = n /\ row.st = m.st
    BY <1>4, Placed
  <1>7. saved' = [at |-> row.at, st |-> row.st]
    BY <1>5, <1>6
  <1>8. Leads(j, row) /\ row.new = held[j].new
    BY <1>1, <1>3, <1>5, <1>7, NodeKeeps
  <1> HIDE DEF row
  <1>9. Effects(j, row)
    BY <1>1, <1>5, <1>8, Types DEF Effects, RunIInv
  <1>10. QED
    BY <1>8, <1>9

(* The approval is prepared while no other is open, and pauses the run.      *)
LEMMA ApplicationPrepLeads ==
  ASSUME RunIInv, NEW j \in R!Kinds, R!ApplicationPrep(j)
  PROVE  \E row : Leads(j, row) /\ Effects(j, row)
  <1>1. /\ R!TypeOK /\ held[j] \in RunMemRow /\ held[j].at = "application_prep"
        /\ R!Breach(held[j].st) = "none" /\ R!NoPendingApproval
        /\ Holds(held[j], asked, delivered)
        /\ Tracks(held[j].at, held[j].st, delivered)
    BY Types DEF RunIInv, JobsHold, JobsTrack, R!ApplicationPrep, R!Runs
  <1>2. PICK a \in R!Applications :
          /\ asked[a] = "none"
          /\ LET m == [R!Worked(j, 0) EXCEPT !.st.application = a, !.new = a]
             IN R!Step(j, R!After("application_prep", m.st), m)
    BY DEF R!ApplicationPrep
  <1> DEFINE w == R!Worked(j, 0)
             m == [w EXCEPT !.st.application = a, !.new = a]
             n == R!After("application_prep", m.st)
             row == [m EXCEPT !.at = n]
  <1>3. /\ w \in RunMemRow /\ w.st.status = held[j].st.status /\ w.answer = held[j].answer
        /\ w.seen = held[j].seen /\ w.mail = held[j].mail /\ w.note = held[j].note
    BY <1>1, WorkedRow
  <1>4. R!Step(j, n, m)
    BY <1>2
  <1> HIDE DEF w
  <1>5. /\ m \in RunMemRow /\ m.st.application = a /\ m.new = a
        /\ m.st.status = w.st.status /\ m.answer = w.answer /\ m.seen = w.seen
        /\ m.mail = w.mail /\ m.note = w.note
    <2>1. w.st \in R!GraphState
      BY <1>3 DEF RunMemRow
    <2>2. QED
      BY <1>3, <2>1 DEF RunMemRow, R!GraphState
  <1> HIDE DEF m
  <1>6. n \in {"human_approval", "halted"}
    BY DEF R!After, R!Onward
  <1>7. n \in R!Places /\ n \in MemPlaces
    BY <1>6 DEF R!Places, MemPlaces
  <1>8. /\ held' = [held EXCEPT ![j] = row] /\ saved' = [at |-> n, st |-> m.st]
        /\ UNCHANGED <<goal, late, status, stop, asked, said, worker, email, delivered>>
    BY <1>4 DEF R!Step, R!Goes, R!ApplicationPrep
  <1> HIDE DEF n
  <1>9. /\ row \in RunMemRow /\ row.at = n /\ row.st = m.st /\ row.answer = m.answer
        /\ row.seen = m.seen /\ row.new = m.new /\ row.mail = m.mail /\ row.note = m.note
    BY <1>5, <1>7, Placed
  <1> HIDE DEF row
  <1>10. a # 0
    BY DEF R!Applications
  <1>11. Holds(row, asked, delivered')
    BY <1>1, <1>3, <1>5, <1>6, <1>8, <1>9, <1>10 DEF Holds
  <1>12. Tracks(row.at, row.st, delivered')
    BY <1>1, <1>3, <1>5, <1>6, <1>8, <1>9 DEF Tracks, Applying, Matching
  <1>13. Leads(j, row)
    BY <1>7, <1>8, <1>9, <1>11, <1>12 DEF Leads
  <1>14. Effects(j, row)
    BY <1>1, <1>2, <1>5, <1>8, <1>9, Types DEF Effects
  <1>15. QED
    BY <1>13, <1>14

(* The interrupt pauses the job that brought no answer; one that did goes    *)
(* on with the approval it has now read.                                    *)
LEMMA HumanApprovalLeads ==
  ASSUME RunIInv, NEW j \in R!Kinds, R!HumanApproval(j)
  PROVE  \E row : Leads(j, row) /\ Effects(j, row)
  <1>1. /\ R!TypeOK /\ held[j] \in RunMemRow /\ held[j].at = "human_approval"
        /\ Holds(held[j], asked, delivered)
        /\ Tracks(held[j].at, held[j].st, delivered)
        /\ UNCHANGED <<email, delivered>>
    BY Types DEF RunIInv, JobsHold, JobsTrack, R!HumanApproval
  <1> DEFINE read == IF held[j].st.application = 0 THEN "none"
                     ELSE asked[held[j].st.application]
             m == [held[j] EXCEPT !.answer = FALSE, !.seen = read]
  <1>2. read \in R!ApprovalStatuses
    <2>1. held[j].st.application \in R!Applications \cup {0}
      BY <1>1 DEF RunMemRow, R!GraphState
    <2>2. QED
      BY <1>1, <2>1, Types DEF R!ApprovalStatuses
  <1>3. read = "approved" =>
          held[j].st.application # 0 /\ asked[held[j].st.application] = "approved"
    OBVIOUS
  <1>4. CASE /\ ~held[j].answer /\ held' = [held EXCEPT ![j].at = "paused"]
             /\ UNCHANGED <<goal, late, status, stop, asked, said, worker, saved>>
    <2> DEFINE row == [held[j] EXCEPT !.at = "paused"]
    <2>1. /\ row \in RunMemRow /\ row.at = "paused" /\ row.st = held[j].st
          /\ row.answer = held[j].answer /\ row.seen = held[j].seen
          /\ row.new = held[j].new /\ row.mail = held[j].mail /\ row.note = held[j].note
      BY <1>1, Placed DEF MemPlaces
    <2>2. held' = [held EXCEPT ![j] = row]
      BY <1>4
    <2> HIDE DEF row
    <2>3. Holds(row, asked, delivered')
      BY <1>1, <1>4, <2>1 DEF Holds
    <2>4. Tracks(row.at, row.st, delivered')
      BY <1>1, <1>4, <2>1 DEF Tracks, Applying, Matching
    <2>5. Leads(j, row)
      BY <1>4, <2>1, <2>2, <2>3, <2>4 DEF Leads
    <2>6. Effects(j, row)
      BY <1>1, <2>1, Types DEF Effects
    <2>7. QED
      BY <2>5, <2>6
  <1>5. /\ m \in RunMemRow /\ m.seen = read /\ m.answer = FALSE /\ m.st = held[j].st
        /\ m.new = held[j].new /\ m.mail = held[j].mail /\ m.note = held[j].note
    <2> HIDE DEF read
    <2>1. QED
      BY <1>1, <1>2 DEF RunMemRow
  <1>6. CASE held[j].answer /\ R!Step(j, "email_external_action", m)
    <2> DEFINE row == [m EXCEPT !.at = "email_external_action"]
    <2>1. /\ held' = [held EXCEPT ![j] = row]
          /\ saved' = [at |-> "email_external_action", st |-> m.st]
          /\ UNCHANGED <<goal, late, status, stop, asked, said, worker>>
      BY <1>6 DEF R!Step, R!Goes
    <2> HIDE DEF m, read
    <2>2. "email_external_action" \in R!Places /\ "email_external_action" \in MemPlaces
      BY DEF R!Places, MemPlaces, R!Guarded
    <2>3. /\ row \in RunMemRow /\ row.at = "email_external_action" /\ row.st = m.st
          /\ row.answer = m.answer /\ row.seen = m.seen
          /\ row.new = m.new /\ row.mail = m.mail /\ row.note = m.note
      BY <1>5, <2>2, Placed
    <2> HIDE DEF row
    <2>4. Holds(row, asked, delivered')
      BY <1>1, <1>3, <1>5, <1>6, <2>1, <2>3 DEF Holds
    <2>5. Tracks(row.at, row.st, delivered')
      BY <1>1, <1>5, <2>1, <2>3 DEF Tracks, Applying, Matching
    <2>6. Leads(j, row)
      BY <2>1, <2>2, <2>3, <2>4, <2>5 DEF Leads
    <2>7. Effects(j, row)
      BY <1>1, <1>5, <2>3, Types DEF Effects
    <2>8. QED
      BY <2>6, <2>7
  <1>7. CASE held[j].answer /\ R!Step(j, "halted", [m EXCEPT !.st.status = "rejected"])
    <2> DEFINE x == [m EXCEPT !.st.status = "rejected"]
    <2>1. R!Step(j, "halted", x)
      BY <1>7
    <2> HIDE DEF m, read
    <2>2. /\ x \in RunMemRow /\ x.st.status = "rejected"
          /\ x.st.application = m.st.application /\ x.answer = m.answer
          /\ x.seen = m.seen /\ x.new = m.new /\ x.mail = m.mail /\ x.note = m.note
      <3>1. "rejected" \in R!SessionStatuses
        BY DEF R!SessionStatuses
      <3>2. QED
        BY <1>5, <3>1, Restated
    <2> HIDE DEF x
    <2> DEFINE row == [x EXCEPT !.at = "halted"]
    <2>3. /\ held' = [held EXCEPT ![j] = row] /\ saved' = [at |-> "halted", st |-> x.st]
          /\ UNCHANGED <<goal, late, status, stop, asked, said, worker>>
      BY <2>1 DEF R!Step, R!Goes
    <2>4. "halted" \in R!Places /\ "halted" \in MemPlaces
      BY DEF R!Places, MemPlaces
    <2>5. /\ row \in RunMemRow /\ row.at = "halted" /\ row.st = x.st
          /\ row.answer = x.answer /\ row.seen = x.seen
          /\ row.new = x.new /\ row.mail = x.mail /\ row.note = x.note
      BY <2>2, <2>4, Placed
    <2> HIDE DEF row
    <2>6. Holds(row, asked, delivered')
      BY <1>1, <1>3, <1>5, <1>7, <2>2, <2>3, <2>5 DEF Holds
    <2>7. Tracks(row.at, row.st, delivered')
      BY <1>1, <1>5, <2>2, <2>3, <2>5 DEF Tracks, Applying, Matching
    <2>8. Leads(j, row)
      BY <2>3, <2>4, <2>5, <2>6, <2>7 DEF Leads
    <2>9. Effects(j, row)
      BY <1>1, <1>5, <2>2, <2>5, Types DEF Effects
    <2>10. QED
      BY <2>8, <2>9
  <1>8. QED
    BY <1>4, <1>6, <1>7 DEF R!HumanApproval

(* The send node: refused or failed it halts the run, done it completes it;   *)
(* it carries an outcome only for an application it saw approved.           *)
LEMMA SendGoes ==
  ASSUME RunIInv, NEW j \in R!Kinds, held[j].at = "email_external_action",
         NEW m \in RunMemRow, NEW n, n = R!After("email_external_action", m.st),
         m.st.application = held[j].st.application, m.answer = held[j].answer,
         m.seen = held[j].seen, m.new = held[j].new, m.note = held[j].note,
         m.mail = held[j].mail \/ R!SendNodeApproved(j),
         m.st.status = "halted" \/ (m.st.status = "completed" /\ delivered' # {}),
         delivered \subseteq delivered',
         R!Goes(j, n, m), saved' \in {saved, [at |-> n, st |-> m.st]}
  PROVE  \E row : Leads(j, row) /\ row.new = held[j].new
  <1>1. /\ R!TypeOK /\ held[j] \in RunMemRow
        /\ Holds(held[j], asked, delivered)
        /\ Tracks(held[j].at, held[j].st, delivered)
    BY Types DEF RunIInv, JobsHold, JobsTrack
  <1>2. /\ m.st.status = "halted" => n = "halted"
        /\ m.st.status = "completed" => n = "respond"
    BY DEF R!After, R!Onward
  <1>3. n \in {"halted", "respond"} /\ n \in R!Places /\ n \in MemPlaces
    BY <1>2 DEF R!Places, MemPlaces, R!Guarded
  <1> DEFINE row == [m EXCEPT !.at = n]
  <1>4. /\ held' = [held EXCEPT ![j] = row]
        /\ UNCHANGED <<goal, late, status, stop, asked, said, worker>>
    BY DEF R!Goes
  <1>5. /\ row \in RunMemRow /\ row.at = n /\ row.st = m.st /\ row.answer = m.answer
        /\ row.seen = m.seen /\ row.new = m.new /\ row.mail = m.mail /\ row.note = m.note
    BY <1>3, Placed
  <1> HIDE DEF row
  <1>6. held[j].mail = "none" /\ held[j].new = 0 /\ ~held[j].answer
    BY <1>1 DEF Holds
  <1>7. R!SendNodeApproved(j) => m.st.application # 0 /\ asked[m.st.application] = "approved"
    BY <1>1 DEF R!SendNodeApproved, R!ApprovalSeen, Holds
  <1>8. Holds(row, asked, delivered')
    BY <1>1, <1>3, <1>5, <1>6, <1>7 DEF Holds
  <1>9. Tracks(row.at, row.st, delivered')
    BY <1>1, <1>2, <1>3, <1>5 DEF Tracks, Applying, Matching
  <1>10. Leads(j, row)
    BY <1>3, <1>4, <1>5, <1>8, <1>9 DEF Leads
  <1>11. QED
    BY <1>5, <1>10

LEMMA EmailExternalActionLeads ==
  ASSUME RunIInv, NEW j \in R!Kinds, R!EmailExternalAction(j)
  PROVE  \E row : Leads(j, row) /\ Effects(j, row)
  <1>1. /\ R!TypeOK /\ held[j] \in RunMemRow /\ held[j].at = "email_external_action"
        /\ R!Breach(held[j].st) = "none"
        /\ Holds(held[j], asked, delivered)
    BY Types DEF RunIInv, JobsHold, R!EmailExternalAction, R!Runs
  <1>2. /\ email \in [R!Applications -> Mails] /\ delivered \subseteq R!Applications
        /\ held[j].st.application \in R!Applications \cup {0}
    BY <1>1, Types DEF RunMemRow, R!GraphState
  <1> DEFINE a == held[j].st.application
             w == R!Worked(j, 0)
             refused == [w EXCEPT !.st.status = "halted"]
             failed == [refused EXCEPT !.mail = "failed"]
             gone == [w EXCEPT !.st.status = "completed", !.mail = "sent"]
             n(m) == R!After("email_external_action", m.st)
             go(m) == R!Goes(j, n(m), m) /\ saved' \in {saved, [at |-> n(m), st |-> m.st]}
  <1>3. /\ w \in RunMemRow /\ w.st.application = a /\ w.answer = held[j].answer
        /\ w.seen = held[j].seen /\ w.new = held[j].new /\ w.mail = held[j].mail
        /\ w.note = held[j].note
    BY <1>1, WorkedRow
  <1>4. \/ go(refused) /\ UNCHANGED <<email, delivered>>
        \/ /\ R!SendNodeApproved(j) /\ email' = [email EXCEPT ![a] = "sending"]
           /\ \/ delivered' = delivered \cup {a} /\ go(gone)
              \/ delivered' \in {delivered, delivered \cup {a}} /\ go(failed)
    BY DEF R!EmailExternalAction
  <1>5. R!SendNodeApproved(j) => a \in R!Applications /\ asked[a] = "approved"
    BY <1>1, <1>2 DEF R!SendNodeApproved, R!ApprovalSeen, Holds
  <1> HIDE DEF w, a
  <1>6. /\ refused \in RunMemRow /\ refused.st.status = "halted"
        /\ refused.st.application = w.st.application /\ refused.answer = w.answer
        /\ refused.seen = w.seen /\ refused.new = w.new /\ refused.mail = w.mail
        /\ refused.note = w.note
    <2>1. "halted" \in R!SessionStatuses
      BY DEF R!SessionStatuses
    <2>2. QED
      BY <1>3, <2>1, Restated
  <1>7. /\ gone \in RunMemRow /\ gone.st.status = "completed"
        /\ gone.st.application = w.st.application /\ gone.answer = w.answer
        /\ gone.seen = w.seen /\ gone.new = w.new /\ gone.note = w.note
    <2>1. w.st \in R!GraphState
      BY <1>3 DEF RunMemRow
    <2>2. QED
      BY <1>3, <2>1 DEF RunMemRow, R!GraphState, R!SessionStatuses
  <1> HIDE DEF refused, gone
  <1>8. /\ failed \in RunMemRow /\ failed.st = refused.st /\ failed.answer = refused.answer
        /\ failed.seen = refused.seen /\ failed.new = refused.new
        /\ failed.note = refused.note
    BY <1>6 DEF RunMemRow
  <1> HIDE DEF failed
  <1>9. CASE go(refused) /\ UNCHANGED <<email, delivered>>
    <2>1. \E row : Leads(j, row) /\ row.new = held[j].new
      BY <1>1, <1>3, <1>6, <1>9, SendGoes DEF a
    <2>2. \A row : row.new = held[j].new => Effects(j, row)
      BY <1>2, <1>9 DEF Effects
    <2>3. QED
      BY <2>1, <2>2
  <1>10. ASSUME R!SendNodeApproved(j), email' = [email EXCEPT ![a] = "sending"],
                delivered' \in {delivered, delivered \cup {a}}, NEW row,
                row.new = held[j].new
         PROVE  Effects(j, row)
    <2>1. email' \in [R!Applications -> Mails]
      BY <1>2, <1>10 DEF Mails
    <2>2. \A b \in R!Applications :
            email'[b] # "draft" => email[b] # "draft" \/ asked[b] = "approved"
      BY <1>2, <1>5, <1>10
    <2>3. delivered \subseteq delivered' /\ delivered' \subseteq R!Applications
      BY <1>2, <1>5, <1>10
    <2>4. QED
      BY <1>10, <2>1, <2>2, <2>3 DEF Effects
  <1>11. CASE /\ R!SendNodeApproved(j) /\ email' = [email EXCEPT ![a] = "sending"]
              /\ delivered' = delivered \cup {a} /\ go(gone)
    <2>1. \E row : Leads(j, row) /\ row.new = held[j].new
      BY <1>1, <1>3, <1>7, <1>11, SendGoes DEF a
    <2>2. QED
      BY <1>10, <1>11, <2>1
  <1>12. CASE /\ R!SendNodeApproved(j) /\ email' = [email EXCEPT ![a] = "sending"]
              /\ delivered' \in {delivered, delivered \cup {a}} /\ go(failed)
    <2>1. \E row : Leads(j, row) /\ row.new = held[j].new
      BY <1>1, <1>3, <1>6, <1>8, <1>12, SendGoes DEF a
    <2>2. QED
      BY <1>10, <1>12, <2>1
  <1>13. QED
    BY <1>4, <1>9, <1>11, <1>12

(* respond says "sent" only after a send, and completes the run.             *)
LEMMA RespondLeads ==
  ASSUME RunIInv, NEW j \in R!Kinds, R!Respond(j)
  PROVE  \E row : Leads(j, row) /\ Effects(j, row)
  <1>1. /\ R!TypeOK /\ held[j] \in RunMemRow /\ held[j].at = "respond"
        /\ R!Breach(held[j].st) = "none"
        /\ Holds(held[j], asked, delivered)
        /\ Tracks(held[j].at, held[j].st, delivered)
        /\ UNCHANGED <<email, delivered>>
    BY Types DEF RunIInv, JobsHold, JobsTrack, R!Respond, R!Runs
  <1> DEFINE told == IF held[j].st.application # 0 /\ held[j].st.status = "completed"
                     THEN "sent" ELSE "answer"
  <1>2. PICK calls \in {0, 1} :
          R!Step(j, "end", [R!Worked(j, calls) EXCEPT !.st.status = "completed", !.note = told])
    BY DEF R!Respond, R!LlmCalls
  <1> DEFINE w == R!Worked(j, calls)
             m == [w EXCEPT !.st.status = "completed", !.note = told]
             row == [m EXCEPT !.at = "end"]
  <1>3. /\ w \in RunMemRow /\ w.st.application = held[j].st.application
        /\ w.answer = held[j].answer /\ w.seen = held[j].seen /\ w.new = held[j].new
        /\ w.mail = held[j].mail
    BY <1>1, WorkedRow
  <1>4. R!Step(j, "end", m)
    BY <1>2
  <1>5. /\ told \in {"sent", "answer"}
        /\ told = "sent" => held[j].st.application # 0 /\ held[j].st.status = "completed"
    OBVIOUS
  <1> HIDE DEF w, told
  <1>6. /\ m \in RunMemRow /\ m.st.status = "completed"
        /\ m.st.application = w.st.application /\ m.answer = w.answer
        /\ m.seen = w.seen /\ m.new = w.new /\ m.mail = w.mail /\ m.note = told
    <2>1. w.st \in R!GraphState
      BY <1>3 DEF RunMemRow
    <2>2. QED
      BY <1>3, <1>5, <2>1 DEF RunMemRow, R!GraphState, R!SessionStatuses
  <1>7. /\ held' = [held EXCEPT ![j] = row] /\ saved' = [at |-> "end", st |-> m.st]
        /\ UNCHANGED <<goal, late, status, stop, asked, said, worker>>
    BY <1>4 DEF R!Step, R!Goes
  <1> HIDE DEF m
  <1>8. "end" \in R!Places /\ "end" \in MemPlaces
    BY DEF R!Places, MemPlaces
  <1>9. /\ row \in RunMemRow /\ row.at = "end" /\ row.st = m.st /\ row.answer = m.answer
        /\ row.seen = m.seen /\ row.new = m.new /\ row.mail = m.mail /\ row.note = m.note
    BY <1>6, <1>8, Placed
  <1> HIDE DEF row
  <1>10. Holds(row, asked, delivered')
    BY <1>1, <1>3, <1>5, <1>6, <1>9 DEF Holds, Tracks
  <1>11. Tracks(row.at, row.st, delivered')
    BY <1>1, <1>3, <1>6, <1>9 DEF Tracks, Applying, Matching
  <1>12. Leads(j, row)
    BY <1>7, <1>8, <1>9, <1>10, <1>11 DEF Leads
  <1>13. Effects(j, row)
    BY <1>1, <1>3, <1>6, <1>9, Types DEF Effects
  <1>14. QED
    BY <1>12, <1>13

LEMMA HaltedLeads ==
  ASSUME RunIInv, NEW j \in R!Kinds, R!Halted(j)
  PROVE  \E row : Leads(j, row) /\ Effects(j, row)
  <1>1. /\ R!TypeOK /\ held[j] \in RunMemRow /\ held[j].at = "halted"
        /\ Holds(held[j], asked, delivered)
        /\ Tracks(held[j].at, held[j].st, delivered)
        /\ UNCHANGED <<email, delivered>>
    BY Types DEF RunIInv, JobsHold, JobsTrack, R!Halted
  <1> DEFINE m == [held[j] EXCEPT !.note = "halted"]
             row == [m EXCEPT !.at = "end"]
  <1>2. /\ m \in RunMemRow /\ m.st = held[j].st /\ m.answer = held[j].answer
        /\ m.seen = held[j].seen /\ m.new = held[j].new /\ m.mail = held[j].mail
        /\ m.note = "halted"
    BY <1>1 DEF RunMemRow
  <1>3. /\ held' = [held EXCEPT ![j] = row] /\ saved' = [at |-> "end", st |-> m.st]
        /\ UNCHANGED <<goal, late, status, stop, asked, said, worker>>
    BY DEF R!Halted, R!Step, R!Goes
  <1> HIDE DEF m
  <1>4. "end" \in R!Places /\ "end" \in MemPlaces
    BY DEF R!Places, MemPlaces
  <1>5. /\ row \in RunMemRow /\ row.at = "end" /\ row.st = m.st /\ row.answer = m.answer
        /\ row.seen = m.seen /\ row.new = m.new /\ row.mail = m.mail /\ row.note = m.note
    BY <1>2, <1>4, Placed
  <1> HIDE DEF row
  <1>6. Holds(row, asked, delivered')
    BY <1>1, <1>2, <1>5 DEF Holds
  <1>7. Tracks(row.at, row.st, delivered')
    BY <1>1, <1>2, <1>3, <1>5 DEF Tracks, Applying, Matching
  <1>8. Leads(j, row)
    BY <1>3, <1>4, <1>5, <1>6, <1>7 DEF Leads
  <1>9. Effects(j, row)
    BY <1>1, <1>2, <1>5, Types DEF Effects
  <1>10. QED
    BY <1>8, <1>9

LEMMA NodeLeads ==
  ASSUME RunIInv, NEW j \in R!Kinds, R!Node(j)
  PROVE  \E row : Leads(j, row) /\ Effects(j, row)
  BY SupervisorLeads, KeepingLeads, ApplicationPrepLeads, HumanApprovalLeads,
     EmailExternalActionLeads, RespondLeads, HaltedLeads DEF R!Node

-----------------------------------------------------------------------------
(* What every step preserves.                                               *)

(* An approval once given stays given, and what the server took stays taken. *)
Onwards ==
  /\ goal' = goal /\ delivered \subseteq delivered' /\ delivered' \subseteq R!Applications
  /\ asked' \in [R!Applications -> R!ApprovalStatuses]
  /\ \A a \in R!Applications : asked[a] = "approved" => asked'[a] = "approved"

(* The other job's memory, and the checkpoint, stand while they do.         *)
LEMMA RowsStand ==
  ASSUME RunIInv, Onwards, NEW j \in R!Kinds, NEW row \in RunMemRow,
         held' = [held EXCEPT ![j] = row],
         Holds(row, asked', delivered'), Tracks(row.at, row.st, delivered'),
         saved' = saved \/ (row.at \in R!Places /\ saved' = [at |-> row.at, st |-> row.st])
  PROVE  /\ held' \in [R!Kinds -> RunMemRow] /\ saved' \in [at : R!Places, st : R!GraphState]
         /\ JobsHold' /\ JobsTrack' /\ ThreadTrack'
  <1>1. /\ held \in [R!Kinds -> RunMemRow] /\ saved \in [at : R!Places, st : R!GraphState]
        /\ asked \in [R!Applications -> R!ApprovalStatuses]
        /\ \A k \in R!Kinds : held[k].st.application \in R!Applications \cup {0}
    BY Types DEF RunIInv, RunMemRow, R!GraphState
  <1>2. held' \in [R!Kinds -> RunMemRow] /\ saved' \in [at : R!Places, st : R!GraphState]
    BY <1>1 DEF RunMemRow
  <1>3. held'[j] = row /\ \A k \in R!Kinds \ {j} : held'[k] = held[k]
    BY <1>1
  <1>4. JobsHold'
    <2>1. ASSUME NEW k \in R!Kinds PROVE Holds(held'[k], asked', delivered')
      <3>1. CASE k = j
        BY <1>3, <3>1
      <3>2. CASE k # j
        <4>1. Holds(held[k], asked, delivered)
          BY DEF RunIInv, JobsHold
        <4>2. Holds(held[k], asked', delivered')
          BY <1>1, <4>1 DEF Holds, Onwards
        <4>3. QED
          BY <1>3, <3>2, <4>2
      <3>3. QED
        BY <3>1, <3>2
    <2>2. QED
      BY <2>1 DEF JobsHold
  <1>5. ASSUME NEW at, NEW st, Tracks(at, st, delivered)
        PROVE  Tracks(at, st, delivered')
    BY <1>5 DEF Tracks, Onwards
  <1>6. ASSUME NEW at, NEW st, Tracks(at, st, delivered')
        PROVE  /\ st.status # "awaiting_approval"
               /\ (at \in Applying \/ st.application # 0) => goal' = "prepare_application"
               /\ at \in Matching => goal' # "prepare_application"
               /\ goal' = "prepare_application" =>
                    /\ at = "respond" => st.status = "completed"
                    /\ st.status = "completed" => delivered' # {}
    BY <1>6 DEF Tracks, Onwards
  <1>7. JobsTrack'
    <2>1. ASSUME NEW k \in R!Kinds PROVE Tracks(held'[k].at, held'[k].st, delivered')
      BY <1>3, <1>5 DEF RunIInv, JobsTrack
    <2>2. QED
      BY <1>6, <2>1 DEF JobsTrack, Tracks
  <1>8. ThreadTrack'
    <2>1. Tracks(saved'.at, saved'.st, delivered')
      BY <1>5 DEF RunIInv, ThreadTrack
    <2>2. QED
      BY <1>6, <2>1 DEF ThreadTrack, Tracks
  <1>9. QED
    BY <1>2, <1>4, <1>7, <1>8

(* The job's memory before it starts and after it ends. *)
LEMMA Idling ==
  ASSUME NEW given, NEW taken, NEW row \in {R!Idle, [R!Idle EXCEPT !.at = "publishing"]}
  PROVE  /\ row \in RunMemRow /\ row.new = 0
         /\ Holds(row, given, taken) /\ Tracks(row.at, row.st, taken)
  <1>1. R!Fresh \in R!GraphState
    BY CapsGiven DEF R!Fresh, R!GraphState, R!SessionStatuses
  <1>2. /\ row \in RunMemRow /\ row.at \in {"off", "publishing"} /\ row.st = R!Fresh
        /\ row.new = 0 /\ row.answer = FALSE /\ row.seen = "unread"
        /\ row.mail = "none" /\ row.note = "none"
    <2>1. /\ R!Idle \in RunMemRow /\ R!Idle.at = "off" /\ R!Idle.st = R!Fresh
          /\ R!Idle.new = 0 /\ R!Idle.answer = FALSE /\ R!Idle.seen = "unread"
          /\ R!Idle.mail = "none" /\ R!Idle.note = "none"
      BY <1>1 DEF R!Idle, RunMemRow, MemPlaces, R!SessionStatuses, R!ApprovalStatuses
    <2>2. CASE row = R!Idle
      BY <2>1, <2>2
    <2>3. CASE row = [R!Idle EXCEPT !.at = "publishing"]
      BY <2>1, <2>3 DEF RunMemRow, MemPlaces
    <2>4. QED
      BY <2>2, <2>3
  <1>3. Holds(row, given, taken)
    BY <1>2 DEF Holds
  <1>4. Tracks(row.at, row.st, taken)
    BY <1>2 DEF Tracks, R!Fresh, Applying, Matching
  <1>5. QED
    BY <1>2, <1>3, <1>4

(* A step of the graph keeps the invariant. *)
LEMMA NodeStep ==
  ASSUME RunIInv, NEW j \in R!Kinds, R!Node(j)
  PROVE  RunIInv'
  <1>1. PICK row : Leads(j, row) /\ Effects(j, row)
    BY NodeLeads
  <1>2. /\ R!TypeOK /\ held \in [R!Kinds -> RunMemRow] /\ worker \in [R!Kinds -> RunJobRow]
        /\ asked \in [R!Applications -> R!ApprovalStatuses]
        /\ status \in R!SessionStatuses /\ goal \in Goals
    BY Types DEF RunIInv
  <1>3. /\ held'[j] = row /\ \A k \in R!Kinds \ {j} : held'[k] = held[k]
        /\ UNCHANGED <<goal, late, status, stop, asked, said, worker>>
    BY <1>1, <1>2 DEF Leads
  <1>4. Onwards
    BY <1>1, <1>2, <1>3 DEF Onwards, Effects
  <1>5. /\ held' \in [R!Kinds -> RunMemRow] /\ saved' \in [at : R!Places, st : R!GraphState]
        /\ JobsHold' /\ JobsTrack' /\ ThreadTrack'
    BY <1>1, <1>3, <1>4, RowsStand DEF Leads
  <1>6. R!TypeOK'
    BY <1>1, <1>2, <1>3, <1>5
       DEF Effects, R!TypeOK, RunMemRow, MemPlaces, RunJobRow, Mails
  <1>7. NewAlone'
    BY <1>1, <1>3 DEF RunIInv, NewAlone, Effects, R!NoPendingApproval, R!Applications
  <1>8. R!OwnApproval' /\ R!OnePendingApproval' /\ R!AwaitingIsDecidable'
    BY <1>1, <1>3
       DEF RunIInv, R!OwnApproval, R!OnePendingApproval, R!AwaitingIsDecidable, Effects
  <1>9. R!CompletedWasDelivered'
    BY <1>1, <1>3 DEF RunIInv, R!CompletedWasDelivered, Effects
  <1>10. QED
    BY <1>5, <1>6, <1>7, <1>8, <1>9 DEF RunIInv

(* A job takes the thread up where the checkpoint has it, or from the start.  *)
LEMMA JobStartStep ==
  ASSUME RunIInv, NEW j \in R!Kinds, R!JobStart(j)
  PROVE  RunIInv'
  <1>1. /\ R!TypeOK /\ held \in [R!Kinds -> RunMemRow] /\ worker \in [R!Kinds -> RunJobRow]
        /\ asked \in [R!Applications -> R!ApprovalStatuses]
        /\ saved \in [at : R!Places, st : R!GraphState] /\ stop \in BOOLEAN
        /\ status \in R!SessionStatuses /\ ThreadTrack
        /\ UNCHANGED <<goal, late, status, stop, asked, email, said, delivered>>
    BY Types DEF RunIInv, R!JobStart, R!rows
  <1> DEFINE fresh == [saved.st EXCEPT !.status = "running", !.steps = 0, !.llm = 0,
                                       !.stop = stop]
             idle == [R!Idle EXCEPT !.saw = status]
             first == [idle EXCEPT !.at = "supervisor", !.st = fresh]
             next == [idle EXCEPT !.at = saved.at, !.st = saved.st,
                                  !.answer = saved.at = "human_approval"]
  <1>2. /\ fresh \in R!GraphState /\ fresh.status = "running"
        /\ fresh.application = saved.st.application
    <2>1. saved.st \in R!GraphState /\ 0 \in 0..MaxSteps /\ 0 \in 0..MaxLlmCalls
      BY <1>1, CapsGiven
    <2>2. QED
      BY <1>1, <2>1 DEF R!GraphState, R!SessionStatuses
  <1>3. /\ j = "run" => held' = [held EXCEPT ![j] = first]
                        /\ saved' = [at |-> "supervisor", st |-> fresh]
        /\ j # "run" => held' = [held EXCEPT ![j] = next] /\ saved' = saved
    BY DEF R!JobStart
  <1> HIDE DEF fresh
  <1>4. /\ R!Idle \in RunMemRow /\ R!Idle.new = 0 /\ R!Idle.answer = FALSE
        /\ R!Idle.seen = "unread" /\ R!Idle.mail = "none" /\ R!Idle.note = "none"
    <2>1. R!Idle \in RunMemRow
      BY Idling
    <2>2. QED
      BY <2>1 DEF R!Idle
  <1>5. /\ idle \in RunMemRow /\ idle.new = 0 /\ idle.answer = FALSE
        /\ idle.seen = "unread" /\ idle.mail = "none" /\ idle.note = "none"
    BY <1>1, <1>4 DEF RunMemRow
  <1> HIDE DEF idle
  <1>6. /\ first \in RunMemRow /\ first.at = "supervisor" /\ first.st = fresh
        /\ first.new = 0 /\ first.answer = FALSE /\ first.seen = "unread"
        /\ first.mail = "none" /\ first.note = "none"
    <2>1. "supervisor" \in MemPlaces
      BY DEF MemPlaces, R!Places
    <2>2. QED
      BY <1>2, <1>5, <2>1 DEF RunMemRow
  <1>7. /\ next \in RunMemRow /\ next.at = saved.at /\ next.st = saved.st
        /\ next.new = 0 /\ next.answer = (saved.at = "human_approval")
        /\ next.seen = "unread" /\ next.mail = "none" /\ next.note = "none"
    <2>1. saved.at \in MemPlaces /\ saved.st \in R!GraphState
      BY <1>1 DEF MemPlaces
    <2>2. QED
      BY <1>5, <2>1 DEF RunMemRow
  <1> HIDE DEF first, next
  <1>8. Onwards
    BY <1>1, Types DEF Onwards
  <1>9. /\ Holds(first, asked', delivered')
        /\ Tracks(first.at, first.st, delivered')
    BY <1>1, <1>2, <1>6 DEF Holds, Tracks, ThreadTrack, Applying, Matching
  <1>10. /\ Holds(next, asked', delivered')
         /\ Tracks(next.at, next.st, delivered')
    <2>1. saved.at # "paused"
      BY <1>1 DEF R!Places, R!Guarded
    <2>2. QED
      BY <1>1, <1>7, <2>1 DEF Holds, Tracks, ThreadTrack
  <1>11. \E row \in RunMemRow :
           /\ held' = [held EXCEPT ![j] = row] /\ row.new = 0
           /\ Holds(row, asked', delivered') /\ Tracks(row.at, row.st, delivered')
           /\ saved' = saved \/ (row.at \in R!Places /\ saved' = [at |-> row.at, st |-> row.st])
    <2>1. CASE j = "run"
      <3>1. "supervisor" \in R!Places
        BY DEF R!Places
      <3>2. QED
        BY <1>3, <1>6, <1>9, <2>1, <3>1
    <2>2. CASE j # "run"
      BY <1>3, <1>7, <1>10, <2>2
    <2>3. QED
      BY <2>1, <2>2
  <1>12. PICK row \in RunMemRow :
           /\ held' = [held EXCEPT ![j] = row] /\ row.new = 0
           /\ Holds(row, asked', delivered') /\ Tracks(row.at, row.st, delivered')
           /\ saved' = saved \/ (row.at \in R!Places /\ saved' = [at |-> row.at, st |-> row.st])
    BY <1>11
  <1>13. /\ held' \in [R!Kinds -> RunMemRow] /\ saved' \in [at : R!Places, st : R!GraphState]
         /\ JobsHold' /\ JobsTrack' /\ ThreadTrack'
    BY <1>8, <1>12, RowsStand
  <1>14. worker' \in [R!Kinds -> RunJobRow]
    <2>1. worker[j] \in RunJobRow /\ worker[j].tries + 1 \in 0..MaxTries
      BY <1>1, CapsGiven DEF R!JobStart, R!TriesLeft, RunJobRow
    <2>2. ASSUME NEW t \in 0..MaxTries
          PROVE  [worker EXCEPT ![j].state = "running", ![j].tries = t] \in [R!Kinds -> RunJobRow]
      BY <1>1, <2>1 DEF RunJobRow
    <2>3. worker' = [worker EXCEPT ![j].state = "running", ![j].tries = worker[j].tries + 1]
      BY <1>1 DEF R!JobStart
    <2>4. QED
      BY <2>1, <2>2, <2>3
  <1>15. R!TypeOK'
    BY <1>1, <1>13, <1>14 DEF R!TypeOK, RunMemRow, MemPlaces, RunJobRow
  <1>16. NewAlone'
    BY <1>1, <1>12 DEF RunIInv, NewAlone
  <1>17. /\ R!OwnApproval' /\ R!OnePendingApproval' /\ R!AwaitingIsDecidable'
         /\ R!CompletedWasDelivered'
    BY <1>1 DEF RunIInv, R!OwnApproval, R!OnePendingApproval, R!AwaitingIsDecidable,
                R!CompletedWasDelivered
  <1>18. QED
    BY <1>13, <1>15, <1>16, <1>17 DEF RunIInv

(* The commit: the approval the job held becomes the one that is pending,     *)
(* the outcome of its send becomes the record, the session its status.      *)
LEMMA JobCommitStep ==
  ASSUME RunIInv, NEW j \in R!Kinds, R!JobCommit(j)
  PROVE  RunIInv'
  <1> DEFINE new == held[j].new
             done == [R!Idle EXCEPT !.at = "publishing"]
  <1>1. /\ R!TypeOK /\ held \in [R!Kinds -> RunMemRow] /\ held[j] \in RunMemRow
        /\ asked \in [R!Applications -> R!ApprovalStatuses]
        /\ email \in [R!Applications -> Mails]
        /\ status \in R!SessionStatuses /\ said \subseteq {"sent", "answer", "halted"}
        /\ Holds(held[j], asked, delivered)
        /\ Tracks(held[j].at, held[j].st, delivered)
    BY Types DEF RunIInv, JobsHold, JobsTrack
  <1>2. /\ held[j].at \in {"paused", "end"}
        /\ status' = IF R!FinalStatus(j) = held[j].saw THEN status ELSE R!FinalStatus(j)
        /\ asked' = [a \in R!Applications |-> IF a = new THEN "pending" ELSE asked[a]]
        /\ email' = [a \in R!Applications |->
             IF a = held[j].st.application /\ held[j].mail # "none" THEN held[j].mail
             ELSE email[a]]
        /\ said' = IF held[j].note = "none" THEN said ELSE said \cup {held[j].note}
        /\ held' = [held EXCEPT ![j] = done]
        /\ UNCHANGED <<goal, late, stop, saved, worker, delivered>>
    BY DEF R!JobCommit
  <1>3. new # 0 => /\ new \in R!Applications /\ asked[new] = "none"
                   /\ \A a \in R!Applications : asked[a] # "pending"
                   /\ \A k \in R!Kinds \ {j} : held[k].new = 0
    BY <1>1 DEF RunIInv, NewAlone, RunMemRow
  <1>4. /\ \A a \in R!Applications : asked[a] = "approved" => asked'[a] = "approved"
        /\ asked' \in [R!Applications -> R!ApprovalStatuses]
    <2>1. 0 \notin R!Applications
      BY DEF R!Applications
    <2>2. QED
      BY <1>1, <1>2, <1>3, <2>1 DEF R!ApprovalStatuses
  <1>5. Onwards
    BY <1>1, <1>2, <1>4, Types DEF Onwards
  <1>6. /\ done \in RunMemRow /\ done.new = 0
        /\ Holds(done, asked', delivered')
        /\ Tracks(done.at, done.st, delivered')
    BY Idling
  <1> HIDE DEF done
  <1>7. /\ held' \in [R!Kinds -> RunMemRow] /\ saved' \in [at : R!Places, st : R!GraphState]
        /\ JobsHold' /\ JobsTrack' /\ ThreadTrack'
    BY <1>2, <1>5, <1>6, RowsStand
  <1>8. R!FinalStatus(j) \in R!SessionStatuses
    BY <1>1 DEF R!FinalStatus, RunMemRow, R!GraphState, R!SessionStatuses
  <1>9. R!TypeOK'
    <2>1. email' \in [R!Applications -> Mails]
      BY <1>1, <1>2 DEF RunMemRow, Mails
    <2>2. said' \subseteq {"sent", "answer", "halted"}
      BY <1>1, <1>2 DEF RunMemRow
    <2>3. status' \in R!SessionStatuses
      BY <1>1, <1>2, <1>8
    <2>4. QED
      BY <1>1, <1>2, <1>4, <1>7, <2>1, <2>2, <2>3
         DEF R!TypeOK, RunMemRow, MemPlaces, RunJobRow, Mails
  <1>10. NewAlone'
    <2>1. held'[j].new = 0 /\ \A k \in R!Kinds \ {j} : held'[k] = held[k]
      BY <1>1, <1>2, <1>6
    <2>2. \A k \in R!Kinds \ {j} : held[k].new # 0 => new = 0
      BY <1>3
    <2>3. new = 0 => asked' = asked
      <3>1. 0 \notin R!Applications
        BY DEF R!Applications
      <3>2. QED
        BY <1>1, <1>2, <3>1
    <2>4. QED
      BY <2>1, <2>2, <2>3 DEF RunIInv, NewAlone
  <1>11. R!OwnApproval'
    <2>1. ASSUME NEW a \in R!Applications, email'[a] # "draft" PROVE asked[a] = "approved"
      <3>1. CASE a = held[j].st.application /\ held[j].mail # "none"
        BY <1>1, <3>1 DEF Holds
      <3>2. CASE ~(a = held[j].st.application /\ held[j].mail # "none")
        BY <1>2, <2>1, <3>2 DEF RunIInv, R!OwnApproval
      <3>3. QED
        BY <3>1, <3>2
    <2>2. QED
      BY <1>4, <2>1 DEF R!OwnApproval
  <1>12. R!OnePendingApproval'
    <2>1. ASSUME NEW a \in R!Applications, NEW b \in R!Applications,
                 asked'[a] = "pending", asked'[b] = "pending"
          PROVE  a = b
      <3>1. CASE new = 0
        BY <1>2, <2>1, <3>1 DEF RunIInv, R!OnePendingApproval, R!Applications
      <3>2. CASE new # 0
        BY <1>2, <1>3, <2>1, <3>2
      <3>3. QED
        BY <3>1, <3>2
    <2>2. QED
      BY <2>1 DEF R!OnePendingApproval
  <1>13. R!AwaitingIsDecidable'
    <2>1. SUFFICES ASSUME status' = "awaiting_approval"
                   PROVE  \E a \in R!Applications : asked'[a] = "pending"
      BY DEF R!AwaitingIsDecidable
    <2>2. CASE new # 0
      BY <1>2, <1>3, <2>2
    <2>3. CASE new = 0
      <3>1. held[j].at = "end"
        BY <1>1, <1>2, <2>3 DEF Holds
      <3>2. status = "awaiting_approval"
        BY <1>1, <1>2, <2>1, <3>1 DEF R!FinalStatus, Tracks
      <3>3. PICK a \in R!Applications : asked[a] = "pending"
        BY <3>2 DEF RunIInv, R!AwaitingIsDecidable
      <3>4. asked'[a] = "pending"
        BY <1>2, <3>3
      <3>5. QED
        BY <3>4
    <2>4. QED
      BY <2>2, <2>3
  <1>14. R!CompletedWasDelivered'
    <2>1. status' = "completed" /\ goal = "prepare_application" => delivered # {}
      <3>1. CASE status' = status
        BY <3>1 DEF RunIInv, R!CompletedWasDelivered
      <3>2. CASE status' = R!FinalStatus(j)
        BY <1>1, <3>2 DEF R!FinalStatus, Tracks
      <3>3. QED
        BY <1>2, <3>1, <3>2
    <2>2. "sent" \in said' => delivered # {}
      BY <1>1, <1>2 DEF RunIInv, R!CompletedWasDelivered, Holds
    <2>3. QED
      BY <1>2, <2>1, <2>2 DEF R!CompletedWasDelivered
  <1>15. QED
    BY <1>7, <1>9, <1>10, <1>11, <1>12, <1>13, <1>14 DEF RunIInv

(* A job that is lost takes its uncommitted approval along.                   *)
LEMMA RollbackStep ==
  ASSUME RunIInv, NEW j \in R!Kinds, R!Rollback(j), worker' \in [R!Kinds -> RunJobRow],
         status' \in {status, "error"},
         UNCHANGED <<goal, late, stop, email, said, saved, delivered>>
  PROVE  RunIInv'
  <1> DEFINE new == held[j].new
  <1>1. /\ R!TypeOK /\ held \in [R!Kinds -> RunMemRow] /\ held[j] \in RunMemRow
        /\ asked \in [R!Applications -> R!ApprovalStatuses]
        /\ email \in [R!Applications -> Mails]
        /\ status \in R!SessionStatuses
    BY Types DEF RunIInv
  <1>2. /\ held' = [held EXCEPT ![j] = R!Idle]
        /\ asked' = [a \in R!Applications |-> IF a = new THEN "lost" ELSE asked[a]]
    BY DEF R!Rollback
  <1>3. new \in R!Applications => asked[new] = "none"
    BY DEF RunIInv, NewAlone, R!Applications
  <1>4. /\ \A a \in R!Applications : asked'[a] = "pending" <=> asked[a] = "pending"
        /\ \A a \in R!Applications : asked[a] = "approved" => asked'[a] = "approved"
        /\ asked' \in [R!Applications -> R!ApprovalStatuses]
    BY <1>1, <1>2, <1>3 DEF R!ApprovalStatuses
  <1>5. Onwards
    BY <1>1, <1>4, Types DEF Onwards
  <1>6. /\ held' \in [R!Kinds -> RunMemRow] /\ saved' \in [at : R!Places, st : R!GraphState]
        /\ JobsHold' /\ JobsTrack' /\ ThreadTrack'
    BY <1>2, <1>5, Idling, RowsStand
  <1>7. R!TypeOK'
    BY <1>1, <1>4, <1>6 DEF R!TypeOK, RunMemRow, MemPlaces, RunJobRow, Mails, R!SessionStatuses
  <1>8. NewAlone'
    <2>1. held'[j].new = 0 /\ \A k \in R!Kinds \ {j} : held'[k] = held[k]
      BY <1>1, <1>2, Idling
    <2>2. ASSUME NEW k \in R!Kinds \ {j}, held[k].new # 0
          PROVE  asked'[held[k].new] = "none"
      <3>1. /\ held[k].new \in R!Applications /\ asked[held[k].new] = "none" /\ new = 0
        BY <1>1, <2>2 DEF RunIInv, NewAlone, RunMemRow
      <3>2. QED
        BY <1>2, <3>1 DEF R!Applications
    <2>3. QED
      BY <1>4, <2>1, <2>2 DEF RunIInv, NewAlone
  <1>9. /\ R!OwnApproval' /\ R!OnePendingApproval' /\ R!AwaitingIsDecidable'
        /\ R!CompletedWasDelivered'
    BY <1>4 DEF RunIInv, R!OwnApproval, R!OnePendingApproval, R!AwaitingIsDecidable,
                R!CompletedWasDelivered
  <1>10. QED
    BY <1>6, <1>7, <1>8, <1>9 DEF RunIInv

(* What the jobs hold stands in a step that touches no memory.                *)
LEMMA MemoryStands ==
  ASSUME RunIInv, Onwards, UNCHANGED <<held, saved>>
  PROVE  JobsHold' /\ JobsTrack' /\ ThreadTrack'
  <1>1. held \in [R!Kinds -> RunMemRow] /\ "run" \in R!Kinds /\ held["run"] \in RunMemRow
    BY Types DEF RunIInv, R!Kinds
  <1>2. held' = [held EXCEPT !["run"] = held["run"]]
    BY <1>1
  <1>3. /\ Holds(held["run"], asked', delivered')
        /\ Tracks(held["run"].at, held["run"].st, delivered')
    <2>1. /\ Holds(held["run"], asked, delivered)
          /\ Tracks(held["run"].at, held["run"].st, delivered)
      BY <1>1 DEF RunIInv, JobsHold, JobsTrack
    <2>2. held["run"].st.application \in R!Applications \cup {0}
      BY <1>1 DEF RunMemRow, R!GraphState
    <2>3. QED
      BY <2>1, <2>2 DEF Holds, Tracks, Onwards
  <1>4. QED
    BY <1>1, <1>2, <1>3, RowsStand

(* A job that returns, that is dropped, or that ends early.                   *)
LEMMA JobEndsStep ==
  ASSUME RunIInv, NEW j \in R!Kinds,
         R!JobDropped(j) \/ R!JobDone(j) \/ R!JobRaises(j) \/ R!JobDies(j)
  PROVE  RunIInv'
  <1>1. /\ R!TypeOK /\ worker \in [R!Kinds -> RunJobRow] /\ held \in [R!Kinds -> RunMemRow]
        /\ asked \in [R!Applications -> R!ApprovalStatuses]
    BY Types DEF RunIInv
  <1>2. /\ R!NoJob \in RunJobRow /\ [worker EXCEPT ![j] = R!NoJob] \in [R!Kinds -> RunJobRow]
        /\ [worker EXCEPT ![j].state = "queued"] \in [R!Kinds -> RunJobRow]
    <2>1. R!NoJob \in RunJobRow
      BY CapsGiven DEF R!NoJob, RunJobRow
    <2>2. QED
      BY <1>1, <2>1 DEF RunJobRow
  <1>3. CASE R!JobDropped(j)
    <2>1. /\ worker' \in [R!Kinds -> RunJobRow]
          /\ UNCHANGED <<goal, late, status, stop, asked, email, said, saved, held,
                         delivered>>
      BY <1>2, <1>3 DEF R!JobDropped, R!rows
    <2>2. Onwards
      BY <1>1, <2>1, Types DEF Onwards
    <2>3. JobsHold' /\ JobsTrack' /\ ThreadTrack'
      BY <2>1, <2>2, MemoryStands
    <2>4. R!TypeOK'
      BY <1>1, <2>1 DEF R!TypeOK, RunJobRow
    <2>5. QED
      BY <2>1, <2>3, <2>4
         DEF RunIInv, NewAlone, R!OwnApproval, R!OnePendingApproval, R!AwaitingIsDecidable,
             R!CompletedWasDelivered
  <1>4. CASE R!JobDone(j)
    <2>1. /\ worker' \in [R!Kinds -> RunJobRow] /\ held' = [held EXCEPT ![j] = R!Idle]
          /\ UNCHANGED <<goal, late, status, stop, asked, email, said, saved,
                         delivered>>
      BY <1>2, <1>4 DEF R!JobDone, R!rows
    <2>2. held[j].new = 0
      BY <1>4 DEF R!JobDone, RunIInv, JobsHold, Holds
    <2>3. asked' = [a \in R!Applications |->
                         IF a = held[j].new THEN "lost" ELSE asked[a]]
      BY <1>1, <2>1, <2>2 DEF R!Applications
    <2>4. QED
      BY <2>1, <2>3, RollbackStep DEF R!Rollback
  <1>5. CASE R!JobRaises(j)
    <2>1. R!Rollback(j) /\ worker' \in [R!Kinds -> RunJobRow] /\ status' \in {status, "error"}
      BY <1>2, <1>5 DEF R!JobRaises
    <2>2. UNCHANGED <<goal, late, stop, email, said, saved, delivered>>
      BY <1>5 DEF R!JobRaises
    <2>3. QED
      BY <2>1, <2>2, RollbackStep
  <1>6. CASE R!JobDies(j)
    <2>1. R!Rollback(j) /\ worker' \in [R!Kinds -> RunJobRow] /\ status' \in {status, "error"}
      BY <1>2, <1>6 DEF R!JobDies
    <2>2. UNCHANGED <<goal, late, stop, email, said, saved, delivered>>
      BY <1>6 DEF R!JobDies
    <2>3. QED
      BY <2>1, <2>2, RollbackStep
  <1>7. QED
    BY <1>3, <1>4, <1>5, <1>6

(* A decision is about the only pending approval, and ends the waiting.       *)
LEMMA DecideStep ==
  ASSUME RunIInv, NEW a \in R!Applications, R!Decide(a)
  PROVE  RunIInv'
  <1>1. /\ R!TypeOK /\ worker \in [R!Kinds -> RunJobRow] /\ held \in [R!Kinds -> RunMemRow]
        /\ asked \in [R!Applications -> R!ApprovalStatuses]
    BY Types DEF RunIInv
  <1>2. PICK decision \in {"approve", "reject"} :
          /\ asked' = [asked EXCEPT ![a] =
                            IF decision = "approve" THEN "approved" ELSE "rejected"]
          /\ worker' = IF worker.resume = R!NoJob
                    THEN [worker EXCEPT !.resume = [R!NoJob EXCEPT !.state = "queued",
                                                              !.decision = decision]]
                    ELSE worker
    BY DEF R!Decide
  <1>3. /\ asked[a] = "pending" /\ status' = "running"
        /\ UNCHANGED <<goal, late, stop, email, said, saved, held, delivered>>
    BY DEF R!Decide
  <1>4. /\ asked' \in [R!Applications -> R!ApprovalStatuses]
        /\ \A b \in R!Applications : b # a => asked'[b] = asked[b]
        /\ asked'[a] \in {"approved", "rejected"}
    BY <1>1, <1>2 DEF R!ApprovalStatuses
  <1>5. Onwards
    BY <1>1, <1>3, <1>4, Types DEF Onwards
  <1>6. JobsHold' /\ JobsTrack' /\ ThreadTrack'
    BY <1>3, <1>5, MemoryStands
  <1>7. worker' \in [R!Kinds -> RunJobRow]
    <2>1. [R!NoJob EXCEPT !.state = "queued", !.decision = decision] \in RunJobRow
      <3>1. 0 \in 0..MaxTries
        BY CapsGiven
      <3>2. QED
        BY <3>1 DEF R!NoJob, RunJobRow
    <2> DEFINE queued == [R!NoJob EXCEPT !.state = "queued", !.decision = decision]
    <2> HIDE DEF queued
    <2>2. queued \in RunJobRow
      BY <2>1 DEF queued
    <2>3. [worker EXCEPT !["resume"] = queued] \in [R!Kinds -> RunJobRow]
      BY <1>1, <2>2
    <2>4. QED
      BY <1>1, <1>2, <2>3 DEF queued
  <1>8. R!TypeOK'
    BY <1>1, <1>3, <1>4, <1>7 DEF R!TypeOK, RunJobRow, R!SessionStatuses
  <1>9. NewAlone'
    BY <1>3 DEF RunIInv, NewAlone
  <1>10. R!OwnApproval' /\ R!OnePendingApproval' /\ R!AwaitingIsDecidable'
    BY <1>3, <1>4 DEF RunIInv, R!OwnApproval, R!OnePendingApproval, R!AwaitingIsDecidable
  <1>11. R!CompletedWasDelivered'
    BY <1>3 DEF RunIInv, R!CompletedWasDelivered
  <1>12. QED
    BY <1>6, <1>8, <1>9, <1>10, <1>11 DEF RunIInv

(* The stop button, the sweep, the clock, and no step at all.                 *)
LEMMA OutsideStep ==
  ASSUME RunIInv, R!StopRun \/ R!SweepRun \/ R!DeadlinePasses \/ UNCHANGED R!vars
  PROVE  RunIInv'
  <1>1. /\ R!TypeOK
        /\ UNCHANGED <<goal, asked, email, said, saved, worker, held, delivered>>
        /\ status' \in {status, "error"} /\ stop' \in BOOLEAN /\ late' \in BOOLEAN
    BY Types DEF RunIInv, R!StopRun, R!SweepRun, R!DeadlinePasses, R!vars, R!rows
  <1>2. Onwards
    BY <1>1, Types DEF Onwards
  <1>3. JobsHold' /\ JobsTrack' /\ ThreadTrack'
    BY <1>1, <1>2, MemoryStands
  <1>4. R!TypeOK'
    BY <1>1 DEF R!TypeOK, R!SessionStatuses
  <1>5. QED
    BY <1>1, <1>3, <1>4
       DEF RunIInv, NewAlone, R!OwnApproval, R!OnePendingApproval, R!AwaitingIsDecidable,
           R!CompletedWasDelivered

LEMMA InvStep ==
  ASSUME RunIInv, [R!Next]_R!vars
  PROVE  RunIInv'
  <1>1. ASSUME NEW j \in R!Kinds, R!Node(j) \/ R!Job(j) PROVE RunIInv'
    BY <1>1, NodeStep, JobStartStep, JobCommitStep, JobEndsStep DEF R!Job
  <1>2. ASSUME NEW a \in R!Applications, R!Decide(a) PROVE RunIInv'
    BY <1>2, DecideStep
  <1>3. CASE R!StopRun \/ R!SweepRun \/ R!DeadlinePasses \/ UNCHANGED R!vars
    BY <1>3, OutsideStep
  <1>4. QED
    BY <1>1, <1>2, <1>3 DEF R!Next

LEMMA InitInv == R!Init => RunIInv
  <1> SUFFICES ASSUME R!Init PROVE RunIInv
    OBVIOUS
  <1>1. /\ goal \in Goals /\ status = "running" /\ stop = FALSE /\ late = FALSE
        /\ asked = [a \in R!Applications |-> "none"]
        /\ email = [a \in R!Applications |-> "draft"]
        /\ saved = [at |-> "supervisor", st |-> R!Fresh]
        /\ worker = [run |-> [R!NoJob EXCEPT !.state = "queued"], resume |-> R!NoJob]
        /\ held = [j \in R!Kinds |-> R!Idle] /\ said = {} /\ delivered = {}
    BY DEF R!Init
  <1>2. R!Idle \in RunMemRow /\ Holds(R!Idle, asked, delivered)
        /\ Tracks(R!Idle.at, R!Idle.st, delivered) /\ R!Idle.new = 0
    BY Idling
  <1>3. R!Fresh \in R!GraphState /\ "supervisor" \in R!Places
    BY CapsGiven DEF R!Fresh, R!GraphState, R!SessionStatuses, R!Places
  <1>4. worker \in [R!Kinds -> RunJobRow]
    <2>1. R!NoJob \in RunJobRow /\ [R!NoJob EXCEPT !.state = "queued"] \in RunJobRow
      BY CapsGiven DEF R!NoJob, RunJobRow
    <2>2. QED
      BY <1>1, <2>1 DEF R!Kinds
  <1>5. R!TypeOK
    BY <1>1, <1>2, <1>3, <1>4, Types DEF Mails, R!ApprovalStatuses, R!SessionStatuses
  <1>6. JobsHold /\ JobsTrack /\ NewAlone
    BY <1>1, <1>2 DEF JobsHold, JobsTrack, NewAlone
  <1>7. ThreadTrack
    BY <1>1 DEF ThreadTrack, Tracks, R!Fresh, Applying, Matching
  <1>8. R!OwnApproval /\ R!OnePendingApproval /\ R!AwaitingIsDecidable /\ R!CompletedWasDelivered
    BY <1>1 DEF R!OwnApproval, R!OnePendingApproval, R!AwaitingIsDecidable,
                R!CompletedWasDelivered
  <1>9. QED
    BY <1>5, <1>6, <1>7, <1>8 DEF RunIInv

-----------------------------------------------------------------------------
(* The inductive invariant holds in every reachable state.                   *)
THEOREM Invariant == R!Spec => []RunIInv
  BY InitInv, InvStep, PTL DEF R!Spec

(* Every reachable state is well typed: the steps and the calls of a run      *)
(* stay within its caps (check_budget runs before every node), and a job's  *)
(* tries within max_tries.                                                  *)
THEOREM TypeCorrect == R!Spec => []R!TypeOK
  <1>1. RunIInv => R!TypeOK
    BY DEF RunIInv
  <1>2. QED
    BY <1>1, Invariant, PTL

(* No email leaves for an application whose own approval was not given,       *)
(* whatever interrupt the decision is handed to (email_external_action).    *)
THEOREM RunSentWithOwnApproval == R!Spec => []R!OwnApproval
  <1>1. RunIInv => R!OwnApproval
    BY DEF RunIInv
  <1>2. QED
    BY <1>1, Invariant, PTL

(* A run never leaves two approvals open, although run_agent may prepare      *)
(* its application again beside the decision's job (application_prep).      *)
THEOREM OneApprovalOpen == R!Spec => []R!OnePendingApproval
  <1>1. RunIInv => R!OnePendingApproval
    BY DEF RunIInv
  <1>2. QED
    BY <1>1, Invariant, PTL

(* A session that says it awaits approval has one to decide                  *)
(* (mark_awaiting_approval).                                                *)
THEOREM RunAwaitingCanBeDecided == R!Spec => []R!AwaitingIsDecidable
  <1>1. RunIInv => R!AwaitingIsDecidable
    BY DEF RunIInv
  <1>2. QED
    BY <1>1, Invariant, PTL

(* A prepare_application run that ends "completed", and the message that      *)
(* says "sent", are about an email the mail server took (respond).          *)
THEOREM CompletedIsDelivered == R!Spec => []R!CompletedWasDelivered
  <1>1. RunIInv => R!CompletedWasDelivered
    BY DEF RunIInv
  <1>2. QED
    BY <1>1, Invariant, PTL

-----------------------------------------------------------------------------
(* The run beside its session.                                              *)
LEMMA RunInvariant == AgentsSpec => []RunIInv
  <1>1. AgentsInit => RunIInv
    BY InitInv DEF AgentsInit
  <1>2. RunIInv /\ [AgentsNext]_<<part, vars, runVars>> => RunIInv'
    <2> SUFFICES ASSUME RunIInv, [AgentsNext]_<<part, vars, runVars>>
                 PROVE  RunIInv'
      OBVIOUS
    <2>1. R!Next \/ UNCHANGED runVars
      BY DEF AgentsNext
    <2>2. UNCHANGED runVars => UNCHANGED R!vars
      BY DEF runVars, R!vars, R!rows
    <2>3. [R!Next]_R!vars
      BY <2>1, <2>2
    <2>4. QED
      BY <2>3, InvStep, Zenon
  <1>3. QED
    BY <1>1, <1>2, PTL DEF AgentsSpec

(* A run sends only what its own approval allows, leaves no two approvals     *)
(* open, and awaits one only if there is one to decide: for any caps, any    *)
(* number of tries of its jobs and any goals (worker/tasks/agent.py).        *)
THEOREM RunsAreApproved == AgentsSpec => []RunIsApproved
  <1>1. RunIInv => RunIsApproved
    BY DEF RunIsApproved, RunIInv
  <1>2. QED
    BY <1>1, RunInvariant, PTL

(* A run that ends "completed", or says it sent, was taken by the server, for  *)
(* any number of retries that resume after the send (respond).               *)
THEOREM RunsWereDelivered == AgentsSpec => []CompletedWasDelivered
  <1>1. RunIInv => CompletedWasDelivered
    BY DEF CompletedWasDelivered, RunIInv
  <1>2. QED
    BY <1>1, RunInvariant, PTL
=============================================================================
