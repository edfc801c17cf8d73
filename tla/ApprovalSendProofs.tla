------------------------- MODULE ApprovalSendProofs -------------------------
(***************************************************************************)
(* Proofs about ApprovalSend, for any numbers of decisions, retries and    *)
(* recipients and any timeouts in the order TimingAssumption states.       *)
(***************************************************************************)
EXTENDS ApprovalSend, TLAPS

(* The email has seen its automatic attempt, or never will: the checkpoint  *)
(* is past the send node, or the budget's deadline keeps the job out of it. *)
Closed == ckpt = "tail" \/ runAge >= Deadline

(* A decision holds the row locks only while the session awaits it, alone,  *)
(* and a session that awaits one has none.                                  *)
DecisionInv ==
  /\ \A d, e \in Deciders : dpc[d] = "locked" /\ dpc[e] = "locked" => d = e
  /\ \A d \in Deciders : dpc[d] = "locked" => session = "awaiting_approval"
  /\ session = "awaiting_approval" => approval.status = "pending"

(* Whoever is about to send holds a committed approval of the recipient.    *)
ApprovedInv ==
  /\ approval.status = "approved" => email.to = approval.hash.to
  /\ \A c \in Callers : pc[c] = "checked" => approval.status = "approved"
  /\ pc[Agent] = "routed" /\ read[Agent] = "approved" => approval.status = "approved"
  /\ OnlyApprovedIsSent

(* The agent's steps: it runs only as a running job, and stands before an   *)
(* attempt only while the email is still a draft.                           *)
AgentInv ==
  /\ queue.state # "running" => pc[Agent] = "idle"
  /\ pc[Agent] = "routed" => ckpt # "tail"
  /\ pc[Agent] = "tail" => ckpt = "tail"
  /\ pc[Agent] \in {"checked", "failing"} => email.status = "draft"
  /\ pc[Agent] = "failing" => read[Agent] = "draft"
  /\ email.status = "draft" => \A c \in Callers : claims[c] = 0
  /\ AgentSendsOnce

(* A person's request starts from a recorded failure, and a failure is only *)
(* recorded when the automatic attempt can no longer happen.                *)
RetryInv ==
  /\ runAge >= Deadline \/ age <= runAge
  /\ email.status = "failed" => Closed
  /\ \A r \in Retriers :
       /\ pc[r] \in {"idle", "checked", "failing", "delivering", "flushed", "done"}
       /\ pc[r] = "idle" => claims[r] = 0
       /\ pc[r] \in {"checked", "failing"} => read[r] = "failed" /\ claims[r] = 0
       /\ pc[r] \in {"checked", "failing", "delivering", "flushed"} =>
            Closed /\ email.status # "draft"
       /\ claims[r] > 0 => Closed

(* Who holds the email: an attempt in flight is the only one, and only it   *)
(* has an outcome to write.                                                 *)
HolderInv ==
  /\ \A c \in Callers : pc[c] = "delivering" =>
       email.status = "sending" /\ pend[c] = "none" /\ age < Grace
  /\ \A c \in Callers : pend[c] # "none" => pc[c] \in {"flushed", "tail"}
  /\ \A c, o \in Callers : pend[c] # "none" /\ pend[o] # "none" => c = o
  /\ \A c \in Callers : pend[c] = "sent" => email.status = "sending" /\ accepted # {}
  /\ \A c \in Callers : pend[c] = "failed" =>
       email.status = "sending" \/ (c = Agent /\ email.status = "draft")
  /\ \A c, o \in Callers : c \in InFlight /\ o \in InFlight => c = o
  /\ SentWasAccepted

IInv == TypeOK /\ DecisionInv /\ ApprovedInv /\ AgentInv /\ RetryInv /\ HolderInv

-----------------------------------------------------------------------------
(* Every step keeps the variables in their types.                           *)
LEMMA TypeStep ==
  ASSUME IInv, [Next]_vars
  PROVE  TypeOK'
  <1> USE CallersAssumption, MaxTriesAssumption, TimingAssumption
      DEF IInv, TypeOK, vars, dbVars, userVars, timeVars, decVars, jobVars,
          sendVars, wireVars, Callers, Hash, Titles, ReadStatuses, SendSteps,
          EmailStatuses, ApprovalStatuses
  <1>1. ASSUME NEW d \in Deciders, DecideRead(d) PROVE TypeOK'
    BY <1>1 DEF DecideRead, SnapshotHash
  <1>2. ASSUME NEW d \in Deciders, DecideWrite(d) PROVE TypeOK'
    BY <1>2 DEF DecideWrite, Locked, AwaitsApproval
  <1>3. ASSUME NEW d \in Deciders, DecideCommit(d) PROVE TypeOK'
    BY <1>3 DEF DecideCommit
  <1>4. ASSUME NEW d \in Deciders, DecideAbort(d) PROVE TypeOK'
    BY <1>4 DEF DecideAbort
  <1>5. ASSUME NEW c \in Callers, SendFail(c) PROVE TypeOK'
    BY <1>5 DEF SendFail, FailWrite, Finish, RowFree, Locked
  <1>6. ASSUME NEW c \in Callers, SendClaim(c) PROVE TypeOK'
    BY <1>6 DEF SendClaim, Claimable, ClaimedStatus, Finish, RowFree, Locked
  <1>7. ASSUME NEW c \in Callers, SendDelivered(c) PROVE TypeOK'
    BY <1>7 DEF SendDelivered, Finish, RowFree, Locked
  <1>8. ASSUME NEW r \in Retriers, RetryStart(r) PROVE TypeOK'
    <2> USE <1>8 DEF RetryStart, SendChecks, Finish, SnapshotHash
    <2>1. \E v \in SendSteps : pc' = [pc EXCEPT ![r] = v]
      OBVIOUS
    <2>2. read' = read \/ read' = [read EXCEPT ![r] = "failed"]
      OBVIOUS
    <2>3. (pc \in [Callers -> SendSteps])'
      BY <2>1
    <2>4. (read \in [Callers -> ReadStatuses])'
      BY <2>2
    <2>5. (pend \in [Callers -> {"none", "reason", "failed", "sent"}])'
      OBVIOUS
    <2> QED BY <2>1, <2>2, <2>3, <2>4, <2>5
  <1>9. ASSUME NEW r \in Retriers, RetryCommit(r) PROVE TypeOK'
    BY <1>9 DEF RetryCommit, CommitSend
  <1>10. ASSUME NEW r \in Retriers, RetryDies(r) PROVE TypeOK'
    BY <1>10 DEF RetryDies, LoseSend
  <1>11. CASE JobStart
    <2> USE <1>11 DEF JobStart, TriesLeft
    <2>1. (pc \in [Callers -> SendSteps])'
      OBVIOUS
    <2>2. \E v \in ReadStatuses : read' = read \/ read' = [read EXCEPT ![Agent] = v]
      OBVIOUS
    <2>3. (read \in [Callers -> ReadStatuses])'
      BY <2>2
    <2>4. queue.tries + 1 \in 0..MaxTries
      OBVIOUS
    <2>5. (queue \in [state : {"none", "queued", "running"},
                decision : {"approve", "reject"}, tries : 0..MaxTries])'
      BY <2>4
    <2> QED BY <2>1, <2>2, <2>3, <2>4, <2>5
  <1>12. CASE JobDropped
    BY <1>12 DEF JobDropped, TriesLeft
  <1>13. CASE AgentSendNode
    BY <1>13
       DEF AgentSendNode, SendChecks, Finish, SnapshotHash, BudgetLeft,
           ApprovedForAgent
  <1>14. CASE AgentCheckpoint
    BY <1>14 DEF AgentCheckpoint
  <1>15. CASE AgentCommit
    BY <1>15 DEF AgentCommit, CommitSend, Locked
  <1>16. CASE AgentRaises
    BY <1>16 DEF AgentRaises, LoseSend, TriesLeft, Locked
  <1>17. CASE AgentDies
    BY <1>17 DEF AgentDies, LoseSend
  <1>18. CASE SweepEmail
    BY <1>18 DEF SweepEmail, EmailIsStale
  <1>19. CASE EditJob
    BY <1>19 DEF EditJob
  <1>20. CASE DeleteJob
    BY <1>20 DEF DeleteJob
  <1>21. CASE DeleteApplication
    BY <1>21 DEF DeleteApplication
  <1>22. CASE Tick
    BY <1>22 DEF Tick, DeliveryFits, Lesser
  <1>23. CASE UNCHANGED vars
    BY <1>23
  <1> QED
    BY <1>1, <1>2, <1>3, <1>4, <1>5, <1>6, <1>7, <1>8, <1>9, <1>10, <1>11, <1>12,
        <1>13, <1>14, <1>15, <1>16, <1>17, <1>18, <1>19, <1>20, <1>21, <1>22, <1>23
       DEF Next, Decide, Send, Retry, AgentJob, Person

(* The row locks and the session check leave one decision per pause.        *)
LEMMA DecisionStep ==
  ASSUME IInv, [Next]_vars
  PROVE  DecisionInv'
  <1> USE CallersAssumption, MaxTriesAssumption, TimingAssumption
      DEF IInv, TypeOK, DecisionInv, vars, dbVars, userVars, timeVars, decVars,
          jobVars, sendVars, wireVars, Callers, Hash, Titles, ReadStatuses,
          SendSteps, EmailStatuses, ApprovalStatuses
  <1>1. ASSUME NEW d \in Deciders, DecideRead(d) PROVE DecisionInv'
    BY <1>1 DEF DecideRead, SnapshotHash
  <1>2. ASSUME NEW d \in Deciders, DecideWrite(d) PROVE DecisionInv'
    BY <1>2 DEF DecideWrite, Locked, AwaitsApproval
  <1>3. ASSUME NEW d \in Deciders, DecideCommit(d) PROVE DecisionInv'
    BY <1>3 DEF DecideCommit
  <1>4. ASSUME NEW d \in Deciders, DecideAbort(d) PROVE DecisionInv'
    BY <1>4 DEF DecideAbort
  <1>5. ASSUME NEW c \in Callers, SendFail(c) PROVE DecisionInv'
    BY <1>5 DEF SendFail, FailWrite, Finish, RowFree, Locked
  <1>6. ASSUME NEW c \in Callers, SendClaim(c) PROVE DecisionInv'
    BY <1>6 DEF SendClaim, Claimable, ClaimedStatus, Finish, RowFree, Locked
  <1>7. ASSUME NEW c \in Callers, SendDelivered(c) PROVE DecisionInv'
    BY <1>7 DEF SendDelivered, Finish, RowFree, Locked
  <1>8. ASSUME NEW r \in Retriers, RetryStart(r) PROVE DecisionInv'
    BY <1>8 DEF RetryStart, SendChecks, Finish, SnapshotHash
  <1>9. ASSUME NEW r \in Retriers, RetryCommit(r) PROVE DecisionInv'
    BY <1>9 DEF RetryCommit, CommitSend
  <1>10. ASSUME NEW r \in Retriers, RetryDies(r) PROVE DecisionInv'
    BY <1>10 DEF RetryDies, LoseSend
  <1>11. CASE JobStart
    BY <1>11 DEF JobStart, TriesLeft
  <1>12. CASE JobDropped
    BY <1>12 DEF JobDropped, TriesLeft
  <1>13. CASE AgentSendNode
    BY <1>13
       DEF AgentSendNode, SendChecks, Finish, SnapshotHash, BudgetLeft,
           ApprovedForAgent
  <1>14. CASE AgentCheckpoint
    BY <1>14 DEF AgentCheckpoint
  <1>15. CASE AgentCommit
    BY <1>15 DEF AgentCommit, CommitSend, Locked
  <1>16. CASE AgentRaises
    BY <1>16 DEF AgentRaises, LoseSend, TriesLeft, Locked
  <1>17. CASE AgentDies
    BY <1>17 DEF AgentDies, LoseSend
  <1>18. CASE SweepEmail
    BY <1>18 DEF SweepEmail, EmailIsStale
  <1>19. CASE EditJob
    BY <1>19 DEF EditJob
  <1>20. CASE DeleteJob
    BY <1>20 DEF DeleteJob
  <1>21. CASE DeleteApplication
    BY <1>21 DEF DeleteApplication
  <1>22. CASE Tick
    BY <1>22 DEF Tick, DeliveryFits, Lesser
  <1>23. CASE UNCHANGED vars
    BY <1>23
  <1> QED
    BY <1>1, <1>2, <1>3, <1>4, <1>5, <1>6, <1>7, <1>8, <1>9, <1>10, <1>11, <1>12,
        <1>13, <1>14, <1>15, <1>16, <1>17, <1>18, <1>19, <1>20, <1>21, <1>22, <1>23
       DEF Next, Decide, Send, Retry, AgentJob, Person

(* An approval, once committed, and the recipient it covers do not change.  *)
LEMMA ApprovedStep ==
  ASSUME IInv, [Next]_vars
  PROVE  ApprovedInv'
  <1> USE CallersAssumption, MaxTriesAssumption, TimingAssumption
      DEF IInv, TypeOK, DecisionInv, ApprovedInv, OnlyApprovedIsSent, vars, dbVars,
          userVars, timeVars, decVars, jobVars, sendVars, wireVars, Callers, Hash,
          Titles, ReadStatuses, SendSteps, EmailStatuses, ApprovalStatuses
  <1>1. ASSUME NEW d \in Deciders, DecideRead(d) PROVE ApprovedInv'
    BY <1>1 DEF DecideRead, SnapshotHash
  <1>2. ASSUME NEW d \in Deciders, DecideWrite(d) PROVE ApprovedInv'
    BY <1>2 DEF DecideWrite, Locked, AwaitsApproval
  <1>3. ASSUME NEW d \in Deciders, DecideCommit(d) PROVE ApprovedInv'
    BY <1>3 DEF DecideCommit
  <1>4. ASSUME NEW d \in Deciders, DecideAbort(d) PROVE ApprovedInv'
    BY <1>4 DEF DecideAbort
  <1>5. ASSUME NEW c \in Callers, SendFail(c) PROVE ApprovedInv'
    BY <1>5 DEF SendFail, FailWrite, Finish, RowFree, Locked
  <1>6. ASSUME NEW c \in Callers, SendClaim(c) PROVE ApprovedInv'
    BY <1>6 DEF SendClaim, Claimable, ClaimedStatus, Finish, RowFree, Locked
  <1>7. ASSUME NEW c \in Callers, SendDelivered(c) PROVE ApprovedInv'
    BY <1>7 DEF SendDelivered, Finish, RowFree, Locked
  <1>8. ASSUME NEW r \in Retriers, RetryStart(r) PROVE ApprovedInv'
    BY <1>8 DEF RetryStart, SendChecks, Finish, SnapshotHash
  <1>9. ASSUME NEW r \in Retriers, RetryCommit(r) PROVE ApprovedInv'
    BY <1>9 DEF RetryCommit, CommitSend
  <1>10. ASSUME NEW r \in Retriers, RetryDies(r) PROVE ApprovedInv'
    BY <1>10 DEF RetryDies, LoseSend
  <1>11. CASE JobStart
    BY <1>11 DEF JobStart, TriesLeft
  <1>12. CASE JobDropped
    BY <1>12 DEF JobDropped, TriesLeft
  <1>13. CASE AgentSendNode
    BY <1>13
       DEF AgentSendNode, SendChecks, Finish, SnapshotHash, BudgetLeft,
           ApprovedForAgent
  <1>14. CASE AgentCheckpoint
    BY <1>14 DEF AgentCheckpoint
  <1>15. CASE AgentCommit
    BY <1>15 DEF AgentCommit, CommitSend, Locked
  <1>16. CASE AgentRaises
    BY <1>16 DEF AgentRaises, LoseSend, TriesLeft, Locked
  <1>17. CASE AgentDies
    BY <1>17 DEF AgentDies, LoseSend
  <1>18. CASE SweepEmail
    BY <1>18 DEF SweepEmail, EmailIsStale
  <1>19. CASE EditJob
    BY <1>19 DEF EditJob
  <1>20. CASE DeleteJob
    BY <1>20 DEF DeleteJob
  <1>21. CASE DeleteApplication
    BY <1>21 DEF DeleteApplication
  <1>22. CASE Tick
    BY <1>22 DEF Tick, DeliveryFits, Lesser
  <1>23. CASE UNCHANGED vars
    BY <1>23
  <1> QED
    BY <1>1, <1>2, <1>3, <1>4, <1>5, <1>6, <1>7, <1>8, <1>9, <1>10, <1>11, <1>12,
        <1>13, <1>14, <1>15, <1>16, <1>17, <1>18, <1>19, <1>20, <1>21, <1>22, <1>23
       DEF Next, Decide, Send, Retry, AgentJob, Person

(* The agent starts an attempt only from a draft, so at most once.          *)
LEMMA AgentStep ==
  ASSUME IInv, [Next]_vars
  PROVE  AgentInv'
  <1> USE CallersAssumption, MaxTriesAssumption, TimingAssumption
      DEF IInv, TypeOK, AgentInv, AgentSendsOnce, RetryInv, Closed, vars, dbVars,
          userVars, timeVars, decVars, jobVars, sendVars, wireVars, Callers, Hash,
          Titles, ReadStatuses, SendSteps, EmailStatuses, ApprovalStatuses
  <1>1. ASSUME NEW d \in Deciders, DecideRead(d) PROVE AgentInv'
    BY <1>1 DEF DecideRead, SnapshotHash
  <1>2. ASSUME NEW d \in Deciders, DecideWrite(d) PROVE AgentInv'
    BY <1>2 DEF DecideWrite, Locked, AwaitsApproval
  <1>3. ASSUME NEW d \in Deciders, DecideCommit(d) PROVE AgentInv'
    BY <1>3 DEF DecideCommit
  <1>4. ASSUME NEW d \in Deciders, DecideAbort(d) PROVE AgentInv'
    BY <1>4 DEF DecideAbort
  <1>5. ASSUME NEW c \in Callers, SendFail(c) PROVE AgentInv'
    BY <1>5 DEF SendFail, FailWrite, Finish, RowFree, Locked
  <1>6. ASSUME NEW c \in Callers, SendClaim(c) PROVE AgentInv'
    BY <1>6 DEF SendClaim, Claimable, ClaimedStatus, Finish, RowFree, Locked
  <1>7. ASSUME NEW c \in Callers, SendDelivered(c) PROVE AgentInv'
    BY <1>7 DEF SendDelivered, Finish, RowFree, Locked
  <1>8. ASSUME NEW r \in Retriers, RetryStart(r) PROVE AgentInv'
    BY <1>8 DEF RetryStart, SendChecks, Finish, SnapshotHash
  <1>9. ASSUME NEW r \in Retriers, RetryCommit(r) PROVE AgentInv'
    BY <1>9 DEF RetryCommit, CommitSend
  <1>10. ASSUME NEW r \in Retriers, RetryDies(r) PROVE AgentInv'
    BY <1>10 DEF RetryDies, LoseSend
  <1>11. CASE JobStart
    BY <1>11 DEF JobStart, TriesLeft
  <1>12. CASE JobDropped
    BY <1>12 DEF JobDropped, TriesLeft
  <1>13. CASE AgentSendNode
    BY <1>13
       DEF AgentSendNode, SendChecks, Finish, SnapshotHash, BudgetLeft,
           ApprovedForAgent
  <1>14. CASE AgentCheckpoint
    BY <1>14 DEF AgentCheckpoint
  <1>15. CASE AgentCommit
    BY <1>15 DEF AgentCommit, CommitSend, Locked
  <1>16. CASE AgentRaises
    BY <1>16 DEF AgentRaises, LoseSend, TriesLeft, Locked
  <1>17. CASE AgentDies
    BY <1>17 DEF AgentDies, LoseSend
  <1>18. CASE SweepEmail
    BY <1>18 DEF SweepEmail, EmailIsStale
  <1>19. CASE EditJob
    BY <1>19 DEF EditJob
  <1>20. CASE DeleteJob
    BY <1>20 DEF DeleteJob
  <1>21. CASE DeleteApplication
    BY <1>21 DEF DeleteApplication
  <1>22. CASE Tick
    BY <1>22 DEF Tick, DeliveryFits, Lesser
  <1>23. CASE UNCHANGED vars
    BY <1>23
  <1> QED
    BY <1>1, <1>2, <1>3, <1>4, <1>5, <1>6, <1>7, <1>8, <1>9, <1>10, <1>11, <1>12,
        <1>13, <1>14, <1>15, <1>16, <1>17, <1>18, <1>19, <1>20, <1>21, <1>22, <1>23
       DEF Next, Decide, Send, Retry, AgentJob, Person

(* A failure is recorded, and so a retry starts, only once Closed.          *)
LEMMA RetryStep ==
  ASSUME IInv, [Next]_vars
  PROVE  RetryInv'
  <1> USE CallersAssumption, MaxTriesAssumption, TimingAssumption
      DEF IInv, TypeOK, AgentInv, RetryInv, HolderInv, InFlight, Closed, vars,
          dbVars, userVars, timeVars, decVars, jobVars, sendVars, wireVars, Callers,
          Hash, Titles, ReadStatuses, SendSteps, EmailStatuses, ApprovalStatuses
  <1>1. ASSUME NEW d \in Deciders, DecideRead(d) PROVE RetryInv'
    BY <1>1 DEF DecideRead, SnapshotHash
  <1>2. ASSUME NEW d \in Deciders, DecideWrite(d) PROVE RetryInv'
    BY <1>2 DEF DecideWrite, Locked, AwaitsApproval
  <1>3. ASSUME NEW d \in Deciders, DecideCommit(d) PROVE RetryInv'
    BY <1>3 DEF DecideCommit
  <1>4. ASSUME NEW d \in Deciders, DecideAbort(d) PROVE RetryInv'
    BY <1>4 DEF DecideAbort
  <1>5. ASSUME NEW c \in Callers, SendFail(c) PROVE RetryInv'
    BY <1>5 DEF SendFail, FailWrite, Finish, RowFree, Locked
  <1>6. ASSUME NEW c \in Callers, SendClaim(c) PROVE RetryInv'
    BY <1>6 DEF SendClaim, Claimable, ClaimedStatus, Finish, RowFree, Locked
  <1>7. ASSUME NEW c \in Callers, SendDelivered(c) PROVE RetryInv'
    BY <1>7 DEF SendDelivered, Finish, RowFree, Locked
  <1>8. ASSUME NEW r \in Retriers, RetryStart(r) PROVE RetryInv'
    BY <1>8 DEF RetryStart, SendChecks, Finish, SnapshotHash
  <1>9. ASSUME NEW r \in Retriers, RetryCommit(r) PROVE RetryInv'
    BY <1>9 DEF RetryCommit, CommitSend
  <1>10. ASSUME NEW r \in Retriers, RetryDies(r) PROVE RetryInv'
    BY <1>10 DEF RetryDies, LoseSend
  <1>11. CASE JobStart
    BY <1>11 DEF JobStart, TriesLeft
  <1>12. CASE JobDropped
    BY <1>12 DEF JobDropped, TriesLeft
  <1>13. CASE AgentSendNode
    BY <1>13
       DEF AgentSendNode, SendChecks, Finish, SnapshotHash, BudgetLeft,
           ApprovedForAgent
  <1>14. CASE AgentCheckpoint
    BY <1>14 DEF AgentCheckpoint
  <1>15. CASE AgentCommit
    BY <1>15 DEF AgentCommit, CommitSend, Locked
  <1>16. CASE AgentRaises
    BY <1>16 DEF AgentRaises, LoseSend, TriesLeft, Locked
  <1>17. CASE AgentDies
    BY <1>17 DEF AgentDies, LoseSend
  <1>18. CASE SweepEmail
    BY <1>18 DEF SweepEmail, EmailIsStale
  <1>19. CASE EditJob
    BY <1>19 DEF EditJob
  <1>20. CASE DeleteJob
    BY <1>20 DEF DeleteJob
  <1>21. CASE DeleteApplication
    BY <1>21 DEF DeleteApplication
  <1>22. CASE Tick
    BY <1>22 DEF Tick, DeliveryFits, Lesser
  <1>23. CASE UNCHANGED vars
    BY <1>23
  <1> QED
    BY <1>1, <1>2, <1>3, <1>4, <1>5, <1>6, <1>7, <1>8, <1>9, <1>10, <1>11, <1>12,
        <1>13, <1>14, <1>15, <1>16, <1>17, <1>18, <1>19, <1>20, <1>21, <1>22, <1>23
       DEF Next, Decide, Send, Retry, AgentJob, Person

(* The claim, the row lock and the timeouts keep a single holder.           *)
LEMMA HolderStep ==
  ASSUME IInv, [Next]_vars
  PROVE  HolderInv'
  <1> USE CallersAssumption, MaxTriesAssumption, TimingAssumption
      DEF IInv, TypeOK, AgentInv, RetryInv, HolderInv, InFlight, Closed,
          SentWasAccepted, vars, dbVars, userVars, timeVars, decVars, jobVars,
          sendVars, wireVars, Callers, Hash, Titles, ReadStatuses, SendSteps,
          EmailStatuses, ApprovalStatuses
  <1>1. ASSUME NEW d \in Deciders, DecideRead(d) PROVE HolderInv'
    BY <1>1 DEF DecideRead, SnapshotHash
  <1>2. ASSUME NEW d \in Deciders, DecideWrite(d) PROVE HolderInv'
    BY <1>2 DEF DecideWrite, Locked, AwaitsApproval
  <1>3. ASSUME NEW d \in Deciders, DecideCommit(d) PROVE HolderInv'
    BY <1>3 DEF DecideCommit
  <1>4. ASSUME NEW d \in Deciders, DecideAbort(d) PROVE HolderInv'
    BY <1>4 DEF DecideAbort
  <1>5. ASSUME NEW c \in Callers, SendFail(c) PROVE HolderInv'
    BY <1>5 DEF SendFail, FailWrite, Finish, RowFree, Locked
  <1>6. ASSUME NEW c \in Callers, SendClaim(c) PROVE HolderInv'
    BY <1>6 DEF SendClaim, Claimable, ClaimedStatus, Finish, RowFree, Locked
  <1>7. ASSUME NEW c \in Callers, SendDelivered(c) PROVE HolderInv'
    <2> USE <1>7 DEF SendDelivered, Finish, RowFree, Locked
    <2>1. (\A p \in Callers : pc[p] = "delivering" =>
         email.status = "sending" /\ pend[p] = "none" /\ age < Grace)'
      OBVIOUS
    <2>2. (\A p \in Callers : pend[p] # "none" => pc[p] \in {"flushed", "tail"})'
      OBVIOUS
    <2>3. (\A p, o \in Callers : pend[p] # "none" /\ pend[o] # "none" => p = o)'
      OBVIOUS
    <2>4. (\A p \in Callers : pend[p] = "sent" => email.status = "sending" /\ accepted # {})'
      <3>1. pend'[c] = "sent" => c \in accepted'
        OBVIOUS
      <3>2. accepted # {} => accepted' # {}
        OBVIOUS
      <3>3. \A o \in Callers \ {c} : pend'[o] = pend[o] /\ email' = email
        OBVIOUS
      <3> QED BY <3>1, <3>2, <3>3
    <2>5. (\A p \in Callers : pend[p] = "failed" =>
         email.status = "sending" \/ (p = Agent /\ email.status = "draft"))'
      OBVIOUS
    <2>6. (\A p, o \in Callers : p \in InFlight /\ o \in InFlight => p = o)'
      OBVIOUS
    <2>7. SentWasAccepted'
      OBVIOUS
    <2> QED BY <2>1, <2>2, <2>3, <2>4, <2>5, <2>6, <2>7
  <1>8. ASSUME NEW r \in Retriers, RetryStart(r) PROVE HolderInv'
    BY <1>8 DEF RetryStart, SendChecks, Finish, SnapshotHash
  <1>9. ASSUME NEW r \in Retriers, RetryCommit(r) PROVE HolderInv'
    <2> USE <1>9 DEF RetryCommit, CommitSend
    <2>1. (\A p \in Callers : pc[p] = "delivering" =>
         email.status = "sending" /\ pend[p] = "none" /\ age < Grace)'
      OBVIOUS
    <2>2. (\A p \in Callers : pend[p] # "none" => pc[p] \in {"flushed", "tail"})'
      OBVIOUS
    <2>3. (\A p, o \in Callers : pend[p] # "none" /\ pend[o] # "none" => p = o)'
      OBVIOUS
    <2>4. (\A p \in Callers : pend[p] = "sent" => email.status = "sending" /\ accepted # {})'
      OBVIOUS
    <2>5. (\A p \in Callers : pend[p] = "failed" =>
         email.status = "sending" \/ (p = Agent /\ email.status = "draft"))'
      OBVIOUS
    <2>6. (\A p, o \in Callers : p \in InFlight /\ o \in InFlight => p = o)'
      OBVIOUS
    <2>7. SentWasAccepted'
      OBVIOUS
    <2> QED BY <2>1, <2>2, <2>3, <2>4, <2>5, <2>6, <2>7
  <1>10. ASSUME NEW r \in Retriers, RetryDies(r) PROVE HolderInv'
    BY <1>10 DEF RetryDies, LoseSend
  <1>11. CASE JobStart
    BY <1>11 DEF JobStart, TriesLeft
  <1>12. CASE JobDropped
    BY <1>12 DEF JobDropped, TriesLeft
  <1>13. CASE AgentSendNode
    BY <1>13
       DEF AgentSendNode, SendChecks, Finish, SnapshotHash, BudgetLeft,
           ApprovedForAgent
  <1>14. CASE AgentCheckpoint
    BY <1>14 DEF AgentCheckpoint
  <1>15. CASE AgentCommit
    <2> USE <1>15 DEF AgentCommit, CommitSend, Locked
    <2>1. (\A p \in Callers : pc[p] = "delivering" =>
         email.status = "sending" /\ pend[p] = "none" /\ age < Grace)'
      OBVIOUS
    <2>2. (\A p \in Callers : pend[p] # "none" => pc[p] \in {"flushed", "tail"})'
      OBVIOUS
    <2>3. (\A p, o \in Callers : pend[p] # "none" /\ pend[o] # "none" => p = o)'
      OBVIOUS
    <2>4. (\A p \in Callers : pend[p] = "sent" => email.status = "sending" /\ accepted # {})'
      OBVIOUS
    <2>5. (\A p \in Callers : pend[p] = "failed" =>
         email.status = "sending" \/ (p = Agent /\ email.status = "draft"))'
      OBVIOUS
    <2>6. (\A p, o \in Callers : p \in InFlight /\ o \in InFlight => p = o)'
      OBVIOUS
    <2>7. SentWasAccepted'
      OBVIOUS
    <2> QED BY <2>1, <2>2, <2>3, <2>4, <2>5, <2>6, <2>7
  <1>16. CASE AgentRaises
    BY <1>16 DEF AgentRaises, LoseSend, TriesLeft, Locked
  <1>17. CASE AgentDies
    BY <1>17 DEF AgentDies, LoseSend
  <1>18. CASE SweepEmail
    BY <1>18 DEF SweepEmail, EmailIsStale
  <1>19. CASE EditJob
    BY <1>19 DEF EditJob
  <1>20. CASE DeleteJob
    BY <1>20 DEF DeleteJob
  <1>21. CASE DeleteApplication
    BY <1>21 DEF DeleteApplication
  <1>22. CASE Tick
    BY <1>22 DEF Tick, DeliveryFits, Lesser
  <1>23. CASE UNCHANGED vars
    BY <1>23
  <1> QED
    BY <1>1, <1>2, <1>3, <1>4, <1>5, <1>6, <1>7, <1>8, <1>9, <1>10, <1>11, <1>12,
        <1>13, <1>14, <1>15, <1>16, <1>17, <1>18, <1>19, <1>20, <1>21, <1>22, <1>23
       DEF Next, Decide, Send, Retry, AgentJob, Person

-----------------------------------------------------------------------------
(* The strengthened invariant is inductive.                                 *)
THEOREM Inductive == Spec => []IInv
  <1>1. Init => IInv
    <2> SUFFICES ASSUME Init PROVE IInv
      OBVIOUS
    <2> USE CallersAssumption, MaxTriesAssumption, TimingAssumption
        DEF Init, Callers, Closed
    <2>1. TypeOK
      <3> USE DEF Hash, Titles, ReadStatuses, SendSteps, EmailStatuses,
          ApprovalStatuses
      <3>1. approval \in [status : ApprovalStatuses, hash : Hash]
        OBVIOUS
      <3>2. req \in [Deciders -> [decision : {"approve", "reject"},
                                  to : Recipients \cup {NoOne}, title : Titles]]
        OBVIOUS
      <3>3. queue \in [state : {"none", "queued", "running"},
                       decision : {"approve", "reject"}, tries : 0..MaxTries]
        OBVIOUS
      <3>4. /\ pc \in [Callers -> SendSteps] /\ read \in [Callers -> ReadStatuses]
            /\ pend \in [Callers -> {"none", "reason", "failed", "sent"}]
            /\ claims \in [Callers -> Nat]
        OBVIOUS
      <3>5. email \in [status : EmailStatuses, to : Recipients \cup {NoOne}]
        OBVIOUS
      <3>6. /\ age \in 0..Stale /\ runAge \in 0..Deadline
            /\ dpc \in [Deciders -> {"idle", "read", "locked", "done"}]
            /\ job \in Titles \cup {"gone"}
        OBVIOUS
      <3>7. /\ sentTo \subseteq Recipients \cup {NoOne} /\ accepted \subseteq Callers
            /\ applied \in BOOLEAN /\ deleted \in BOOLEAN
        OBVIOUS
      <3>8. session = "awaiting_approval" /\ ckpt = "interrupt"
        OBVIOUS
      <3> QED BY <3>1, <3>2, <3>3, <3>4, <3>5, <3>6, <3>7, <3>8 DEF TypeOK
    <2>2. DecisionInv
      BY DEF DecisionInv
    <2>3. ApprovedInv
      BY DEF ApprovedInv, OnlyApprovedIsSent
    <2>4. AgentInv
      BY DEF AgentInv, AgentSendsOnce
    <2>5. RetryInv
      BY DEF RetryInv
    <2>6. HolderInv
      BY DEF HolderInv, InFlight, SentWasAccepted
    <2> QED BY <2>1, <2>2, <2>3, <2>4, <2>5, <2>6 DEF IInv
  <1>2. IInv /\ [Next]_vars => IInv'
    BY TypeStep, DecisionStep, ApprovedStep, AgentStep, RetryStep, HolderStep
       DEF IInv
  <1> QED BY <1>1, <1>2, PTL DEF Spec

(* The rows and the actors' records stay in their types.                    *)
THEOREM TypeCorrect == Spec => []TypeOK
  <1>1. IInv => TypeOK BY DEF IInv
  <1> QED BY <1>1, Inductive, PTL

(* However claims, sweeps, crashes and stale readers interleave, at most    *)
(* one caller talks to the mail server for an email.                        *)
THEOREM SingleAttempt == Spec => []OneAttemptInFlight
  <1>1. IInv => OneAttemptInFlight
    BY DEF IInv, HolderInv, InFlight, OneAttemptInFlight
  <1> QED BY <1>1, Inductive, PTL

(* Over all its tries and crashes the job contacts the mail server once.    *)
THEOREM NoAutomaticRepeat == Spec => []AgentSendsOnce
  <1>1. IInv => AgentSendsOnce BY DEF IInv, AgentInv
  <1> QED BY <1>1, Inductive, PTL

(* What is sent was approved, and goes to the approved recipient only.      *)
THEOREM ApprovedOnly == Spec => []OnlyApprovedIsSent
  <1>1. IInv => OnlyApprovedIsSent BY DEF IInv, ApprovedInv
  <1> QED BY <1>1, Inductive, PTL

(* "sent" is recorded only for a message the server took.                   *)
THEOREM SentMeansAccepted == Spec => []SentWasAccepted
  <1>1. IInv => SentWasAccepted BY DEF IInv, HolderInv
  <1> QED BY <1>1, Inductive, PTL

(* Once recorded as sent an email stays sent.                               *)
THEOREM SentStays == Spec => SentIsFinal
  <1>1. IInv /\ [Next]_vars => [email.status = "sent" => email'.status = "sent"]_vars
    <2> SUFFICES ASSUME IInv, [Next]_vars, email.status = "sent"
                 PROVE  email'.status = "sent"
      OBVIOUS
    <2> USE DEF IInv, HolderInv, vars, dbVars
    <2>1. \A c \in Callers : pend[c] # "sent" /\ pend[c] # "failed"
      BY CallersAssumption DEF TypeOK
    <2> QED BY <2>1
       DEF TypeOK, Next, Decide, Send, Retry, AgentJob, Person, DecideRead,
          DecideWrite, DecideCommit, DecideAbort, SendFail, SendClaim, Claimable,
          SendDelivered, RetryStart, RetryCommit, RetryDies, JobStart, JobDropped,
          AgentSendNode, AgentCheckpoint, AgentCommit, AgentRaises, AgentDies, CommitSend,
          SweepEmail, EmailIsStale, EditJob, DeleteJob, DeleteApplication, Tick, Callers
  <1> QED BY <1>1, Inductive, PTL DEF Spec, SentIsFinal

(* Every step, seen through the mapping, is a step of DeliverOnce or a       *)
(* stutter.                                                                 *)
LEMMA RefinesStep ==
  ASSUME IInv, IInv', [Next]_vars
  PROVE  [Once!AbstractNext]_(Once!abstractVars)
  <1> DEFINE Used == {c \in Callers : claims[c] > 0}
             Same == email'.status = email.status /\ InFlight' = InFlight /\ Used' = Used
  <1> USE CallersAssumption, TimingAssumption
      DEF IInv, TypeOK, AgentInv, AgentSendsOnce, RetryInv, HolderInv, Closed,
          InFlight,
          SentWasAccepted, Callers, vars, dbVars, userVars, timeVars, decVars, jobVars, sendVars, wireVars
  <1>0. Same => [Once!AbstractNext]_(Once!abstractVars)
    BY DEF Once!abstractVars
  <1>1. ASSUME NEW d \in Deciders, DecideRead(d) PROVE Same
    BY <1>1 DEF DecideRead, SnapshotHash
  <1>2. ASSUME NEW d \in Deciders, DecideWrite(d) PROVE Same
    BY <1>2 DEF DecideWrite, Locked, AwaitsApproval
  <1>3. ASSUME NEW d \in Deciders, DecideCommit(d) PROVE Same
    BY <1>3 DEF DecideCommit
  <1>4. ASSUME NEW d \in Deciders, DecideAbort(d) PROVE Same
    BY <1>4 DEF DecideAbort
  <1>5. ASSUME NEW c \in Callers, SendFail(c) PROVE Same
    BY <1>5 DEF SendFail, FailWrite, Finish, RowFree, Locked
  <1>6. ASSUME NEW c \in Callers, SendClaim(c) PROVE [Once!AbstractNext]_(Once!abstractVars)
    <2> USE <1>6 DEF SendClaim, Finish
    <2>1. CASE ~Claimable
      <3>1. Same BY <2>1 DEF Claimable, ClaimedStatus
      <3> QED BY <1>0, <3>1
    <2>2. CASE Claimable
      <3> USE <2>2 DEF Claimable, ClaimedStatus
      <3>1. InFlight = {} /\ InFlight' = {c} /\ Used' = Used \cup {c}
        OBVIOUS
      <3>2. email'.status = "sending" /\ email.status \in {"draft", "failed"}
        BY DEF EmailStatuses
      <3>3. CASE c = Agent
        <4>1. email.status = "draft" /\ Used = {} BY <3>3
        <4> QED BY <3>1, <3>2, <3>3, <4>1 DEF Once!AbstractNext, Once!AttemptAuto
      <3>4. CASE c \in Retriers
        <4>1. email.status = "failed" /\ c \notin Used BY <3>2, <3>4
        <4> QED BY <3>1, <3>2, <3>4, <4>1 DEF Once!AbstractNext, Once!AttemptHuman
      <3> QED BY <3>3, <3>4
    <2> QED BY <2>1, <2>2
  <1>7. ASSUME NEW c \in Callers, SendDelivered(c) PROVE [Once!AbstractNext]_(Once!abstractVars)
    BY <1>7
       DEF Once!AbstractNext, Once!AttemptAuto, Once!AttemptHuman, Once!Record,
           Once!Interrupt, Once!WriteOff, Once!Refuse, Once!Attempts,
           Once!abstractVars, SendDelivered, Finish, RowFree, Locked
  <1>8. ASSUME NEW r \in Retriers, RetryStart(r) PROVE Same
    BY <1>8 DEF RetryStart, SendChecks, Finish, SnapshotHash
  <1>9. ASSUME NEW r \in Retriers, RetryCommit(r) PROVE [Once!AbstractNext]_(Once!abstractVars)
    BY <1>9
       DEF Once!AbstractNext, Once!AttemptAuto, Once!AttemptHuman, Once!Record,
           Once!Interrupt, Once!WriteOff, Once!Refuse, Once!Attempts,
           Once!abstractVars, RetryCommit, CommitSend
  <1>10. ASSUME NEW r \in Retriers, RetryDies(r) PROVE [Once!AbstractNext]_(Once!abstractVars)
    BY <1>10
       DEF Once!AbstractNext, Once!AttemptAuto, Once!AttemptHuman, Once!Record,
           Once!Interrupt, Once!WriteOff, Once!Refuse, Once!Attempts,
           Once!abstractVars, RetryDies, LoseSend
  <1>11. ASSUME JobStart PROVE Same
    BY <1>11 DEF JobStart, TriesLeft
  <1>12. ASSUME JobDropped PROVE Same
    BY <1>12 DEF JobDropped, TriesLeft
  <1>13. ASSUME AgentSendNode PROVE Same
    BY <1>13
       DEF AgentSendNode, SendChecks, Finish, SnapshotHash, BudgetLeft,
           ApprovedForAgent
  <1>14. ASSUME AgentCheckpoint PROVE Same
    BY <1>14 DEF AgentCheckpoint
  <1>15. ASSUME AgentCommit PROVE [Once!AbstractNext]_(Once!abstractVars)
    BY <1>15
       DEF Once!AbstractNext, Once!AttemptAuto, Once!AttemptHuman, Once!Record,
           Once!Interrupt, Once!WriteOff, Once!Refuse, Once!Attempts,
           Once!abstractVars, AgentCommit, CommitSend, Locked
  <1>16. ASSUME AgentRaises PROVE [Once!AbstractNext]_(Once!abstractVars)
    BY <1>16
       DEF Once!AbstractNext, Once!AttemptAuto, Once!AttemptHuman, Once!Record,
           Once!Interrupt, Once!WriteOff, Once!Refuse, Once!Attempts,
           Once!abstractVars, AgentRaises, LoseSend, TriesLeft, Locked
  <1>17. ASSUME AgentDies PROVE [Once!AbstractNext]_(Once!abstractVars)
    BY <1>17
       DEF Once!AbstractNext, Once!AttemptAuto, Once!AttemptHuman, Once!Record,
           Once!Interrupt, Once!WriteOff, Once!Refuse, Once!Attempts,
           Once!abstractVars, AgentDies, LoseSend
  <1>18. ASSUME SweepEmail PROVE [Once!AbstractNext]_(Once!abstractVars)
    BY <1>18
       DEF Once!AbstractNext, Once!AttemptAuto, Once!AttemptHuman, Once!Record,
           Once!Interrupt, Once!WriteOff, Once!Refuse, Once!Attempts,
           Once!abstractVars, SweepEmail, EmailIsStale
  <1>19. ASSUME EditJob PROVE Same
    BY <1>19 DEF EditJob
  <1>20. ASSUME DeleteJob PROVE Same
    BY <1>20 DEF DeleteJob
  <1>21. ASSUME DeleteApplication PROVE Same
    BY <1>21 DEF DeleteApplication
  <1>22. ASSUME Tick PROVE Same
    BY <1>22 DEF Tick, DeliveryFits, Lesser
  <1>23. ASSUME UNCHANGED vars PROVE Same
    BY <1>23
  <1> QED BY <1>0, <1>1, <1>2, <1>3, <1>4, <1>5, <1>6, <1>7, <1>8, <1>9, <1>10,
      <1>11, <1>12, <1>13, <1>14, <1>15, <1>16, <1>17, <1>18, <1>19, <1>20, <1>21,
      <1>22, <1>23
     DEF Next, Decide, Send, Retry, AgentJob, Person

(* The system delivers once in the sense of DeliverOnce.                     *)
THEOREM Refinement == Spec => DeliversOnce
  <1>1. Init => Once!AbstractInit
    BY DEF Init, Once!AbstractInit, InFlight, Callers
  <1>2. IInv /\ IInv' /\ [Next]_vars => [Once!AbstractNext]_(Once!abstractVars)
    BY RefinesStep
  <1> QED BY <1>1, <1>2, Inductive, PTL DEF Spec, DeliversOnce, Once!AbstractSpec
=============================================================================
