---------------------------- MODULE ServicesProofs ----------------------------
(***************************************************************************)
(* What MCServices checks of the systems around the agent, for every number *)
(* of calls, requests, versions and tries: each invariant speaks of one     *)
(* part, which only its own steps move.                                     *)
(***************************************************************************)
EXTENDS MCServices, FiniteSetTheorems, WellFoundedInduction, TLAPS

servicesVars ==
  <<part, postingVars, scoreVars, planVars, profileVars, sendVars, scorerVars, contextVars,
    careerVars, sVars, groundingVars, versionsVars, catalogueVars, callVars>>

(* A step of the systems is a step of the part that moves, and leaves the    *)
(* rest alone.                                                              *)
LEMMA OnePartMoves ==
  ASSUME [ServicesNext]_servicesVars
  PROVE  /\ part' = part
         /\ part = "model" => [U!Next]_callVars
         /\ part = "posting" => [P!Next]_postingVars
         /\ part = "score" => [M!Next]_scoreVars
         /\ part = "grounding" => [G!Next]_groundingVars
         /\ part = "catalogue" => [K!Next]_catalogueVars
         /\ part = "tracker1" => [T1!Next]_sendVars
         /\ part = "tracker2" => [T2!Next]_sendVars
         /\ part \notin {"tracker1", "tracker2"} => UNCHANGED sendVars
         /\ part = "profile" => [F!Next]_profileVars
         /\ part # "profile" => UNCHANGED profileVars
         /\ part = "roadmap1" => [L1!Next]_planVars
         /\ part = "roadmap2" => [L2!Next]_planVars
         /\ part = "roadmap3" => [L3!Next]_planVars
BY DEF ServicesNext, servicesVars

-----------------------------------------------------------------------------
(* The language model (ModelCalls).                                         *)

Results == {"none", "paused", "unavailable", "fell_through", "error", "invalid", "ok"}
CallRows ==
  [at : {"idle", "posts", "sleeps", "done"}, post : Nat, attempt : Nat, waits : Nat,
   replies : Nat, spent : Nat, result : Results]

(* A call that goes on has no result, and one that succeeded was charged for *)
(* what it says.                                                            *)
CallHolds(q) ==
  /\ q.at \in {"posts", "sleeps"} => q.result = "none"
  /\ q.result = "ok" => q.spent = q.replies

(* The counter of a day goes on beyond the limit, what it admits does not.   *)
DayHolds(count, goesOn, says) ==
  /\ count <= Limit => goesOn = count
  /\ count >= Limit => goesOn = Limit
  /\ says => count >= Limit

DaysInv ==
  /\ today \in U!Days /\ counter \in [U!Days -> Nat] /\ admitted \in [U!Days -> Nat]
  /\ \A d \in U!Days : DayHolds(counter[d], admitted[d], d \in paused)
CallsInv ==
  call \in [Callers -> CallRows] /\ \A c \in Callers : CallHolds(call[c])

LEMMA CallsInit == U!Init => DaysInv /\ CallsInv
<1> SUFFICES ASSUME U!Init PROVE DaysInv /\ CallsInv
  OBVIOUS
<1> Limit \in Nat \ {0} /\ MaxDays \in Nat \ {0}
  BY CallsAssumption DEF U!ModelCallsAssumption
<1>1. DaysInv
  BY DEF U!Init, U!Days, DaysInv, DayHolds
<1>2. U!Idle \in CallRows /\ CallHolds(U!Idle)
  BY DEF U!Idle, CallRows, Results, CallHolds
<1>3. CallsInv
  BY <1>2 DEF U!Init, CallsInv
<1> QED
  BY <1>1, <1>3

(* Every change of one call keeps a row a row, and what it says true. *)
LEMMA CallRowsStand ==
  ASSUME NEW q \in CallRows, CallHolds(q), q.at \in {"posts", "sleeps"}
  PROVE  /\ \A result \in Results \ {"ok"} :
              U!Over(q, result) \in CallRows /\ CallHolds(U!Over(q, result))
         /\ LET r == [q EXCEPT !.at = "sleeps", !.waits = @ + 1]
            IN  r \in CallRows /\ CallHolds(r)
         /\ LET r == [q EXCEPT !.at = "sleeps"] IN r \in CallRows /\ CallHolds(r)
         /\ LET r == [q EXCEPT !.at = "posts", !.attempt = @ + 1]
            IN  r \in CallRows /\ CallHolds(r)
         /\ LET r == [U!Over(q, "error") EXCEPT !.replies = @ + 1]
            IN  r \in CallRows /\ CallHolds(r)
         /\ LET p == [q EXCEPT !.replies = @ + 1]
                r == [U!Over(p, "ok") EXCEPT !.spent = U!Spent(p)]
            IN  r \in CallRows /\ CallHolds(r)
         /\ \A charged \in {0, 1} :
              LET p == [q EXCEPT !.replies = @ + charged]
                  r == [p EXCEPT !.post = 2, !.attempt = 0, !.waits = 0]
              IN  /\ r \in CallRows /\ CallHolds(r)
                  /\ U!Over(p, "invalid") \in CallRows /\ CallHolds(U!Over(p, "invalid"))
         /\ LET r == [q EXCEPT !.at = "done", !.result = "ok", !.replies = 1, !.spent = 1]
            IN  r \in CallRows /\ CallHolds(r)
         /\ LET r == [q EXCEPT !.at = "done", !.result = "invalid", !.replies = 1]
            IN  r \in CallRows /\ CallHolds(r)
<1>1. \A result \in Results \ {"ok"} :
        U!Over(q, result) \in CallRows /\ CallHolds(U!Over(q, result))
  BY DEF U!Over, CallRows, Results, CallHolds
<1>a. /\ q.waits + 1 \in Nat /\ q.attempt + 1 \in Nat
      /\ \A charged \in {0, 1} : q.replies + charged \in Nat
  BY DEF CallRows
<1>b. ASSUME NEW n \in Nat PROVE [q EXCEPT !.replies = n] \in CallRows
  BY DEF CallRows
<1>2. LET r == [q EXCEPT !.at = "sleeps", !.waits = @ + 1] IN r \in CallRows /\ CallHolds(r)
  <2>1. ASSUME NEW n \in Nat
        PROVE  LET r == [q EXCEPT !.at = "sleeps", !.waits = n] IN r \in CallRows /\ CallHolds(r)
    BY DEF CallRows, Results, CallHolds
  <2> QED
    BY <1>a, <2>1
<1>3. LET r == [q EXCEPT !.at = "sleeps"] IN r \in CallRows /\ CallHolds(r)
  BY DEF CallRows, Results, CallHolds
<1>4. LET r == [q EXCEPT !.at = "posts", !.attempt = @ + 1] IN r \in CallRows /\ CallHolds(r)
  <2>1. ASSUME NEW n \in Nat
        PROVE  LET r == [q EXCEPT !.at = "posts", !.attempt = n] IN r \in CallRows /\ CallHolds(r)
    BY DEF CallRows, Results, CallHolds
  <2> QED
    BY <1>a, <2>1
<1>5. LET r == [U!Over(q, "error") EXCEPT !.replies = @ + 1] IN r \in CallRows /\ CallHolds(r)
  <2>1. ASSUME NEW n \in Nat
        PROVE  LET r == [U!Over(q, "error") EXCEPT !.replies = n] IN r \in CallRows /\ CallHolds(r)
    BY DEF U!Over, CallRows, Results, CallHolds
  <2>2. U!Over(q, "error").replies = q.replies
    BY DEF U!Over, CallRows
  <2> QED
    BY <1>a, <2>1, <2>2
<1>6. LET p == [q EXCEPT !.replies = @ + 1]
          r == [U!Over(p, "ok") EXCEPT !.spent = U!Spent(p)]
      IN  r \in CallRows /\ CallHolds(r)
  <2>1. ASSUME NEW p \in CallRows
        PROVE  LET r == [U!Over(p, "ok") EXCEPT !.spent = U!Spent(p)]
               IN  r \in CallRows /\ CallHolds(r)
    BY DEF U!Over, U!Spent, CallRows, Results, CallHolds
  <2> QED
    BY <1>a, <1>b, <2>1
<1>7. ASSUME NEW charged \in {0, 1}
      PROVE  LET p == [q EXCEPT !.replies = @ + charged]
                 r == [p EXCEPT !.post = 2, !.attempt = 0, !.waits = 0]
             IN  /\ r \in CallRows /\ CallHolds(r)
                 /\ U!Over(p, "invalid") \in CallRows /\ CallHolds(U!Over(p, "invalid"))
  <2>1. ASSUME NEW n \in Nat
        PROVE  LET p == [q EXCEPT !.replies = n]
                   r == [p EXCEPT !.post = 2, !.attempt = 0, !.waits = 0]
               IN  /\ r \in CallRows /\ CallHolds(r)
                   /\ U!Over(p, "invalid") \in CallRows /\ CallHolds(U!Over(p, "invalid"))
    BY DEF U!Over, CallRows, Results, CallHolds
  <2> QED
    BY <1>a, <2>1
<1>8. LET r == [q EXCEPT !.at = "done", !.result = "ok", !.replies = 1, !.spent = 1]
      IN  r \in CallRows /\ CallHolds(r)
  BY DEF CallRows, Results, CallHolds
<1>9. LET r == [q EXCEPT !.at = "done", !.result = "invalid", !.replies = 1]
      IN  r \in CallRows /\ CallHolds(r)
  BY DEF CallRows, Results, CallHolds
<1> QED
  BY <1>1, <1>2, <1>3, <1>4, <1>5, <1>6, <1>7, <1>8, <1>9

(* A call that goes on changes its own row, to one of those. *)
LEMMA CallChanges ==
  ASSUME CallsInv, NEW c \in Callers, NEW next \in CallRows, CallHolds(next),
         U!Sets(c, next)
  PROVE  CallsInv' /\ UNCHANGED <<today, counter, admitted, paused>>
BY DEF CallsInv, U!Sets, U!Outside

LEMMA CallBegins ==
  ASSUME DaysInv, CallsInv, NEW c \in Callers, U!Begins(c)
  PROVE  (DaysInv /\ CallsInv)'
<1> Limit \in Nat \ {0}
  BY CallsAssumption DEF U!ModelCallsAssumption
<1> DEFINE turned == [U!Idle EXCEPT !.at = "done", !.result = "paused"]
           goes   == [U!Idle EXCEPT !.at = "posts"]
<1>1. turned \in CallRows /\ CallHolds(turned) /\ goes \in CallRows /\ CallHolds(goes)
  BY DEF U!Idle, CallRows, Results, CallHolds
<1>2. CallsInv'
  <2>1. call' = [call EXCEPT ![c] = IF redis /\ ~U!Admits(today) THEN turned ELSE goes]
    BY DEF U!Begins
  <2> HIDE DEF turned, goes
  <2> QED
    BY <1>1, <2>1 DEF CallsInv
<1>3. DaysInv'
  <2>1. /\ today' = today /\ paused' = paused
        /\ counter'  = [counter EXCEPT ![today] = IF redis THEN @ + 1 ELSE @]
        /\ admitted' = [admitted EXCEPT ![today] = IF redis /\ U!Admits(today) THEN @ + 1 ELSE @]
    BY DEF U!Begins
  <2>2. /\ today' \in U!Days /\ counter' \in [U!Days -> Nat] /\ admitted' \in [U!Days -> Nat]
    BY <2>1 DEF DaysInv
  <2>3. ASSUME NEW d \in U!Days
        PROVE  DayHolds(counter'[d], admitted'[d], d \in paused')
    <3>1. /\ DayHolds(counter[d], admitted[d], d \in paused)
          /\ counter[d] \in Nat /\ admitted[d] \in Nat
      BY DEF DaysInv
    <3>2. CASE d # today \/ ~redis
      BY <2>1, <3>1, <3>2 DEF DaysInv
    <3>3. CASE d = today /\ redis
      <4>1. /\ counter'[d] = counter[d] + 1
            /\ admitted'[d] = IF counter[d] + 1 <= Limit THEN admitted[d] + 1 ELSE admitted[d]
        BY <2>1, <3>3 DEF DaysInv, U!Admits
      <4> QED
        BY <2>1, <3>1, <4>1 DEF DayHolds
    <3> QED
      BY <3>2, <3>3
  <2> QED
    BY <2>2, <2>3 DEF DaysInv
<1> QED
  BY <1>2, <1>3

(* Every other step of a call. *)
LEMMA CallGoesOn ==
  ASSUME DaysInv, CallsInv, U!Next, ~U!SaysPaused, ~U!Outage, ~U!Midnight,
         \A c \in Callers : ~U!Begins(c)
  PROVE  CallsInv' /\ UNCHANGED <<today, counter, admitted, paused>>
<1>1. PICK c \in Callers :
        \/ U!NoAnswer(c) \/ U!WaitsOut(c) \/ U!TooBusy(c) \/ U!ServerError(c)
        \/ U!TriesAgain(c) \/ U!LoopEnds(c) \/ U!Refused(c) \/ U!Malformed(c) \/ U!Answers(c)
        \/ \E charged \in {0, 1} : U!Mismatch(c, charged)
        \/ U!ClaudeAnswers(c) \/ U!ClaudeFails(c)
  BY DEF U!Next
<1> DEFINE q == call[c]
<1>2. q \in CallRows /\ CallHolds(q) /\ q.at \in {"posts", "sleeps"}
  BY <1>1 DEF CallsInv, U!NoAnswer, U!WaitsOut, U!TooBusy, U!ServerError, U!TriesAgain,
              U!LoopEnds, U!Refused, U!Malformed, U!Answers, U!Mismatch, U!ClaudeAnswers,
              U!ClaudeFails, U!Posting
<1>3. \E next \in CallRows : CallHolds(next) /\ U!Sets(c, next)
  <2>1. CASE \/ U!NoAnswer(c) \/ U!TooBusy(c) \/ U!LoopEnds(c) \/ U!Refused(c)
    <3>1. \E result \in Results \ {"ok"} : U!Sets(c, U!Over(q, result))
      BY <2>1 DEF U!NoAnswer, U!TooBusy, U!LoopEnds, U!Refused, U!Ends, Results
    <3> QED
      BY <1>2, <3>1, CallRowsStand
  <2>2. CASE U!WaitsOut(c)
    BY <1>2, <2>2, CallRowsStand DEF U!WaitsOut
  <2>3. CASE U!ServerError(c)
    BY <1>2, <2>3, CallRowsStand DEF U!ServerError, U!Ends, Results
  <2>4. CASE U!TriesAgain(c)
    BY <1>2, <2>4, CallRowsStand DEF U!TriesAgain
  <2>5. CASE U!Malformed(c)
    BY <1>2, <2>5, CallRowsStand DEF U!Malformed
  <2>6. CASE U!Answers(c)
    BY <1>2, <2>6, CallRowsStand DEF U!Answers
  <2>7. CASE \E charged \in {0, 1} : U!Mismatch(c, charged)
    <3>1. PICK charged \in {0, 1} : U!Mismatch(c, charged)
      BY <2>7
    <3> QED
      BY <1>2, <3>1, CallRowsStand DEF U!Mismatch
  <2>8. CASE U!ClaudeAnswers(c)
    BY <1>2, <2>8, CallRowsStand DEF U!ClaudeAnswers
  <2>9. CASE U!ClaudeFails(c)
    BY <1>2, <2>9, CallRowsStand DEF U!ClaudeFails, U!Ends, Results
  <2> QED
    BY <1>1, <2>1, <2>2, <2>3, <2>4, <2>5, <2>6, <2>7, <2>8, <2>9
<1> QED
  BY <1>3, CallChanges

LEMMA CallsStep == DaysInv /\ CallsInv /\ [U!Next]_callVars => (DaysInv /\ CallsInv)'
<1> SUFFICES ASSUME DaysInv, CallsInv, [U!Next]_callVars PROVE (DaysInv /\ CallsInv)'
  OBVIOUS
<1> Limit \in Nat \ {0} /\ MaxDays \in Nat \ {0}
  BY CallsAssumption DEF U!ModelCallsAssumption
<1>1. CASE UNCHANGED callVars
  BY <1>1 DEF callVars, DaysInv, CallsInv
<1>2. CASE U!SaysPaused
  <2>1. counter[today] >= Limit /\ paused' = paused \cup {today}
        /\ UNCHANGED <<today, counter, admitted, call>>
    BY <1>2 DEF U!SaysPaused
  <2> QED
    BY <2>1 DEF DaysInv, CallsInv, DayHolds
<1>3. CASE U!Outage
  BY <1>3 DEF U!Outage, DaysInv, CallsInv
<1>4. CASE U!Midnight
  BY <1>4 DEF U!Midnight, U!Days, DaysInv, CallsInv
<1>5. CASE \E c \in Callers : U!Begins(c)
  BY <1>5, CallBegins
<1>6. CASE /\ U!Next /\ ~U!SaysPaused /\ ~U!Outage /\ ~U!Midnight
           /\ \A c \in Callers : ~U!Begins(c)
  BY <1>6, CallGoesOn DEF DaysInv
<1> QED
  BY <1>1, <1>2, <1>3, <1>4, <1>5, <1>6

(* All calls together start no more counted calls a day than the limit, none *)
(* on a day said to be paused, and a call tells its whole cost, for every    *)
(* number of calls and days and every limit (DailyCappedLLM, ai_paused).     *)
THEOREM CallsHold == ServicesSpec => []ModelCallsHold
<1> DEFINE I == part = "model" => DaysInv /\ CallsInv
<1>1. ServicesInit => I
  BY CallsInit DEF ServicesInit
<1>2. I /\ [ServicesNext]_servicesVars => I'
  BY OnePartMoves, CallsStep
<1>3. I => ModelCallsHold
  <2> SUFFICES ASSUME DaysInv, CallsInv PROVE U!ModelCallsHold
    BY DEF ModelCallsHold
  <2> Limit \in Nat \ {0}
    BY CallsAssumption DEF U!ModelCallsAssumption
  <2> QED
    BY DEF DaysInv, CallsInv, DayHolds, CallHolds, U!ModelCallsHold
<1> QED
  BY <1>1, <1>2, <1>3, PTL DEF ServicesSpec, servicesVars

-----------------------------------------------------------------------------
(* A pasted posting and who follows it (JobIngest).                         *)

PostingInv == P!TypeOK /\ P!ViewerWillKnow

LEMMA PostingInit == P!Init => PostingInv
<1> IngestTries \in Nat \ {0}
  BY IngestAssumption DEF P!IngestAssumption
<1>1. P!Init => P!TypeOK
  <2>1. [P!NoIngest EXCEPT !.state = "queued"] = [state |-> "queued", try |-> 1]
    BY DEF P!NoIngest
  <2>2. ASSUME P!Init PROVE {pOld, patched, pSweep, untold} \subseteq BOOLEAN
    BY <2>2 DEF P!Init
  <2>3. ASSUME P!Init
        PROVE  ingest \in [state : {"none", "queued", "running"}, try : 1..IngestTries]
    BY <2>1, <2>3 DEF P!Init
  <2>4. ASSUME P!Init
        PROVE  posting \in [status : {"absent", "ingesting", "ready", "failed"},
                            error : BOOLEAN, deleted : BOOLEAN]
    BY <2>4 DEF P!Init
  <2> QED
    BY <2>2, <2>3, <2>4 DEF P!Init, P!TypeOK
<1>2. P!Init => P!ViewerWillKnow
  BY DEF P!Init, P!ViewerWillKnow
<1> QED
  BY <1>1, <1>2 DEF PostingInv

(* Requests, the clock, and the browser. *)
LEMMA PostingRequests ==
  ASSUME PostingInv,
         \/ P!CreateEnds \/ P!Patch \/ P!Delete \/ P!TimePasses
         \/ P!Opens \/ P!Subscribes \/ P!ReadsStatus
  PROVE  PostingInv'
<1> USE DEF PostingInv
<1>1. CASE P!CreateEnds
  BY <1>1 DEF P!CreateEnds, P!TypeOK, P!ViewerWillKnow
<1>2. CASE P!Patch
  BY <1>2 DEF P!Patch, P!TypeOK, P!ViewerWillKnow
<1>3. CASE P!Delete
  BY <1>3 DEF P!Delete, P!TypeOK, P!ViewerWillKnow
<1>4. CASE P!TimePasses
  BY <1>4 DEF P!TimePasses, P!TypeOK, P!ViewerWillKnow
<1>5. CASE P!Opens
  BY <1>5 DEF P!Opens, P!TypeOK, P!ViewerWillKnow
<1>6. CASE P!Subscribes
  BY <1>6 DEF P!Subscribes, P!TypeOK, P!ViewerWillKnow
<1>7. CASE P!ReadsStatus
  BY <1>7 DEF P!ReadsStatus, P!Final, P!TypeOK, P!ViewerWillKnow
<1> QED
  BY <1>1, <1>2, <1>3, <1>4, <1>5, <1>6, <1>7

(* A try that is left is one more try. *)
LEMMA OneMoreTry ==
  ASSUME P!TypeOK
  PROVE  P!NoIngest \in [state : {"none", "queued", "running"}, try : 1..IngestTries]
         /\ (P!TriesLeft =>
               P!Requeued \in [state : {"none", "queued", "running"}, try : 1..IngestTries])
<1> IngestTries \in Nat \ {0}
  BY IngestAssumption DEF P!IngestAssumption
<1> QED
  BY DEF P!TypeOK, P!NoIngest, P!TriesLeft, P!Requeued

(* The job and the sweep: what ends without being told is "untold". *)
LEMMA PostingRead ==
  ASSUME PostingInv,
         \/ P!IngestSkips \/ P!IngestStarts \/ P!IngestCommits \/ P!IngestGoesOn
         \/ P!SweepPosting \/ P!SweepTells
  PROVE  PostingInv'
<1> USE DEF PostingInv
<1>1. CASE P!IngestSkips
  BY <1>1, OneMoreTry DEF P!IngestSkips, P!TypeOK, P!ViewerWillKnow
<1>2. CASE P!IngestStarts
  BY <1>2 DEF P!IngestStarts, P!Admits, P!TypeOK, P!ViewerWillKnow
<1>3. CASE P!IngestCommits
  BY <1>3 DEF P!IngestCommits, P!TypeOK, P!ViewerWillKnow
<1>4. CASE P!IngestTells
  BY <1>4, OneMoreTry DEF P!IngestTells, P!Told, P!TypeOK, P!ViewerWillKnow
<1>5. CASE P!IngestRetries
  BY <1>5, OneMoreTry DEF P!IngestRetries, P!TypeOK, P!ViewerWillKnow
<1>6. CASE P!IngestFails
  BY <1>6 DEF P!IngestFails, P!TypeOK, P!ViewerWillKnow
<1>7. CASE P!IngestTellsLast
  BY <1>7, OneMoreTry DEF P!IngestTellsLast, P!BestEffort, P!Told, P!TypeOK, P!ViewerWillKnow
<1>8. CASE P!IngestDies
  BY <1>8, OneMoreTry DEF P!IngestDies, P!TypeOK, P!ViewerWillKnow
<1>9. CASE P!SweepPosting
  BY <1>9 DEF P!SweepPosting, P!TypeOK, P!ViewerWillKnow
<1>10. CASE P!SweepTells
  BY <1>10 DEF P!SweepTells, P!BestEffort, P!Told, P!TypeOK, P!ViewerWillKnow
<1> QED
  BY <1>1, <1>2, <1>3, <1>4, <1>5, <1>6, <1>7, <1>8, <1>9, <1>10 DEF P!IngestGoesOn

LEMMA PostingStep == PostingInv /\ [P!Next]_postingVars => PostingInv'
<1>1. PostingInv /\ UNCHANGED postingVars => PostingInv'
  BY DEF postingVars, PostingInv, P!TypeOK, P!ViewerWillKnow
<1> QED
  BY <1>1, PostingRequests, PostingRead DEF P!Next

(* A browser that listens to a posting whose reading has ended is about to   *)
(* be told, unless that was never published, for every number of tries       *)
(* (job_events, ingest_job, the sweep).                                     *)
THEOREM ViewerIsTold == ServicesSpec => []ViewerWillKnow
<1> DEFINE I == part = "posting" => PostingInv
<1>1. ServicesInit => I
  BY PostingInit DEF ServicesInit
<1>2. I /\ [ServicesNext]_servicesVars => I'
  BY OnePartMoves, PostingStep
<1>3. I => ViewerWillKnow
  BY DEF PostingInv, ViewerWillKnow
<1> QED
  BY <1>1, <1>2, <1>3, PTL DEF ServicesSpec, servicesVars

-----------------------------------------------------------------------------
(* The score of a posting for a person (MatchScoring).                      *)

Copied == {"loaded", "scored"}

(* A worker runs the job and no other; a request that is not late has a job  *)
(* that has not started; what loaded the row has its hash; what was read was *)
(* there.                                                                   *)
OneWorker     == scorer.at # "off" <=> task.state = "running"
AskIsQueued   == \A q \in Askers :
                   ask[q].at = "queued" /\ ~ask[q].late => task.state = "queued"
CopyIsCurrent == scorer.at \in Copied => scorer.hash = match.hash
VersionsExist == owed <= inputs /\ \A q \in Askers : ask[q].wants <= inputs

(* While nothing has slipped: a match in progress has a job that will write  *)
(* it, one that is ready is recent or has a job, and what a job has read is  *)
(* recent.                                                                  *)
ScoringIsDue == slips = {} /\ match.status = "scoring" =>
                  task.state = "queued" \/ (scorer.at \in Copied /\ scorer.status # "ready")
ReadyIsRecent == slips = {} /\ match.status = "ready" =>
                   match.hash >= owed \/ task.state = "queued" \/ scorer.at \in Copied
ReadIsRecent == slips = {} /\ scorer.at = "scored" => scorer.sees >= owed

ScoreInv == /\ M!TypeOK /\ OneWorker /\ AskIsQueued /\ CopyIsCurrent /\ VersionsExist
            /\ ScoringIsDue /\ ReadyIsRecent /\ ReadIsRecent

MatchRows == [status : M!Statuses, error : M!Errors, hash : 0..MaxInputs]
AskRows == [at : {"idle", "read", "queued"}, kind : {"create", "recompute"},
            status : M!Statuses, error : M!Errors, wants : 0..MaxInputs, late : BOOLEAN]
TaskRows == [state : {"none", "queued", "running"}, try : 1..ScoreTries]
ScorerRows == [at : {"off", "loaded", "scored", "done"}, status : M!Statuses,
               error : M!Errors, hash : 0..MaxInputs, sees : 0..MaxInputs]

LEMMA ScoreBounds ==
  /\ ScoreTries \in Nat \ {0} /\ MaxInputs \in Nat \ {0} /\ MaxAsked \in Nat
  /\ M!Idle \in AskRows /\ M!Idle.at = "idle" /\ M!Idle.wants = 0
  /\ M!NoTask \in TaskRows /\ M!NoTask.state = "none"
  /\ M!NoScore \in ScorerRows /\ M!NoScore.at = "off"
<1>1. ScoreTries \in Nat \ {0} /\ MaxInputs \in Nat \ {0} /\ MaxAsked \in Nat
  BY ScoringAssumption DEF M!ScoringAssumption
<1>2. M!Idle \in AskRows /\ M!Idle.at = "idle" /\ M!Idle.wants = 0
  BY <1>1 DEF M!Idle, AskRows, M!Statuses, M!Errors
<1>3. M!NoTask \in TaskRows /\ M!NoTask.state = "none"
  BY <1>1 DEF M!NoTask, TaskRows
<1>4. M!NoScore \in ScorerRows /\ M!NoScore.at = "off"
  BY <1>1 DEF M!NoScore, ScorerRows, M!Statuses, M!Errors
<1> QED
  BY <1>1, <1>2, <1>3, <1>4

ScoreTyped ==
  /\ match \in MatchRows /\ {mOld, listed} \subseteq BOOLEAN
  /\ inputs \in 1..MaxInputs /\ ask \in [Askers -> AskRows]
  /\ asked \in 0..MaxAsked /\ task \in TaskRows /\ scorer \in ScorerRows
  /\ owed \in 0..MaxInputs /\ slips \subseteq M!Slips

LEMMA ScoreTypes == (M!TypeOK <=> ScoreTyped) /\ (M!TypeOK' <=> ScoreTyped')
  BY DEF M!TypeOK, ScoreTyped, MatchRows, AskRows, TaskRows, ScorerRows

LEMMA ScoreInit == M!Init => ScoreInv
<1> SUFFICES ASSUME M!Init PROVE ScoreInv
  OBVIOUS
<1>1. [status |-> "absent", error |-> "none", hash |-> 0] \in MatchRows
  BY ScoreBounds DEF MatchRows, M!Statuses, M!Errors
<1>2. M!TypeOK
  <2>1. {mOld, listed} \subseteq BOOLEAN
    BY DEF M!Init
  <2>2. ask \in [Askers -> AskRows] /\ inputs \in 1..MaxInputs
    BY ScoreBounds DEF M!Init
  <2>3. asked \in 0..MaxAsked /\ owed \in 0..MaxInputs /\ slips \subseteq M!Slips
    BY ScoreBounds DEF M!Init
  <2>4. match \in MatchRows /\ task \in TaskRows /\ scorer \in ScorerRows
    BY <1>1, ScoreBounds DEF M!Init
  <2> QED
    BY <2>1, <2>2, <2>3, <2>4, ScoreTypes DEF ScoreTyped
<1>3. /\ OneWorker /\ AskIsQueued /\ CopyIsCurrent /\ VersionsExist
      /\ ScoringIsDue /\ ReadyIsRecent /\ ReadIsRecent
  BY ScoreBounds DEF M!Init, OneWorker, AskIsQueued, CopyIsCurrent, VersionsExist,
     ScoringIsDue, ReadyIsRecent, ReadIsRecent, Copied
<1> QED
  BY <1>2, <1>3 DEF ScoreInv

(* A request that is no longer under way, or has only read. *)
LEMMA AskChanges ==
  ASSUME ScoreInv, NEW q \in Askers, NEW row \in AskRows, row.at # "queued",
         row.wants <= inputs, ask' = [ask EXCEPT ![q] = row], asked' \in 0..MaxAsked,
         UNCHANGED <<match, mOld, inputs, listed, task, scorer, owed, slips>>
  PROVE  ScoreInv'
<1>1. M!TypeOK'
  BY ScoreTypes DEF ScoreInv, ScoreTyped
<1>2. AskIsQueued' /\ VersionsExist'
  BY DEF ScoreInv, M!TypeOK, AskIsQueued, VersionsExist
<1> QED
  BY <1>1, <1>2 DEF ScoreInv, OneWorker, CopyIsCurrent, ScoringIsDue, ReadyIsRecent,
     ReadIsRecent

LEMMA ScoreReadsAndFails ==
  ASSUME ScoreInv,
         \E q \in Askers : \/ \E kind \in {"create", "recompute"} : M!Reads(q, kind)
                           \/ M!InsertFails(q) \/ M!RequestFails(q)
  PROVE  ScoreInv'
<1>1. PICK q \in Askers : \/ \E kind \in {"create", "recompute"} : M!Reads(q, kind)
                          \/ M!InsertFails(q) \/ M!RequestFails(q)
  OBVIOUS
<1>2. inputs \in 1..MaxInputs /\ asked \in 0..MaxAsked
  BY DEF ScoreInv, M!TypeOK
<1>3. CASE M!InsertFails(q) \/ M!RequestFails(q)
  <2>1. /\ ask' = [ask EXCEPT ![q] = M!Idle] /\ asked' = asked
        /\ UNCHANGED <<match, mOld, inputs, listed, task, scorer, owed, slips>>
    BY <1>3 DEF M!InsertFails, M!RequestFails
  <2>2. M!Idle \in AskRows /\ M!Idle.at # "queued" /\ M!Idle.wants <= inputs
    BY <1>2, ScoreBounds
  <2> QED
    BY <1>2, <2>1, <2>2, AskChanges
<1>4. CASE \E kind \in {"create", "recompute"} : M!Reads(q, kind)
  <2>1. PICK kind \in {"create", "recompute"} : M!Reads(q, kind)
    BY <1>4
  <2> DEFINE row == [M!Idle EXCEPT !.at = "read", !.kind = kind,
                                   !.status = match.status, !.error = match.error]
  <2>2. match.status \in M!Statuses /\ match.error \in M!Errors
    BY DEF ScoreInv, M!TypeOK
  <2>3. row \in AskRows /\ row.at = "read" /\ row.wants = 0
    BY <2>2, ScoreBounds DEF AskRows
  <2>4. /\ ask' = [ask EXCEPT ![q] = row] /\ asked' = asked + 1 /\ asked < MaxAsked
        /\ UNCHANGED <<match, mOld, inputs, listed, task, scorer, owed, slips>>
    BY <2>1 DEF M!Reads
  <2>5. row.at # "queued" /\ row.wants <= inputs /\ asked' \in 0..MaxAsked
    BY <1>2, <2>3, <2>4, ScoreBounds
  <2> HIDE DEF row
  <2> QED
    BY <2>3, <2>4, <2>5, AskChanges
<1> QED
  BY <1>1, <1>3, <1>4

(* A job is queued for it, or one that is queued or running will do. *)
LEMMA ScoreEnqueues ==
  ASSUME ScoreInv, NEW q \in Askers, M!Enqueues(q)
  PROVE  ScoreInv'
<1> DEFINE row == [ask[q] EXCEPT !.at = "queued", !.wants = inputs,
                                 !.late = task.state = "running"]
<1>1. /\ ask[q] \in AskRows /\ inputs \in 1..MaxInputs /\ MaxInputs \in Nat
      /\ ask \in [Askers -> AskRows] /\ task \in TaskRows
  BY ScoreTypes, ScoreBounds DEF ScoreTyped, ScoreInv
<1>2. row \in AskRows
  <2>1. ASSUME NEW n \in 0..MaxInputs, NEW b \in BOOLEAN
        PROVE  [ask[q] EXCEPT !.at = "queued", !.wants = n, !.late = b] \in AskRows
    BY <1>1 DEF AskRows
  <2>2. inputs \in 0..MaxInputs /\ (task.state = "running") \in BOOLEAN
    BY <1>1
  <2> QED
    BY <2>1, <2>2, Zenon
<1>3. row.wants = inputs /\ row.late = (task.state = "running")
  BY <1>1 DEF AskRows
<1>4. ask' = [ask EXCEPT ![q] = row]
  BY <1>1 DEF M!Enqueues, AskRows
<1>5. /\ task' \in TaskRows
      /\ task'.state = (IF task.state = "none" THEN "queued" ELSE task.state)
      /\ UNCHANGED <<match, mOld, inputs, listed, asked, scorer, owed, slips>>
  BY <1>1, ScoreBounds DEF M!Enqueues, M!Skips, M!Enqueued, TaskRows
<1> HIDE DEF row
<1>6. M!TypeOK'
  BY <1>1, <1>2, <1>4, <1>5, ScoreTypes DEF ScoreTyped, ScoreInv
<1>7. AskIsQueued'
  BY <1>1, <1>3, <1>4, <1>5 DEF ScoreInv, AskIsQueued, TaskRows
<1>8. VersionsExist'
  BY <1>1, <1>3, <1>4, <1>5 DEF ScoreInv, VersionsExist
<1>9. OneWorker'
  BY <1>1, <1>5 DEF ScoreInv, OneWorker, TaskRows
<1> QED
  BY <1>5, <1>6, <1>7, <1>8, <1>9
     DEF ScoreInv, CopyIsCurrent, ScoringIsDue, ReadyIsRecent, ReadIsRecent

(* The row is set to be scored while a job that will score it is queued, or  *)
(* the request is late.                                                     *)
LEMMA ScoreCommitsRequest ==
  ASSUME ScoreInv, NEW q \in Askers, M!Commits(q)
  PROVE  ScoreInv'
<1>1. /\ ask[q] \in AskRows /\ ask[q].at = "queued" /\ ask[q].wants <= inputs
      /\ ask \in [Askers -> AskRows] /\ match \in MatchRows /\ task \in TaskRows
      /\ owed \in 0..MaxInputs /\ inputs \in 1..MaxInputs /\ MaxInputs \in Nat
      /\ mOld \in BOOLEAN
  BY ScoreTypes, ScoreBounds DEF ScoreTyped, ScoreInv, VersionsExist, M!Commits
<1>2. /\ ask' = [ask EXCEPT ![q] = M!Idle] /\ match' = M!Requested(q)
      /\ mOld' = (mOld /\ match' = match)
      /\ owed' = IF ask[q].kind = "recompute" /\ ask[q].wants > owed
                 THEN ask[q].wants ELSE owed
      /\ slips' = IF ask[q].late THEN slips \cup {"late"} ELSE slips
      /\ UNCHANGED <<inputs, listed, asked, task, scorer>>
  BY DEF M!Commits
<1>3. M!Requested(q) \in MatchRows /\ M!Requested(q).hash = match.hash
  <2>1. ask[q].status \in M!Statuses
    BY <1>1 DEF AskRows
  <2>2. LET r == [match EXCEPT !.status = "scoring"] IN r \in MatchRows /\ r.hash = match.hash
    BY <1>1 DEF MatchRows, M!Statuses
  <2>3. \A e \in M!Errors :
          LET r == [match EXCEPT !.status = "scoring", !.error = e]
          IN  r \in MatchRows /\ r.hash = match.hash
    BY <1>1 DEF MatchRows, M!Statuses
  <2>4. match.error \in M!Errors /\ "none" \in M!Errors
    BY <1>1 DEF MatchRows, M!Errors
  <2> QED
    BY <1>1, <2>1, <2>2, <2>3, <2>4 DEF M!Requested, M!Skips, M!Statuses
<1>4. M!TypeOK'
  <2>1. owed' \in 0..MaxInputs
    BY <1>1, <1>2 DEF AskRows
  <2>2. mOld' \in BOOLEAN /\ slips' \subseteq M!Slips
    BY <1>1, <1>2 DEF ScoreInv, M!TypeOK, M!Slips
  <2>3. ask' \in [Askers -> AskRows]
    BY <1>1, <1>2, ScoreBounds
  <2> QED
    BY <1>2, <1>3, <2>1, <2>2, <2>3, ScoreTypes DEF ScoreTyped, ScoreInv
<1>5. /\ OneWorker' /\ CopyIsCurrent'
  BY <1>2, <1>3 DEF ScoreInv, OneWorker, CopyIsCurrent
<1>6. AskIsQueued' /\ VersionsExist'
  BY <1>1, <1>2, ScoreBounds DEF ScoreInv, AskIsQueued, VersionsExist
<1>7. slips' = {} => task'.state = "queued" /\ scorer'.at = "off"
  BY <1>1, <1>2 DEF ScoreInv, AskIsQueued, OneWorker
<1>8. ScoringIsDue' /\ ReadyIsRecent' /\ ReadIsRecent'
  BY <1>7 DEF ScoringIsDue, ReadyIsRecent, ReadIsRecent
<1> QED
  BY <1>4, <1>5, <1>6, <1>8 DEF ScoreInv

(* The world around the match. *)
LEMMA ScoreAround ==
  ASSUME ScoreInv, M!InputsChange \/ M!PostingRemoved \/ M!TimePasses \/ M!SweepMatch
  PROVE  ScoreInv'
<1>1. ScoreTyped /\ MaxInputs \in Nat
  BY ScoreTypes, ScoreBounds DEF ScoreInv
<1>2. CASE M!InputsChange
  <2>1. inputs' = inputs + 1 /\ inputs' \in 1..MaxInputs
    BY <1>1, <1>2 DEF M!InputsChange, ScoreTyped
  <2>2. UNCHANGED <<match, mOld, listed, ask, asked, task, scorer, owed, slips>>
    BY <1>2 DEF M!InputsChange
  <2>3. M!TypeOK'
    BY <1>1, <2>1, <2>2, ScoreTypes DEF ScoreTyped
  <2>4. VersionsExist'
    <3>1. owed \in 0..MaxInputs /\ inputs \in 1..MaxInputs
          /\ \A q \in Askers : ask[q].wants \in 0..MaxInputs
      BY <1>1 DEF ScoreTyped, AskRows
    <3> QED
      BY <1>1, <2>1, <2>2, <3>1 DEF ScoreInv, VersionsExist
  <2> QED
    BY <2>2, <2>3, <2>4 DEF ScoreInv, OneWorker, AskIsQueued, CopyIsCurrent, ScoringIsDue,
       ReadyIsRecent, ReadIsRecent
<1>3. CASE M!PostingRemoved \/ M!TimePasses
  <2>1. /\ {mOld', listed'} \subseteq BOOLEAN
        /\ UNCHANGED <<match, inputs, ask, asked, task, scorer, owed, slips>>
    BY <1>1, <1>3 DEF M!PostingRemoved, M!TimePasses, ScoreTyped
  <2>2. M!TypeOK'
    BY <1>1, <2>1, ScoreTypes DEF ScoreTyped
  <2> QED
    BY <2>1, <2>2 DEF ScoreInv, OneWorker, AskIsQueued, CopyIsCurrent, VersionsExist,
       ScoringIsDue, ReadyIsRecent, ReadIsRecent
<1>4. CASE M!SweepMatch
  <2>1. /\ match' = [match EXCEPT !.status = "failed", !.error = "swept"] /\ mOld' = FALSE
        /\ UNCHANGED <<inputs, listed, ask, asked, task, scorer, owed, slips>>
    BY <1>4 DEF M!SweepMatch
  <2>2. match' \in MatchRows /\ match'.status = "failed" /\ match'.hash = match.hash
    BY <1>1, <2>1 DEF ScoreTyped, MatchRows, M!Statuses, M!Errors
  <2>3. M!TypeOK'
    BY <1>1, <2>1, <2>2, ScoreTypes DEF ScoreTyped
  <2> QED
    BY <2>1, <2>2, <2>3 DEF ScoreInv, OneWorker, AskIsQueued, CopyIsCurrent, VersionsExist,
       ScoringIsDue, ReadyIsRecent, ReadIsRecent
<1> QED
  BY <1>2, <1>3, <1>4

(* A request that has not committed is late for the job that takes up. *)
LEMMA OvertakenAreLate ==
  ASSUME ScoreInv
  PROVE  /\ M!Overtaken \in [Askers -> AskRows]
         /\ \A q \in Askers : /\ M!Overtaken[q].at = ask[q].at
                              /\ M!Overtaken[q].wants = ask[q].wants
                              /\ M!Overtaken[q].at = "queued" => M!Overtaken[q].late
<1> SUFFICES ASSUME NEW q \in Askers
             PROVE  LET r == [ask[q] EXCEPT !.late = @ \/ ask[q].at = "queued"]
                    IN  /\ r \in AskRows /\ r.at = ask[q].at /\ r.wants = ask[q].wants
                        /\ r.at = "queued" => r.late
  BY DEF M!Overtaken
<1>1. ask[q] \in AskRows
  BY ScoreTypes DEF ScoreTyped, ScoreInv
<1>2. ASSUME NEW b \in BOOLEAN
      PROVE  LET r == [ask[q] EXCEPT !.late = b]
             IN  r \in AskRows /\ r.at = ask[q].at /\ r.wants = ask[q].wants /\ r.late = b
  BY <1>1 DEF AskRows
<1>3. (ask[q].late \/ ask[q].at = "queued") \in BOOLEAN
  OBVIOUS
<1> QED
  BY <1>2, <1>3, Zenon

(* The job is taken up: it loads the row as it is. *)
LEMMA ScoreTakesUp ==
  ASSUME ScoreInv, M!ScoreMisses \/ M!ScoreStarts
  PROVE  ScoreInv'
<1>1. ScoreTyped /\ MaxInputs \in Nat
  BY ScoreTypes, ScoreBounds DEF ScoreInv
<1>2. ask' \in [Askers -> AskRows] /\ AskIsQueued' /\ VersionsExist'
  <2>1. ask' = M!Overtaken /\ UNCHANGED <<inputs, owed>>
    BY DEF M!ScoreMisses, M!ScoreStarts
  <2> QED
    BY <2>1, OvertakenAreLate DEF AskIsQueued, VersionsExist, ScoreInv
<1>3. CASE M!ScoreMisses
  <2>1. /\ task.state = "queued" /\ match.status = "absent" /\ task' = M!NoTask
        /\ UNCHANGED <<match, mOld, inputs, listed, asked, scorer, owed, slips>>
    BY <1>3 DEF M!ScoreMisses
  <2>2. M!TypeOK'
    BY <1>1, <1>2, <2>1, ScoreTypes, ScoreBounds DEF ScoreTyped
  <2> QED
    BY <1>2, <2>1, <2>2, ScoreBounds DEF ScoreInv, OneWorker, CopyIsCurrent, ScoringIsDue,
       ReadyIsRecent, ReadIsRecent
<1>4. CASE M!ScoreStarts
  <2>1. /\ task.state = "queued" /\ task' = [task EXCEPT !.state = "running"]
        /\ scorer' = [at |-> "loaded", status |-> match.status, error |-> match.error,
                      hash |-> match.hash, sees |-> 0]
        /\ UNCHANGED <<match, mOld, inputs, listed, asked, owed, slips>>
    BY <1>4 DEF M!ScoreStarts
  <2>2. task' \in TaskRows /\ task'.state = "running"
    BY <1>1, <2>1 DEF ScoreTyped, TaskRows
  <2>3. scorer' \in ScorerRows
    BY <1>1, <2>1 DEF ScoreTyped, MatchRows, ScorerRows
  <2>4. /\ scorer'.at = "loaded" /\ scorer'.hash = match.hash
        /\ scorer'.status = match.status
    BY <2>1
  <2>5. M!TypeOK'
    BY <1>1, <1>2, <2>1, <2>2, <2>3, ScoreTypes DEF ScoreTyped
  <2> QED
    BY <1>2, <2>1, <2>2, <2>4, <2>5 DEF ScoreInv, OneWorker, CopyIsCurrent, ScoringIsDue,
       ReadyIsRecent, ReadIsRecent, Copied
<1> QED
  BY <1>3, <1>4

(* The job reads, or finds the score of these inputs. *)
LEMMA ScoreLooks ==
  ASSUME ScoreInv, M!ScoreSkips \/ M!ScoreReads
  PROVE  ScoreInv'
<1>1. ScoreTyped /\ MaxInputs \in Nat
  BY ScoreTypes, ScoreBounds DEF ScoreInv
<1>2. /\ scorer.at = "loaded"
      /\ UNCHANGED <<match, mOld, inputs, listed, ask, asked, task, owed, slips>>
  BY DEF M!ScoreSkips, M!ScoreReads
<1>3. CASE M!ScoreSkips
  <2>1. /\ scorer' = [scorer EXCEPT !.at = "done"]
        /\ scorer.status = "ready" /\ scorer.hash = inputs
    BY <1>3 DEF M!ScoreSkips, M!UpToDate
  <2>2. scorer' \in ScorerRows /\ scorer'.at = "done"
    BY <1>1, <2>1 DEF ScoreTyped, ScorerRows
  <2>3. M!TypeOK'
    BY <1>1, <1>2, <2>2, ScoreTypes DEF ScoreTyped
  <2>4. match.hash >= owed
    BY <1>1, <1>2, <2>1 DEF ScoreInv, CopyIsCurrent, VersionsExist, Copied, ScoreTyped
  <2>5. slips = {} => match.status # "scoring"
    BY <1>2, <2>1 DEF ScoreInv, ScoringIsDue, OneWorker
  <2> QED
    BY <1>2, <2>2, <2>3, <2>4, <2>5 DEF ScoreInv, OneWorker, AskIsQueued, CopyIsCurrent,
       VersionsExist, ScoringIsDue, ReadyIsRecent, ReadIsRecent, Copied
<1>4. CASE M!ScoreReads
  <2>1. scorer' = [scorer EXCEPT !.at = "scored", !.sees = inputs]
    BY <1>4 DEF M!ScoreReads
  <2>2. /\ scorer' \in ScorerRows /\ scorer'.at = "scored" /\ scorer'.sees = inputs
        /\ scorer'.status = scorer.status /\ scorer'.hash = scorer.hash
    <3>1. ASSUME NEW n \in 0..MaxInputs, NEW r \in ScorerRows
          PROVE  LET x == [r EXCEPT !.at = "scored", !.sees = n]
                 IN  /\ x \in ScorerRows /\ x.at = "scored" /\ x.sees = n
                     /\ x.status = r.status /\ x.hash = r.hash
      BY DEF ScorerRows
    <3>2. inputs \in 0..MaxInputs /\ scorer \in ScorerRows
      BY <1>1 DEF ScoreTyped
    <3> QED
      BY <2>1, <3>1, <3>2
  <2>3. M!TypeOK'
    BY <1>1, <1>2, <2>2, ScoreTypes DEF ScoreTyped
  <2>4. inputs >= owed
    BY <1>1 DEF ScoreInv, VersionsExist, ScoreTyped
  <2> QED
    BY <1>2, <2>2, <2>3, <2>4 DEF ScoreInv, OneWorker, AskIsQueued, CopyIsCurrent,
       VersionsExist, ScoringIsDue, ReadyIsRecent, ReadIsRecent, Copied
<1> QED
  BY <1>3, <1>4

(* What it writes is as recent as what it read. *)
LEMMA ScoreWrites ==
  ASSUME ScoreInv, M!ScoreCommits \/ M!ScoreFails
  PROVE  ScoreInv'
<1>1. ScoreTyped /\ MaxInputs \in Nat
  BY ScoreTypes, ScoreBounds DEF ScoreInv
<1>2. /\ scorer.at \in Copied /\ scorer' = [scorer EXCEPT !.at = "done"] /\ mOld' = FALSE
      /\ UNCHANGED <<inputs, listed, ask, asked, task, owed, slips>>
  BY DEF M!ScoreCommits, M!ScoreFails, Copied
<1>3. scorer' \in ScorerRows /\ scorer'.at = "done" /\ scorer.at # "off"
  BY <1>1, <1>2 DEF ScoreTyped, ScorerRows, Copied
<1>4. match' \in MatchRows
  <2>1. match \in MatchRows /\ scorer \in ScorerRows
    BY <1>1 DEF ScoreTyped
  <2>2. CASE M!ScoreFails
    <3>1. match' = [match EXCEPT !.status = "failed", !.error = "unscored"]
      BY <2>2 DEF M!ScoreFails
    <3> QED
      BY <2>1, <3>1 DEF MatchRows, M!Statuses, M!Errors
  <2>3. CASE M!ScoreCommits
    <3>1. \E s \in M!Statuses, e \in M!Errors, h \in 0..MaxInputs :
            match' = [status |-> s, error |-> e, hash |-> h]
      BY <2>1, <2>3 DEF M!ScoreCommits, MatchRows, ScorerRows, M!Statuses, M!Errors
    <3> QED
      BY <3>1 DEF MatchRows
  <2> QED
    BY <2>2, <2>3
<1>5. M!TypeOK'
  BY <1>1, <1>2, <1>3, <1>4, ScoreTypes DEF ScoreTyped
<1>6. /\ slips = {} => match'.status # "scoring"
      /\ slips = {} /\ match'.status = "ready" => match'.hash >= owed
  <2>1. CASE M!ScoreFails
    BY <1>1, <2>1 DEF M!ScoreFails, MatchRows, ScoreTyped
  <2>2. CASE M!ScoreCommits
    <3>1. /\ match'.status = (IF scorer.status = "ready" THEN match.status ELSE "ready")
          /\ match'.hash = (IF scorer.hash = scorer.sees THEN match.hash ELSE scorer.sees)
          /\ scorer.at = "scored"
      BY <2>2 DEF M!ScoreCommits
    <3> QED
      BY <1>2, <1>3, <3>1 DEF ScoreInv, OneWorker, ScoringIsDue, ReadIsRecent, CopyIsCurrent
  <2> QED
    BY <2>1, <2>2
<1> QED
  BY <1>2, <1>3, <1>5, <1>6 DEF ScoreInv, OneWorker, AskIsQueued, CopyIsCurrent,
     VersionsExist, ScoringIsDue, ReadyIsRecent, ReadIsRecent, Copied

(* A try is over: the next is queued, or the job is forgotten. *)
LEMMA ScoreTryEnds ==
  ASSUME ScoreInv, M!ScoreRetries \/ M!ScoreEnds \/ M!ScoreDies
  PROVE  ScoreInv'
<1>1. ScoreTyped /\ MaxInputs \in Nat /\ ScoreTries \in Nat
  BY ScoreTypes, ScoreBounds DEF ScoreInv
<1>2. /\ scorer' = M!NoScore /\ scorer.at # "off"
      /\ UNCHANGED <<match, mOld, inputs, listed, ask, asked, owed>>
  BY DEF M!ScoreRetries, M!ScoreEnds, M!ScoreDies
<1>3. /\ task' \in TaskRows
      /\ \/ task.try < ScoreTries /\ task' = M!Requeued /\ task'.state = "queued"
         \/ task' = M!NoTask
  <2>1. \/ task.try < ScoreTries /\ task' = M!Requeued
        \/ task' = M!NoTask
    BY DEF M!ScoreRetries, M!ScoreEnds, M!ScoreDies
  <2>2. task.try < ScoreTries => M!Requeued \in TaskRows /\ M!Requeued.state = "queued"
    BY <1>1 DEF ScoreTyped, TaskRows, M!Requeued
  <2> QED
    BY <2>1, <2>2, ScoreBounds
<1>4. slips' \in {slips, slips \cup {"unseen"}} /\ slips' \subseteq M!Slips
  BY <1>1 DEF M!ScoreRetries, M!ScoreEnds, M!ScoreDies, ScoreTyped, M!Slips
<1>5. M!TypeOK'
  BY <1>1, <1>2, <1>3, <1>4, ScoreTypes, ScoreBounds DEF ScoreTyped
<1>6. OneWorker' /\ CopyIsCurrent' /\ VersionsExist' /\ ReadIsRecent'
  BY <1>2, <1>3, ScoreBounds DEF ScoreInv, OneWorker, CopyIsCurrent, VersionsExist,
     ReadIsRecent, Copied
<1>7. AskIsQueued'
  BY <1>2, <1>3 DEF ScoreInv, OneWorker, AskIsQueued
<1>8. CASE M!ScoreDies
  BY <1>5, <1>6, <1>7, <1>8
     DEF ScoreInv, M!ScoreDies, ScoringIsDue, ReadyIsRecent
<1>9. CASE M!ScoreRetries
  <2>1. task'.state = "queued"
    BY <1>9 DEF M!ScoreRetries, M!Requeued
  <2> QED
    BY <1>5, <1>6, <1>7, <2>1 DEF ScoreInv, ScoringIsDue, ReadyIsRecent
<1>10. CASE M!ScoreEnds
  <2>1. scorer.at = "done" /\ slips' = slips
    BY <1>10 DEF M!ScoreEnds
  <2> QED
    BY <1>2, <1>5, <1>6, <1>7, <2>1
       DEF ScoreInv, OneWorker, ScoringIsDue, ReadyIsRecent, Copied
<1> QED
  BY <1>8, <1>9, <1>10

LEMMA ScoreStep == ScoreInv /\ [M!Next]_scoreVars => ScoreInv'
<1>1. ScoreInv /\ UNCHANGED scoreVars => ScoreInv'
  BY ScoreTypes DEF scoreVars, ScoreTyped, ScoreInv, OneWorker, AskIsQueued, CopyIsCurrent,
     VersionsExist, ScoringIsDue, ReadyIsRecent, ReadIsRecent
<1>2. ScoreInv /\ M!Next => ScoreInv'
  <2>1. ASSUME ScoreInv, NEW q \in Askers, M!Enqueues(q) \/ M!Commits(q) PROVE ScoreInv'
    BY <2>1, ScoreEnqueues, ScoreCommitsRequest
  <2> QED
    BY <2>1, ScoreReadsAndFails, ScoreAround, ScoreTakesUp, ScoreLooks, ScoreWrites,
       ScoreTryEnds DEF M!Next
<1> QED
  BY <1>1, <1>2

(* Once no job and no request is under way, and unless a worker was lost or  *)
(* a request committed after the job it relied on had begun or ended (so     *)
(* that its enqueue was dropped as a duplicate): no match is left scoring,   *)
(* and a score is as recent as the last recompute that was answered, for     *)
(* every number of requests, tries and versions (MatchService, score_match). *)
THEOREM ScoresAreRecent == ServicesSpec => []ScoreIsAsAsked
<1> DEFINE I == part = "score" => ScoreInv
<1>1. ServicesInit => I
  BY ScoreInit DEF ServicesInit
<1>2. I /\ [ServicesNext]_servicesVars => I'
  BY OnePartMoves, ScoreStep
<1>3. I => ScoreIsAsAsked
  <2> SUFFICES ASSUME ScoreInv PROVE M!ScoringHasAJob /\ M!ScoreIsAsAsked
    BY DEF ScoreIsAsAsked
  <2>1. M!Quiet => scorer.at \notin Copied /\ task.state # "queued"
    BY DEF M!Quiet, ScoreInv, OneWorker, Copied
  <2> QED
    BY <2>1 DEF ScoreInv, ScoringIsDue, ReadyIsRecent, M!ScoringHasAJob, M!ScoreIsAsAsked
<1> QED
  BY <1>1, <1>2, <1>3, PTL DEF ServicesSpec, servicesVars

-----------------------------------------------------------------------------
(* What a run writes in a person's name (Grounding).                        *)

OwnSources == G!SourcesOf(G!Reread)

(* A letter is written from the version's lines, among others, and is        *)
(* checked against those; before it is written nothing is said of it.        *)
WritesFromVersion == node = "writing" => OwnSources \subseteq basis
RestsOnVersion    == node = "letter_claim_validator" => OwnSources \subseteq restsOn.letter
UnsaidBefore      ==
  node \in {"resume_tailoring", "tailoring", "claim_validator", "cover_letter", "writing",
            "letter_claim_validator"} => trace.letter = "none"

GroundInv ==
  /\ trace \in [resume : {"none", "ok", "warning"}, letter : {"none", "ok", "warning"}]
  /\ restsOn = [version |-> restsOn.version, letter |-> restsOn.letter]
  /\ WritesFromVersion /\ RestsOnVersion /\ UnsaidBefore
  /\ G!StoredAsChecked /\ G!LetterIsFlagged

(* A line that more sources do not support fewer do not either. *)
LEMMA FewerSupportLess ==
  ASSUME NEW few, NEW many, few \subseteq many, NEW lines, G!Check(lines, many) # {}
  PROVE  G!Check(lines, few) # {}
  BY DEF G!Check, G!Supported

LEMMA GroundInit == G!Init => GroundInv
  BY DEF G!Init, G!There, GroundInv, WritesFromVersion, RestsOnVersion, UnsaidBefore,
     G!StoredAsChecked, G!LetterIsFlagged

LEMMA GroundStep == GroundInv /\ [G!Next]_groundingVars => GroundInv'
<1> SUFFICES ASSUME GroundInv, [G!Next]_groundingVars PROVE GroundInv'
  OBVIOUS
<1> USE DEF GroundInv
<1>1. CASE UNCHANGED groundingVars
  BY <1>1 DEF groundingVars, WritesFromVersion, RestsOnVersion, UnsaidBefore, OwnSources,
     G!Reread, G!SourcesOf, G!There, G!StoredAsChecked, G!LetterIsFlagged
<1> DEFINE kept == <<version, letter, trace, restsOn>>
<1>2. ASSUME UNCHANGED kept, ~(node' \in {"writing", "letter_claim_validator"}),
             node' \in {"resume_tailoring", "tailoring", "claim_validator", "cover_letter"}
               => node \in {"resume_tailoring", "tailoring", "claim_validator",
                            "cover_letter"}
      PROVE  GroundInv'
  BY <1>2 DEF WritesFromVersion, RestsOnVersion, UnsaidBefore, G!There, G!StoredAsChecked,
     G!LetterIsFlagged
<1>3. ASSUME UNCHANGED kept, node' = node, basis' = basis
      PROVE  GroundInv'
  BY <1>3 DEF WritesFromVersion, RestsOnVersion, UnsaidBefore, OwnSources, G!Reread,
     G!SourcesOf, G!There, G!StoredAsChecked, G!LetterIsFlagged
<1>4. CASE \/ G!TailorHalts \/ G!TailorBegins \/ G!ModelFails \/ G!DraftsEmail \/ G!Prepares
  BY <1>2, <1>4 DEF G!TailorHalts, G!TailorBegins, G!ModelFails, G!DraftsEmail, G!Prepares,
     G!Halts, G!Rows
<1>5. CASE \/ \E draft \in Drafts : G!TailorRetries(draft)
           \/ \E draft \in Letters : G!WriteRetries(draft)
           \/ G!Edits
  BY <1>3, <1>5 DEF G!TailorRetries, G!WriteRetries, G!Reprompts, G!Edits, G!Rows
<1>6. CASE \E draft \in Drafts : G!Tailors(draft)
  <2>1. PICK draft \in Drafts : G!Tailors(draft)
    BY <1>6
  <2>2. /\ node = "tailoring" /\ node' = "claim_validator" /\ G!Taken(draft.claims)
        /\ version' = G!Version(draft) /\ restsOn' = [restsOn EXCEPT !.version = basis]
        /\ UNCHANGED <<letter, trace>>
    BY <2>1 DEF G!Tailors
  <2>3. /\ version'.report = G!Check(version'.lines, basis)
        /\ version'.report # {} => version'.attempts = 3
    BY <2>2 DEF G!Version, G!Report, G!Taken, G!MAX_CLAIM_REPROMPTS
  <2>4. /\ restsOn'.version = basis /\ restsOn'.letter = restsOn.letter
        /\ restsOn' = [version |-> restsOn'.version, letter |-> restsOn'.letter]
    BY <2>2
  <2> QED
    BY <2>2, <2>3, <2>4 DEF WritesFromVersion, RestsOnVersion, UnsaidBefore, G!There,
       G!StoredAsChecked, G!LetterIsFlagged, G!MAX_CLAIM_REPROMPTS
<1>7. CASE G!ChecksVersion
  <2>1. /\ node = "claim_validator" /\ node' \in {"cover_letter", "respond"}
        /\ trace' = [trace EXCEPT !.resume = G!VersionVerdict]
        /\ UNCHANGED <<version, letter, restsOn>>
    BY <1>7 DEF G!ChecksVersion
  <2>2. /\ trace' \in [resume : {"none", "ok", "warning"}, letter : {"none", "ok", "warning"}]
        /\ trace'.letter = trace.letter
    BY <2>1 DEF G!VersionVerdict
  <2> QED
    BY <2>1, <2>2 DEF WritesFromVersion, RestsOnVersion, UnsaidBefore, G!There,
       G!StoredAsChecked, G!LetterIsFlagged
<1>8. CASE G!LetterBegins
  <2>1. /\ node = "cover_letter" /\ node' = "writing" /\ UNCHANGED kept
        /\ basis' = G!LetterSources(G!Reread, about, advert)
    BY <1>8 DEF G!LetterBegins, G!Rows
  <2>2. WritesFromVersion'
    BY <2>1 DEF WritesFromVersion, OwnSources, G!LetterSources, G!SourcesOf, G!Reread
  <2> QED
    BY <2>1, <2>2 DEF RestsOnVersion, UnsaidBefore, G!There, G!StoredAsChecked,
       G!LetterIsFlagged
<1>9. CASE \E draft \in Letters : G!Writes(draft)
  <2>1. PICK draft \in Letters : G!Writes(draft)
    BY <1>9
  <2>2. /\ node = "writing" /\ node' = "letter_claim_validator" /\ G!Taken(draft)
        /\ letter' = G!CoverLetter(draft) /\ restsOn' = [restsOn EXCEPT !.letter = basis]
        /\ UNCHANGED <<version, trace>>
    BY <2>1 DEF G!Writes
  <2>3. /\ letter'.report = G!Check(letter'.lines, basis)
        /\ letter'.report # {} => letter'.attempts = 3
    BY <2>2 DEF G!CoverLetter, G!Report, G!Taken, G!MAX_CLAIM_REPROMPTS
  <2>4. /\ restsOn'.letter = basis /\ restsOn'.version = restsOn.version
        /\ restsOn' = [version |-> restsOn'.version, letter |-> restsOn'.letter]
    BY <2>2
  <2>5. RestsOnVersion'
    BY <2>2, <2>4 DEF WritesFromVersion, RestsOnVersion, OwnSources, G!SourcesOf, G!Reread
  <2> QED
    BY <2>2, <2>3, <2>4, <2>5 DEF WritesFromVersion, UnsaidBefore, G!There,
       G!StoredAsChecked, G!LetterIsFlagged, G!MAX_CLAIM_REPROMPTS
<1>10. CASE G!ChecksLetter
  <2>1. /\ node = "letter_claim_validator" /\ node' = "email_draft"
        /\ trace' = [trace EXCEPT
             !.letter = IF G!Check(letter.lines, G!LetterCheckedBy) = {} THEN "ok" ELSE "warning"]
        /\ UNCHANGED <<version, letter, restsOn>>
    BY <1>10 DEF G!ChecksLetter
  <2>2. G!LetterCheckedBy = OwnSources
    BY DEF G!LetterCheckedBy, G!LetterSources, OwnSources
  <2>3. G!There(letter) /\ letter.report # {} => G!Check(letter.lines, G!LetterCheckedBy) # {}
    BY <2>1, <2>2, FewerSupportLess DEF RestsOnVersion, G!StoredAsChecked
  <2>4. /\ trace' \in [resume : {"none", "ok", "warning"}, letter : {"none", "ok", "warning"}]
        /\ trace'.letter =
             IF G!Check(letter.lines, G!LetterCheckedBy) = {} THEN "ok" ELSE "warning"
    BY <2>1
  <2> QED
    BY <2>1, <2>3, <2>4 DEF WritesFromVersion, RestsOnVersion, UnsaidBefore, G!There,
       G!StoredAsChecked, G!LetterIsFlagged
<1> QED
  BY <1>1, <1>4, <1>5, <1>6, <1>7, <1>8, <1>9, <1>10 DEF G!Next

(* What is kept says of itself what is true of it, and a letter's line       *)
(* without a source is flagged, whatever the model answers and the person    *)
(* edits meanwhile (tailoring.py, letter_claim_validator.py).                *)
THEOREM ClaimsChecked == ServicesSpec => []ClaimsAreChecked
<1> DEFINE I == part = "grounding" => GroundInv
<1>1. ServicesInit => I
  BY GroundInit DEF ServicesInit
<1>2. I /\ [ServicesNext]_servicesVars => I'
  BY OnePartMoves, GroundStep
<1>3. I => ClaimsAreChecked
  BY DEF GroundInv, ClaimsAreChecked
<1> QED
  BY <1>1, <1>2, <1>3, PTL DEF ServicesSpec, servicesVars

-----------------------------------------------------------------------------
(* The reference data and its vectors (Catalogue).                          *)

ReembedSteps == {"resize", "re-skills", "re-learning", "re-chunks"}

(* What a process has left to do: the end of one of the programs. *)
Lefts ==
  {<<>>, <<"posting">>,
   <<"skills", "resolve", "roles", "learning">>, <<"resolve", "roles", "learning">>,
   <<"roles", "learning">>, <<"learning">>,
   <<"resize", "re-skills", "re-learning", "re-chunks">>,
   <<"re-skills", "re-learning", "re-chunks">>, <<"re-learning", "re-chunks">>,
   <<"re-chunks">>}

FirstIs(left, step) == left # <<>> /\ Head(left) = step

LEMMA LeftsFollow ==
  ASSUME NEW left \in Lefts, left # <<>>
  PROVE  /\ left[1] = Head(left)
         /\ Len(left) # 1 => Tail(left) \in Lefts \ {<<>>}
         /\ \/ Head(left) \in {"posting", "learning", "re-chunks"} /\ Len(left) = 1
            \/ Head(left) = "skills" /\ Len(left) # 1 /\ Head(Tail(left)) = "resolve"
            \/ Head(left) = "resolve" /\ Len(left) # 1 /\ Head(Tail(left)) = "roles"
            \/ Head(left) = "roles" /\ Len(left) # 1 /\ Head(Tail(left)) = "learning"
            \/ Head(left) = "resize" /\ Len(left) # 1 /\ Head(Tail(left)) = "re-skills"
            \/ Head(left) = "re-skills" /\ Len(left) # 1 /\ Head(Tail(left)) = "re-learning"
            \/ Head(left) = "re-learning" /\ Len(left) # 1 /\ Head(Tail(left)) = "re-chunks"
<1>1. CASE left = <<"posting">>
  BY <1>1 DEF Lefts
<1>2. CASE left = <<"skills", "resolve", "roles", "learning">>
  BY <1>2 DEF Lefts
<1>3. CASE left = <<"resolve", "roles", "learning">>
  BY <1>3 DEF Lefts
<1>4. CASE left = <<"roles", "learning">>
  BY <1>4 DEF Lefts
<1>5. CASE left = <<"learning">>
  BY <1>5 DEF Lefts
<1>6. CASE left = <<"resize", "re-skills", "re-learning", "re-chunks">>
  BY <1>6 DEF Lefts
<1>7. CASE left = <<"re-skills", "re-learning", "re-chunks">>
  BY <1>7 DEF Lefts
<1>8. CASE left = <<"re-learning", "re-chunks">>
  BY <1>8 DEF Lefts
<1>9. CASE left = <<"re-chunks">>
  BY <1>9 DEF Lefts
<1> QED
  BY <1>1, <1>2, <1>3, <1>4, <1>5, <1>6, <1>7, <1>8, <1>9 DEF Lefts

ProcRows  == [left : Lefts, model : Models \cup {None}, seen : BOOLEAN]
ChunkRows == [vector : Models \cup {"cleared"}, recorded : Models]
RoleRows  == [vector : Models \cup {"cleared"}, recorded : Models, resolved : BOOLEAN]

CatalogueTyped ==
  /\ model \in Models /\ late \in BOOLEAN /\ agreed \in BOOLEAN
  /\ taxonomy \in Models \cup {None, "cleared"} /\ learning \in Models \cup {None, "cleared"}
  /\ roles = None \/ roles \in RoleRows
  /\ ads = None \/ ads \in ChunkRows
  /\ proc \in [Processes -> ProcRows]
  /\ \A p \in Processes : proc[p].left # <<>> => proc[p].model \in Models

(* Who resolves skills loaded them before, and nothing takes them away. *)
SkillsAreThere ==
  \A p \in Processes : /\ FirstIs(proc[p].left, "resolve") => taxonomy # None
                       /\ FirstIs(proc[p].left, "roles") => proc[p].seen

(* One re-embedding at a time; it has the configured model as long as no     *)
(* other was deployed since it began.                                       *)
Renews(p) == proc[p].left # <<>> /\ Head(proc[p].left) \in ReembedSteps
OneRenews == \A p, q \in Processes : Renews(p) /\ Renews(q) => p = q
RenewsForModel ==
  \A p \in Processes : Renews(p) /\ (agreed \/ ~late) => proc[p].model = model

SizeFits == agreed => columns = Dim[model]

(* While nobody of another model writes, what it has passed is of its model. *)
RenewedSoFar ==
  ~late => \A p \in Processes :
    /\ FirstIs(proc[p].left, "re-learning") => taxonomy \in {None, model}
    /\ FirstIs(proc[p].left, "re-chunks") =>
         taxonomy \in {None, model} /\ learning \in {None, model}

(* Vectors agree, row by row. *)
Agrees(s, l, r, a, m) ==
  /\ s \in {None, m} /\ l \in {None, m}
  /\ r = None \/ r.vector = m
  /\ a = None \/ a.vector = m
RowsAgree == agreed => Agrees(taxonomy, learning, roles, ads, model)

CatalogueInv ==
  /\ CatalogueTyped /\ SkillsAreThere /\ OneRenews /\ RenewsForModel /\ SizeFits
  /\ RenewedSoFar /\ RowsAgree /\ K!ChunksAreNamed /\ K!RolesAreResolved

LEMMA CatalogueGiven ==
  /\ Dim \in [Models -> Nat] /\ None \notin Models /\ "cleared" \notin Models
  /\ None # "cleared"
  /\ K!Idle \in ProcRows /\ K!Idle.left = <<>> /\ <<>> \in Lefts
<1>1. /\ Dim \in [Models -> Nat] /\ None \notin Models /\ "cleared" \notin Models
      /\ None # "cleared"
  BY CatalogueIsGiven DEF K!CatalogueAssumption
<1>2. K!Idle \in ProcRows /\ K!Idle.left = <<>> /\ <<>> \in Lefts
  BY DEF K!Idle, ProcRows, Lefts
<1> QED
  BY <1>1, <1>2

LEMMA RowsAgreeIsVectorsAgree == RowsAgree => K!VectorsAgree
  BY DEF RowsAgree, Agrees, K!VectorsAgree, K!Vectors, K!ChunkVectors

LEMMA CatalogueInit == K!Init => CatalogueInv
<1> SUFFICES ASSUME K!Init PROVE CatalogueInv
  OBVIOUS
<1>1. /\ taxonomy = None /\ learning = None /\ ads = None /\ roles = None
      /\ late = FALSE /\ agreed = TRUE /\ model \in Models /\ columns = Dim[model]
      /\ proc = [p \in Processes |-> K!Idle]
  BY DEF K!Init
<1>2. CatalogueTyped
  BY <1>1, CatalogueGiven DEF CatalogueTyped
<1>3. \A p \in Processes : proc[p].left = <<>>
  BY <1>1, CatalogueGiven
<1>4. SkillsAreThere /\ OneRenews /\ RenewsForModel /\ RenewedSoFar
  BY <1>3 DEF SkillsAreThere, OneRenews, RenewsForModel, RenewedSoFar, Renews, FirstIs
<1> QED
  BY <1>1, <1>2, <1>4 DEF CatalogueInv, SizeFits, RowsAgree, Agrees, K!ChunksAreNamed,
     K!RolesAreResolved

(* The step of a program that comes after another. *)
Follows(a, b) ==
  \/ a = "skills" /\ b = "resolve"
  \/ a = "resolve" /\ b = "roles"
  \/ a = "roles" /\ b = "learning"
  \/ a = "resize" /\ b = "re-skills"
  \/ a = "re-skills" /\ b = "re-learning"
  \/ a = "re-learning" /\ b = "re-chunks"

(* What a step leaves of the processes: its own goes on or is done. *)
GoesOn(p) ==
  /\ proc' \in [Processes -> ProcRows]
  /\ \A q \in Processes \ {p} : proc'[q] = proc[q]
  /\ proc'[p].left # <<>> =>
       /\ proc'[p].model = proc[p].model
       /\ Follows(Head(proc[p].left), Head(proc'[p].left))

LEMMA StepIsDone ==
  ASSUME CatalogueTyped, NEW p \in Processes, proc[p].left # <<>>, K!Done(p)
  PROVE  GoesOn(p) /\ (proc'[p].left # <<>> => proc'[p].seen = proc[p].seen)
<1>1. /\ proc \in [Processes -> ProcRows] /\ proc[p] \in ProcRows
      /\ proc' = [proc EXCEPT ![p] = K!Ended(p)]
  BY DEF CatalogueTyped, K!Done
<1>2. CASE Len(proc[p].left) = 1
  BY <1>1, <1>2, CatalogueGiven DEF K!Ended, GoesOn
<1>3. CASE Len(proc[p].left) # 1
  <2> DEFINE rest == Tail(proc[p].left)
             row == [proc[p] EXCEPT !.left = rest]
  <2>1. proc[p].left \in Lefts
    BY <1>1 DEF ProcRows
  <2>2. rest \in Lefts \ {<<>>} /\ Follows(Head(proc[p].left), Head(rest))
    BY <1>3, <2>1, LeftsFollow DEF Follows
  <2>3. ASSUME NEW l \in Lefts
        PROVE  LET r == [proc[p] EXCEPT !.left = l]
               IN  /\ r \in ProcRows /\ r.left = l
                   /\ r.model = proc[p].model /\ r.seen = proc[p].seen
    BY <1>1 DEF ProcRows
  <2>4. /\ row \in ProcRows /\ row.left = rest /\ row.model = proc[p].model
        /\ row.seen = proc[p].seen
    BY <2>2, <2>3
  <2>5. proc' = [proc EXCEPT ![p] = row]
    BY <1>1, <1>3 DEF K!Ended
  <2> HIDE DEF rest, row
  <2> QED
    BY <1>1, <2>2, <2>4, <2>5 DEF GoesOn
<1> QED
  BY <1>2, <1>3

(* So there is still one re-embedding, for the configured model.  *)
LEMMA RenewalGoesOn ==
  ASSUME CatalogueInv, NEW p \in Processes, proc[p].left # <<>>, GoesOn(p),
         model' = model, agreed' => agreed, ~late' => ~late \/ agreed
  PROVE  OneRenews' /\ RenewsForModel'
<1>1. \A q \in Processes : Renews(q)' => Renews(q) /\ proc'[q].model = proc[q].model
  <2> SUFFICES ASSUME NEW q \in Processes, Renews(q)'
               PROVE  Renews(q) /\ proc'[q].model = proc[q].model
    OBVIOUS
  <2>1. CASE q # p
    BY <2>1 DEF Renews, GoesOn
  <2>2. CASE q = p
    BY <2>2 DEF Renews, GoesOn, Follows, ReembedSteps
  <2> QED
    BY <2>1, <2>2
<1> QED
  BY <1>1 DEF CatalogueInv, OneRenews, RenewsForModel

(* Something is embedded: by the configured model, or nothing is claimed of  *)
(* the vectors until they are renewed.                                      *)
LEMMA EmbeddingStands ==
  ASSUME CatalogueInv, NEW p \in Processes, proc[p].left # <<>>, K!Done(p), K!Writes(p),
         UNCHANGED <<model, columns>>, NEW m \in Models, m = proc[p].model,
         taxonomy' \in {taxonomy, m}, learning' \in {learning, m},
         \/ roles' = roles
         \/ roles' \in RoleRows /\ roles'.vector = m /\ roles'.recorded = m /\ roles'.resolved,
         \/ ads' = ads
         \/ ads' \in ChunkRows /\ ads'.vector = m /\ ads'.recorded = m,
         Head(proc[p].left) # "resolve",
         Head(proc[p].left) = "skills" => taxonomy' = m,
         Head(proc[p].left) = "re-skills" => taxonomy' \in {None, m},
         Head(proc[p].left) = "re-learning" => taxonomy' = taxonomy /\ learning' \in {None, m}
  PROVE  CatalogueInv'
<1>1. GoesOn(p) /\ (proc'[p].left # <<>> => proc'[p].seen = proc[p].seen)
  BY StepIsDone DEF CatalogueInv
<1>2. /\ late' = (late \/ m # model) /\ agreed' = (agreed /\ m = model)
  BY DEF K!Writes
<1>3. CatalogueTyped'
  <2>1. late' \in BOOLEAN /\ agreed' \in BOOLEAN
    BY <1>2
  <2>2. proc' \in [Processes -> ProcRows]
        /\ \A q \in Processes : proc'[q].left # <<>> => proc'[q].model \in Models
    BY <1>1 DEF CatalogueInv, CatalogueTyped, GoesOn
  <2> QED
    BY <2>1, <2>2 DEF CatalogueInv, CatalogueTyped
<1>4. OneRenews' /\ RenewsForModel'
  BY <1>1, <1>2, RenewalGoesOn
<1>5. SkillsAreThere'
  <2>1. taxonomy # None => taxonomy' # None
    BY CatalogueGiven
  <2> SUFFICES ASSUME NEW q \in Processes
               PROVE  /\ FirstIs(proc'[q].left, "resolve") => taxonomy' # None
                      /\ FirstIs(proc'[q].left, "roles") => proc'[q].seen
    BY DEF SkillsAreThere
  <2>2. CASE q # p
    BY <1>1, <2>1, <2>2 DEF CatalogueInv, SkillsAreThere, GoesOn
  <2>3. CASE q = p
    BY <1>1, <2>3, CatalogueGiven DEF FirstIs, GoesOn, Follows
  <2> QED
    BY <2>2, <2>3
<1>6. SizeFits'
  BY <1>2 DEF CatalogueInv, SizeFits
<1>7. RenewedSoFar'
  <2> SUFFICES ASSUME ~late', NEW q \in Processes
               PROVE  /\ FirstIs(proc'[q].left, "re-learning") => taxonomy' \in {None, model}
                      /\ FirstIs(proc'[q].left, "re-chunks") =>
                           taxonomy' \in {None, model} /\ learning' \in {None, model}
    BY DEF RenewedSoFar
  <2>1. ~late /\ m = model
    BY <1>2
  <2>2. CASE q # p
    BY <1>1, <2>1, <2>2 DEF CatalogueInv, RenewedSoFar, GoesOn
  <2>3. CASE q = p
    BY <1>1, <2>1, <2>3 DEF CatalogueInv, RenewedSoFar, FirstIs, GoesOn, Follows
  <2> QED
    BY <2>2, <2>3
<1>8. RowsAgree'
  BY <1>2 DEF CatalogueInv, RowsAgree, Agrees
<1>9. K!ChunksAreNamed' /\ K!RolesAreResolved'
  BY DEF CatalogueInv, K!ChunksAreNamed, K!RolesAreResolved
<1> QED
  BY <1>3, <1>4, <1>5, <1>6, <1>7, <1>8, <1>9 DEF CatalogueInv

(* The parts of a load, a posting's ingestion, the first two tables of a     *)
(* re-embedding.                                                            *)
LEMMA CatalogueEmbeds ==
  ASSUME CatalogueInv, NEW p \in Processes,
         \/ K!SeedSkills(p) \/ K!SeedJobs(p) \/ K!SeedLearning(p) \/ K!PostingIngested(p)
         \/ K!ReembedSkills(p) \/ K!ReembedLearning(p)
  PROVE  CatalogueInv'
<1> DEFINE m == proc[p].model
           step == Head(proc[p].left)
<1>1. /\ proc[p].left # <<>> /\ K!Done(p) /\ K!Writes(p) /\ UNCHANGED <<model, columns>>
  BY DEF K!SeedSkills, K!SeedJobs, K!SeedLearning, K!PostingIngested, K!ReembedSkills,
     K!ReembedLearning, K!Doing
<1>2. m \in Models
  BY <1>1 DEF CatalogueInv, CatalogueTyped
<1>3. CASE K!SeedSkills(p)
  <2>1. step = "skills" /\ taxonomy' = m /\ UNCHANGED <<learning, ads, roles>>
    BY <1>3 DEF K!SeedSkills, K!Doing
  <2> QED
    BY <1>1, <1>2, <2>1, EmbeddingStands
<1>4. CASE K!SeedJobs(p)
  <2>1. step = "roles" /\ roles' = K!Role(p) /\ UNCHANGED <<learning, ads, taxonomy>>
    BY <1>4 DEF K!SeedJobs, K!Doing
  <2>2. proc[p].seen /\ proc[p].seen \in BOOLEAN
    BY <1>1, <2>1 DEF CatalogueInv, SkillsAreThere, FirstIs, CatalogueTyped, ProcRows
  <2>3. roles' \in RoleRows /\ roles'.vector = m /\ roles'.recorded = m /\ roles'.resolved
    <3>1. roles' = [vector |-> m, recorded |-> m, resolved |-> TRUE]
      BY <2>1, <2>2 DEF K!Role
    <3> QED
      BY <1>2, <3>1 DEF RoleRows
  <2> QED
    BY <1>1, <1>2, <2>1, <2>3, EmbeddingStands
<1>5. CASE K!SeedLearning(p)
  <2>1. step = "learning" /\ learning' = m /\ UNCHANGED <<taxonomy, ads, roles>>
    BY <1>5 DEF K!SeedLearning, K!Doing
  <2> QED
    BY <1>1, <1>2, <2>1, EmbeddingStands
<1>6. CASE K!PostingIngested(p)
  <2>1. /\ step = "posting" /\ ads' = [vector |-> m, recorded |-> m]
        /\ UNCHANGED <<taxonomy, learning, roles>>
    BY <1>6 DEF K!PostingIngested, K!Doing
  <2>2. ads' \in ChunkRows /\ ads'.vector = m /\ ads'.recorded = m
    BY <1>2, <2>1 DEF ChunkRows
  <2> QED
    BY <1>1, <1>2, <2>1, <2>2, EmbeddingStands
<1>7. CASE K!ReembedSkills(p)
  <2>1. /\ step = "re-skills" /\ taxonomy' = K!Again(taxonomy, m)
        /\ UNCHANGED <<learning, ads, roles>>
    BY <1>7 DEF K!ReembedSkills, K!Doing
  <2>2. taxonomy' \in {taxonomy, m} /\ taxonomy' \in {None, m}
    BY <2>1 DEF K!Again
  <2> QED
    BY <1>1, <1>2, <2>1, <2>2, EmbeddingStands
<1>8. CASE K!ReembedLearning(p)
  <2>1. /\ step = "re-learning" /\ learning' = K!Again(learning, m)
        /\ UNCHANGED <<taxonomy, ads, roles>>
    BY <1>8 DEF K!ReembedLearning, K!Doing
  <2>2. learning' \in {learning, m} /\ learning' \in {None, m}
    BY <2>1 DEF K!Again
  <2> QED
    BY <1>1, <1>2, <2>1, <2>2, EmbeddingStands
<1> QED
  BY <1>3, <1>4, <1>5, <1>6, <1>7, <1>8

(* Columns of another size lose their vectors, which nothing is claimed of;   *)
(* at last the chunks are renewed.                                          *)
LEMMA CatalogueRenews ==
  ASSUME CatalogueInv, NEW p \in Processes, K!ResizeVectorColumns(p) \/ K!ReembedChunks(p)
  PROVE  CatalogueInv'
<1> DEFINE m == proc[p].model
<1>1. /\ proc[p].left # <<>> /\ K!Done(p) /\ UNCHANGED <<model, late>>
      /\ Head(proc[p].left) \in {"resize", "re-chunks"} /\ Renews(p)
  BY DEF K!ResizeVectorColumns, K!ReembedChunks, K!Doing, Renews, ReembedSteps
<1>2. m \in Models /\ CatalogueTyped
  BY <1>1 DEF CatalogueInv, CatalogueTyped
<1>3. GoesOn(p)
  BY <1>1, <1>2, StepIsDone
<1>4. /\ \A q \in Processes \ {p} : ~Renews(q) /\ ~Renews(q)'
      /\ \A q \in Processes : proc'[q].left # <<>> => proc'[q].model \in Models
  BY <1>1, <1>2, <1>3 DEF CatalogueInv, OneRenews, Renews, GoesOn, CatalogueTyped
<1>5. CASE K!ResizeVectorColumns(p)
  <2>1. Head(proc[p].left) = "resize" /\ agreed' = agreed
    BY <1>5 DEF K!ResizeVectorColumns, K!Doing
  <2>2. OneRenews' /\ RenewsForModel'
    BY <1>1, <1>3, <2>1, RenewalGoesOn
  <2>3. RenewedSoFar'
    <3>1. \A q \in Processes : /\ ~FirstIs(proc'[q].left, "re-learning")
                               /\ ~FirstIs(proc'[q].left, "re-chunks")
      BY <1>3, <1>4, <2>1 DEF GoesOn, Follows, FirstIs, Renews, ReembedSteps
    <3> QED
      BY <3>1 DEF RenewedSoFar
  <2>4. /\ taxonomy # None => taxonomy' # None
        /\ taxonomy' \in {taxonomy, "cleared"} /\ learning' \in {learning, "cleared"}
    BY <1>5, CatalogueGiven DEF K!ResizeVectorColumns, K!Cleared
  <2>5. SkillsAreThere'
    <3> SUFFICES ASSUME NEW q \in Processes
                 PROVE  /\ FirstIs(proc'[q].left, "resolve") => taxonomy' # None
                        /\ FirstIs(proc'[q].left, "roles") => proc'[q].seen
      BY DEF SkillsAreThere
    <3>1. CASE q # p
      BY <1>3, <2>4, <3>1 DEF CatalogueInv, SkillsAreThere, GoesOn
    <3>2. CASE q = p
      BY <1>3, <2>1, <3>2 DEF FirstIs, GoesOn, Follows
    <3> QED
      BY <3>1, <3>2
  <2>6. /\ \/ roles' = roles
           \/ /\ roles # None /\ roles' \in RoleRows /\ roles'.vector = "cleared"
              /\ roles'.resolved = roles.resolved
        /\ \/ ads' = ads
           \/ ads # None /\ ads' \in ChunkRows /\ ads'.vector = "cleared"
    <3>1. /\ roles' = roles \/ (roles # None /\ roles' = [roles EXCEPT !.vector = "cleared"])
          /\ ads' = ads \/ (ads # None /\ ads' = [ads EXCEPT !.vector = "cleared"])
      BY <1>5 DEF K!ResizeVectorColumns, K!ClearedChunks
    <3>2. ASSUME NEW r \in RoleRows
          PROVE  LET x == [r EXCEPT !.vector = "cleared"]
                 IN  x \in RoleRows /\ x.vector = "cleared" /\ x.resolved = r.resolved
      BY DEF RoleRows
    <3>3. ASSUME NEW r \in ChunkRows
          PROVE  LET x == [r EXCEPT !.vector = "cleared"]
                 IN  x \in ChunkRows /\ x.vector = "cleared"
      BY DEF ChunkRows
    <3> QED
      BY <1>2, <3>1, <3>2, <3>3 DEF CatalogueTyped
  <2>7. CatalogueTyped'
    BY <1>1, <1>2, <1>3, <1>4, <2>1, <2>4, <2>6 DEF CatalogueTyped, GoesOn
  <2>8. K!ChunksAreNamed' /\ K!RolesAreResolved'
    BY <2>6 DEF CatalogueInv, K!ChunksAreNamed, K!RolesAreResolved
  <2>9. agreed => UNCHANGED <<columns, taxonomy, learning, roles, ads>>
    <3>1. agreed => columns = Dim[m]
      BY <1>1 DEF CatalogueInv, RenewsForModel, SizeFits
    <3> QED
      BY <1>5, <3>1 DEF K!ResizeVectorColumns
  <2>10. SizeFits' /\ RowsAgree'
    BY <1>1, <2>1, <2>9 DEF CatalogueInv, SizeFits, RowsAgree
  <2> QED
    BY <2>2, <2>3, <2>5, <2>7, <2>8, <2>10 DEF CatalogueInv
<1>6. CASE K!ReembedChunks(p)
  <2>1. /\ Head(proc[p].left) = "re-chunks" /\ FirstIs(proc[p].left, "re-chunks")
        /\ columns = Dim[m] /\ agreed' = (m = model /\ (~late \/ agreed))
        /\ roles' = K!Chunks(roles, m) /\ ads' = K!Chunks(ads, m)
        /\ UNCHANGED <<columns, taxonomy, learning>>
    BY <1>1, <1>6 DEF K!ReembedChunks, K!Doing, FirstIs
  <2>2. proc'[p].left = <<>>
    BY <1>3, <2>1 DEF GoesOn, Follows
  <2>3. \A q \in Processes : ~Renews(q)'
    BY <1>4, <2>2 DEF Renews
  <2>4. OneRenews' /\ RenewsForModel' /\ RenewedSoFar'
    BY <2>3 DEF OneRenews, RenewsForModel, RenewedSoFar, Renews, FirstIs, ReembedSteps
  <2>5. SkillsAreThere'
    BY <1>3, <2>1, <2>2 DEF CatalogueInv, SkillsAreThere, FirstIs, GoesOn
  <2>6. /\ roles' = None
           \/ /\ roles # None /\ roles' \in RoleRows /\ roles'.vector = m
              /\ roles'.recorded = m /\ roles'.resolved = roles.resolved
        /\ ads' = None \/ (ads' \in ChunkRows /\ ads'.vector = m /\ ads'.recorded = m)
    <3>1. ASSUME NEW r \in RoleRows
          PROVE  LET x == [r EXCEPT !.vector = m, !.recorded = m]
                 IN  /\ x \in RoleRows /\ x.vector = m /\ x.recorded = m
                     /\ x.resolved = r.resolved
      BY <1>2 DEF RoleRows
    <3>2. ASSUME NEW r \in ChunkRows
          PROVE  LET x == [r EXCEPT !.vector = m, !.recorded = m]
                 IN  x \in ChunkRows /\ x.vector = m /\ x.recorded = m
      BY <1>2 DEF ChunkRows
    <3> QED
      BY <1>2, <2>1, <3>1, <3>2 DEF CatalogueTyped, K!Chunks
  <2>7. CatalogueTyped'
    <3>1. agreed' \in BOOLEAN
      BY <2>1
    <3> QED
      BY <1>1, <1>2, <1>3, <1>4, <2>1, <2>6, <3>1 DEF CatalogueTyped, GoesOn
  <2>8. K!ChunksAreNamed' /\ K!RolesAreResolved'
    BY <2>6 DEF CatalogueInv, K!ChunksAreNamed, K!RolesAreResolved
  <2>9. SizeFits' /\ RowsAgree'
    BY <1>1, <2>1, <2>6
       DEF CatalogueInv, SizeFits, RowsAgree, Agrees, RenewedSoFar
  <2> QED
    BY <2>4, <2>5, <2>7, <2>8, <2>9 DEF CatalogueInv
<1> QED
  BY <1>5, <1>6

(* The slugs are looked up in a taxonomy that is there. *)
LEMMA CatalogueResolves ==
  ASSUME CatalogueInv, NEW p \in Processes, K!SeedJobsResolves(p)
  PROVE  CatalogueInv'
<1> DEFINE row == [proc[p] EXCEPT !.seen = TRUE, !.left = Tail(proc[p].left)]
<1>1. /\ FirstIs(proc[p].left, "resolve") /\ proc[p] \in ProcRows /\ proc[p].left \in Lefts
      /\ UNCHANGED <<model, columns, taxonomy, learning, ads, roles, late, agreed>>
  BY DEF K!SeedJobsResolves, K!Doing, FirstIs, CatalogueInv, CatalogueTyped, ProcRows
<1>2. taxonomy # None
  BY <1>1 DEF CatalogueInv, SkillsAreThere
<1>3. Tail(proc[p].left) \in Lefts \ {<<>>} /\ Head(Tail(proc[p].left)) = "roles"
  BY <1>1, LeftsFollow DEF FirstIs
<1>4. ASSUME NEW l \in Lefts
      PROVE  LET r == [proc[p] EXCEPT !.seen = TRUE, !.left = l]
             IN  r \in ProcRows /\ r.left = l /\ r.model = proc[p].model /\ r.seen = TRUE
  BY <1>1 DEF ProcRows
<1>5. /\ row \in ProcRows /\ row.left = Tail(proc[p].left) /\ row.model = proc[p].model
      /\ row.seen = TRUE
  BY <1>3, <1>4
<1>6. proc' = [proc EXCEPT ![p] = row]
  <2>1. proc' = [proc EXCEPT ![p] = [proc[p] EXCEPT !.seen = taxonomy # None,
                                                    !.left = Tail(proc[p].left)]]
    BY <1>1 DEF K!SeedJobsResolves, ProcRows
  <2>2. (taxonomy # None) = TRUE
    BY <1>2
  <2> QED
    BY <2>1, <2>2, Zenon
<1> HIDE DEF row
<1>7. GoesOn(p) /\ proc'[p].seen = TRUE /\ Head(proc'[p].left) = "roles"
  BY <1>1, <1>3, <1>5, <1>6
     DEF GoesOn, Follows, FirstIs, CatalogueInv, CatalogueTyped
<1>8. OneRenews' /\ RenewsForModel'
  BY <1>1, <1>7, RenewalGoesOn DEF FirstIs
<1>9. CatalogueTyped'
  BY <1>1, <1>7 DEF CatalogueInv, CatalogueTyped, GoesOn, FirstIs
<1>10. SkillsAreThere' /\ RenewedSoFar'
  BY <1>1, <1>2, <1>7 DEF CatalogueInv, SkillsAreThere, RenewedSoFar, GoesOn, FirstIs
<1> QED
  BY <1>1, <1>8, <1>9, <1>10 DEF CatalogueInv, SizeFits, RowsAgree, K!ChunksAreNamed,
     K!RolesAreResolved

(* A process is started, with the configured model. *)
LEMMA ProcessStarts ==
  ASSUME CatalogueInv, NEW p \in Processes, NEW steps \in Lefts, K!Runs(p, steps),
         \/ /\ steps # <<>> /\ Head(steps) \in {"skills", "posting"} /\ late' = late
         \/ /\ steps # <<>> /\ Head(steps) = "resize" /\ late' = FALSE
            /\ \A q \in Processes : ~Renews(q)
  PROVE  CatalogueInv'
<1> DEFINE row == [K!Idle EXCEPT !.left = steps, !.model = model]
<1>1. /\ proc' = [proc EXCEPT ![p] = row]
      /\ UNCHANGED <<model, columns, taxonomy, learning, ads, roles, agreed>>
  BY DEF K!Runs
<1>2. row \in ProcRows /\ row.left = steps /\ row.model = model
  <2>1. model \in Models
    BY DEF CatalogueInv, CatalogueTyped
  <2> QED
    BY <2>1, CatalogueGiven DEF ProcRows
<1> HIDE DEF row
<1>3. CatalogueTyped'
  BY <1>1, <1>2 DEF CatalogueInv, CatalogueTyped
<1>4. OneRenews' /\ RenewsForModel'
  BY <1>1, <1>2 DEF CatalogueInv, CatalogueTyped, OneRenews, RenewsForModel, Renews,
     ReembedSteps
<1>5. SkillsAreThere'
  BY <1>1, <1>2 DEF CatalogueInv, CatalogueTyped, SkillsAreThere, FirstIs
<1>6. RenewedSoFar'
  <2>1. CASE late' = late
    BY <1>1, <1>2, <2>1 DEF CatalogueInv, CatalogueTyped, RenewedSoFar, FirstIs
  <2>2. CASE \A q \in Processes : ~Renews(q)
    <3>1. \A q \in Processes : /\ ~FirstIs(proc'[q].left, "re-learning")
                               /\ ~FirstIs(proc'[q].left, "re-chunks")
      BY <1>1, <1>2, <2>2 DEF CatalogueInv, CatalogueTyped, Renews, ReembedSteps, FirstIs
    <3> QED
      BY <3>1 DEF RenewedSoFar
  <2> QED
    BY <2>1, <2>2
<1> QED
  BY <1>1, <1>3, <1>4, <1>5, <1>6 DEF CatalogueInv, SizeFits, RowsAgree, Agrees,
     K!ChunksAreNamed, K!RolesAreResolved

LEMMA CatalogueStarts ==
  ASSUME CatalogueInv, NEW p \in Processes,
         K!SeedAllIfEmpty(p) \/ K!SeedAll(p) \/ K!IngestJob(p) \/ K!Reembed(p)
  PROVE  CatalogueInv'
<1>1. CASE K!SeedAllIfEmpty(p) \/ K!SeedAll(p)
  <2>1. /\ K!WholeCatalogue \in Lefts /\ K!WholeCatalogue # <<>>
        /\ Head(K!WholeCatalogue) = "skills"
    BY DEF K!WholeCatalogue, Lefts
  <2> QED
    BY <1>1, <2>1, ProcessStarts DEF K!SeedAllIfEmpty, K!SeedAll
<1>2. CASE K!IngestJob(p)
  <2>1. <<"posting">> \in Lefts /\ <<"posting">> # <<>> /\ Head(<<"posting">>) = "posting"
    BY DEF Lefts
  <2> QED
    BY <1>2, <2>1, ProcessStarts DEF K!IngestJob
<1>3. CASE K!Reembed(p)
  <2>1. /\ K!Reembedding \in Lefts /\ K!Reembedding # <<>> /\ Head(K!Reembedding) = "resize"
    BY DEF K!Reembedding, Lefts
  <2>2. \A q \in Processes : ~Renews(q)
    <3> SUFFICES ASSUME NEW q \in Processes, Renews(q) PROVE K!Reembeds
      BY <1>3 DEF K!Reembed
    <3>1. proc[q].left \in Lefts /\ proc[q].left # <<>>
      BY DEF Renews, CatalogueInv, CatalogueTyped, ProcRows
    <3>2. proc[q].left[1] = Head(proc[q].left)
      BY <3>1, LeftsFollow
    <3> QED
      BY <3>1, <3>2 DEF Renews, ReembedSteps, K!Reembeds
  <2> QED
    BY <1>3, <2>1, <2>2, ProcessStarts DEF K!Reembed
<1> QED
  BY <1>1, <1>2, <1>3

LEMMA CatalogueStep == CatalogueInv /\ [K!Next]_catalogueVars => CatalogueInv'
<1> SUFFICES ASSUME CatalogueInv, [K!Next]_catalogueVars PROVE CatalogueInv'
  OBVIOUS
<1>1. CASE UNCHANGED catalogueVars
  BY <1>1 DEF catalogueVars, CatalogueInv, CatalogueTyped, SkillsAreThere, OneRenews,
     RenewsForModel, Renews, SizeFits, RenewedSoFar, RowsAgree, K!ChunksAreNamed,
     K!RolesAreResolved
<1>2. CASE \E p \in Processes : K!Dies(p)
  <2>1. PICK p \in Processes : K!Dies(p)
    BY <1>2
  <2>2. /\ proc' = [proc EXCEPT ![p] = K!Idle]
        /\ UNCHANGED <<model, columns, taxonomy, learning, ads, roles, late, agreed>>
    BY <2>1 DEF K!Dies
  <2>3. CatalogueTyped' /\ proc \in [Processes -> ProcRows]
    BY <2>2, CatalogueGiven DEF CatalogueInv, CatalogueTyped
  <2>4. \A q \in Processes : proc'[q] = proc[q] \/ proc'[q].left = <<>>
    BY <2>2, <2>3, CatalogueGiven
  <2>5. SkillsAreThere' /\ OneRenews' /\ RenewsForModel' /\ RenewedSoFar'
    BY <2>2, <2>4 DEF CatalogueInv, SkillsAreThere, OneRenews, RenewsForModel, RenewedSoFar,
       Renews, FirstIs
  <2> QED
    BY <2>2, <2>3, <2>5 DEF CatalogueInv, SizeFits, RowsAgree, K!ChunksAreNamed,
       K!RolesAreResolved
<1>3. CASE \E m \in Models : K!Deploy(m)
  <2>1. /\ model' \in Models /\ agreed' = FALSE /\ late' = TRUE
        /\ UNCHANGED <<columns, taxonomy, learning, ads, roles, proc>>
    BY <1>3 DEF K!Deploy
  <2> QED
    BY <2>1 DEF CatalogueInv, CatalogueTyped, SkillsAreThere, OneRenews, RenewsForModel,
       Renews, SizeFits, RenewedSoFar, RowsAgree, K!ChunksAreNamed, K!RolesAreResolved
<1> QED
  BY <1>1, <1>2, <1>3, CatalogueStarts, CatalogueResolves, CatalogueEmbeds, CatalogueRenews
     DEF K!Next

(* A search compares vectors of one model, which the chunks name, and roles  *)
(* ask for skills of the taxonomy, for every number of commands, models and  *)
(* processes that overlap (seed.py, reembed.py).                            *)
THEOREM CatalogueIsServed == ServicesSpec => []CatalogueServes
<1> DEFINE I == part = "catalogue" => CatalogueInv
<1>1. ServicesInit => I
  BY CatalogueInit DEF ServicesInit
<1>2. I /\ [ServicesNext]_servicesVars => I'
  BY OnePartMoves, CatalogueStep
<1>3. I => CatalogueServes
  BY RowsAgreeIsVectorsAgree DEF CatalogueInv, CatalogueServes
<1> QED
  BY <1>1, <1>2, <1>3, PTL DEF ServicesSpec, servicesVars

-----------------------------------------------------------------------------
(* The tracker and the roadmaps: what TrackerRoadmapProofs proves of each of *)
(* the two and the three that MCServices runs.                              *)

TP1 == INSTANCE TrackerRoadmapProofs WITH
         row <- application, crossed <- sendCrossed, Clients <- {},
         Applicant <- "me", Contact <- "boss",
         Skills <- GapSkills, Roadmaps <- {1}, Patchers <- {p1}
TP2 == INSTANCE TrackerRoadmapProofs WITH
         row <- application, crossed <- sendCrossed, Apps <- Lone,
         Applicant <- "me", Contact <- "boss",
         Skills <- GapSkills, Roadmaps <- {1}, PlanTries <- 1, Rebuilds <- {b1}
TP3 == INSTANCE TrackerRoadmapProofs WITH
         row <- application, crossed <- sendCrossed,
         Applicant <- "me", Contact <- "boss",
         Skills <- GapSkills, PlanTries <- 1, Patchers <- {}, Rebuilds <- {b1}

(* The proofs are of the tracker that moves here. *)
LEMMA SameTracker1 ==
  /\ T1!Init => TP1!Init
  /\ [T1!Next]_sendVars => [TP1!Next]_TP1!tVars
  /\ T1!TrackerAssumption => TP1!TrackerAssumption
  /\ TP1!MailStaysWithinLimits => T1!MailStaysWithinLimits
<1>1. T1!Init => TP1!Init
  BY Zenon DEF T1!Init, TP1!Init, T1!NotSent, TP1!NotSent, T1!OffAttempt,
               TP1!OffAttempt, T1!NewClient, TP1!NewClient
<1>2. T1!Next => TP1!Next
  BY Zenon DEF T1!Cardinality, TP1!Cardinality,
    T1!Next, TP1!Next, T1!NotSent, TP1!NotSent, T1!OffAttempt, TP1!OffAttempt,
    T1!NewClient, TP1!NewClient, T1!Saved, TP1!Saved, T1!Prepared,
    TP1!Prepared, T1!UserSettable, TP1!UserSettable, T1!Loaded, TP1!Loaded,
    T1!RequestLoads, TP1!RequestLoads, T1!Dated, TP1!Dated, T1!Overtaken,
    TP1!Overtaken, T1!Patched, TP1!Patched, T1!LeftAlone, TP1!LeftAlone,
    T1!SoftDeleted, TP1!SoftDeleted, T1!Begins, TP1!Begins, T1!SentToday,
    TP1!SentToday, T1!Capped, TP1!Capped, T1!Ends, TP1!Ends, T1!CapRefuses,
    TP1!CapRefuses, T1!CapAllows, TP1!CapAllows, T1!Claims, TP1!Claims,
    T1!Composed, TP1!Composed, T1!DeliveredTo, TP1!DeliveredTo, T1!Delivers,
    TP1!Delivers, T1!DeliveryFails, TP1!DeliveryFails, T1!OthersSend,
    TP1!OthersSend, T1!NewDay, TP1!NewDay, T1!tVars, TP1!tVars
<1>3. sendVars' = sendVars => TP1!tVars' = TP1!tVars
  BY DEF sendVars, TP1!tVars
<1>4. T1!TrackerAssumption => TP1!TrackerAssumption
  BY Zenon DEF T1!TrackerAssumption, TP1!TrackerAssumption,
               T1!IsFiniteSet, TP1!IsFiniteSet
<1>5. TP1!MailStaysWithinLimits => T1!MailStaysWithinLimits
  BY Zenon DEF T1!MailStaysWithinLimits, TP1!MailStaysWithinLimits,
               T1!SentToday, TP1!SentToday, T1!Cardinality, TP1!Cardinality
<1> QED
  BY <1>1, <1>2, <1>3, <1>4, <1>5

LEMMA SameTracker2 ==
  /\ T2!Init => TP2!Init
  /\ [T2!Next]_sendVars => [TP2!Next]_TP2!tVars
  /\ T2!TrackerAssumption => TP2!TrackerAssumption
  /\ TP2!MailStaysWithinLimits => T2!MailStaysWithinLimits
<1>1. T2!Init => TP2!Init
  BY Zenon DEF T2!Init, TP2!Init, T2!NotSent, TP2!NotSent, T2!OffAttempt,
               TP2!OffAttempt, T2!NewClient, TP2!NewClient
<1>2. T2!Next => TP2!Next
  BY Zenon DEF T2!Cardinality, TP2!Cardinality,
    T2!Next, TP2!Next, T2!NotSent, TP2!NotSent, T2!OffAttempt, TP2!OffAttempt,
    T2!NewClient, TP2!NewClient, T2!Saved, TP2!Saved, T2!Prepared,
    TP2!Prepared, T2!UserSettable, TP2!UserSettable, T2!Loaded, TP2!Loaded,
    T2!RequestLoads, TP2!RequestLoads, T2!Dated, TP2!Dated, T2!Overtaken,
    TP2!Overtaken, T2!Patched, TP2!Patched, T2!LeftAlone, TP2!LeftAlone,
    T2!SoftDeleted, TP2!SoftDeleted, T2!Begins, TP2!Begins, T2!SentToday,
    TP2!SentToday, T2!Capped, TP2!Capped, T2!Ends, TP2!Ends, T2!CapRefuses,
    TP2!CapRefuses, T2!CapAllows, TP2!CapAllows, T2!Claims, TP2!Claims,
    T2!Composed, TP2!Composed, T2!DeliveredTo, TP2!DeliveredTo, T2!Delivers,
    TP2!Delivers, T2!DeliveryFails, TP2!DeliveryFails, T2!OthersSend,
    TP2!OthersSend, T2!NewDay, TP2!NewDay, T2!tVars, TP2!tVars
<1>3. sendVars' = sendVars => TP2!tVars' = TP2!tVars
  BY DEF sendVars, TP2!tVars
<1>4. T2!TrackerAssumption => TP2!TrackerAssumption
  BY Zenon DEF T2!TrackerAssumption, TP2!TrackerAssumption,
               T2!IsFiniteSet, TP2!IsFiniteSet
<1>5. TP2!MailStaysWithinLimits => T2!MailStaysWithinLimits
  BY Zenon DEF T2!MailStaysWithinLimits, TP2!MailStaysWithinLimits,
               T2!SentToday, TP2!SentToday, T2!Cardinality, TP2!Cardinality
<1> QED
  BY <1>1, <1>2, <1>3, <1>4, <1>5

TrackersInv ==
  /\ part = "tracker1" => TP1!LimitInv
  /\ part = "tracker2" => TP2!LimitInv

LEMMA TrackersInit == ServicesInit => TrackersInv
<1> SUFFICES ASSUME ServicesInit PROVE TrackersInv
  OBVIOUS
<1>1. CASE part = "tracker1"
  BY <1>1, TrackersAreGiven, SameTracker1, TP1!InitInv, TP1!OvershootInit
     DEF ServicesInit, TrackersInv, TP1!LimitInv
<1>2. CASE part = "tracker2"
  BY <1>2, TrackersAreGiven, SameTracker2, TP2!InitInv, TP2!OvershootInit
     DEF ServicesInit, TrackersInv, TP2!LimitInv
<1> QED
  BY <1>1, <1>2 DEF TrackersInv

LEMMA TrackersStep == TrackersInv /\ [ServicesNext]_servicesVars => TrackersInv'
<1> SUFFICES ASSUME TrackersInv, [ServicesNext]_servicesVars PROVE TrackersInv'
  OBVIOUS
<1>1. CASE part = "tracker1"
  BY <1>1, TrackersAreGiven, OnePartMoves, SameTracker1, TP1!InvStep, TP1!OvershootStep
     DEF TrackersInv, TP1!LimitInv
<1>2. CASE part = "tracker2"
  BY <1>2, TrackersAreGiven, OnePartMoves, SameTracker2, TP2!InvStep, TP2!OvershootStep
     DEF TrackersInv, TP2!LimitInv
<1> QED
  BY <1>1, <1>2, OnePartMoves DEF TrackersInv

(* The daily limits hold unless two attempts overlap, attempts that do may   *)
(* exceed the person's limit by less than their number and no more, and a    *)
(* redirected mail reaches the applicant only, for any applications,         *)
(* attempts and limits (sending.py).                                         *)
THEOREM LimitsAreKept == ServicesSpec => []MailStaysWithinLimits
<1>1. TrackersInv => MailStaysWithinLimits
  BY TrackersAreGiven, SameTracker1, SameTracker2, TP1!LimitInvKeepsLimits, TP2!LimitInvKeepsLimits
     DEF TrackersInv, MailStaysWithinLimits
<1> QED
  BY <1>1, TrackersInit, TrackersStep, PTL DEF ServicesSpec, servicesVars

(* The date of an application is not taken away, a send's date stands, and   *)
(* the history tells the status (ApplicationService.patch).                  *)
THEOREM DatesAreKept == ServicesSpec => AppliedDateStands
<1>1. TrackersInv /\ [ServicesNext]_servicesVars =>
        [\A a \in Lone :
           /\ application[a].dated # "never" => application'[a].dated # "never"
           /\ application[a].dated = "send" /\ ~sendCrossed' => application'[a].dated = "send"
           /\ \/ application'[a].status \in {"absent", "awaiting_approval", last'[a]}
              \/ application'[a].dated = "send"]_T2!tVars
  <2> SUFFICES ASSUME TrackersInv, [ServicesNext]_servicesVars, T2!tVars' # T2!tVars, NEW a \in Lone
               PROVE  /\ application[a].dated # "never" => application'[a].dated # "never"
                      /\ application[a].dated = "send" /\ ~sendCrossed' =>
                           application'[a].dated = "send"
                      /\ \/ application'[a].status \in {"absent", "awaiting_approval", last'[a]}
                         \/ application'[a].dated = "send"
    OBVIOUS
  <2>1. a \in Apps
    BY TrackersAreGiven
  <2>2. CASE part = "tracker1"
    <3>1. TP1!DateStep
      BY <2>2, TrackersAreGiven, OnePartMoves, SameTracker1, TP1!DateStepStands
         DEF TrackersInv, TP1!LimitInv
    <3> QED
      BY <2>1, <3>1 DEF TP1!DateStep, TP1!DateStands
  <2>3. CASE part = "tracker2"
    <3>1. TP2!DateStep
      BY <2>3, TrackersAreGiven, OnePartMoves, SameTracker2, TP2!DateStepStands
         DEF TrackersInv, TP2!LimitInv
    <3> QED
      BY <3>1 DEF TP2!DateStep, TP2!DateStands
  <2>4. CASE part \notin {"tracker1", "tracker2"}
    BY <2>4, OnePartMoves DEF sendVars, T2!tVars
  <2> QED
    BY <2>2, <2>3, <2>4
<1> QED
  BY <1>1, TrackersInit, TrackersStep, PTL
     DEF ServicesSpec, servicesVars, AppliedDateStands, T2!AppliedDateStands

-----------------------------------------------------------------------------
(* The proofs are of the roadmaps that move here. *)
LEMMA SameRoadmap1 ==
  /\ L1!Init => TP1!L!Init
  /\ [L1!Next]_planVars => [TP1!L!Next]_(TP1!L!rVars)
  /\ L1!RoadmapAssumption => TP1!L!RoadmapAssumption
  /\ TP1!L!OneMilestonePerSkill => L1!OneMilestonePerSkill
  /\ TP1!L!AddressedWasDone => L1!AddressedWasDone
<1>1. L1!Init => TP1!L!Init
  BY Zenon DEF L1!Init, TP1!L!Init, L1!NoPlan, TP1!L!NoPlan, L1!OffPlan, TP1!L!OffPlan, L1!NoRoadmap,
               TP1!L!NoRoadmap, L1!Rows, TP1!L!Rows
<1>2. L1!Next => TP1!L!Next
  BY Zenon DEF L1!Next, TP1!L!Next, L1!Cardinality, TP1!L!Cardinality,
    L1!NoRoadmap, TP1!L!NoRoadmap, L1!NoPlan, TP1!L!NoPlan, L1!OffPlan, TP1!L!OffPlan, L1!Rows,
    TP1!L!Rows, L1!Create, TP1!L!Create, L1!EnqueuePlan, TP1!L!EnqueuePlan, L1!SetStatus,
    TP1!L!SetStatus, L1!PatchReads, TP1!L!PatchReads, L1!GapAfter, TP1!L!GapAfter,
    L1!SameMilestone, TP1!L!SameMilestone, L1!PatchCommits, TP1!L!PatchCommits,
    L1!SetGapStatus, TP1!L!SetGapStatus, L1!RebuildDeletes, TP1!L!RebuildDeletes, L1!Gone,
    TP1!L!Gone, L1!RebuildCommits, TP1!L!RebuildCommits, L1!Starts, TP1!L!Starts, L1!PlanSkips,
    TP1!L!PlanSkips, L1!PlanStarts, TP1!L!PlanStarts, L1!Planning, TP1!L!Planning, L1!Newest,
    TP1!L!Newest, L1!Open, TP1!L!Open, L1!TopGaps, TP1!L!TopGaps, L1!PlanPicks, TP1!L!PlanPicks,
    L1!PlanFindsNone, TP1!L!PlanFindsNone, L1!Drafted, TP1!L!Drafted, L1!PlanCommits,
    TP1!L!PlanCommits, L1!PlanSucceeds, TP1!L!PlanSucceeds, L1!PlanFails, TP1!L!PlanFails,
    L1!PlanEnds, TP1!L!PlanEnds, L1!PlanDies, TP1!L!PlanDies, L1!Stuck, TP1!L!Stuck,
    L1!SweepRoadmap, TP1!L!SweepRoadmap, L1!TimePasses, TP1!L!TimePasses,
    L1!MilestoneStatuses, TP1!L!MilestoneStatuses, L1!rVars, TP1!L!rVars
<1>3. planVars' = planVars => TP1!L!rVars' = TP1!L!rVars
  BY DEF planVars, TP1!L!rVars
<1>4. L1!RoadmapAssumption => TP1!L!RoadmapAssumption
  BY Zenon DEF L1!RoadmapAssumption, TP1!L!RoadmapAssumption,
               L1!IsFiniteSet, TP1!L!IsFiniteSet
<1>5. /\ TP1!L!OneMilestonePerSkill => L1!OneMilestonePerSkill
      /\ TP1!L!AddressedWasDone => L1!AddressedWasDone
  BY Zenon DEF L1!OneMilestonePerSkill, TP1!L!OneMilestonePerSkill, L1!AddressedWasDone,
               TP1!L!AddressedWasDone, L1!NoRoadmap, TP1!L!NoRoadmap
<1> QED
  BY <1>1, <1>2, <1>3, <1>4, <1>5

LEMMA SameRoadmap2 ==
  /\ L2!Init => TP2!L!Init
  /\ [L2!Next]_planVars => [TP2!L!Next]_(TP2!L!rVars)
  /\ L2!RoadmapAssumption => TP2!L!RoadmapAssumption
  /\ TP2!L!OneMilestonePerSkill => L1!OneMilestonePerSkill
  /\ TP2!L!AddressedWasDone => L1!AddressedWasDone
<1>1. L2!Init => TP2!L!Init
  BY Zenon DEF L2!Init, TP2!L!Init, L2!NoPlan, TP2!L!NoPlan, L2!OffPlan, TP2!L!OffPlan, L2!NoRoadmap,
               TP2!L!NoRoadmap, L2!Rows, TP2!L!Rows
<1>2. L2!Next => TP2!L!Next
  BY Zenon DEF L2!Next, TP2!L!Next, L2!Cardinality, TP2!L!Cardinality,
    L2!NoRoadmap, TP2!L!NoRoadmap, L2!NoPlan, TP2!L!NoPlan, L2!OffPlan, TP2!L!OffPlan, L2!Rows,
    TP2!L!Rows, L2!Create, TP2!L!Create, L2!EnqueuePlan, TP2!L!EnqueuePlan, L2!SetStatus,
    TP2!L!SetStatus, L2!PatchReads, TP2!L!PatchReads, L2!GapAfter, TP2!L!GapAfter,
    L2!SameMilestone, TP2!L!SameMilestone, L2!PatchCommits, TP2!L!PatchCommits,
    L2!SetGapStatus, TP2!L!SetGapStatus, L2!RebuildDeletes, TP2!L!RebuildDeletes, L2!Gone,
    TP2!L!Gone, L2!RebuildCommits, TP2!L!RebuildCommits, L2!Starts, TP2!L!Starts, L2!PlanSkips,
    TP2!L!PlanSkips, L2!PlanStarts, TP2!L!PlanStarts, L2!Planning, TP2!L!Planning, L2!Newest,
    TP2!L!Newest, L2!Open, TP2!L!Open, L2!TopGaps, TP2!L!TopGaps, L2!PlanPicks, TP2!L!PlanPicks,
    L2!PlanFindsNone, TP2!L!PlanFindsNone, L2!Drafted, TP2!L!Drafted, L2!PlanCommits,
    TP2!L!PlanCommits, L2!PlanSucceeds, TP2!L!PlanSucceeds, L2!PlanFails, TP2!L!PlanFails,
    L2!PlanEnds, TP2!L!PlanEnds, L2!PlanDies, TP2!L!PlanDies, L2!Stuck, TP2!L!Stuck,
    L2!SweepRoadmap, TP2!L!SweepRoadmap, L2!TimePasses, TP2!L!TimePasses,
    L2!MilestoneStatuses, TP2!L!MilestoneStatuses, L2!rVars, TP2!L!rVars
<1>3. planVars' = planVars => TP2!L!rVars' = TP2!L!rVars
  BY DEF planVars, TP2!L!rVars
<1>4. L2!RoadmapAssumption => TP2!L!RoadmapAssumption
  BY Zenon DEF L2!RoadmapAssumption, TP2!L!RoadmapAssumption,
               L2!IsFiniteSet, TP2!L!IsFiniteSet
<1>5. /\ TP2!L!OneMilestonePerSkill => L1!OneMilestonePerSkill
      /\ TP2!L!AddressedWasDone => L1!AddressedWasDone
  BY Zenon DEF L1!OneMilestonePerSkill, TP2!L!OneMilestonePerSkill, L1!AddressedWasDone,
               TP2!L!AddressedWasDone, L1!NoRoadmap, TP2!L!NoRoadmap
<1> QED
  BY <1>1, <1>2, <1>3, <1>4, <1>5

LEMMA SameRoadmap3 ==
  /\ L3!Init => TP3!L!Init
  /\ [L3!Next]_planVars => [TP3!L!Next]_(TP3!L!rVars)
  /\ L3!RoadmapAssumption => TP3!L!RoadmapAssumption
  /\ TP3!L!OneMilestonePerSkill => L1!OneMilestonePerSkill
  /\ TP3!L!AddressedWasDone => L1!AddressedWasDone
<1>1. L3!Init => TP3!L!Init
  BY Zenon DEF L3!Init, TP3!L!Init, L3!NoPlan, TP3!L!NoPlan, L3!OffPlan, TP3!L!OffPlan, L3!NoRoadmap,
               TP3!L!NoRoadmap, L3!Rows, TP3!L!Rows
<1>2. L3!Next => TP3!L!Next
  BY Zenon DEF L3!Next, TP3!L!Next, L3!Cardinality, TP3!L!Cardinality,
    L3!NoRoadmap, TP3!L!NoRoadmap, L3!NoPlan, TP3!L!NoPlan, L3!OffPlan, TP3!L!OffPlan, L3!Rows,
    TP3!L!Rows, L3!Create, TP3!L!Create, L3!EnqueuePlan, TP3!L!EnqueuePlan, L3!SetStatus,
    TP3!L!SetStatus, L3!PatchReads, TP3!L!PatchReads, L3!GapAfter, TP3!L!GapAfter,
    L3!SameMilestone, TP3!L!SameMilestone, L3!PatchCommits, TP3!L!PatchCommits,
    L3!SetGapStatus, TP3!L!SetGapStatus, L3!RebuildDeletes, TP3!L!RebuildDeletes, L3!Gone,
    TP3!L!Gone, L3!RebuildCommits, TP3!L!RebuildCommits, L3!Starts, TP3!L!Starts, L3!PlanSkips,
    TP3!L!PlanSkips, L3!PlanStarts, TP3!L!PlanStarts, L3!Planning, TP3!L!Planning, L3!Newest,
    TP3!L!Newest, L3!Open, TP3!L!Open, L3!TopGaps, TP3!L!TopGaps, L3!PlanPicks, TP3!L!PlanPicks,
    L3!PlanFindsNone, TP3!L!PlanFindsNone, L3!Drafted, TP3!L!Drafted, L3!PlanCommits,
    TP3!L!PlanCommits, L3!PlanSucceeds, TP3!L!PlanSucceeds, L3!PlanFails, TP3!L!PlanFails,
    L3!PlanEnds, TP3!L!PlanEnds, L3!PlanDies, TP3!L!PlanDies, L3!Stuck, TP3!L!Stuck,
    L3!SweepRoadmap, TP3!L!SweepRoadmap, L3!TimePasses, TP3!L!TimePasses,
    L3!MilestoneStatuses, TP3!L!MilestoneStatuses, L3!rVars, TP3!L!rVars
<1>3. planVars' = planVars => TP3!L!rVars' = TP3!L!rVars
  BY DEF planVars, TP3!L!rVars
<1>4. L3!RoadmapAssumption => TP3!L!RoadmapAssumption
  BY Zenon DEF L3!RoadmapAssumption, TP3!L!RoadmapAssumption,
               L3!IsFiniteSet, TP3!L!IsFiniteSet
<1>5. /\ TP3!L!OneMilestonePerSkill => L1!OneMilestonePerSkill
      /\ TP3!L!AddressedWasDone => L1!AddressedWasDone
  BY Zenon DEF L1!OneMilestonePerSkill, TP3!L!OneMilestonePerSkill, L1!AddressedWasDone,
               TP3!L!AddressedWasDone, L1!NoRoadmap, TP3!L!NoRoadmap
<1> QED
  BY <1>1, <1>2, <1>3, <1>4, <1>5

RoadmapsInv ==
  /\ part = "roadmap1" => TP1!PlanInv
  /\ part = "roadmap2" => TP2!PlanInv
  /\ part = "roadmap3" => TP3!PlanInv

LEMMA RoadmapsInit == ServicesInit => RoadmapsInv
<1> SUFFICES ASSUME ServicesInit PROVE RoadmapsInv
  OBVIOUS
<1>1. CASE part = "roadmap1"
  BY <1>1, RoadmapsAreGiven, SameRoadmap1, TP1!InitKeeps DEF ServicesInit, RoadmapsInv
<1>2. CASE part = "roadmap2"
  BY <1>2, RoadmapsAreGiven, SameRoadmap2, TP2!InitKeeps DEF ServicesInit, RoadmapsInv
<1>3. CASE part = "roadmap3"
  BY <1>3, RoadmapsAreGiven, SameRoadmap3, TP3!InitKeeps DEF ServicesInit, RoadmapsInv
<1> QED
  BY <1>1, <1>2, <1>3 DEF RoadmapsInv

LEMMA RoadmapsStep == RoadmapsInv /\ [ServicesNext]_servicesVars => RoadmapsInv'
<1> SUFFICES ASSUME RoadmapsInv, [ServicesNext]_servicesVars PROVE RoadmapsInv'
  OBVIOUS
<1>1. CASE part = "roadmap1"
  BY <1>1, RoadmapsAreGiven, OnePartMoves, SameRoadmap1, TP1!PlanInvStep DEF RoadmapsInv
<1>2. CASE part = "roadmap2"
  BY <1>2, RoadmapsAreGiven, OnePartMoves, SameRoadmap2, TP2!PlanInvStep DEF RoadmapsInv
<1>3. CASE part = "roadmap3"
  BY <1>3, RoadmapsAreGiven, OnePartMoves, SameRoadmap3, TP3!PlanInvStep DEF RoadmapsInv
<1> QED
  BY <1>1, <1>2, <1>3, OnePartMoves DEF RoadmapsInv

(* A roadmap asks for each skill once, and a gap that one is said to have    *)
(* addressed was done there, for any skills, roadmaps, tries of a plan,      *)
(* requests and rebuilds (plan_roadmap, set_milestone_status,                *)
(* aggregate_skill_gaps).                                                   *)
THEOREM PlansAndGapsAgree == ServicesSpec => []PlanAndGapsAgree
<1>1. RoadmapsInv => PlanAndGapsAgree
  BY SameRoadmap1, SameRoadmap2, SameRoadmap3
     DEF RoadmapsInv, PlanAndGapsAgree, TP1!PlanInv, TP2!PlanInv, TP3!PlanInv
<1> QED
  BY <1>1, RoadmapsInit, RoadmapsStep, PTL DEF ServicesSpec, servicesVars

-----------------------------------------------------------------------------
(* The career profile (Profile).                                             *)

Checks   == {"entries", "skills_mapped"}
Ids      == 1..MaxEntries
Entries  == [id : Ids, source : {"user", "resume_extraction"}, tech : SUBSET KnownSkills, of : Nat]
Mentions == [skill : KnownSkills, ref : Ids \cup CVs]
Mapped   == [skill : KnownSkills, refs : SUBSET (Ids \cup CVs)]
Filed    == [status : {"absent", "uploaded", "extracted", "deleted"}, primary : BOOLEAN,
             says : SUBSET KnownSkills]
Txs      == [at : {"idle", "open", "read", "flushed"},
             op : {"none", "add", "update", "delete", "confirm"}, seen : SUBSET Checks,
             alone : BOOLEAN, gone : SUBSET Ids, new : SUBSET Entries, kept : BOOLEAN,
             strength : SUBSET Checks, build : {"none", "waits", "dropped"},
             got : SUBSET Mentions]

ProfileTyped ==
  /\ entries \subseteq Entries /\ skills \subseteq Mapped /\ strength \subseteq Checks
  /\ resumes \in [CVs -> Filed] /\ open \in [F!Writers -> Txs]
  /\ build \in {"none", "queued", "running"} /\ edits \in 0..MaxRequests
  /\ promised \in BOOLEAN /\ raced \in BOOLEAN

(* An id stays with what came from a resume, or with what the person wrote:  *)
(* a confirmation takes away only rows of the first kind.                   *)
InPlay(x) == x \in entries \/ \E w \in F!Writers : x \in open[w].new
SourceStands == \A x, y : InPlay(x) /\ InPlay(y) /\ x.id = y.id => x.source = y.source
ConfirmTakesItsOwn ==
  \A w \in F!Writers : open[w].op = "confirm" =>
    \A x : InPlay(x) /\ x.id \in open[w].gone => x.source = "resume_extraction"
AddTakesNone == \A w \in F!Writers : open[w].op \in {"none", "add"} => open[w].gone = {}

(* The build that was promised is queued, or has read what there is to read. *)
BuildRuns == build = "running" <=> open[F!Builder].at # "idle"
WaitsForQueued == \A q \in Editors : open[q].build = "waits" => build = "queued"
PromiseStands ==
  promised =>
    /\ build = "none" => skills = F!Grouped(F!FromEntries(entries) \cup F!FromResume)
    /\ open[F!Builder].at = "open" => open[F!Builder].got = F!FromEntries(entries)
    /\ open[F!Builder].at \in {"read", "flushed"} =>
         open[F!Builder].got = F!FromEntries(entries) \cup F!FromResume

(* Who is alone has seen the strength that is stored, and computes that of   *)
(* the rows its commit leaves.                                              *)
AloneIs(w) ==
  open[w].at # "idle" /\ open[w].alone =>
    /\ \A v \in F!Writers \ {w} : open[v].at = "idle"
    /\ open[w].seen = strength
    /\ open[w].at = "flushed" =>
         /\ open[w].kept => open[w].strength = strength
         /\ open[w].strength =
              IF w = F!Builder THEN F!Strength(entries, F!Rewritten(open[w].got))
              ELSE F!Strength(F!Written(w), skills)
AloneKnows == \A w \in F!Writers : AloneIs(w)
StrengthStands == ~raced => strength = F!Strength(entries, skills)

(* The handlers' places.                                                     *)
PlacesFit ==
  /\ open[F!Builder].op = "none" /\ open[F!Builder].new = {}
  /\ \A q \in Editors : open[q].at \in {"idle", "open", "flushed"}

RowsInv    == SourceStands /\ ConfirmTakesItsOwn /\ AddTakesNone
PromiseInv == BuildRuns /\ WaitsForQueued /\ PromiseStands
AloneInv   == AloneKnows /\ StrengthStands
ProfileInv == ProfileTyped /\ RowsInv /\ PromiseInv /\ AloneInv /\ PlacesFit

(* All of a transaction but whether it is alone.                             *)
SameTx(x, y) ==
  /\ y.at = x.at /\ y.op = x.op /\ y.seen = x.seen /\ y.gone = x.gone /\ y.new = x.new
  /\ y.kept = x.kept /\ y.strength = x.strength /\ y.build = x.build /\ y.got = x.got

LEMMA AloneOnly ==
  ASSUME NEW x \in Txs, NEW b \in BOOLEAN
  PROVE  LET y == [x EXCEPT !.alone = b]
         IN  y \in Txs /\ SameTx(x, y) /\ y.alone = b
BY DEF Txs, SameTx

LEMMA IdleIs ==
  /\ F!Idle \in Txs /\ F!Idle.at = "idle" /\ F!Idle.op = "none" /\ F!Idle.gone = {}
  /\ F!Idle.new = {} /\ F!Idle.build = "none" /\ F!Idle.got = {} /\ F!Idle.kept = TRUE
BY DEF F!Idle, Txs

LEMMA BegunIs ==
  ASSUME ProfileTyped, NEW w \in F!Writers, NEW tx \in Txs
  PROVE  LET b == F!Begun(w, tx)
         IN  /\ b \in [F!Writers -> Txs] /\ SameTx(tx, b[w]) /\ b[w].alone = F!Alone(w)
             /\ \A v \in F!Writers \ {w} : SameTx(open[v], b[v]) /\ b[v].alone = FALSE
<1>1. F!Alone(w) \in BOOLEAN
  BY DEF F!Alone
<1> DEFINE me == [tx EXCEPT !.alone = F!Alone(w)]
<1>2. me \in Txs /\ SameTx(tx, me) /\ me.alone = F!Alone(w)
  BY <1>1, AloneOnly
<1> DEFINE you(v) == [open[v] EXCEPT !.alone = FALSE]
<1>3. \A v \in F!Writers : you(v) \in Txs /\ SameTx(open[v], you(v)) /\ you(v).alone = FALSE
  BY AloneOnly DEF ProfileTyped
<1>4. F!Begun(w, tx) = [v \in F!Writers |-> IF v = w THEN me ELSE you(v)]
  BY DEF F!Begun
<1> HIDE DEF me, you
<1> QED
  BY <1>2, <1>3, <1>4

LEMMA EndedIs ==
  ASSUME ProfileTyped, NEW w \in F!Writers
  PROVE  LET b == F!Ended(w)
         IN  /\ b \in [F!Writers -> Txs] /\ b[w] = F!Idle
             /\ \A v \in F!Writers \ {w} : SameTx(open[v], b[v]) /\ b[v].alone = FALSE
<1> DEFINE you(v) == [open[v] EXCEPT !.alone = FALSE]
<1>1. \A v \in F!Writers : you(v) \in Txs /\ SameTx(open[v], you(v)) /\ you(v).alone = FALSE
  BY AloneOnly DEF ProfileTyped
<1>2. F!Ended(w) = [v \in F!Writers |-> IF v = w THEN F!Idle ELSE you(v)]
  BY DEF F!Ended
<1> HIDE DEF you
<1> QED
  BY <1>1, <1>2, IdleIs

(* One transaction that computes, and is alone as before.                    *)
LEMMA FlushedIs ==
  ASSUME ProfileTyped, NEW w \in F!Writers, NEW now \in SUBSET Checks, NEW k \in BOOLEAN,
         open' = [open EXCEPT ![w].at = "flushed", ![w].strength = now, ![w].kept = k]
  PROVE  /\ open' \in [F!Writers -> Txs] /\ \A v \in F!Writers \ {w} : open'[v] = open[v]
         /\ open'[w].at = "flushed" /\ open'[w].strength = now /\ open'[w].kept = k
         /\ open'[w].alone = open[w].alone /\ open'[w].op = open[w].op
         /\ open'[w].seen = open[w].seen /\ open'[w].gone = open[w].gone
         /\ open'[w].new = open[w].new /\ open'[w].build = open[w].build
         /\ open'[w].got = open[w].got
<1> DEFINE x == open[w]
           x1 == [x EXCEPT !.at = "flushed"]
           x2 == [x1 EXCEPT !.strength = now]
           x3 == [x2 EXCEPT !.kept = k]
<1>1. [open EXCEPT ![w].at = "flushed", ![w].strength = now, ![w].kept = k]
        = [open EXCEPT ![w] = x3]
  BY DEF ProfileTyped
<1>2. x \in Txs
  BY DEF ProfileTyped
<1> HIDE DEF x
<1>3. /\ x1 \in Txs /\ x1.at = "flushed" /\ x1.alone = x.alone /\ x1.op = x.op /\ x1.seen = x.seen
      /\ x1.gone = x.gone /\ x1.new = x.new /\ x1.build = x.build /\ x1.got = x.got
  BY <1>2 DEF Txs
<1> HIDE DEF x1
<1>4. /\ x2 \in Txs /\ x2.at = "flushed" /\ x2.strength = now /\ x2.alone = x.alone
      /\ x2.op = x.op /\ x2.seen = x.seen /\ x2.gone = x.gone /\ x2.new = x.new
      /\ x2.build = x.build /\ x2.got = x.got
  BY <1>3 DEF Txs
<1> HIDE DEF x2
<1>5. /\ x3 \in Txs /\ x3.at = "flushed" /\ x3.strength = now /\ x3.kept = k /\ x3.alone = x.alone
      /\ x3.op = x.op /\ x3.seen = x.seen /\ x3.gone = x.gone /\ x3.new = x.new
      /\ x3.build = x.build /\ x3.got = x.got
  BY <1>4 DEF Txs
<1> HIDE DEF x3
<1> QED
  BY <1>1, <1>5 DEF ProfileTyped, x

(* The smallest free id is free.                                             *)
LEMMA NewIdIsFree ==
  ASSUME F!Free # {}
  PROVE  F!NewId \in F!Free
<1>1. F!Free \subseteq Nat
  BY ProfileIsGiven DEF F!Free, F!ProfileAssumption
<1>2. PICK id \in F!Free : \A other \in F!Free : <<other, id>> \notin OpToRel(<, Nat)
  BY <1>1, NatLessThanWellFounded, WFMin, IsWellFoundedOnSubset
<1>3. \A other \in F!Free : id <= other
  <2> SUFFICES ASSUME NEW other \in F!Free PROVE id <= other
    OBVIOUS
  <2>1. <<other, id>> \notin OpToRel(<, Nat)
    BY <1>2
  <2>2. id \in Nat /\ other \in Nat
    BY <1>1
  <2>3. ~(other < id)
    BY <2>1, <2>2 DEF OpToRel
  <2> QED
    BY <2>2, <2>3
<1> QED
  BY <1>3 DEF F!NewId

(* Nothing comes into play, and nobody takes more.                           *)
LEMMA RowsStand ==
  ASSUME RowsInv, \A x : InPlay(x)' => InPlay(x),
         \A w \in F!Writers : \/ open'[w].op = open[w].op /\ open'[w].gone = open[w].gone
                              \/ open'[w].gone = {}
  PROVE  RowsInv'
<1>1. SourceStands'
  BY DEF RowsInv, SourceStands
<1>2. ConfirmTakesItsOwn'
  BY DEF RowsInv, ConfirmTakesItsOwn
<1>3. AddTakesNone'
  BY DEF RowsInv, AddTakesNone
<1> QED
  BY <1>1, <1>2, <1>3 DEF RowsInv

LEMMA BuilderIsApart ==
  /\ F!Builder \notin Editors /\ F!Writers = Editors \cup {F!Builder}
  /\ F!Builder \in F!Writers /\ Editors \subseteq F!Writers
BY ProfileIsGiven DEF F!ProfileAssumption, F!Builder, F!Writers

LEMMA StrengthIsChecked ==
  ASSUME NEW x, NEW y
  PROVE  F!Strength(x, y) \subseteq Checks
BY DEF F!Strength, Checks

(* A request opens its transaction: its rows are new, or are rows that were. *)
LEMMA OpensKeeps ==
  ASSUME ProfileInv, NEW q \in Editors, open[q].at = "idle", edits < MaxRequests, edits' = edits + 1,
         NEW op \in {"add", "update", "delete", "confirm"}, NEW gone \in SUBSET entries,
         NEW new \in SUBSET Entries, F!Opens(q, op, gone, new, "none"), UNCHANGED build,
         op = "add" => gone = {},
         op = "confirm" => \A e \in gone : e.source = "resume_extraction",
         \A m, n \in new : m = n,
         \A n \in new : \/ n.id \notin F!Named
                        \/ \E e \in entries : n.id = e.id /\ n.source = e.source
  PROVE  ProfileInv'
<1> DEFINE tx == [F!Idle EXCEPT !.at = "open", !.op = op, !.seen = strength, !.gone = F!Ids(gone),
                                !.new = new, !.build = "none"]
<1>1. /\ open' = F!Begun(q, tx) /\ UNCHANGED <<entries, resumes, skills, strength, promised, raced>>
      /\ UNCHANGED build
  BY DEF F!Opens
<1>2. F!Ids(gone) \subseteq Ids
  BY DEF ProfileInv, ProfileTyped, F!Ids, Entries
<1>3. /\ tx \in Txs /\ tx.at = "open" /\ tx.op = op /\ tx.seen = strength /\ tx.gone = F!Ids(gone)
      /\ tx.new = new /\ tx.build = "none"
  BY <1>2 DEF F!Idle, Txs, ProfileInv, ProfileTyped
<1> HIDE DEF tx
<1>4. /\ open' \in [F!Writers -> Txs] /\ SameTx(tx, open'[q]) /\ open'[q].alone = F!Alone(q)
      /\ \A v \in F!Writers \ {q} : SameTx(open[v], open'[v]) /\ open'[v].alone = FALSE
  <2>1. q \in F!Writers /\ ProfileTyped
    BY BuilderIsApart DEF ProfileInv
  <2>2. LET b == F!Begun(q, tx)
        IN  /\ b \in [F!Writers -> Txs] /\ SameTx(tx, b[q]) /\ b[q].alone = F!Alone(q)
            /\ \A v \in F!Writers \ {q} : SameTx(open[v], b[v]) /\ b[v].alone = FALSE
    BY <1>3, <2>1, BegunIs, Zenon
  <2> QED
    BY <1>1, <2>2
<1>5. ProfileTyped'
  BY <1>1, <1>4, ProfileIsGiven DEF ProfileInv, ProfileTyped, F!ProfileAssumption
<1>6. RowsInv'
  <2>1. \A x : InPlay(x)' => InPlay(x) \/ x \in new
    BY <1>1, <1>3, <1>4 DEF InPlay, SameTx
  <2>2. \A x : InPlay(x) => x.id \in F!Named
    BY DEF InPlay, F!Named, F!Ids
  <2>3. \A w \in F!Writers : open[w].gone \subseteq F!Named
    BY DEF F!Named
  <2>4. /\ open'[q].op = op /\ open'[q].gone = F!Ids(gone)
        /\ \A w \in F!Writers \ {q} : open'[w].op = open[w].op /\ open'[w].gone = open[w].gone
    BY <1>3, <1>4 DEF SameTx
  <2>5. \A e \in entries : InPlay(e)
    BY DEF InPlay
  <2>6. SourceStands'
    <3> SUFFICES ASSUME NEW x, NEW y, InPlay(x)', InPlay(y)', x.id = y.id PROVE x.source = y.source
      BY DEF SourceStands
    <3> QED
      BY <2>1, <2>2, <2>5 DEF ProfileInv, RowsInv, SourceStands
  <2>7. ConfirmTakesItsOwn'
    <3> SUFFICES ASSUME NEW w \in F!Writers, open'[w].op = "confirm", NEW x, InPlay(x)',
                        x.id \in open'[w].gone
                 PROVE  x.source = "resume_extraction"
      BY DEF ConfirmTakesItsOwn
    <3>1. CASE w # q
      BY <2>1, <2>3, <2>4, <2>5, <3>1 DEF ProfileInv, RowsInv, ConfirmTakesItsOwn
    <3>2. CASE w = q
      <4>1. PICK g \in gone : x.id = g.id /\ g.source = "resume_extraction"
        BY <2>4, <3>2 DEF F!Ids
      <4> QED
        BY <2>1, <2>2, <2>5, <4>1 DEF ProfileInv, RowsInv, SourceStands
    <3> QED
      BY <3>1, <3>2
  <2>8. AddTakesNone'
    BY <2>4 DEF ProfileInv, RowsInv, AddTakesNone, F!Ids
  <2> QED
    BY <2>6, <2>7, <2>8 DEF RowsInv
<1>7. PromiseInv'
  <2>1. open'[F!Builder].at = open[F!Builder].at /\ open'[F!Builder].got = open[F!Builder].got
    BY <1>4, BuilderIsApart DEF SameTx
  <2>2. BuildRuns'
    BY <1>1, <2>1 DEF ProfileInv, PromiseInv, BuildRuns, F!Builder
  <2>3. WaitsForQueued'
    BY <1>1, <1>3, <1>4, BuilderIsApart DEF ProfileInv, PromiseInv, WaitsForQueued, SameTx
  <2>4. PromiseStands'
    BY <1>1, <2>1 DEF ProfileInv, PromiseInv, PromiseStands, F!Builder, F!FromResume, F!Live
  <2> QED
    BY <2>2, <2>3, <2>4 DEF PromiseInv
<1>8. AloneInv'
  <2>1. AloneIs(q)'
    <3>1. open'[q].at = "open" /\ open'[q].seen = strength /\ strength' = strength
      BY <1>1, <1>3, <1>4 DEF SameTx
    <3>2. open'[q].alone => \A v \in F!Writers \ {q} : open[v].at = "idle"
      BY <1>4 DEF F!Alone
    <3>3. \A v \in F!Writers \ {q} : open'[v].at = open[v].at
      BY <1>4 DEF SameTx
    <3> QED
      BY <3>1, <3>2, <3>3 DEF AloneIs
  <2>2. \A v \in F!Writers \ {q} : AloneIs(v)'
    BY <1>4 DEF AloneIs
  <2> QED
    BY <1>1, <2>1, <2>2 DEF ProfileInv, AloneInv, AloneKnows, StrengthStands
<1>9. PlacesFit'
  BY <1>3, <1>4, BuilderIsApart DEF ProfileInv, PlacesFit, SameTx, F!Builder
<1> QED
  BY <1>5, <1>6, <1>7, <1>8, <1>9 DEF ProfileInv

LEMMA AskedKeeps ==
  ASSUME ProfileInv, NEW q \in Editors, F!Asked(q)
  PROVE  ProfileInv'
<1>1. open[q].at = "idle" /\ edits < MaxRequests /\ edits' = edits + 1 /\ UNCHANGED build
  BY DEF F!Asked, F!AddItem, F!UpdateItem, F!DeleteItem, F!Confirm, F!Asks
<1>2. entries \subseteq Entries /\ edits + 1 \in Nat
  BY ProfileIsGiven DEF ProfileInv, ProfileTyped, F!ProfileAssumption
<1>3. ASSUME F!Free # {}
      PROVE  F!NewId \in Ids /\ F!NewId \notin F!Named
  BY <1>3, NewIdIsFree DEF F!Free, Ids
<1>4. ASSUME NEW id \in Ids, NEW source \in {"user", "resume_extraction"}, NEW tech \in SUBSET KnownSkills,
             NEW of \in Nat
      PROVE  F!Row(id, source, tech, of) \in Entries /\ F!Row(id, source, tech, of).id = id
  BY DEF F!Row, Entries
<1>5. CASE F!AddItem(q)
  <2>1. PICK tech \in SUBSET KnownSkills :
          F!Opens(q, "add", {}, {F!Row(F!NewId, "user", tech, 0)}, "none") /\ F!Free # {}
    BY <1>5 DEF F!AddItem
  <2> DEFINE row == F!Row(F!NewId, "user", tech, 0)
  <2>2. row \in Entries /\ row.id \notin F!Named
    BY <1>3, <1>4, <2>1
  <2>3. F!Opens(q, "add", {}, {row}, "none")
    BY <2>1
  <2> HIDE DEF row
  <2> QED
    BY <1>1, <2>2, <2>3, OpensKeeps
<1>6. CASE F!UpdateItem(q)
  <2>1. PICK e \in entries, tech \in SUBSET KnownSkills :
          F!Opens(q, "update", {e}, {[e EXCEPT !.tech = tech]}, "none")
    BY <1>6 DEF F!UpdateItem
  <2> DEFINE row == [e EXCEPT !.tech = tech]
  <2>2. row \in Entries /\ row.id = e.id /\ row.source = e.source
    BY <1>2, <2>1 DEF Entries
  <2>3. F!Opens(q, "update", {e}, {row}, "none")
    BY <2>1
  <2> HIDE DEF row
  <2> QED
    BY <1>1, <2>2, <2>3, OpensKeeps
<1>7. CASE F!DeleteItem(q)
  <2>1. PICK e \in entries : F!Opens(q, "delete", {e}, {}, "none")
    BY <1>7 DEF F!DeleteItem
  <2> QED
    BY <1>1, <2>1, OpensKeeps
<1>8. CASE F!Confirm(q)
  <2>1. PICK tech \in SUBSET KnownSkills :
          /\ F!Opens(q, "confirm", F!Replaced(entries),
                     {F!Row(F!NewId, "resume_extraction", tech, edits + 1)}, "none")
          /\ F!Free # {}
    BY <1>8 DEF F!Confirm
  <2> DEFINE row == F!Row(F!NewId, "resume_extraction", tech, edits + 1)
             gone == F!Replaced(entries)
  <2>2. row \in Entries /\ row.id \notin F!Named
    BY <1>2, <1>3, <1>4, <2>1
  <2>3. F!Opens(q, "confirm", gone, {row}, "none")
    BY <2>1
  <2>4. gone \in SUBSET entries /\ \A e \in gone : e.source = "resume_extraction"
    BY DEF F!Replaced
  <2> HIDE DEF row, gone
  <2> QED
    BY <1>1, <2>2, <2>3, <2>4, OpensKeeps
<1> QED
  BY <1>5, <1>6, <1>7, <1>8 DEF F!Asked

(* While one transaction is open the others are not alone.                   *)
LEMMA OthersStand ==
  ASSUME AloneKnows, NEW w \in F!Writers, open[w].at # "idle",
         \A v \in F!Writers \ {w} : open'[v] = open[v]
  PROVE  \A v \in F!Writers \ {w} : AloneIs(v)'
BY DEF AloneKnows, AloneIs

LEMMA PromiseSame ==
  ASSUME PromiseStands, UNCHANGED <<entries, resumes, skills, promised>>,
         build' = build \/ build' # "none",
         open'[F!Builder].at = open[F!Builder].at, open'[F!Builder].got = open[F!Builder].got
  PROVE  PromiseStands'
<1>1. /\ F!FromEntries(entries)' = F!FromEntries(entries) /\ F!FromResume' = F!FromResume
      /\ F!Builder' = F!Builder
  BY DEF F!FromEntries, F!Replaced, F!FromResume, F!Live, F!Builder
<1>2. F!Grouped(F!FromEntries(entries) \cup F!FromResume)'
        = F!Grouped(F!FromEntries(entries) \cup F!FromResume)
  BY <1>1 DEF F!Grouped
<1> QED
  BY <1>1, <1>2 DEF PromiseStands

LEMMA RecomputesKeeps ==
  ASSUME ProfileInv, NEW q \in Editors, F!Recomputes(q)
  PROVE  ProfileInv'
<1> DEFINE now == F!Strength(F!Written(q), skills)
           k   == now = F!Loaded(q)
<1>1. /\ open' = [open EXCEPT ![q].at = "flushed", ![q].strength = now, ![q].kept = k]
      /\ open[q].at = "open"
      /\ UNCHANGED <<entries, resumes, skills, strength, build, edits, promised, raced>>
  BY DEF F!Recomputes
<1>2. now \in SUBSET Checks /\ k \in BOOLEAN /\ q \in F!Writers /\ q # F!Builder /\ ProfileTyped
  BY StrengthIsChecked, BuilderIsApart DEF ProfileInv
<1>3. /\ open' \in [F!Writers -> Txs] /\ \A v \in F!Writers \ {q} : open'[v] = open[v]
      /\ open'[q].at = "flushed" /\ open'[q].strength = now /\ open'[q].kept = k
      /\ open'[q].alone = open[q].alone /\ open'[q].op = open[q].op /\ open'[q].seen = open[q].seen
      /\ open'[q].gone = open[q].gone /\ open'[q].new = open[q].new
      /\ open'[q].build = open[q].build /\ open'[q].got = open[q].got
  <2>1. ProfileTyped /\ q \in F!Writers /\ now \in SUBSET Checks /\ k \in BOOLEAN
    BY <1>2
  <2>2. open' = [open EXCEPT ![q].at = "flushed", ![q].strength = now, ![q].kept = k]
    BY <1>1
  <2> HIDE DEF now, k
  <2> QED
    BY <2>1, <2>2, FlushedIs
<1>4. k => now = strength \/ now = open[q].seen
  BY DEF F!Loaded
<1>5. F!Written(q)' = F!Written(q)
  BY <1>1, <1>3 DEF F!Written
<1>6. F!Strength(F!Written(q), skills)' = now
  BY <1>1, <1>5 DEF F!Strength
<1> HIDE DEF now, k
<1>7. ProfileTyped'
  BY <1>1, <1>3 DEF ProfileInv, ProfileTyped
<1>8. RowsInv'
  <2>1. \A x : InPlay(x)' => InPlay(x)
    BY <1>1, <1>3 DEF InPlay
  <2> QED
    BY <1>3, <2>1, RowsStand DEF ProfileInv
<1>9. PromiseInv'
  <2>1. open'[F!Builder] = open[F!Builder]
    BY <1>2, <1>3, BuilderIsApart
  <2>2. BuildRuns'
    BY <1>1, <2>1 DEF ProfileInv, PromiseInv, BuildRuns, F!Builder
  <2>3. WaitsForQueued'
    BY <1>1, <1>3, BuilderIsApart DEF ProfileInv, PromiseInv, WaitsForQueued
  <2>4. PromiseStands'
    BY <1>1, <2>1, PromiseSame DEF ProfileInv, PromiseInv
  <2> QED
    BY <2>2, <2>3, <2>4 DEF PromiseInv
<1>10. AloneInv'
  <2>1. AloneIs(q)'
    <3>1. AloneIs(q)
      BY <1>2 DEF ProfileInv, AloneInv, AloneKnows
    <3> SUFFICES ASSUME open[q].alone PROVE AloneIs(q)'
      BY <1>3 DEF AloneIs
    <3>2. open[q].seen = strength /\ \A v \in F!Writers \ {q} : open[v].at = "idle"
      BY <1>1, <3>1 DEF AloneIs
    <3>3. k => now = strength
      BY <1>4, <3>2
    <3> QED
      BY <1>1, <1>2, <1>3, <1>6, <3>2, <3>3 DEF AloneIs, F!Builder
  <2>2. \A v \in F!Writers \ {q} : AloneIs(v)'
    BY <1>1, <1>2, <1>3, OthersStand DEF ProfileInv, AloneInv
  <2> QED
    BY <1>1, <2>1, <2>2 DEF ProfileInv, AloneInv, AloneKnows, StrengthStands
<1>11. PlacesFit'
  BY <1>2, <1>3, BuilderIsApart DEF ProfileInv, PlacesFit, F!Builder
<1> QED
  BY <1>7, <1>8, <1>9, <1>10, <1>11 DEF ProfileInv

LEMMA BuildFieldIs ==
  ASSUME NEW x \in Txs, NEW b \in {"none", "waits", "dropped"}
  PROVE  LET y == [x EXCEPT !.build = b]
         IN  /\ y \in Txs /\ y.build = b /\ y.at = x.at /\ y.op = x.op /\ y.seen = x.seen
             /\ y.alone = x.alone /\ y.gone = x.gone /\ y.new = x.new /\ y.kept = x.kept
             /\ y.strength = x.strength /\ y.got = x.got
BY DEF Txs

LEMMA QueuesKeeps ==
  ASSUME ProfileInv, NEW q \in Editors, F!Queues(q)
  PROVE  ProfileInv'
<1> DEFINE b == IF build = "running" THEN "dropped" ELSE "waits"
           y == [open[q] EXCEPT !.build = b]
<1>1. /\ open[q].at = "flushed" /\ build' = F!Enqueued /\ open' = [open EXCEPT ![q] = y]
      /\ UNCHANGED <<entries, resumes, skills, strength, edits, promised, raced>>
  BY DEF F!Queues
<1>2. q \in F!Writers /\ q # F!Builder /\ ProfileTyped
  BY BuilderIsApart DEF ProfileInv
<1>3. b \in {"none", "waits", "dropped"} /\ open[q] \in Txs
  BY <1>2 DEF ProfileTyped
<1>4. b = "waits" => build # "running"
  OBVIOUS
<1> HIDE DEF b
<1>5. /\ y \in Txs /\ y.build = b /\ y.at = open[q].at /\ y.op = open[q].op /\ y.seen = open[q].seen
      /\ y.alone = open[q].alone /\ y.gone = open[q].gone /\ y.new = open[q].new
      /\ y.kept = open[q].kept /\ y.strength = open[q].strength /\ y.got = open[q].got
  BY <1>3, BuildFieldIs
<1> HIDE DEF y
<1>6. /\ open' \in [F!Writers -> Txs] /\ \A v \in F!Writers \ {q} : open'[v] = open[v]
      /\ open'[q] = y
  BY <1>1, <1>2, <1>5 DEF ProfileTyped
<1>7. build' \in {"queued", "running"} /\ (build # "running" => build' = "queued")
      /\ (build = "running" => build' = "running")
  BY <1>1, <1>2 DEF F!Enqueued, ProfileTyped
<1>8. ProfileTyped'
  BY <1>1, <1>2, <1>6, <1>7 DEF ProfileTyped
<1>9. RowsInv'
  <2>1. \A x : InPlay(x)' => InPlay(x)
    BY <1>1, <1>5, <1>6 DEF InPlay
  <2> QED
    BY <1>5, <1>6, <2>1, RowsStand DEF ProfileInv
<1>10. PromiseInv'
  <2>1. open'[F!Builder] = open[F!Builder]
    BY <1>2, <1>6, BuilderIsApart
  <2>2. BuildRuns'
    BY <1>7, <2>1 DEF ProfileInv, PromiseInv, BuildRuns, F!Builder
  <2>3. WaitsForQueued'
    BY <1>4, <1>5, <1>6, <1>7, BuilderIsApart DEF ProfileInv, PromiseInv, WaitsForQueued
  <2>4. PromiseStands'
    BY <1>1, <1>7, <2>1 DEF ProfileInv, PromiseInv, PromiseStands, F!Builder, F!FromResume, F!Live
  <2> QED
    BY <2>2, <2>3, <2>4 DEF PromiseInv
<1>11. AloneInv'
  <2>1. AloneIs(q)'
    <3>1. AloneIs(q)
      BY <1>2 DEF ProfileInv, AloneInv, AloneKnows
    <3>2. F!Strength(F!Written(q), skills)' = F!Strength(F!Written(q), skills)
      BY <1>1, <1>5, <1>6 DEF F!Strength, F!Written
    <3>3. \A v \in F!Writers \ {q} : open'[v].at = open[v].at
      BY <1>6
    <3> QED
      BY <1>1, <1>2, <1>5, <1>6, <3>1, <3>2, <3>3 DEF AloneIs, F!Builder
  <2>2. \A v \in F!Writers \ {q} : AloneIs(v)'
    BY <1>1, <1>2, <1>6, OthersStand DEF ProfileInv, AloneInv
  <2> QED
    BY <1>1, <2>1, <2>2 DEF ProfileInv, AloneInv, AloneKnows, StrengthStands
<1>12. PlacesFit'
  BY <1>1, <1>2, <1>5, <1>6, BuilderIsApart DEF ProfileInv, PlacesFit, F!Builder
<1> QED
  BY <1>8, <1>9, <1>10, <1>11, <1>12 DEF ProfileInv

(* What the end of a transaction leaves, whether it commits or is undone.    *)
LEMMA EndsKeeps ==
  ASSUME ProfileInv, NEW w \in F!Writers, open' = F!Ended(w), \A x \in entries' : InPlay(x)
  PROVE  /\ open' \in [F!Writers -> Txs] /\ open'[w].at = "idle" /\ open'[w].build = "none"
         /\ \A v \in F!Writers \ {w} : SameTx(open[v], open'[v])
         /\ RowsInv' /\ AloneKnows' /\ PlacesFit'
<1>1. /\ open' \in [F!Writers -> Txs] /\ open'[w] = F!Idle
      /\ \A v \in F!Writers \ {w} : SameTx(open[v], open'[v]) /\ open'[v].alone = FALSE
  BY EndedIs DEF ProfileInv
<1>2. RowsInv'
  <2>1. \A x : InPlay(x)' => InPlay(x)
    BY <1>1, IdleIs DEF InPlay, SameTx
  <2>2. \A v \in F!Writers : \/ open'[v].op = open[v].op /\ open'[v].gone = open[v].gone
                             \/ open'[v].gone = {}
    BY <1>1, IdleIs DEF SameTx
  <2> QED
    BY <2>1, <2>2, RowsStand DEF ProfileInv
<1>3. AloneKnows'
  BY <1>1, IdleIs DEF AloneKnows, AloneIs
<1>4. PlacesFit'
  BY <1>1, IdleIs, BuilderIsApart DEF ProfileInv, PlacesFit, SameTx, F!Builder
<1> QED
  BY <1>1, <1>2, <1>3, <1>4, IdleIs

LEMMA CommitsKeeps ==
  ASSUME ProfileInv, NEW q \in Editors, F!Commits(q)
  PROVE  ProfileInv'
<1>1. /\ open[q].at = "flushed" /\ entries' = F!Written(q)
      /\ strength' = IF open[q].kept THEN strength ELSE open[q].strength
      /\ raced' = ~open[q].alone /\ open' = F!Ended(q)
      /\ UNCHANGED <<resumes, skills, build, edits>>
  BY DEF F!Commits
<1>2. q \in F!Writers /\ q # F!Builder /\ ProfileTyped
  BY BuilderIsApart DEF ProfileInv
<1>3. open[q] \in Txs
  BY <1>2 DEF ProfileTyped
<1>4. entries' \subseteq Entries /\ \A x \in entries' : InPlay(x)
  BY <1>1, <1>2, <1>3 DEF F!Written, ProfileTyped, Txs, InPlay
<1>5. /\ open' \in [F!Writers -> Txs] /\ open'[q].at = "idle" /\ open'[q].build = "none"
      /\ \A v \in F!Writers \ {q} : SameTx(open[v], open'[v])
      /\ RowsInv' /\ AloneKnows' /\ PlacesFit'
  BY <1>1, <1>2, <1>4, EndsKeeps
<1>6. promised' \in BOOLEAN
  <2>1. CASE open[q].op = "confirm"
    <3>1. promised' = (open[q].build = "waits")
      BY <2>1 DEF F!Commits
    <3> QED
      BY <3>1
  <2>2. CASE open[q].op # "confirm"
    <3>1. promised' = (promised /\ F!FromEntries(entries') = F!FromEntries(entries))
      BY <2>2 DEF F!Commits
    <3> QED
      BY <3>1
  <2> QED
    BY <2>1, <2>2
<1>7. raced' \in BOOLEAN /\ strength' \subseteq Checks
  BY <1>1, <1>2, <1>3 DEF ProfileTyped, Txs
<1>8. ProfileTyped'
  BY <1>1, <1>2, <1>4, <1>5, <1>6, <1>7 DEF ProfileTyped
<1>9. PromiseInv'
  <2>1. open'[F!Builder].at = open[F!Builder].at /\ open'[F!Builder].got = open[F!Builder].got
    BY <1>2, <1>5, BuilderIsApart DEF SameTx
  <2>2. BuildRuns'
    BY <1>1, <2>1 DEF ProfileInv, PromiseInv, BuildRuns, F!Builder
  <2>3. WaitsForQueued'
    BY <1>1, <1>5, BuilderIsApart DEF ProfileInv, PromiseInv, WaitsForQueued, SameTx
  <2>4. PromiseStands'
    <3>1. CASE open[q].op = "confirm"
      <4>1. promised' = (open[q].build = "waits")
        BY <3>1 DEF F!Commits
      <4>2. promised' => build = "queued" /\ open[F!Builder].at = "idle"
        BY <4>1 DEF ProfileInv, PromiseInv, WaitsForQueued, BuildRuns
      <4> QED
        BY <1>1, <2>1, <4>2 DEF PromiseStands, F!Builder
    <3>2. CASE open[q].op # "confirm"
      <4>1. promised' => promised /\ F!FromEntries(entries') = F!FromEntries(entries)
        BY <3>2 DEF F!Commits
      <4>2. F!FromEntries(entries)' = F!FromEntries(entries') /\ F!FromResume' = F!FromResume
        BY <1>1 DEF F!FromEntries, F!Replaced, F!FromResume, F!Live
      <4>3. promised' => F!Grouped(F!FromEntries(entries) \cup F!FromResume)'
                           = F!Grouped(F!FromEntries(entries) \cup F!FromResume)
        BY <4>1, <4>2 DEF F!Grouped
      <4> QED
        BY <1>1, <2>1, <4>1, <4>2, <4>3 DEF ProfileInv, PromiseInv, PromiseStands, F!Builder
    <3> QED
      BY <3>1, <3>2
  <2> QED
    BY <2>2, <2>3, <2>4 DEF PromiseInv
<1>10. StrengthStands'
  <2> SUFFICES ASSUME open[q].alone PROVE strength' = F!Strength(entries, skills)'
    BY <1>1 DEF StrengthStands
  <2>1. /\ open[q].kept => open[q].strength = strength
        /\ open[q].strength = F!Strength(F!Written(q), skills)
    BY <1>1, <1>2 DEF ProfileInv, AloneInv, AloneKnows, AloneIs
  <2>2. F!Strength(entries, skills)' = F!Strength(F!Written(q), skills)
    BY <1>1 DEF F!Strength
  <2> QED
    BY <1>1, <2>1, <2>2
<1> QED
  BY <1>5, <1>8, <1>9, <1>10 DEF ProfileInv, AloneInv

LEMMA RequestFailsKeeps ==
  ASSUME ProfileInv, NEW q \in Editors, F!RequestFails(q)
  PROVE  ProfileInv'
<1>1. /\ open' = F!Ended(q)
      /\ UNCHANGED <<entries, resumes, skills, strength, build, edits, promised, raced>>
  BY DEF F!RequestFails
<1>2. q \in F!Writers /\ q # F!Builder
  BY BuilderIsApart
<1>3. /\ open' \in [F!Writers -> Txs] /\ open'[q].at = "idle" /\ open'[q].build = "none"
      /\ \A v \in F!Writers \ {q} : SameTx(open[v], open'[v])
      /\ RowsInv' /\ AloneKnows' /\ PlacesFit'
  <2>1. \A x \in entries' : InPlay(x)
    BY <1>1 DEF InPlay
  <2> QED
    BY <1>1, <1>2, <2>1, EndsKeeps
<1>4. ProfileTyped'
  BY <1>1, <1>3 DEF ProfileInv, ProfileTyped
<1>5. PromiseInv'
  <2>1. open'[F!Builder].at = open[F!Builder].at /\ open'[F!Builder].got = open[F!Builder].got
    BY <1>2, <1>3, BuilderIsApart DEF SameTx
  <2>2. BuildRuns'
    BY <1>1, <2>1 DEF ProfileInv, PromiseInv, BuildRuns, F!Builder
  <2>3. WaitsForQueued'
    BY <1>1, <1>3, BuilderIsApart DEF ProfileInv, PromiseInv, WaitsForQueued, SameTx
  <2>4. PromiseStands'
    BY <1>1, <2>1, PromiseSame DEF ProfileInv, PromiseInv
  <2> QED
    BY <2>2, <2>3, <2>4 DEF PromiseInv
<1>6. StrengthStands'
  BY <1>1 DEF ProfileInv, AloneInv, StrengthStands, F!Strength
<1> QED
  BY <1>3, <1>4, <1>5, <1>6 DEF ProfileInv, AloneInv

(* A resume changes: the promise is off.                                     *)
LEMMA ResumesKeep ==
  ASSUME ProfileInv, UNCHANGED <<entries, skills, strength, open, build, raced>>, promised' = FALSE,
         resumes' \in [CVs -> Filed], edits' \in 0..MaxRequests
  PROVE  ProfileInv'
<1>1. ProfileTyped'
  BY DEF ProfileInv, ProfileTyped
<1>2. RowsInv'
  <2>1. \A x : InPlay(x)' => InPlay(x)
    BY DEF InPlay
  <2> QED
    BY <2>1, RowsStand DEF ProfileInv
<1>3. PromiseInv'
  BY DEF ProfileInv, PromiseInv, BuildRuns, WaitsForQueued, PromiseStands, F!Builder
<1>4. AloneInv'
  <2>1. F!Builder' = F!Builder /\ F!Strength(entries, skills)' = F!Strength(entries, skills)
    BY DEF F!Builder, F!Strength
  <2>2. ASSUME NEW w \in F!Writers
        PROVE  F!Strength(F!Written(w), skills)' = F!Strength(F!Written(w), skills)
    BY DEF F!Strength, F!Written
  <2>3. ASSUME NEW w \in F!Writers
        PROVE  F!Strength(entries, F!Rewritten(open[w].got))'
                 = F!Strength(entries, F!Rewritten(open[w].got))
    BY DEF F!Strength, F!Rewritten, F!Grouped
  <2>4. ASSUME NEW w \in F!Writers
        PROVE  AloneIs(w)'
    <3>1. AloneIs(w)
      BY DEF ProfileInv, AloneInv, AloneKnows
    <3> QED
      BY <2>1, <2>2, <2>3, <3>1 DEF AloneIs
  <2> QED
    BY <2>1, <2>4 DEF ProfileInv, AloneInv, AloneKnows, StrengthStands
<1>5. PlacesFit'
  BY DEF ProfileInv, PlacesFit, F!Builder
<1> QED
  BY <1>1, <1>2, <1>3, <1>4, <1>5 DEF ProfileInv

LEMMA ResumeStepKeeps ==
  ASSUME ProfileInv, NEW r \in CVs,
         F!Uploads(r) \/ F!Extracts(r) \/ F!Reprocesses(r) \/ F!MakesPrimary(r) \/ F!DeletesResume(r)
  PROVE  ProfileInv'
<1>1. resumes \in [CVs -> Filed] /\ edits \in 0..MaxRequests /\ MaxRequests \in Nat
  BY ProfileIsGiven DEF ProfileInv, ProfileTyped, F!ProfileAssumption
<1>2. ASSUME NEW x \in Filed, NEW s \in {"absent", "uploaded", "extracted", "deleted"}
      PROVE  [x EXCEPT !.status = s] \in Filed
  BY DEF Filed
<1>3. CASE F!Uploads(r)
  <2>1. PICK says \in SUBSET KnownSkills :
          F!SetsResume(r, [status |-> "uploaded", primary |-> F!Live = {}, says |-> says])
    BY <1>3 DEF F!Uploads
  <2>2. [status |-> "uploaded", primary |-> F!Live = {}, says |-> says] \in Filed
    BY DEF Filed
  <2>3. edits' \in 0..MaxRequests
    BY <1>1, <1>3 DEF F!Uploads
  <2> QED
    BY <1>1, <2>1, <2>2, <2>3, ResumesKeep DEF F!SetsResume
<1>4. CASE F!Extracts(r)
  <2>1. F!SetsResume(r, [resumes[r] EXCEPT !.status = "extracted"]) /\ edits' = edits
    BY <1>4 DEF F!Extracts
  <2>2. [resumes[r] EXCEPT !.status = "extracted"] \in Filed
    BY <1>1, <1>2
  <2> QED
    BY <1>1, <2>1, <2>2, ResumesKeep DEF F!SetsResume
<1>5. CASE F!Reprocesses(r)
  <2>1. F!SetsResume(r, [resumes[r] EXCEPT !.status = "uploaded"])
    BY <1>5 DEF F!Reprocesses
  <2>2. [resumes[r] EXCEPT !.status = "uploaded"] \in Filed
    BY <1>1, <1>2
  <2>3. edits' \in 0..MaxRequests
    BY <1>1, <1>5 DEF F!Reprocesses
  <2> QED
    BY <1>1, <2>1, <2>2, <2>3, ResumesKeep DEF F!SetsResume
<1>6. CASE F!MakesPrimary(r)
  <2> DEFINE p(x) == x = r \/ (resumes[x].primary /\ x \notin F!Live)
  <2>1. resumes' = [x \in CVs |-> [resumes[x] EXCEPT !.primary = p(x)]]
    BY <1>6 DEF F!MakesPrimary
  <2>2. \A x \in CVs : p(x) \in BOOLEAN
    BY <1>1 DEF Filed
  <2> HIDE DEF p
  <2>3. \A x \in CVs : [resumes[x] EXCEPT !.primary = p(x)] \in Filed
    BY <1>1, <2>2 DEF Filed
  <2>4. resumes' \in [CVs -> Filed]
    BY <2>1, <2>3
  <2>5. edits' \in 0..MaxRequests
    BY <1>1, <1>6 DEF F!MakesPrimary
  <2> QED
    BY <1>6, <2>4, <2>5, ResumesKeep DEF F!MakesPrimary
<1>7. CASE F!DeletesResume(r)
  <2>1. F!SetsResume(r, [resumes[r] EXCEPT !.status = "deleted"])
    BY <1>7 DEF F!DeletesResume
  <2>2. [resumes[r] EXCEPT !.status = "deleted"] \in Filed
    BY <1>1, <1>2
  <2>3. edits' \in 0..MaxRequests
    BY <1>1, <1>7 DEF F!DeletesResume
  <2> QED
    BY <1>1, <2>1, <2>2, <2>3, ResumesKeep DEF F!SetsResume
<1> QED
  BY <1>3, <1>4, <1>5, <1>6, <1>7

(* The build.                                                                *)
LEMMA RebuildKeeps ==
  ASSUME ProfileInv, F!Rebuild
  PROVE  ProfileInv'
<1>1. /\ edits' = edits + 1 /\ edits < MaxRequests /\ build' = F!Enqueued
      /\ promised' = (promised \/ build # "running")
      /\ UNCHANGED <<entries, resumes, skills, strength, open, raced>>
  BY DEF F!Rebuild
<1>2. /\ build' \in {"queued", "running"} /\ (build # "running" => build' = "queued")
      /\ (build = "running" => build' = "running")
  BY <1>1 DEF F!Enqueued, ProfileInv, ProfileTyped
<1>3. promised' \in BOOLEAN
  BY <1>1
<1>4. ProfileTyped'
  BY <1>1, <1>2, <1>3, ProfileIsGiven DEF ProfileInv, ProfileTyped, F!ProfileAssumption
<1>5. RowsInv'
  <2>1. \A x : InPlay(x)' => InPlay(x)
    BY <1>1 DEF InPlay
  <2> QED
    BY <1>1, <2>1, RowsStand DEF ProfileInv
<1>6. PromiseInv'
  <2>1. BuildRuns'
    BY <1>1, <1>2 DEF ProfileInv, PromiseInv, BuildRuns, F!Builder
  <2>2. WaitsForQueued'
    BY <1>1, <1>2 DEF ProfileInv, PromiseInv, WaitsForQueued
  <2>3. PromiseStands'
    <3>1. CASE build = "running"
      <4>1. promised' => promised
        BY <1>1, <3>1
      <4>2. F!FromEntries(entries)' = F!FromEntries(entries) /\ F!FromResume' = F!FromResume
        BY <1>1 DEF F!FromEntries, F!Replaced, F!FromResume, F!Live
      <4> QED
        BY <1>1, <1>2, <4>1, <4>2 DEF ProfileInv, PromiseInv, PromiseStands, F!Builder
    <3>2. CASE build # "running"
      BY <1>1, <1>2, <3>2 DEF ProfileInv, PromiseInv, PromiseStands, BuildRuns, F!Builder
    <3> QED
      BY <3>1, <3>2
  <2> QED
    BY <2>1, <2>2, <2>3 DEF PromiseInv
<1>7. AloneInv'
  <2>1. F!Builder' = F!Builder /\ F!Strength(entries, skills)' = F!Strength(entries, skills)
    BY <1>1 DEF F!Builder, F!Strength
  <2>2. ASSUME NEW w \in F!Writers
        PROVE  /\ F!Strength(F!Written(w), skills)' = F!Strength(F!Written(w), skills)
               /\ F!Strength(entries, F!Rewritten(open[w].got))'
                    = F!Strength(entries, F!Rewritten(open[w].got))
    BY <1>1 DEF F!Strength, F!Written, F!Rewritten, F!Grouped
  <2>3. ASSUME NEW w \in F!Writers
        PROVE  AloneIs(w)'
    <3>1. AloneIs(w)
      BY DEF ProfileInv, AloneInv, AloneKnows
    <3> QED
      BY <1>1, <2>1, <2>2, <3>1 DEF AloneIs
  <2> QED
    BY <1>1, <2>1, <2>3 DEF ProfileInv, AloneInv, AloneKnows, StrengthStands
<1>8. PlacesFit'
  BY <1>1 DEF ProfileInv, PlacesFit, F!Builder
<1> QED
  BY <1>4, <1>5, <1>6, <1>7, <1>8 DEF ProfileInv

(* What is read off the rows and the resumes is typed.                       *)
LEMMA MentionsAre ==
  ASSUME ProfileTyped
  PROVE  F!FromEntries(entries) \subseteq Mentions /\ F!FromResume \subseteq Mentions
BY DEF ProfileTyped, F!FromEntries, F!Replaced, F!FromResume, F!Live, Mentions, Entries, Filed

LEMMA GroupedAre ==
  ASSUME NEW got \in SUBSET Mentions
  PROVE  F!Grouped(got) \subseteq Mapped
BY DEF F!Grouped, Mapped, Mentions

LEMMA BuildStartsKeeps ==
  ASSUME ProfileInv, F!BuildStarts
  PROVE  ProfileInv'
<1> DEFINE from  == F!FromEntries(entries)
           tx    == [F!Idle EXCEPT !.at = "open", !.seen = strength, !.got = from]
           these == F!Begun(F!Builder, tx)
<1>1. /\ build = "queued" /\ build' = "running"
      /\ open' = [w \in F!Writers |-> IF these[w].build = "waits"
                                      THEN [these[w] EXCEPT !.build = "dropped"] ELSE these[w]]
      /\ UNCHANGED <<entries, resumes, skills, strength, edits, promised, raced>>
  BY DEF F!BuildStarts
<1>2. from \subseteq Mentions
  BY MentionsAre DEF ProfileInv
<1> HIDE DEF from
<1>3. /\ tx \in Txs /\ tx.at = "open" /\ tx.op = "none" /\ tx.seen = strength /\ tx.gone = {}
      /\ tx.new = {} /\ tx.build = "none" /\ tx.got = from
  BY <1>2 DEF F!Idle, Txs, ProfileInv, ProfileTyped
<1> HIDE DEF tx
<1>4. /\ these \in [F!Writers -> Txs] /\ SameTx(tx, these[F!Builder])
      /\ these[F!Builder].alone = F!Alone(F!Builder)
      /\ \A v \in F!Writers \ {F!Builder} :
           SameTx(open[v], these[v]) /\ these[v].alone = FALSE
  <2>1. F!Builder \in F!Writers /\ ProfileTyped
    BY BuilderIsApart DEF ProfileInv
  <2>2. LET b == F!Begun(F!Builder, tx)
        IN  /\ b \in [F!Writers -> Txs] /\ SameTx(tx, b[F!Builder])
            /\ b[F!Builder].alone = F!Alone(F!Builder)
            /\ \A v \in F!Writers \ {F!Builder} :
                 SameTx(open[v], b[v]) /\ b[v].alone = FALSE
    BY <1>3, <2>1, BegunIs, Zenon
  <2> QED
    BY <2>2
<1> HIDE DEF these
<1>5. ASSUME NEW w \in F!Writers
      PROVE  /\ open'[w] \in Txs /\ open'[w].at = these[w].at /\ open'[w].op = these[w].op
             /\ open'[w].seen = these[w].seen /\ open'[w].alone = these[w].alone
             /\ open'[w].gone = these[w].gone /\ open'[w].new = these[w].new
             /\ open'[w].got = these[w].got /\ open'[w].build # "waits"
  <2>1. these[w] \in Txs
    BY <1>4
  <2> DEFINE y == [these[w] EXCEPT !.build = "dropped"]
  <2>2. /\ y \in Txs /\ y.build = "dropped" /\ y.at = these[w].at /\ y.op = these[w].op
        /\ y.seen = these[w].seen /\ y.alone = these[w].alone /\ y.gone = these[w].gone
        /\ y.new = these[w].new /\ y.got = these[w].got
    BY <2>1, BuildFieldIs
  <2>3. open'[w] = IF these[w].build = "waits" THEN y ELSE these[w]
    BY <1>1
  <2> HIDE DEF y
  <2> QED
    BY <2>1, <2>2, <2>3
<1>6. open' \in [F!Writers -> Txs]
  BY <1>1, <1>5
<1>7. /\ open'[F!Builder].at = "open" /\ open'[F!Builder].op = "none"
      /\ open'[F!Builder].seen = strength /\ open'[F!Builder].gone = {}
      /\ open'[F!Builder].new = {} /\ open'[F!Builder].got = from
      /\ open'[F!Builder].alone = F!Alone(F!Builder)
  BY <1>3, <1>4, <1>5, BuilderIsApart DEF SameTx
<1>8. ASSUME NEW v \in F!Writers \ {F!Builder}
      PROVE  /\ open'[v].at = open[v].at /\ open'[v].op = open[v].op
             /\ open'[v].gone = open[v].gone /\ open'[v].new = open[v].new
             /\ open'[v].alone = FALSE
  BY <1>4, <1>5 DEF SameTx
<1>9. ProfileTyped'
  BY <1>1, <1>6 DEF ProfileInv, ProfileTyped
<1>10. RowsInv'
  <2>1. \A x : InPlay(x)' => InPlay(x)
    BY <1>1, <1>7, <1>8 DEF InPlay
  <2> QED
    BY <1>7, <1>8, <2>1, RowsStand DEF ProfileInv
<1>11. PromiseInv'
  <2>1. BuildRuns'
    BY <1>1, <1>7 DEF BuildRuns, F!Builder
  <2>2. WaitsForQueued'
    BY <1>5, BuilderIsApart DEF WaitsForQueued
  <2>3. from' = from
    BY <1>1 DEF from, F!FromEntries, F!Replaced
  <2>4. PromiseStands'
    BY <1>1, <1>7, <2>3 DEF PromiseStands, F!Builder, from
  <2> QED
    BY <2>1, <2>2, <2>4 DEF PromiseInv
<1>12. AloneInv'
  <2>1. AloneIs(F!Builder)'
    <3>1. open'[F!Builder].alone => \A v \in F!Writers \ {F!Builder} : open'[v].at = "idle"
      BY <1>7, <1>8 DEF F!Alone
    <3> QED
      BY <1>1, <1>7, <3>1 DEF AloneIs, F!Builder
  <2>2. \A v \in F!Writers \ {F!Builder} : AloneIs(v)'
    BY <1>8 DEF AloneIs
  <2>3. AloneKnows'
    BY <2>1, <2>2 DEF AloneKnows, F!Builder
  <2> QED
    BY <1>1, <2>3 DEF ProfileInv, AloneInv, StrengthStands, F!Strength
<1>13. PlacesFit'
  <2>1. \A q \in Editors : open'[q].at = open[q].at
    BY <1>8, BuilderIsApart
  <2> QED
    BY <1>7, <2>1 DEF ProfileInv, PlacesFit, F!Builder
<1> QED
  BY <1>9, <1>10, <1>11, <1>12, <1>13 DEF ProfileInv

LEMMA BuildLooksKeeps ==
  ASSUME ProfileInv, F!BuildLooks
  PROVE  ProfileInv'
<1> DEFINE x  == open[F!Builder]
           x1 == [x EXCEPT !.at = "read"]
           y  == [x1 EXCEPT !.got = @ \cup F!FromResume]
<1>1. /\ x.at = "open" /\ UNCHANGED <<entries, resumes, skills, strength, build, edits, promised, raced>>
      /\ open' = [open EXCEPT ![F!Builder].at = "read", ![F!Builder].got = @ \cup F!FromResume]
  BY DEF F!BuildLooks
<1>2. F!Builder \in F!Writers /\ x \in Txs /\ F!FromResume \subseteq Mentions
  BY BuilderIsApart, MentionsAre DEF ProfileInv, ProfileTyped
<1>3. open' = [open EXCEPT ![F!Builder] = y]
  BY <1>1, <1>2 DEF ProfileInv, ProfileTyped
<1> HIDE DEF x
<1>4. /\ x1 \in Txs /\ x1.at = "read" /\ x1.op = x.op /\ x1.seen = x.seen /\ x1.alone = x.alone
      /\ x1.gone = x.gone /\ x1.new = x.new /\ x1.build = x.build /\ x1.got = x.got
  BY <1>2 DEF Txs
<1> HIDE DEF x1
<1>5. /\ y \in Txs /\ y.at = "read" /\ y.op = x.op /\ y.seen = x.seen /\ y.alone = x.alone
      /\ y.gone = x.gone /\ y.new = x.new /\ y.build = x.build
      /\ y.got = x.got \cup F!FromResume
  BY <1>2, <1>4 DEF Txs
<1> HIDE DEF y
<1>6. /\ open' \in [F!Writers -> Txs] /\ open'[F!Builder] = y
      /\ \A v \in F!Writers \ {F!Builder} : open'[v] = open[v]
  BY <1>2, <1>3, <1>5 DEF ProfileInv, ProfileTyped
<1>7. ProfileTyped'
  BY <1>1, <1>6 DEF ProfileInv, ProfileTyped
<1>8. RowsInv'
  <2>1. \A e : InPlay(e)' => InPlay(e)
    BY <1>1, <1>5, <1>6 DEF InPlay, x
  <2> QED
    BY <1>5, <1>6, <2>1, RowsStand DEF ProfileInv, x
<1>9. PromiseInv'
  <2>1. build = "running" /\ build' = "running"
    BY <1>1 DEF ProfileInv, PromiseInv, BuildRuns, x
  <2>2. BuildRuns'
    BY <1>5, <1>6, <2>1 DEF BuildRuns, F!Builder
  <2>3. WaitsForQueued'
    BY <1>1, <1>6, BuilderIsApart DEF ProfileInv, PromiseInv, WaitsForQueued
  <2>4. PromiseStands'
    <3>1. promised => y.got = F!FromEntries(entries) \cup F!FromResume
      BY <1>1, <1>5 DEF ProfileInv, PromiseInv, PromiseStands, x
    <3>2. F!FromEntries(entries)' = F!FromEntries(entries) /\ F!FromResume' = F!FromResume
      BY <1>1 DEF F!FromEntries, F!Replaced, F!FromResume, F!Live
    <3> QED
      BY <1>1, <1>5, <1>6, <2>1, <3>1, <3>2 DEF PromiseStands, F!Builder
  <2> QED
    BY <2>2, <2>3, <2>4 DEF PromiseInv
<1>10. AloneInv'
  <2>1. AloneIs(F!Builder)'
    <3>1. AloneIs(F!Builder)
      BY <1>2 DEF ProfileInv, AloneInv, AloneKnows
    <3>2. x.alone => x.seen = strength /\ \A v \in F!Writers \ {F!Builder} : open[v].at = "idle"
      BY <1>1, <3>1 DEF AloneIs, x
    <3> QED
      BY <1>1, <1>5, <1>6, <3>2 DEF AloneIs, F!Builder
  <2>2. \A v \in F!Writers \ {F!Builder} : AloneIs(v)'
    BY <1>1, <1>2, <1>6, OthersStand DEF ProfileInv, AloneInv, x
  <2>3. AloneKnows'
    BY <2>1, <2>2 DEF AloneKnows, F!Builder
  <2> QED
    BY <1>1, <2>3 DEF ProfileInv, AloneInv, StrengthStands, F!Strength
<1>11. PlacesFit'
  BY <1>1, <1>5, <1>6, BuilderIsApart DEF ProfileInv, PlacesFit, F!Builder, x
<1> QED
  BY <1>7, <1>8, <1>9, <1>10, <1>11 DEF ProfileInv

LEMMA BuildWritesKeeps ==
  ASSUME ProfileInv, F!BuildWrites
  PROVE  ProfileInv'
<1> DEFINE w   == F!Builder
           now == F!Strength(entries, F!Rewritten(open[w].got))
           k   == now = open[w].seen
<1>1. /\ open' = [open EXCEPT ![w].at = "flushed", ![w].strength = now, ![w].kept = k]
      /\ open[w].at = "read"
      /\ UNCHANGED <<entries, resumes, skills, strength, build, edits, promised, raced>>
  BY DEF F!BuildWrites
<1>2. now \in SUBSET Checks /\ k \in BOOLEAN /\ w \in F!Writers /\ ProfileTyped
  BY StrengthIsChecked, BuilderIsApart DEF ProfileInv
<1>3. /\ open' \in [F!Writers -> Txs] /\ \A v \in F!Writers \ {w} : open'[v] = open[v]
      /\ open'[w].at = "flushed" /\ open'[w].strength = now /\ open'[w].kept = k
      /\ open'[w].alone = open[w].alone /\ open'[w].op = open[w].op /\ open'[w].seen = open[w].seen
      /\ open'[w].gone = open[w].gone /\ open'[w].new = open[w].new
      /\ open'[w].build = open[w].build /\ open'[w].got = open[w].got
  <2>1. open' = [open EXCEPT ![w].at = "flushed", ![w].strength = now, ![w].kept = k]
    BY <1>1
  <2> HIDE DEF now, k, w
  <2> QED
    BY <1>2, <2>1, FlushedIs
<1>4. F!Strength(entries, F!Rewritten(open[w].got))' = now
  <2>1. F!Rewritten(open[w].got)' = F!Rewritten(open[w].got)
    BY <1>3 DEF F!Rewritten, F!Grouped, F!Builder
  <2> QED
    BY <1>1, <2>1 DEF F!Strength
<1>5. k => now = open[w].seen
  OBVIOUS
<1> HIDE DEF now, k
<1>6. ProfileTyped'
  BY <1>1, <1>3 DEF ProfileInv, ProfileTyped
<1>7. RowsInv'
  <2>1. \A x : InPlay(x)' => InPlay(x)
    BY <1>1, <1>3 DEF InPlay
  <2> QED
    BY <1>3, <2>1, RowsStand DEF ProfileInv
<1>8. PromiseInv'
  <2>1. build = "running" /\ build' = "running"
    BY <1>1 DEF ProfileInv, PromiseInv, BuildRuns
  <2>2. BuildRuns'
    BY <1>3, <2>1 DEF BuildRuns, F!Builder
  <2>3. WaitsForQueued'
    BY <1>1, <1>3, BuilderIsApart DEF ProfileInv, PromiseInv, WaitsForQueued
  <2>4. PromiseStands'
    <3>1. F!FromEntries(entries)' = F!FromEntries(entries) /\ F!FromResume' = F!FromResume
      BY <1>1 DEF F!FromEntries, F!Replaced, F!FromResume, F!Live
    <3> QED
      BY <1>1, <1>3, <2>1, <3>1 DEF ProfileInv, PromiseInv, PromiseStands, F!Builder
  <2> QED
    BY <2>2, <2>3, <2>4 DEF PromiseInv
<1>9. AloneInv'
  <2>1. AloneIs(w)'
    <3>1. AloneIs(w)
      BY <1>2 DEF ProfileInv, AloneInv, AloneKnows
    <3>2. open[w].alone => open[w].seen = strength /\ \A v \in F!Writers \ {w} : open[v].at = "idle"
      BY <1>1, <3>1 DEF AloneIs
    <3> QED
      BY <1>1, <1>3, <1>4, <1>5, <3>2 DEF AloneIs, F!Builder
  <2>2. \A v \in F!Writers \ {w} : AloneIs(v)'
    BY <1>1, <1>2, <1>3, OthersStand DEF ProfileInv, AloneInv
  <2>3. AloneKnows'
    BY <2>1, <2>2 DEF AloneKnows, F!Builder
  <2> QED
    BY <1>1, <2>3 DEF ProfileInv, AloneInv, StrengthStands, F!Strength
<1>10. PlacesFit'
  BY <1>1, <1>3, BuilderIsApart DEF ProfileInv, PlacesFit, F!Builder
<1> QED
  BY <1>6, <1>7, <1>8, <1>9, <1>10 DEF ProfileInv

LEMMA BuildCommitsKeeps ==
  ASSUME ProfileInv, F!BuildCommits
  PROVE  ProfileInv'
<1> DEFINE w == F!Builder
<1>1. /\ open[w].at = "flushed" /\ skills' = F!Grouped(open[w].got)
      /\ strength' = IF open[w].kept THEN strength ELSE open[w].strength
      /\ raced' = ~open[w].alone /\ open' = F!Ended(w) /\ build' = "none"
      /\ UNCHANGED <<entries, resumes, edits, promised>>
  BY DEF F!BuildCommits, F!Rewritten
<1>2. w \in F!Writers /\ ProfileTyped /\ open[w] \in Txs
  BY BuilderIsApart DEF ProfileInv, ProfileTyped
<1>3. /\ open' \in [F!Writers -> Txs] /\ open'[w].at = "idle" /\ open'[w].build = "none"
      /\ \A v \in F!Writers \ {w} : SameTx(open[v], open'[v])
      /\ RowsInv' /\ AloneKnows' /\ PlacesFit'
  <2>1. \A x \in entries' : InPlay(x)
    BY <1>1 DEF InPlay
  <2> HIDE DEF w
  <2> QED
    BY <1>1, <1>2, <2>1, EndsKeeps
<1>4. skills' \subseteq Mapped
  BY <1>1, <1>2, GroupedAre DEF Txs
<1>5. raced' \in BOOLEAN /\ strength' \subseteq Checks
  BY <1>1, <1>2 DEF ProfileTyped, Txs
<1>6. ProfileTyped'
  BY <1>1, <1>2, <1>3, <1>4, <1>5 DEF ProfileTyped
<1>7. PromiseInv'
  <2>1. build = "running"
    BY <1>1 DEF ProfileInv, PromiseInv, BuildRuns
  <2>2. BuildRuns'
    BY <1>1, <1>3 DEF BuildRuns, F!Builder
  <2>3. WaitsForQueued'
    <3>1. \A q \in Editors : open'[q].build = open[q].build
      BY <1>3, BuilderIsApart DEF SameTx
    <3> QED
      BY <2>1, <3>1 DEF ProfileInv, PromiseInv, WaitsForQueued
  <2>4. PromiseStands'
    <3>1. promised => open[w].got = F!FromEntries(entries) \cup F!FromResume
      BY <1>1 DEF ProfileInv, PromiseInv, PromiseStands
    <3>2. F!FromEntries(entries)' = F!FromEntries(entries) /\ F!FromResume' = F!FromResume
      BY <1>1 DEF F!FromEntries, F!Replaced, F!FromResume, F!Live
    <3>3. F!Grouped(F!FromEntries(entries) \cup F!FromResume)'
            = F!Grouped(F!FromEntries(entries) \cup F!FromResume)
      BY <3>2 DEF F!Grouped
    <3>4. promised' => skills' = F!Grouped(F!FromEntries(entries) \cup F!FromResume)
      BY <1>1, <3>1
    <3> QED
      BY <1>3, <3>3, <3>4 DEF PromiseStands, F!Builder
  <2> QED
    BY <2>2, <2>3, <2>4 DEF PromiseInv
<1>8. StrengthStands'
  <2> SUFFICES ASSUME open[w].alone PROVE strength' = F!Strength(entries, skills)'
    BY <1>1 DEF StrengthStands
  <2>1. /\ open[w].kept => open[w].strength = strength
        /\ open[w].strength = F!Strength(entries, F!Rewritten(open[w].got))
    BY <1>1, <1>2 DEF ProfileInv, AloneInv, AloneKnows, AloneIs
  <2>2. F!Strength(entries, skills)' = F!Strength(entries, F!Rewritten(open[w].got))
    BY <1>1 DEF F!Strength, F!Rewritten
  <2> QED
    BY <1>1, <2>1, <2>2
<1> QED
  BY <1>3, <1>6, <1>7, <1>8 DEF ProfileInv, AloneInv

LEMMA BuildFailsKeeps ==
  ASSUME ProfileInv, F!BuildFails
  PROVE  ProfileInv'
<1> DEFINE w == F!Builder
<1>1. /\ open[w].at # "idle" /\ open' = F!Ended(w)
      /\ build' \in {"queued", "none"} /\ ((build' = "queued" /\ promised' = promised) \/ promised' = FALSE)
      /\ UNCHANGED <<entries, resumes, skills, strength, edits, raced>>
  BY DEF F!BuildFails
<1>2. w \in F!Writers
  BY BuilderIsApart
<1>3. /\ open' \in [F!Writers -> Txs] /\ open'[w].at = "idle" /\ open'[w].build = "none"
      /\ \A v \in F!Writers \ {w} : SameTx(open[v], open'[v])
      /\ RowsInv' /\ AloneKnows' /\ PlacesFit'
  <2>1. \A x \in entries' : InPlay(x)
    BY <1>1 DEF InPlay
  <2> HIDE DEF w
  <2> QED
    BY <1>1, <1>2, <2>1, EndsKeeps
<1>4. ProfileTyped'
  BY <1>1, <1>3 DEF ProfileInv, ProfileTyped
<1>5. PromiseInv'
  <2>1. build = "running"
    BY <1>1 DEF ProfileInv, PromiseInv, BuildRuns
  <2>2. BuildRuns'
    BY <1>1, <1>3 DEF BuildRuns, F!Builder
  <2>3. WaitsForQueued'
    <3>1. \A q \in Editors : open'[q].build = open[q].build
      BY <1>3, BuilderIsApart DEF SameTx
    <3> QED
      BY <2>1, <3>1 DEF ProfileInv, PromiseInv, WaitsForQueued
  <2>4. PromiseStands'
    BY <1>1, <1>3 DEF PromiseStands, F!Builder
  <2> QED
    BY <2>2, <2>3, <2>4 DEF PromiseInv
<1>6. StrengthStands'
  BY <1>1 DEF ProfileInv, AloneInv, StrengthStands, F!Strength
<1> QED
  BY <1>3, <1>4, <1>5, <1>6 DEF ProfileInv, AloneInv

LEMMA ProfileInit == F!Init => ProfileInv
<1> SUFFICES ASSUME F!Init PROVE ProfileInv
  OBVIOUS
<1>1. /\ entries = {} /\ skills = {} /\ strength = {} /\ resumes = [r \in CVs |-> F!NoResume]
      /\ open = [w \in F!Writers |-> F!Idle] /\ build = "none" /\ edits = 0
      /\ promised = TRUE /\ raced = FALSE
  BY DEF F!Init
<1>2. ProfileTyped
  <2>1. F!NoResume \in Filed
    BY DEF F!NoResume, Filed
  <2>2. resumes \in [CVs -> Filed] /\ open \in [F!Writers -> Txs]
    BY <1>1, <2>1, IdleIs
  <2>3. edits \in 0..MaxRequests
    BY <1>1, ProfileIsGiven DEF F!ProfileAssumption
  <2> QED
    BY <1>1, <2>2, <2>3 DEF ProfileTyped
<1>3. RowsInv
  BY <1>1, IdleIs DEF RowsInv, SourceStands, ConfirmTakesItsOwn, AddTakesNone, InPlay
<1>4. PromiseInv
  <2>1. F!FromEntries(entries) = {}
    BY <1>1 DEF F!FromEntries, F!Replaced
  <2>2. F!FromResume = {}
    BY <1>1 DEF F!FromResume, F!Live, F!NoResume
  <2>3. F!Grouped(F!FromEntries(entries) \cup F!FromResume) = {}
    BY <2>1, <2>2 DEF F!Grouped
  <2> QED
    BY <1>1, <2>3, IdleIs, BuilderIsApart DEF PromiseInv, BuildRuns, WaitsForQueued, PromiseStands
<1>5. AloneInv
  <2>1. AloneKnows
    BY <1>1, IdleIs DEF AloneKnows, AloneIs
  <2>2. F!Cardinality({}) = 0
    <3>1. F!Cardinality({}) = Cardinality({})
      BY Zenon DEF F!Cardinality, F!IsFiniteSet, Cardinality, IsFiniteSet
    <3> QED
      BY <3>1, FS_EmptySet
  <2>3. F!Strength({}, {}) = {}
    BY <2>2, ProfileIsGiven DEF F!Strength, F!ProfileAssumption
  <2> QED
    BY <1>1, <2>1, <2>3 DEF AloneInv, StrengthStands
<1>6. PlacesFit
  BY <1>1, IdleIs, BuilderIsApart DEF PlacesFit
<1> QED
  BY <1>2, <1>3, <1>4, <1>5, <1>6 DEF ProfileInv

LEMMA ProfileStep ==
  ASSUME ProfileInv, [F!Next]_profileVars
  PROVE  ProfileInv'
<1>1. CASE UNCHANGED profileVars
  <2>1. F!Builder' = F!Builder /\ UNCHANGED <<entries, resumes, skills, strength, open, build, edits>>
        /\ UNCHANGED <<promised, raced>>
    BY <1>1 DEF profileVars, F!Builder
  <2>2. ProfileTyped' /\ PlacesFit'
    BY <2>1 DEF ProfileInv, ProfileTyped, PlacesFit
  <2>3. RowsInv'
    <3>1. \A x : InPlay(x)' => InPlay(x)
      BY <2>1 DEF InPlay
    <3> QED
      BY <2>1, <3>1, RowsStand DEF ProfileInv
  <2>4. PromiseInv'
    <3>1. PromiseStands'
      BY <2>1, PromiseSame DEF ProfileInv, PromiseInv
    <3> QED
      BY <2>1, <3>1 DEF ProfileInv, PromiseInv, BuildRuns, WaitsForQueued
  <2>5. AloneInv'
    <3>1. F!Strength(entries, skills)' = F!Strength(entries, skills)
      BY <2>1 DEF F!Strength
    <3>2. ASSUME NEW w \in F!Writers
          PROVE  /\ F!Strength(F!Written(w), skills)' = F!Strength(F!Written(w), skills)
                 /\ F!Strength(entries, F!Rewritten(open[w].got))'
                      = F!Strength(entries, F!Rewritten(open[w].got))
      BY <2>1 DEF F!Strength, F!Written, F!Rewritten, F!Grouped
    <3>3. ASSUME NEW w \in F!Writers
          PROVE  AloneIs(w)'
      <4>1. AloneIs(w)
        BY DEF ProfileInv, AloneInv, AloneKnows
      <4> QED
        BY <2>1, <3>2, <4>1 DEF AloneIs
    <3> QED
      BY <2>1, <3>1, <3>3 DEF ProfileInv, AloneInv, AloneKnows, StrengthStands
  <2> QED
    BY <2>2, <2>3, <2>4, <2>5 DEF ProfileInv
<1>2. ASSUME NEW q \in Editors,
             F!Asked(q) \/ F!Recomputes(q) \/ F!Queues(q) \/ F!Commits(q) \/ F!RequestFails(q)
      PROVE  ProfileInv'
  BY <1>2, AskedKeeps, RecomputesKeeps, QueuesKeeps, CommitsKeeps, RequestFailsKeeps
<1>3. ASSUME NEW r \in CVs,
             F!Uploads(r) \/ F!Extracts(r) \/ F!Reprocesses(r) \/ F!MakesPrimary(r)
               \/ F!DeletesResume(r)
      PROVE  ProfileInv'
  BY <1>3, ResumeStepKeeps
<1>4. CASE F!Rebuild
  BY <1>4, RebuildKeeps
<1>5. CASE F!BuildStarts
  BY <1>5, BuildStartsKeeps
<1>6. CASE F!BuildLooks
  BY <1>6, BuildLooksKeeps
<1>7. CASE F!BuildWrites
  BY <1>7, BuildWritesKeeps
<1>8. CASE F!BuildCommits
  BY <1>8, BuildCommitsKeeps
<1>9. CASE F!BuildFails
  BY <1>9, BuildFailsKeeps
<1> QED
  BY <1>1, <1>2, <1>3, <1>4, <1>5, <1>6, <1>7, <1>8, <1>9 DEF F!Next

(* Once nothing is under way: if the last change queued a build that was not *)
(* given up, the mapped skills and their evidence are those of the rows, as  *)
(* the build has read the entries and the primary resume (builder.py,        *)
(* worker/tasks/profile.py); if who wrote strength last was alone, it had    *)
(* loaded what was stored, and strength is that of the rows (strength.py).   *)
(* A change that queues no build is excepted: of a resume's own entries, or  *)
(* of which resume is primary.                                               *)
THEOREM ProfileIsSettled == ServicesSpec => []ProfileSettles
<1> DEFINE I == part = "profile" => ProfileInv
<1>1. ServicesInit => I
  BY ProfileInit DEF ServicesInit
<1>2. I /\ [ServicesNext]_servicesVars => I'
  BY OnePartMoves, ProfileStep
<1>3. I => ProfileSettles
  <2> SUFFICES ASSUME ProfileInv PROVE F!ProfileSettles
    BY DEF ProfileSettles
  <2> QED
    BY DEF ProfileInv, PromiseInv, PromiseStands, AloneInv, StrengthStands, F!ProfileSettles, F!Quiet
<1> QED
  BY <1>1, <1>2, <1>3, PTL DEF ServicesSpec, servicesVars

RowsKept ==
  \A e \in entries : e.source = "user" /\ e \notin entries' =>
    \E q \in Editors : open[q].op \in {"update", "delete"} /\ e.id \in open[q].gone

(* What a person wrote goes only by the request that names it: the rows a    *)
(* confirmation takes are those that came from a resume, and no later row    *)
(* was given the id of one (profile/service.py, resume/service.py).          *)
THEOREM UserRowsAreKept == ServicesSpec => UserRowsStand
<1> DEFINE I == part = "profile" => ProfileInv
<1>1. ServicesInit => I
  BY ProfileInit DEF ServicesInit
<1>2. I /\ [ServicesNext]_servicesVars => I'
  BY OnePartMoves, ProfileStep
<1>3. I /\ [ServicesNext]_servicesVars => [RowsKept]_(F!pVars)
  <2> SUFFICES ASSUME I, [ServicesNext]_servicesVars, NEW e \in entries, e.source = "user",
                      e \notin entries'
               PROVE  \E q \in Editors : open[q].op \in {"update", "delete"} /\ e.id \in open[q].gone
    BY DEF RowsKept
  <2>1. ProfileInv /\ F!Next
    <3>1. part = "profile" /\ entries' # entries
      BY OnePartMoves DEF profileVars
    <3> QED
      BY <3>1, OnePartMoves DEF profileVars
  <2>2. PICK q \in Editors : F!Commits(q)
    BY <2>1 DEF F!Next, F!Asked, F!AddItem, F!UpdateItem, F!DeleteItem, F!Confirm, F!Opens,
                F!Recomputes, F!Queues, F!RequestFails, F!Uploads, F!Extracts, F!Reprocesses,
                F!MakesPrimary, F!DeletesResume, F!SetsResume, F!Rebuild, F!BuildStarts,
                F!BuildLooks, F!BuildWrites, F!BuildCommits, F!BuildFails
  <2>3. e.id \in open[q].gone
    BY <2>2 DEF F!Commits, F!Written
  <2>4. q \in F!Writers /\ InPlay(e) /\ open[q] \in Txs
    BY <2>1, BuilderIsApart DEF InPlay, ProfileInv, ProfileTyped
  <2>5. open[q].op \notin {"none", "add", "confirm"}
    BY <2>1, <2>3, <2>4 DEF ProfileInv, RowsInv, ConfirmTakesItsOwn, AddTakesNone
  <2> QED
    BY <2>3, <2>4, <2>5 DEF Txs
<1> HIDE DEF I
<1> QED
  BY <1>1, <1>2, <1>3, PTL DEF ServicesSpec, servicesVars, UserRowsStand, F!UserRowsStand, RowsKept

-----------------------------------------------------------------------------
(* The types of all parts.                                                   *)

ColumnsFit == columns \in {Dim[m] : m \in Models}

LEMMA ColumnsStayFit ==
  ASSUME CatalogueInv, ColumnsFit, [K!Next]_catalogueVars
  PROVE  ColumnsFit'
<1>1. CASE UNCHANGED columns
  BY <1>1 DEF ColumnsFit
<1>2. ASSUME NEW p \in Processes, K!ResizeVectorColumns(p)
      PROVE  ColumnsFit'
  <2>1. proc[p].model \in Models
    BY <1>2 DEF CatalogueInv, CatalogueTyped, K!ResizeVectorColumns, K!Doing
  <2> QED
    BY <1>2, <2>1 DEF ColumnsFit, K!ResizeVectorColumns
<1>3. (\E p \in Processes : K!ResizeVectorColumns(p)) \/ UNCHANGED columns
  <2>1. UNCHANGED catalogueVars => UNCHANGED columns
    BY DEF catalogueVars
  <2>2. ASSUME NEW p \in Processes,
               \/ K!SeedAllIfEmpty(p) \/ K!SeedAll(p) \/ K!IngestJob(p) \/ K!Reembed(p) \/ K!Dies(p)
               \/ K!SeedSkills(p) \/ K!SeedJobsResolves(p) \/ K!SeedJobs(p) \/ K!SeedLearning(p)
               \/ K!PostingIngested(p)
               \/ K!ReembedSkills(p) \/ K!ReembedLearning(p) \/ K!ReembedChunks(p)
        PROVE  UNCHANGED columns
    BY <2>2 DEF K!SeedAllIfEmpty, K!SeedAll, K!IngestJob, K!Reembed, K!Dies, K!SeedSkills,
       K!SeedJobsResolves, K!SeedJobs, K!SeedLearning, K!PostingIngested, K!ReembedSkills,
       K!ReembedLearning, K!ReembedChunks, K!Runs
  <2>3. ASSUME NEW m \in Models, K!Deploy(m)
        PROVE  UNCHANGED columns
    BY <2>3 DEF K!Deploy
  <2> QED
    BY <2>1, <2>2, <2>3 DEF K!Next
<1> QED
  BY <1>1, <1>2, <1>3

LEMMA RoadmapTypes1 == TP1!L!TypeOK => L1!TypeOK
BY Zenon DEF L1!TypeOK, TP1!L!TypeOK, L1!NoRoadmap, TP1!L!NoRoadmap, L1!MilestoneStatuses,
   TP1!L!MilestoneStatuses, L1!Crossings, TP1!L!Crossings

LEMMA RoadmapTypes2 == TP2!L!TypeOK => L2!TypeOK
BY Zenon DEF L2!TypeOK, TP2!L!TypeOK, L2!NoRoadmap, TP2!L!NoRoadmap, L2!MilestoneStatuses,
   TP2!L!MilestoneStatuses, L2!Crossings, TP2!L!Crossings

LEMMA RoadmapTypes3 == TP3!L!TypeOK => L3!TypeOK
BY Zenon DEF L3!TypeOK, TP3!L!TypeOK, L3!NoRoadmap, TP3!L!NoRoadmap, L3!MilestoneStatuses,
   TP3!L!MilestoneStatuses, L3!Crossings, TP3!L!Crossings

LEMMA TrackerTypes1 == TP1!TypeOK => T1!TypeOK
BY Zenon DEF T1!TypeOK, TP1!TypeOK, T1!UserSettable, TP1!UserSettable

LEMMA TrackerTypes2 == TP2!TypeOK => T2!TypeOK
BY Zenon DEF T2!TypeOK, TP2!TypeOK, T2!UserSettable, TP2!UserSettable

LEMMA ProfileTypes == ProfileTyped => F!TypeOK
<1> SUFFICES ASSUME ProfileTyped PROVE F!TypeOK
  OBVIOUS
<1>1. \A e \in entries : /\ e.id \in 1..MaxEntries /\ e.tech \subseteq KnownSkills
                         /\ e.source \in {"user", "resume_extraction"}
  BY DEF ProfileTyped, Entries, Ids
<1>2. \A r \in CVs : resumes[r].status \in {"absent", "uploaded", "extracted", "deleted"}
  BY DEF ProfileTyped, Filed
<1>3. \A k \in skills : k.skill \in KnownSkills /\ k.refs \subseteq (1..MaxEntries) \cup CVs
  BY DEF ProfileTyped, Mapped, Ids
<1> QED
  BY <1>1, <1>2, <1>3 DEF ProfileTyped, F!TypeOK, Checks

LEMMA CatalogueTypes == CatalogueInv /\ ColumnsFit => K!TypeOK
BY DEF CatalogueInv, CatalogueTyped, ColumnsFit, ProcRows, K!TypeOK

TypesInv ==
  /\ part = "posting" => PostingInv
  /\ part = "score" => ScoreInv
  /\ part = "profile" => ProfileInv
  /\ part = "catalogue" => CatalogueInv /\ ColumnsFit
  /\ RoadmapsInv /\ TrackersInv

(* What each part keeps has the types of its module, for every value of the  *)
(* constants (the columns of JobIngest, MatchScoring, Roadmap, Profile,      *)
(* Tracker and Catalogue).                                                   *)
THEOREM TypesAreKept == ServicesSpec => []TypeOK
<1>1. ServicesInit => TypesInv
  <2> SUFFICES ASSUME ServicesInit PROVE TypesInv
    OBVIOUS
  <2>1. part = "catalogue" => CatalogueInv /\ ColumnsFit
    <3> SUFFICES ASSUME part = "catalogue" PROVE CatalogueInv /\ ColumnsFit
      OBVIOUS
    <3>1. K!Init
      BY DEF ServicesInit
    <3> QED
      BY <3>1, CatalogueInit DEF K!Init, ColumnsFit
  <2>2. /\ part = "posting" => PostingInv
        /\ part = "score" => ScoreInv
        /\ part = "profile" => ProfileInv
    BY PostingInit, ScoreInit, ProfileInit DEF ServicesInit
  <2> QED
    BY <2>1, <2>2, RoadmapsInit, TrackersInit DEF TypesInv
<1>2. TypesInv /\ [ServicesNext]_servicesVars => TypesInv'
  <2> SUFFICES ASSUME TypesInv, [ServicesNext]_servicesVars PROVE TypesInv'
    OBVIOUS
  <2>1. part' = part
    BY OnePartMoves
  <2>2. part = "posting" => PostingInv'
    BY OnePartMoves, PostingStep DEF TypesInv
  <2>3. part = "score" => ScoreInv'
    BY OnePartMoves, ScoreStep DEF TypesInv
  <2>4. part = "profile" => ProfileInv'
    BY OnePartMoves, ProfileStep DEF TypesInv
  <2>5. part = "catalogue" => CatalogueInv' /\ ColumnsFit'
    BY OnePartMoves, CatalogueStep, ColumnsStayFit DEF TypesInv
  <2>6. RoadmapsInv' /\ TrackersInv'
    BY RoadmapsStep, TrackersStep DEF TypesInv
  <2> QED
    BY <2>1, <2>2, <2>3, <2>4, <2>5, <2>6 DEF TypesInv
<1>3. TypesInv => TypeOK
  <2> SUFFICES ASSUME TypesInv PROVE TypeOK
    OBVIOUS
  <2>1. /\ part = "posting" => P!TypeOK
        /\ part = "score" => M!TypeOK
        /\ part = "profile" => F!TypeOK
        /\ part = "catalogue" => K!TypeOK
    BY ProfileTypes, CatalogueTypes DEF TypesInv, PostingInv, ScoreInv, ProfileInv
  <2>2. part = "roadmap1" => L1!TypeOK
    BY RoadmapsAreGiven, SameRoadmap1, RoadmapTypes1, TP1!PlanInvIsTyped DEF TypesInv, RoadmapsInv
  <2>3. part = "roadmap2" => L2!TypeOK
    BY RoadmapsAreGiven, SameRoadmap2, RoadmapTypes2, TP2!PlanInvIsTyped DEF TypesInv, RoadmapsInv
  <2>4. part = "roadmap3" => L3!TypeOK
    BY RoadmapsAreGiven, SameRoadmap3, RoadmapTypes3, TP3!PlanInvIsTyped DEF TypesInv, RoadmapsInv
  <2>5. part = "tracker1" => T1!TypeOK
    BY TrackerTypes1, TP1!IInvIsTyped DEF TypesInv, TrackersInv, TP1!LimitInv
  <2>6. part = "tracker2" => T2!TypeOK
    BY TrackerTypes2, TP2!IInvIsTyped DEF TypesInv, TrackersInv, TP2!LimitInv
  <2> QED
    BY <2>1, <2>2, <2>3, <2>4, <2>5, <2>6 DEF TypeOK
<1> QED
  BY <1>1, <1>2, <1>3, PTL DEF ServicesSpec, servicesVars
=============================================================================
