------------------------------- MODULE MCAgents -------------------------------
(* The runs of a chat session (AgentSession) and one run in the depth of its *)
(* graph (AgentRun), each on its own: `part' says which of the two moves.    *)
EXTENDS AgentSession, TLC

CONSTANTS p1, p2,
          Goals, MaxSteps, MaxLlmCalls, MaxTries, MayStop  \* AgentRun's

VARIABLES part,
          goal, status, stop, late, asked, email, saved, worker, held, said, delivered

MCPosters   == {p1, p2}
MCOnePoster == {p1}
Symmetry    == Permutations(MCPosters)

R == INSTANCE AgentRun WITH
       session <- status, approval <- asked, job <- worker, mem <- held

ASSUME RunAssumption == R!GoalsAssumption /\ R!CapsAssumption

runVars == <<goal, status, stop, late, asked, email, saved, worker, held, said, delivered>>

AgentsInit == Init /\ R!Init /\ part \in {"session", "run"}

AgentsNext ==
  \/ part = "session" /\ Next /\ UNCHANGED <<runVars, part>>
  \/ part = "run" /\ R!Next /\ UNCHANGED <<vars, part>>

AgentsSpec == AgentsInit /\ [][AgentsNext]_<<part, vars, runVars>>

(* Where the caps are out of reach the counters of a run change nothing:     *)
(* states that differ only in them have the same futures.                   *)
Uncounted(st) == <<st.status, st.application, st.stop>>
WithoutCounters ==
  IF part = "session" THEN <<part, vars>>
  ELSE <<part, goal, late, status, stop, asked, email, said, saved.at, Uncounted(saved.st),
         worker, delivered,
         [j \in R!Kinds |-> <<held[j].at, Uncounted(held[j].st), held[j].saw, held[j].answer,
                              held[j].seen, held[j].new, held[j].mail, held[j].note>>]>>

(* A run sends only what its own approval allows, leaves no two approvals    *)
(* open, and its session says it awaits one only if there is one to decide:  *)
(* retries of run_agent beside the decision's job included.                  *)
RunIsApproved ==
  R!TypeOK /\ R!OwnApproval /\ R!OnePendingApproval /\ R!AwaitingIsDecidable

(* A run that ends "completed", or says it sent, was taken by the server.    *)
CompletedWasDelivered == R!CompletedWasDelivered
=============================================================================
