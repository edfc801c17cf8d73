----------------------------- MODULE DeliverOnce -----------------------------
(***************************************************************************)
(* What sending promises, in the words of the docstring of                 *)
(* domain/applications/sending.py: one attempt at a time, an attempt is    *)
(* never repeated automatically, an interrupted one becomes "failed" and   *)
(* only a person's new request tries again, and "sent" is final.           *)
(***************************************************************************)


CONSTANTS Auto, Humans    \* the agent's attempt, the requests of a person

Attempts == Humans \cup {Auto}

VARIABLES
  box,     \* "draft", "sending", "sent" or "failed"
  flight,  \* the attempts in contact with the mail server
  used     \* the attempts that were ever started

abstractVars == <<box, flight, used>>

AbstractInit == box = "draft" /\ flight = {} /\ used = {}

(* The automatic attempt, once and before any person's. *)
AttemptAuto ==
  /\ box = "draft" /\ used = {}
  /\ box' = "sending" /\ flight' = {Auto} /\ used' = {Auto}

(* A person's request, once each, and only after a recorded failure. *)
AttemptHuman(h) ==
  /\ box = "failed" /\ flight = {} /\ h \notin used
  /\ box' = "sending" /\ flight' = {h} /\ used' = used \cup {h}

(* The attempt's outcome is recorded. *)
Record(a) ==
  /\ box = "sending" /\ flight = {a}
  /\ box' \in {"sent", "failed"} /\ flight' = {} /\ UNCHANGED used

(* The attempt is interrupted: what became of it is unknown. *)
Interrupt(a) ==
  /\ box = "sending" /\ flight = {a}
  /\ flight' = {} /\ UNCHANGED <<box, used>>

(* Nobody repeats an interrupted attempt; it is written off. *)
WriteOff ==
  /\ box = "sending" /\ flight = {}
  /\ box' = "failed" /\ UNCHANGED <<flight, used>>

(* No attempt was made: a cap was reached. *)
Refuse ==
  /\ box = "draft"
  /\ box' = "failed" /\ UNCHANGED <<flight, used>>

AbstractNext ==
  \/ AttemptAuto \/ WriteOff \/ Refuse
  \/ \E h \in Humans : AttemptHuman(h)
  \/ \E a \in Attempts : Record(a) \/ Interrupt(a)

AbstractSpec == AbstractInit /\ [][AbstractNext]_abstractVars
=============================================================================
