------------------------------- MODULE Tracker -------------------------------
(***************************************************************************)
(* A person's application tracker beside the sending of their applications: *)
(* api/v1/applications.py and domain/applications/service.py, and of        *)
(* domain/applications/sending.py what several applications share: the      *)
(* daily caps, the message that is composed and the row of the tracker.     *)
(* (ApprovalSend has one application's attempts in full; here an attempt    *)
(* that is refused before its checks is left out.)                          *)
(*                                                                         *)
(* Objects keep the values they were loaded with (expire_on_commit=False):  *)
(* a status that is set to what was loaded is not written.                  *)
(***************************************************************************)
EXTENDS Naturals, FiniteSets

CONSTANTS Apps,       \* applications of the person
          Attempts,   \* attempts to send: the agent's jobs and the person's retries
          Clients,    \* PATCH and DELETE requests
          UserLimit, TotalLimit,  \* emails a day
          MaxOthers,  \* bound: emails other people send in a day
          Moves,      \* bound: the statuses that requests set
          Applicant, Contact      \* mailboxes

TrackerAssumption ==
  /\ IsFiniteSet(Apps) /\ IsFiniteSet(Attempts) /\ UserLimit \in Nat /\ TotalLimit \in Nat /\ MaxOthers \in Nat
  /\ Applicant # Contact

VARIABLES
  delivery,  \* settings.email_delivery
  row,       \* applications: status, who dated it, deleted
  mail,      \* application_emails: status, sent today, addresses it reached
  last,      \* the newest status_change event of each application
  attempt,   \* place, application, the status it loaded
  client,    \* place, application, the row it loaded
  others,    \* emails others sent today
  crossed    \* history: two attempts, or a request and another's commit, overlapped

tVars == <<delivery, row, mail, last, attempt, client, others, crossed>>

NotSent == [status |-> "none", today |-> FALSE, to |-> {}, told |-> {}]
OffAttempt == [at |-> "off", app |-> "none", seen |-> "none"]
NewClient == [at |-> "new"]

Init ==
  /\ delivery \in {"redirect", "live"}
  /\ row = [a \in Apps |-> [status |-> "absent", dated |-> "never", deleted |-> FALSE]]
  /\ mail = [a \in Apps |-> NotSent] /\ last = [a \in Apps |-> "none"]
  /\ attempt = [t \in Attempts |-> OffAttempt]
  /\ client = [c \in Clients |-> NewClient]
  /\ others = 0 /\ crossed = FALSE

-----------------------------------------------------------------------------
(* The tracker.                                                             *)

(* POST /applications: saved at once, or prepared by the agent up to the     *)
(* approval of its email.                                                    *)
Saved(a) ==
  /\ row[a].status = "absent"
  /\ row' = [row EXCEPT ![a].status = "saved"] /\ last' = [last EXCEPT ![a] = "saved"]
  /\ UNCHANGED <<delivery, mail, attempt, client, others, crossed>>

Prepared(a) ==
  /\ row[a].status = "absent"
  /\ row' = [row EXCEPT ![a].status = "awaiting_approval"]
  /\ mail' = [mail EXCEPT ![a].status = "draft"]
  /\ UNCHANGED <<delivery, last, attempt, client, others, crossed>>

UserSettable == Moves \cap {"saved", "applied", "interview", "offer", "rejected", "withdrawn"}
Loaded(a) == row[a].status # "absent" /\ ~row[a].deleted

RequestLoads(c, a) ==
  /\ client[c].at = "new" /\ Loaded(a)
  /\ client' = [client EXCEPT ![c] = [at |-> "loaded", app |-> a, seen |-> row[a]]]
  /\ UNCHANGED <<delivery, row, mail, last, attempt, others, crossed>>

\* mutant: every move to "applied" dates the application
DatedAlways(c, status) == IF status = "applied" THEN "person" ELSE row[client[c].app].dated
Dated(c, status) ==
  IF status = "applied" /\ client[c].seen.dated = "never" THEN "person"
  ELSE row[client[c].app].dated

Overtaken(c) == row[client[c].app] # client[c].seen

(* patch: nothing to do when the status is the one that was loaded. *)
Patched(c, status) ==
  /\ client[c].at = "loaded" /\ status # client[c].seen.status
  /\ LET a == client[c].app IN
     /\ row' = [row EXCEPT ![a].status = status, ![a].dated = Dated(c, status)]
     /\ last' = [last EXCEPT ![a] = status]
  /\ client' = [client EXCEPT ![c] = NewClient] /\ crossed' = (crossed \/ Overtaken(c))
  /\ UNCHANGED <<delivery, mail, attempt, others>>

(* Refused, a note, or the same status; the row is as it was. *)
LeftAlone(c) ==
  /\ client[c].at = "loaded" /\ client' = [client EXCEPT ![c] = NewClient]
  /\ UNCHANGED <<delivery, row, mail, last, attempt, others, crossed>>

SoftDeleted(c) ==
  /\ client[c].at = "loaded"
  /\ row' = [row EXCEPT ![client[c].app].deleted = TRUE]
  /\ client' = [client EXCEPT ![c] = NewClient]
  /\ UNCHANGED <<delivery, mail, last, attempt, others, crossed>>

-----------------------------------------------------------------------------
(* Sending.                                                                 *)

(* The agent sends what was approved, whatever became of the row since; a    *)
(* retry asks for a row that is not deleted and an email that failed.        *)
Begins(t, a) ==
  /\ attempt[t].at = "off"
  /\ \/ mail[a].status = "draft"
     \/ mail[a].status = "failed" /\ Loaded(a)
  /\ attempt' = [attempt EXCEPT ![t] = [at |-> "begun", app |-> a, seen |-> row[a].status]]
  /\ crossed' = (crossed \/ \E u \in Attempts : attempt[u].at # "off")
  /\ UNCHANGED <<delivery, row, mail, last, client, others>>

SentToday == Cardinality({a \in Apps : mail[a].status = "sent" /\ mail[a].today})

\* mutant: the cap is one too late
CappedLate == SentToday > UserLimit \/ SentToday + others > TotalLimit
Capped == SentToday >= UserLimit \/ SentToday + others >= TotalLimit

Ends(t) == attempt' = [attempt EXCEPT ![t] = OffAttempt]

(* _fail writes the email's status whatever it is by now. *)
CapRefuses(t) ==
  /\ attempt[t].at = "begun" /\ Capped
  /\ mail' = [mail EXCEPT ![attempt[t].app].status = "failed"] /\ Ends(t)
  /\ UNCHANGED <<delivery, row, last, client, others, crossed>>

CapAllows(t) ==
  /\ attempt[t].at = "begun" /\ ~Capped /\ attempt' = [attempt EXCEPT ![t].at = "allowed"]
  /\ UNCHANGED <<delivery, row, mail, last, client, others, crossed>>

Claims(t) ==
  /\ attempt[t].at = "allowed"
  /\ IF mail[attempt[t].app].status \in {"sending", "sent"}
     THEN Ends(t) /\ UNCHANGED mail
     ELSE /\ attempt' = [attempt EXCEPT ![t].at = "claimed"]
          /\ mail' = [mail EXCEPT ![attempt[t].app].status = "sending"]
  /\ UNCHANGED <<delivery, row, last, client, others, crossed>>

(* compose_message: to whom, with a blind copy to the applicant. *)
Composed == IF delivery = "redirect" THEN {Applicant} ELSE {Contact, Applicant}
DeliveredTo == IF delivery = "redirect" THEN Applicant ELSE Contact

(* The console sender reaches nobody. *)
Delivers(t) ==
  /\ attempt[t].at = "claimed"
  /\ LET a == attempt[t].app IN
     /\ \E smtp \in BOOLEAN :
          mail' = [mail EXCEPT ![a] =
                     [status |-> "sent", today |-> TRUE, to |-> IF smtp THEN Composed ELSE {},
                      told |-> IF smtp THEN {DeliveredTo} ELSE {}]]
     /\ row' = [row EXCEPT ![a].dated = "send",
                  ![a].status = IF attempt[t].seen = "applied" THEN @ ELSE "applied"]
  /\ Ends(t) /\ UNCHANGED <<delivery, last, client, others, crossed>>

DeliveryFails(t) ==
  /\ attempt[t].at = "claimed"
  /\ mail' = [mail EXCEPT ![attempt[t].app].status = "failed"] /\ Ends(t)
  /\ UNCHANGED <<delivery, row, last, client, others, crossed>>

-----------------------------------------------------------------------------
OthersSend ==
  /\ others < MaxOthers /\ SentToday + others < TotalLimit /\ others' = others + 1
  /\ crossed' = (crossed \/ \E t \in Attempts : attempt[t].at # "off")
  /\ UNCHANGED <<delivery, row, mail, last, attempt, client>>

(* UTC midnight. *)
NewDay ==
  /\ SentToday + others > 0
  /\ others' = 0 /\ mail' = [a \in Apps |-> [mail[a] EXCEPT !.today = FALSE]]
  /\ UNCHANGED <<delivery, row, last, attempt, client, crossed>>

Next ==
  \/ \E a \in Apps : Saved(a) \/ Prepared(a) \/ \E t \in Attempts : Begins(t, a)
  \/ \E c \in Clients :
       \/ \E a \in Apps : RequestLoads(c, a)
       \/ \E status \in UserSettable : Patched(c, status)
       \/ LeftAlone(c) \/ SoftDeleted(c)
  \/ \E t \in Attempts :
       CapRefuses(t) \/ CapAllows(t) \/ Claims(t) \/ Delivers(t) \/ DeliveryFails(t)
  \/ OthersSend \/ NewDay

Spec == Init /\ [][Next]_tVars

-----------------------------------------------------------------------------
TypeOK ==
  /\ delivery \in {"redirect", "live"} /\ others \in 0..MaxOthers /\ crossed \in BOOLEAN
  /\ row \in [Apps -> [status : UserSettable \cup
                                 {"absent", "saved", "awaiting_approval", "applied"},
                       dated : {"never", "person", "send"}, deleted : BOOLEAN]]
  /\ mail \in [Apps -> [status : {"none", "draft", "sending", "sent", "failed"}, today : BOOLEAN,
                        to : SUBSET {Applicant, Contact}, told : SUBSET {Applicant, Contact}]]
  /\ \A t \in Attempts : attempt[t].at = "claimed" => mail[attempt[t].app].status # "draft"

(* One at a time, attempts keep to the person's and everybody's daily cap,    *)
(* over retries, failures and days, and those that overlap exceed the        *)
(* person's by less than their number; in redirect mode nothing ever reaches *)
(* the contact, and the address the delivery page shows is one that was      *)
(* reached (_sent_today, compose_message, _delivery_out).                    *)
MailStaysWithinLimits ==
  /\ ~crossed => SentToday <= UserLimit /\ SentToday + others <= TotalLimit
  /\ SentToday > 0 => SentToday < UserLimit + Cardinality(Attempts)
  /\ \A a \in Apps :
       /\ delivery = "redirect" => Contact \notin mail[a].to
       /\ mail[a].told \subseteq mail[a].to

(* The date of an application is never taken away, and the one its send gave  *)
(* it stands whatever the person moves it to and back, unless the send came   *)
(* between a request's read and its write; and the history tells the status,  *)
(* unless a send or the agent set it (ApplicationService.patch).              *)
AppliedDateStands ==
  [][\A a \in Apps :
       /\ row[a].dated # "never" => row'[a].dated # "never"
       /\ row[a].dated = "send" /\ ~crossed' => row'[a].dated = "send"
       /\ \/ row'[a].status \in {"absent", "awaiting_approval", last'[a]}
          \/ row'[a].dated = "send"]_tVars
=============================================================================
