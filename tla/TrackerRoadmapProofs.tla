------------------------- MODULE TrackerRoadmapProofs -------------------------
(***************************************************************************)
(* Proofs about the two plans a person follows.  Tracker, for any number of *)
(* applications, attempts to send them and requests, and any daily limits:  *)
(* a send that was allowed has room for its mail as long as nobody overlaps  *)
(* it.  Roadmap, for any roadmaps, skills, tries of a plan, requests and     *)
(* rebuilds: a run of a plan writes its milestones once, and a row of the    *)
(* aggregate gaps that says it was addressed keeps its milestone.           *)
(***************************************************************************)
EXTENDS Tracker, FiniteSetTheorems, TLAPS

CONSTANTS Roadmaps, Skills, MaxMilestones, PlanTries, Patchers, Rebuilds  \* Roadmap's
VARIABLES rec, rOld, milestones, agg, plan, planner, patch, rebuild, planCrossed

L == INSTANCE Roadmap WITH crossed <- planCrossed

-----------------------------------------------------------------------------
(* The tracker.                                                             *)

RowStatuses == UserSettable \cup {"absent", "saved", "awaiting_approval", "applied"}
RowRows     == [status : RowStatuses, dated : {"never", "person", "send"}, deleted : BOOLEAN]
MailRows    == [status : {"none", "draft", "sending", "sent", "failed"}, today : BOOLEAN,
                to : SUBSET {Applicant, Contact}, told : SUBSET {Applicant, Contact}]
AttemptRows == [at : {"off", "begun", "allowed", "claimed"}, app : Apps \cup {"none"},
                seen : RowStatuses \cup {"none"}]
Loads       == [at : {"loaded"}, app : Apps, seen : RowRows]

Typed ==
  /\ delivery \in {"redirect", "live"} /\ others \in 0..MaxOthers /\ crossed \in BOOLEAN
  /\ row \in [Apps -> RowRows] /\ mail \in [Apps -> MailRows]
  /\ attempt \in [Attempts -> AttemptRows]
  /\ \A t \in Attempts : attempt[t].at # "off" => attempt[t].app \in Apps
  /\ client \in [Clients -> {NewClient} \cup Loads] /\ DOMAIN last = Apps

(* A mail is of an application that is there, and what was claimed is no     *)
(* draft any more.                                                          *)
MailHasItsRow == \A a \in Apps : mail[a].status # "none" => row[a].status # "absent"
ClaimedIsBegun ==
  \A t \in Attempts : /\ attempt[t].at = "claimed" => mail[attempt[t].app].status # "draft"
                      /\ attempt[t].at # "off" => mail[attempt[t].app].status # "none"

(* Alone, an attempt that was allowed has room for one mail more. *)
Alone == ~crossed => \A t, u \in Attempts :
                       attempt[t].at # "off" /\ attempt[u].at # "off" => t = u
HasRoom ==
  ~crossed => \A t \in Attempts : attempt[t].at \in {"allowed", "claimed"} =>
                SentToday < UserLimit /\ SentToday + others < TotalLimit
KeepsLimits == ~crossed => SentToday <= UserLimit /\ SentToday + others <= TotalLimit

(* Only a mail that was sent has reached anybody. *)
ReachesWhom(m) == /\ delivery = "redirect" => Contact \notin m.to
                  /\ m.told \subseteq m.to
MailsReach == \A a \in Apps : ReachesWhom(mail[a])

HistoryTells ==
  \A a \in Apps : \/ row[a].status \in {"absent", "awaiting_approval", last[a]}
                  \/ row[a].dated = "send"

(* Who was allowed when there was room: fewer than one mail too many for each *)
(* of the others that may be allowed beside it.                              *)
InFlight == {t \in Attempts : attempt[t].at \in {"allowed", "claimed"}}
Burden   == SentToday + Cardinality(InFlight)
Overshoots == Burden > 0 => Burden < UserLimit + Cardinality(Attempts)

IInv ==
  /\ Typed /\ MailHasItsRow /\ ClaimedIsBegun
  /\ Alone /\ HasRoom /\ KeepsLimits /\ MailsReach /\ HistoryTells

-----------------------------------------------------------------------------
(* The mails of a day.                                                      *)

Sent(m) == {a \in Apps : m[a].status = "sent" /\ m[a].today}

LEMMA SentCounts ==
  ASSUME TrackerAssumption
  PROVE  /\ SentToday \in Nat /\ SentToday' \in Nat
         /\ Sent(mail') \subseteq Sent(mail) => SentToday' <= SentToday
         /\ \A a \in Apps : Sent(mail') \subseteq Sent(mail) \cup {a} =>
                            SentToday' <= SentToday + 1
<1>1. IsFiniteSet(Apps)
  BY DEF TrackerAssumption
<1>2. SentToday = Cardinality(Sent(mail)) /\ SentToday' = Cardinality(Sent(mail'))
  BY DEF SentToday, Sent
<1>3. IsFiniteSet(Sent(mail)) /\ IsFiniteSet(Sent(mail'))
  BY <1>1, FS_Subset DEF Sent
<1>4. SentToday \in Nat /\ SentToday' \in Nat
  BY <1>2, <1>3, FS_CardinalityType
<1>5. ASSUME Sent(mail') \subseteq Sent(mail) PROVE SentToday' <= SentToday
  BY <1>2, <1>3, <1>5, FS_Subset
<1>6. ASSUME NEW a \in Apps, Sent(mail') \subseteq Sent(mail) \cup {a}
      PROVE  SentToday' <= SentToday + 1
  <2>1. /\ IsFiniteSet(Sent(mail) \cup {a})
        /\ Cardinality(Sent(mail) \cup {a}) =
             IF a \in Sent(mail) THEN Cardinality(Sent(mail)) ELSE Cardinality(Sent(mail)) + 1
    BY <1>3, FS_AddElement
  <2>2. Cardinality(Sent(mail')) <= Cardinality(Sent(mail) \cup {a})
    BY <1>6, <2>1, FS_Subset
  <2>3. Cardinality(Sent(mail)) \in Nat /\ Cardinality(Sent(mail')) \in Nat
    BY <1>2, <1>4
  <2> QED
    BY <1>2, <2>1, <2>2, <2>3
<1> QED
  BY <1>4, <1>5, <1>6

LEMMA Numbers ==
  ASSUME TrackerAssumption
  PROVE  UserLimit \in Nat /\ TotalLimit \in Nat /\ MaxOthers \in Nat /\ Applicant # Contact
BY DEF TrackerAssumption

(* A mail's row that changes its status only, and not to "sent". *)
LEMMA MailStatus ==
  ASSUME mail \in [Apps -> MailRows], MailsReach, NEW a \in Apps, UNCHANGED delivery,
         NEW s \in {"draft", "sending", "failed"}, mail' = [mail EXCEPT ![a].status = s]
  PROVE  /\ mail' \in [Apps -> MailRows] /\ mail'[a].status = s
         /\ \A b \in Apps \ {a} : mail'[b] = mail[b]
         /\ Sent(mail') \subseteq Sent(mail) /\ MailsReach'
<1> DEFINE m == [mail[a] EXCEPT !.status = s]
<1>1. /\ m \in MailRows /\ m.status = s /\ m.to = mail[a].to /\ m.told = mail[a].told
  BY DEF MailRows
<1>2. mail' = [mail EXCEPT ![a] = m]
  OBVIOUS
<1> HIDE DEF m
<1> QED
  BY <1>1, <1>2 DEF Sent, MailsReach, ReachesWhom

(* Fewer mails fit where more did. *)
LEMMA FewerFit ==
  ASSUME TrackerAssumption, others \in Nat, others' \in Nat, others' <= others,
         Sent(mail') \subseteq Sent(mail)
  PROVE  /\ SentToday < UserLimit => SentToday' < UserLimit
         /\ SentToday + others < TotalLimit => SentToday' + others' < TotalLimit
         /\ SentToday <= UserLimit => SentToday' <= UserLimit
         /\ SentToday + others <= TotalLimit => SentToday' + others' <= TotalLimit
<1>1. SentToday \in Nat /\ SentToday' \in Nat /\ SentToday' <= SentToday
  BY SentCounts
<1>2. UserLimit \in Nat /\ TotalLimit \in Nat
  BY Numbers
<1>3. SentToday < UserLimit => SentToday' < UserLimit
  BY <1>1, <1>2
<1>4. SentToday <= UserLimit => SentToday' <= UserLimit
  BY <1>1, <1>2
<1>5. ASSUME NEW s \in Nat, NEW n \in Nat, NEW o \in Nat, NEW p \in Nat, NEW l \in Nat,
             n <= s, p <= o
      PROVE  (s + o < l => n + p < l) /\ (s + o <= l => n + p <= l)
  BY <1>5
<1>6. SentToday + others < TotalLimit => SentToday' + others' < TotalLimit
  BY <1>1, <1>2, <1>5
<1>7. SentToday + others <= TotalLimit => SentToday' + others' <= TotalLimit
  BY <1>1, <1>2, <1>5
<1> QED
  BY <1>3, <1>4, <1>6, <1>7

(* While nothing is sent and nobody begins, the limits stand. *)
LEMMA LimitsStand ==
  ASSUME TrackerAssumption, Typed, HasRoom, KeepsLimits, Alone,
         Sent(mail') \subseteq Sent(mail), others' \in Nat, others' <= others,
         crossed' = crossed,
         \A t \in Attempts : /\ attempt'[t].at # "off" => attempt[t].at # "off"
                             /\ attempt'[t].at \in {"allowed", "claimed"} =>
                                  attempt[t].at \in {"allowed", "claimed"}
  PROVE  Alone' /\ HasRoom' /\ KeepsLimits'
<1>1. others \in Nat
  BY Numbers DEF Typed
<1>2. Alone'
  BY DEF Alone
<1>3. HasRoom'
  <2> SUFFICES ASSUME ~crossed', NEW t \in Attempts,
                      attempt'[t].at \in {"allowed", "claimed"}
               PROVE  SentToday' < UserLimit /\ SentToday' + others' < TotalLimit
    BY DEF HasRoom
  <2>1. SentToday < UserLimit /\ SentToday + others < TotalLimit
    BY DEF HasRoom
  <2> QED
    BY <1>1, <2>1, FewerFit
<1>4. KeepsLimits'
  <2> SUFFICES ASSUME ~crossed' PROVE SentToday' <= UserLimit /\ SentToday' + others' <= TotalLimit
    BY DEF KeepsLimits
  <2>1. SentToday <= UserLimit /\ SentToday + others <= TotalLimit
    BY DEF KeepsLimits
  <2> QED
    BY <1>1, <2>1, FewerFit
<1> QED
  BY <1>2, <1>3, <1>4

-----------------------------------------------------------------------------
LEMMA InitInv ==
  ASSUME TrackerAssumption, Init
  PROVE  IInv
<1>1. [status |-> "absent", dated |-> "never", deleted |-> FALSE] \in RowRows
  BY DEF RowRows, RowStatuses
<1>2. NotSent \in MailRows
  BY DEF NotSent, MailRows
<1>3. OffAttempt \in AttemptRows /\ OffAttempt.at = "off"
  BY DEF OffAttempt, AttemptRows
<1>4. Typed
  <2>0. others = 0 /\ 0 \in 0..MaxOthers
    BY Numbers DEF Init
  <2>1. others \in 0..MaxOthers /\ crossed \in BOOLEAN
    BY <2>0 DEF Init
  <2>2. /\ row \in [Apps -> RowRows] /\ mail \in [Apps -> MailRows]
        /\ client \in [Clients -> {NewClient} \cup Loads] /\ DOMAIN last = Apps
    BY <1>1, <1>2 DEF Init
  <2>3. /\ attempt \in [Attempts -> AttemptRows]
        /\ \A t \in Attempts : attempt[t].at = "off"
    BY <1>3 DEF Init
  <2> QED
    BY <2>1, <2>2, <2>3 DEF Init, Typed
<1>5. MailHasItsRow /\ ClaimedIsBegun /\ Alone /\ HasRoom
  BY <1>3 DEF Init, NotSent, MailHasItsRow, ClaimedIsBegun, Alone, HasRoom
<1>6. SentToday = 0
  <2>1. Sent(mail) = {}
    BY DEF Init, NotSent, Sent
  <2> QED
    BY <2>1, FS_EmptySet DEF SentToday, Sent
<1>7. KeepsLimits
  BY <1>6, Numbers DEF Init, KeepsLimits
<1>8. MailsReach /\ HistoryTells
  BY DEF Init, NotSent, MailsReach, ReachesWhom, HistoryTells
<1> QED
  BY <1>4, <1>5, <1>7, <1>8 DEF IInv

-----------------------------------------------------------------------------
(* The tracker: no attempt moves.                                           *)

(* A step that leaves the mails and the attempts alone and is right about    *)
(* the row of one application.                                              *)
LEMMA TrackerStep ==
  ASSUME TrackerAssumption, IInv, UNCHANGED <<delivery, attempt, others>>,
         NEW a \in Apps, row' \in [Apps -> RowRows], DOMAIN last' = Apps,
         \A b \in Apps \ {a} : row'[b] = row[b] /\ last'[b] = last[b],
         mail' = mail, row[a].status # "absent" => row'[a].status # "absent",
         \/ row'[a].status \in {"absent", "awaiting_approval", last'[a]}
         \/ row'[a].dated = "send",
         client' \in [Clients -> {NewClient} \cup Loads],
         crossed' \in BOOLEAN, crossed => crossed'
  PROVE  IInv'
<1>1. Typed'
  BY DEF IInv, Typed
<1>2. MailHasItsRow' /\ ClaimedIsBegun' /\ MailsReach' /\ HistoryTells'
  BY DEF IInv, MailHasItsRow, ClaimedIsBegun, MailsReach, ReachesWhom, HistoryTells
<1>3. SentToday' = SentToday
  BY DEF SentToday
<1>4. Alone' /\ HasRoom' /\ KeepsLimits'
  BY <1>3 DEF IInv, Alone, HasRoom, KeepsLimits
<1> QED
  BY <1>1, <1>2, <1>4 DEF IInv

(* A row whose status is set stays a row. *)
LEMMA RowStatus ==
  ASSUME NEW r \in RowRows, NEW s \in RowStatuses
  PROVE  /\ [r EXCEPT !.status = s] \in RowRows /\ [r EXCEPT !.status = s].status = s
         /\ [r EXCEPT !.status = s].dated = r.dated
         /\ [r EXCEPT !.deleted = TRUE] \in RowRows
         /\ [r EXCEPT !.deleted = TRUE].status = r.status
         /\ [r EXCEPT !.deleted = TRUE].dated = r.dated
BY DEF RowRows

LEMMA RowDated ==
  ASSUME NEW r \in RowRows, NEW d \in {"never", "person", "send"}
  PROVE  /\ [r EXCEPT !.dated = d] \in RowRows
         /\ [r EXCEPT !.dated = d].status = r.status
         /\ [r EXCEPT !.dated = d].dated = d
BY DEF RowRows

LEMMA SavedHolds ==
  ASSUME TrackerAssumption, IInv, NEW a \in Apps, Saved(a)
  PROVE  IInv'
<1> DEFINE r == [row[a] EXCEPT !.status = "saved"]
<1>1. row \in [Apps -> RowRows] /\ row[a] \in RowRows /\ "saved" \in RowStatuses
  <2>1. row \in [Apps -> RowRows]
    BY DEF IInv, Typed
  <2> QED
    BY <2>1 DEF RowStatuses
<1>2. r \in RowRows /\ r.status = "saved"
  BY <1>1, RowStatus
<1>3. row' = [row EXCEPT ![a] = r] /\ last' = [last EXCEPT ![a] = "saved"]
  BY DEF Saved
<1> HIDE DEF r
<1> QED
  BY <1>1, <1>2, <1>3, TrackerStep DEF Saved, IInv, Typed

(* What a request loaded is the row of an application. *)
LEMMA Request ==
  ASSUME Typed, NEW c \in Clients, client[c].at = "loaded"
  PROVE  client[c].app \in Apps /\ client[c].seen \in RowRows
BY DEF Typed, NewClient, Loads

LEMMA RequestLoadsHolds ==
  ASSUME TrackerAssumption, IInv, NEW c \in Clients, NEW a \in Apps, RequestLoads(c, a)
  PROVE  IInv'
<1>1. [at |-> "loaded", app |-> a, seen |-> row[a]] \in Loads
  BY DEF IInv, Typed, Loads
<1>2. client' \in [Clients -> {NewClient} \cup Loads]
  BY <1>1 DEF RequestLoads, IInv, Typed
<1> QED
  BY <1>2, TrackerStep DEF RequestLoads, IInv, Typed, HistoryTells

LEMMA PatchedHolds ==
  ASSUME TrackerAssumption, IInv, NEW c \in Clients, NEW s \in UserSettable, Patched(c, s)
  PROVE  IInv'
<1> DEFINE a == client[c].app
           d == Dated(c, s)
           q == [row[a] EXCEPT !.status = s]
           r == [q EXCEPT !.dated = d]
<1>1. a \in Apps /\ row[a] \in RowRows /\ s \in RowStatuses /\ row \in [Apps -> RowRows]
  BY Request DEF Patched, IInv, Typed, RowStatuses
<1>2. d \in {"never", "person", "send"}
  <2>1. row[a].dated \in {"never", "person", "send"}
    BY <1>1 DEF RowRows
  <2> QED
    BY <2>1 DEF Dated
<1>3. r \in RowRows /\ r.status = s
  <2> HIDE DEF d
  <2>1. q \in RowRows /\ q.status = s
    BY <1>1, RowStatus
  <2> HIDE DEF q
  <2> QED
    BY <1>2, <2>1, RowDated
<1>4. row' = [row EXCEPT ![a] = r] /\ last' = [last EXCEPT ![a] = s]
  BY <1>1 DEF Patched, Dated
<1>5. client' \in [Clients -> {NewClient} \cup Loads] /\ crossed' \in BOOLEAN
  BY DEF Patched, Overtaken, IInv, Typed
<1>6. s # "absent"
  BY DEF UserSettable
<1> HIDE DEF r, d
<1>7. /\ row' \in [Apps -> RowRows] /\ DOMAIN last' = Apps
      /\ row'[a].status = s /\ last'[a] = s
      /\ \A b \in Apps \ {a} : row'[b] = row[b] /\ last'[b] = last[b]
  <2>1. DOMAIN last = Apps
    BY DEF IInv, Typed
  <2> HIDE DEF a
  <2> QED
    BY <1>1, <1>3, <1>4, <2>1
<1>8. UNCHANGED <<delivery, attempt, others, mail>> /\ (crossed => crossed')
  BY DEF Patched
<1> HIDE DEF a
<1> QED
  BY <1>1, <1>5, <1>6, <1>7, <1>8, TrackerStep

LEMMA LeftAloneHolds ==
  ASSUME TrackerAssumption, IInv, NEW c \in Clients, LeftAlone(c)
  PROVE  IInv'
<1>1. client[c].app \in Apps
  BY Request DEF LeftAlone, IInv
<1> QED
  BY <1>1, TrackerStep DEF LeftAlone, IInv, Typed, HistoryTells

LEMMA SoftDeletedHolds ==
  ASSUME TrackerAssumption, IInv, NEW c \in Clients, SoftDeleted(c)
  PROVE  IInv'
<1> DEFINE a == client[c].app
           r == [row[a] EXCEPT !.deleted = TRUE]
<1>1. a \in Apps /\ row[a] \in RowRows /\ row \in [Apps -> RowRows]
  BY Request DEF SoftDeleted, IInv, Typed
<1>2. r \in RowRows /\ r.status = row[a].status /\ r.dated = row[a].dated
  BY <1>1, RowStatus DEF RowRows
<1>3. row' = [row EXCEPT ![a] = r] /\ client' \in [Clients -> {NewClient} \cup Loads]
  BY DEF SoftDeleted, IInv, Typed
<1> HIDE DEF r
<1>4. /\ row' \in [Apps -> RowRows] /\ row'[a].status = row[a].status
      /\ row'[a].dated = row[a].dated /\ \A b \in Apps \ {a} : row'[b] = row[b]
  <2> HIDE DEF a
  <2> QED
    BY <1>1, <1>2, <1>3
<1>5. /\ UNCHANGED <<delivery, attempt, others, mail, last, crossed>>
      /\ DOMAIN last = Apps /\ crossed \in BOOLEAN
      /\ row[a].status \in {"absent", "awaiting_approval", last[a]} \/ row[a].dated = "send"
  BY <1>1 DEF SoftDeleted, IInv, Typed, HistoryTells
<1> HIDE DEF a
<1> QED
  BY <1>1, <1>3, <1>4, <1>5, TrackerStep

-----------------------------------------------------------------------------
(* A draft, and what becomes of an attempt.                                 *)

LEMMA PreparedHolds ==
  ASSUME TrackerAssumption, IInv, NEW a \in Apps, Prepared(a)
  PROVE  IInv'
<1> DEFINE r == [row[a] EXCEPT !.status = "awaiting_approval"]
<1>1. /\ row \in [Apps -> RowRows] /\ row[a] \in RowRows /\ mail \in [Apps -> MailRows]
      /\ "awaiting_approval" \in RowStatuses /\ others \in Nat /\ others <= others
  <2>1. row \in [Apps -> RowRows] /\ mail \in [Apps -> MailRows] /\ others \in 0..MaxOthers
    BY DEF IInv, Typed
  <2> QED
    BY <2>1, Numbers DEF RowStatuses
<1>2. r \in RowRows /\ r.status = "awaiting_approval"
  BY <1>1, RowStatus
<1>3. row' = [row EXCEPT ![a] = r]
  BY DEF Prepared
<1> HIDE DEF r
<1>4. /\ mail' \in [Apps -> MailRows] /\ mail'[a].status = "draft"
      /\ \A b \in Apps \ {a} : mail'[b] = mail[b]
      /\ Sent(mail') \subseteq Sent(mail) /\ MailsReach'
  BY <1>1, MailStatus DEF Prepared, IInv
<1>5. /\ row' \in [Apps -> RowRows] /\ row'[a].status = "awaiting_approval"
      /\ \A b \in Apps \ {a} : row'[b] = row[b]
  BY <1>1, <1>2, <1>3
<1>6. mail[a].status = "none"
  BY DEF Prepared, IInv, MailHasItsRow
<1>7. Typed'
  BY <1>4, <1>5 DEF Prepared, IInv, Typed
<1>8. MailHasItsRow' /\ HistoryTells'
  BY <1>4, <1>5 DEF Prepared, IInv, MailHasItsRow, HistoryTells
<1>9. ClaimedIsBegun'
  <2> SUFFICES ASSUME NEW t \in Attempts, attempt[t].at # "off"
               PROVE  /\ attempt[t].at = "claimed" => mail'[attempt[t].app].status # "draft"
                      /\ mail'[attempt[t].app].status # "none"
    BY DEF Prepared, ClaimedIsBegun
  <2>1. attempt[t].app \in Apps \ {a}
    BY <1>6 DEF IInv, Typed, ClaimedIsBegun
  <2> QED
    BY <1>4, <2>1 DEF IInv, ClaimedIsBegun
<1>10. Alone' /\ HasRoom' /\ KeepsLimits'
  BY <1>1, <1>4, LimitsStand DEF Prepared, IInv
<1> QED
  BY <1>4, <1>7, <1>8, <1>9, <1>10 DEF IInv

(* An attempt that moves on, and one that ends. *)
LEMMA AttemptMoves ==
  ASSUME Typed, NEW t \in Attempts, NEW at \in {"allowed", "claimed"}, attempt[t].at # "off",
         attempt' = [attempt EXCEPT ![t].at = at]
  PROVE  /\ attempt' \in [Attempts -> AttemptRows]
         /\ attempt'[t].at = at /\ attempt'[t].app = attempt[t].app
         /\ \A u \in Attempts \ {t} : attempt'[u] = attempt[u]
<1> DEFINE r == [attempt[t] EXCEPT !.at = at]
<1>1. attempt \in [Attempts -> AttemptRows] /\ attempt[t] \in AttemptRows
  BY DEF Typed
<1>2. r \in AttemptRows /\ r.at = at /\ r.app = attempt[t].app
  BY <1>1 DEF AttemptRows
<1>3. attempt' = [attempt EXCEPT ![t] = r]
  OBVIOUS
<1> HIDE DEF r
<1> QED
  BY <1>1, <1>2, <1>3

LEMMA AttemptEnds ==
  ASSUME Typed, NEW t \in Attempts, Ends(t)
  PROVE  /\ attempt' \in [Attempts -> AttemptRows] /\ attempt'[t].at = "off"
         /\ \A u \in Attempts \ {t} : attempt'[u] = attempt[u]
<1>1. OffAttempt \in AttemptRows /\ OffAttempt.at = "off"
  BY DEF OffAttempt, AttemptRows
<1>2. attempt \in [Attempts -> AttemptRows] /\ attempt' = [attempt EXCEPT ![t] = OffAttempt]
  BY DEF Typed, Ends
<1> QED
  BY <1>1, <1>2

(* An attempt that ends or goes on, and says so on its mail, sends nothing.  *)
LEMMA AttemptSays ==
  ASSUME TrackerAssumption, IInv, NEW t \in Attempts, attempt[t].at # "off",
         NEW s \in {"sending", "failed"}, mail' = [mail EXCEPT ![attempt[t].app].status = s],
         \/ Ends(t)
         \/ attempt[t].at = "allowed" /\ attempt' = [attempt EXCEPT ![t].at = "claimed"],
         UNCHANGED <<delivery, row, last, client, others, crossed>>
  PROVE  IInv'
<1> DEFINE a == attempt[t].app
<1>1. a \in Apps /\ mail \in [Apps -> MailRows] /\ mail[a].status # "none"
  BY DEF IInv, Typed, ClaimedIsBegun
<1>2. others \in Nat /\ others <= others
  BY Numbers DEF IInv, Typed
<1>3. /\ mail' \in [Apps -> MailRows] /\ mail'[a].status = s
      /\ \A b \in Apps \ {a} : mail'[b] = mail[b]
      /\ Sent(mail') \subseteq Sent(mail) /\ MailsReach'
  <2> HIDE DEF a
  <2>1. mail' = [mail EXCEPT ![a].status = s] /\ s \in {"draft", "sending", "failed"}
    BY DEF a
  <2> QED
    BY <1>1, <2>1, MailStatus DEF IInv
<1>4. /\ attempt' \in [Attempts -> AttemptRows]
      /\ attempt'[t].at # "off" => /\ attempt'[t].app = a
                                  /\ attempt[t].at = "allowed" /\ attempt'[t].at = "claimed"
      /\ \A u \in Attempts \ {t} : attempt'[u] = attempt[u]
  BY AttemptMoves, AttemptEnds DEF IInv
<1>5. Typed'
  BY <1>1, <1>3, <1>4 DEF IInv, Typed
<1>6. MailHasItsRow' /\ HistoryTells'
  BY <1>1, <1>3 DEF IInv, MailHasItsRow, HistoryTells
<1>7. ClaimedIsBegun'
  <2> HIDE DEF a
  <2> SUFFICES ASSUME NEW u \in Attempts, attempt'[u].at # "off"
               PROVE  /\ attempt'[u].at = "claimed" => mail'[attempt'[u].app].status # "draft"
                      /\ mail'[attempt'[u].app].status # "none"
    BY DEF ClaimedIsBegun
  <2>1. CASE attempt'[u].app = a
    BY <1>3, <2>1
  <2>2. CASE attempt'[u].app # a
    <3>1. u # t /\ attempt'[u] = attempt[u] /\ attempt[u].app \in Apps \ {a}
      BY <1>4, <2>2 DEF IInv, Typed
    <3> QED
      BY <1>3, <3>1 DEF IInv, ClaimedIsBegun
  <2> QED
    BY <2>1, <2>2
<1>8. Alone' /\ HasRoom' /\ KeepsLimits'
  BY <1>2, <1>3, <1>4, LimitsStand DEF IInv
<1> QED
  BY <1>3, <1>5, <1>6, <1>7, <1>8 DEF IInv

LEMMA RefusedFailedClaimedHold ==
  ASSUME TrackerAssumption, IInv, NEW t \in Attempts,
         \/ CapRefuses(t) \/ DeliveryFails(t)
         \/ Claims(t) /\ mail[attempt[t].app].status \notin {"sending", "sent"}
  PROVE  IInv'
<1>1. CASE CapRefuses(t) \/ DeliveryFails(t)
  BY <1>1, AttemptSays DEF CapRefuses, DeliveryFails
<1>2. CASE Claims(t) /\ mail[attempt[t].app].status \notin {"sending", "sent"}
  BY <1>2, AttemptSays DEF Claims
<1> QED
  BY <1>1, <1>2

(* The mail is another attempt's already. *)
LEMMA ClaimLost ==
  ASSUME TrackerAssumption, IInv, NEW t \in Attempts, Ends(t),
         UNCHANGED <<delivery, row, mail, last, client, others, crossed>>
  PROVE  IInv'
<1>1. /\ attempt' \in [Attempts -> AttemptRows] /\ attempt'[t].at = "off"
      /\ \A u \in Attempts \ {t} : attempt'[u] = attempt[u]
  BY AttemptEnds DEF IInv
<1>2. Typed'
  BY <1>1 DEF IInv, Typed
<1>3. MailHasItsRow' /\ HistoryTells' /\ MailsReach' /\ ClaimedIsBegun'
  BY <1>1 DEF IInv, MailHasItsRow, HistoryTells, MailsReach, ReachesWhom, ClaimedIsBegun
<1>4. others \in Nat /\ others <= others
  BY Numbers DEF IInv, Typed
<1>5. Alone' /\ HasRoom' /\ KeepsLimits'
  BY <1>1, <1>4, LimitsStand DEF IInv
<1> QED
  BY <1>2, <1>3, <1>5 DEF IInv

(* The cap was read: there is room for one mail. *)
LEMMA CapAllowsHolds ==
  ASSUME TrackerAssumption, IInv, NEW t \in Attempts, CapAllows(t)
  PROVE  IInv'
<1>1. /\ attempt' \in [Attempts -> AttemptRows]
      /\ attempt'[t].at = "allowed" /\ attempt'[t].app = attempt[t].app
      /\ \A u \in Attempts \ {t} : attempt'[u] = attempt[u]
  BY AttemptMoves DEF IInv, CapAllows
<1>2. Typed'
  BY <1>1 DEF CapAllows, IInv, Typed
<1>3. MailHasItsRow' /\ HistoryTells' /\ MailsReach' /\ ClaimedIsBegun'
  BY <1>1 DEF CapAllows, IInv, MailHasItsRow, HistoryTells, MailsReach, ReachesWhom, ClaimedIsBegun
<1>4. SentToday' = SentToday /\ others' = others /\ crossed' = crossed
  BY DEF SentToday, CapAllows
<1>5. Alone' /\ KeepsLimits'
  BY <1>1, <1>4 DEF CapAllows, IInv, Alone, KeepsLimits
<1>6. SentToday < UserLimit /\ SentToday + others < TotalLimit
  <2>1. ~(SentToday >= UserLimit) /\ ~(SentToday + others >= TotalLimit)
    BY DEF CapAllows, Capped
  <2>2. SentToday \in Nat /\ others \in Nat /\ UserLimit \in Nat /\ TotalLimit \in Nat
    BY SentCounts, Numbers DEF IInv, Typed
  <2> QED
    BY <2>1, <2>2
<1>7. HasRoom'
  BY <1>4, <1>6 DEF HasRoom
<1> QED
  BY <1>2, <1>3, <1>5, <1>7 DEF IInv

LEMMA BeginsHolds ==
  ASSUME TrackerAssumption, IInv, NEW t \in Attempts, NEW a \in Apps, Begins(t, a)
  PROVE  IInv'
<1> DEFINE r == [at |-> "begun", app |-> a, seen |-> row[a].status]
<1>1. r \in AttemptRows /\ r.at = "begun" /\ r.app = a
  <2>1. row[a].status \in RowStatuses
    BY DEF IInv, Typed, RowRows
  <2> QED
    BY <2>1 DEF AttemptRows
<1>2. attempt' = [attempt EXCEPT ![t] = r]
  BY DEF Begins
<1> HIDE DEF r
<1>3. /\ attempt' \in [Attempts -> AttemptRows] /\ attempt'[t].at = "begun"
      /\ attempt'[t].app = a /\ \A u \in Attempts \ {t} : attempt'[u] = attempt[u]
  BY <1>1, <1>2 DEF IInv, Typed
<1>4. crossed' \in BOOLEAN /\ (~crossed' => ~crossed /\ \A u \in Attempts : attempt[u].at = "off")
  BY DEF Begins, IInv, Typed
<1>5. Typed'
  BY <1>3, <1>4 DEF Begins, IInv, Typed
<1>6. MailHasItsRow' /\ HistoryTells' /\ MailsReach'
  BY DEF Begins, IInv, MailHasItsRow, HistoryTells, MailsReach, ReachesWhom
<1>7. ClaimedIsBegun'
  BY <1>3 DEF Begins, IInv, ClaimedIsBegun
<1>8. SentToday' = SentToday /\ others' = others
  BY DEF SentToday, Begins
<1>9. Alone' /\ HasRoom' /\ KeepsLimits'
  BY <1>3, <1>4, <1>8 DEF IInv, Alone, HasRoom, KeepsLimits
<1> QED
  BY <1>5, <1>6, <1>7, <1>9 DEF IInv

-----------------------------------------------------------------------------
(* Mails that are sent.                                                     *)

(* What is delivered reaches whom it should, and a row is dated by it. *)
LEMMA DeliversHolds ==
  ASSUME TrackerAssumption, IInv, NEW t \in Attempts, Delivers(t)
  PROVE  IInv'
<1> DEFINE a == attempt[t].app
           s == IF attempt[t].seen = "applied" THEN row[a].status ELSE "applied"
           q == [row[a] EXCEPT !.status = s]
           r == [q EXCEPT !.dated = "send"]
<1>1. /\ a \in Apps /\ row \in [Apps -> RowRows] /\ mail \in [Apps -> MailRows]
      /\ mail[a].status # "none" /\ row[a].status # "absent"
  BY DEF Delivers, IInv, Typed, ClaimedIsBegun, MailHasItsRow
<1>2. PICK smtp \in BOOLEAN :
        mail' = [mail EXCEPT ![a] =
                   [status |-> "sent", today |-> TRUE, to |-> IF smtp THEN Composed ELSE {},
                    told |-> IF smtp THEN {DeliveredTo} ELSE {}]]
  BY DEF Delivers
<1> DEFINE m == [status |-> "sent", today |-> TRUE, to |-> IF smtp THEN Composed ELSE {},
                 told |-> IF smtp THEN {DeliveredTo} ELSE {}]
<1>3. m \in MailRows /\ m.status = "sent" /\ ReachesWhom(m)
  <2>1. Composed \in SUBSET {Applicant, Contact} /\ DeliveredTo \in Composed
    BY DEF Composed, DeliveredTo
  <2>2. delivery = "redirect" => Contact \notin Composed
    BY Numbers DEF Composed
  <2> HIDE DEF Composed, DeliveredTo
  <2>3. m \in MailRows
    BY <2>1 DEF MailRows
  <2>4. ReachesWhom(m)
    BY <2>1, <2>2 DEF ReachesWhom
  <2> QED
    BY <2>3, <2>4
<1> HIDE DEF m
<1>4. /\ mail' \in [Apps -> MailRows] /\ mail'[a].status = "sent" /\ mail'[a] = m
      /\ \A b \in Apps \ {a} : mail'[b] = mail[b]
  <2>1. mail' = [mail EXCEPT ![a] = m]
    BY <1>2 DEF m
  <2> HIDE DEF a
  <2> QED
    BY <1>1, <1>3, <2>1
<1>5. s \in RowStatuses /\ s # "absent"
  <2>1. row[a].status \in RowStatuses
    BY <1>1 DEF RowRows
  <2> QED
    BY <1>1, <2>1 DEF RowStatuses
<1>6. row' = [row EXCEPT ![a] = r]
  BY <1>1 DEF Delivers
<1>7. r \in RowRows /\ r.status = s /\ r.dated = "send"
  <2> HIDE DEF s
  <2>1. q \in RowRows /\ q.status = s
    BY <1>1, <1>5, RowStatus
  <2> HIDE DEF q
  <2> QED
    BY <2>1, RowDated
<1> HIDE DEF r, s
<1>8. /\ row' \in [Apps -> RowRows] /\ row'[a].status # "absent" /\ row'[a].dated = "send"
      /\ \A b \in Apps \ {a} : row'[b] = row[b]
  BY <1>1, <1>5, <1>6, <1>7
<1>9. /\ attempt' \in [Attempts -> AttemptRows] /\ attempt'[t].at = "off"
      /\ \A u \in Attempts \ {t} : attempt'[u] = attempt[u]
  BY AttemptEnds DEF Delivers, IInv
<1>10. UNCHANGED <<delivery, last, client, others, crossed>> /\ attempt[t].at = "claimed"
  BY DEF Delivers
<1> HIDE DEF a
<1>11. Typed'
  BY <1>4, <1>8, <1>9, <1>10 DEF IInv, Typed
<1>12. MailHasItsRow' /\ HistoryTells'
  BY <1>4, <1>8, <1>10 DEF IInv, MailHasItsRow, HistoryTells
<1>13. MailsReach'
  <2> SUFFICES ASSUME NEW b \in Apps
               PROVE  /\ delivery' = "redirect" => Contact \notin mail'[b].to
                      /\ mail'[b].told \subseteq mail'[b].to
    BY DEF MailsReach, ReachesWhom
  <2> QED
    BY <1>3, <1>4, <1>10 DEF IInv, MailsReach, ReachesWhom
<1>14. ClaimedIsBegun'
  <2> SUFFICES ASSUME NEW u \in Attempts, attempt'[u].at # "off"
               PROVE  /\ attempt'[u].at = "claimed" => mail'[attempt'[u].app].status # "draft"
                      /\ mail'[attempt'[u].app].status # "none"
    BY DEF ClaimedIsBegun
  <2>1. u # t /\ attempt'[u] = attempt[u] /\ attempt[u].app \in Apps
    BY <1>9 DEF IInv, Typed
  <2> QED
    BY <1>4, <2>1 DEF IInv, ClaimedIsBegun
<1>15. Alone' /\ HasRoom'
  BY <1>9, <1>10 DEF IInv, Alone, HasRoom
<1>16. KeepsLimits'
  <2> SUFFICES ASSUME ~crossed'
               PROVE  SentToday' <= UserLimit /\ SentToday' + others' <= TotalLimit
    BY DEF KeepsLimits
  <2>1. SentToday < UserLimit /\ SentToday + others < TotalLimit
    BY <1>10 DEF IInv, HasRoom
  <2>2. Sent(mail') \subseteq Sent(mail) \cup {a}
    BY <1>4 DEF Sent
  <2>3. SentToday \in Nat /\ SentToday' \in Nat /\ SentToday' <= SentToday + 1
    BY <1>1, <2>2, SentCounts DEF a
  <2>4. others \in Nat /\ UserLimit \in Nat /\ TotalLimit \in Nat
    BY Numbers DEF IInv, Typed
  <2>5. ASSUME NEW p \in Nat, NEW n \in Nat, NEW o \in Nat, NEW l \in Nat, n <= p + 1
        PROVE  (p < l => n <= l) /\ (p + o < l => n + o <= l)
    BY <2>5
  <2>6. SentToday' <= UserLimit
    BY <2>1, <2>3, <2>4, <2>5
  <2>7. SentToday' + others <= TotalLimit
    BY <2>1, <2>3, <2>4, <2>5
  <2> QED
    BY <1>10, <2>6, <2>7
<1> QED
  BY <1>11, <1>12, <1>13, <1>14, <1>15, <1>16 DEF IInv

LEMMA OthersSendHolds ==
  ASSUME TrackerAssumption, IInv, OthersSend
  PROVE  IInv'
<1>1. /\ SentToday' = SentToday /\ SentToday \in Nat /\ TotalLimit \in Nat /\ MaxOthers \in Nat
      /\ others \in 0..MaxOthers
  BY SentCounts, Numbers DEF SentToday, OthersSend, IInv, Typed
<1>2. others' \in 0..MaxOthers /\ SentToday' + others' <= TotalLimit
  BY <1>1 DEF OthersSend
<1>3. crossed' \in BOOLEAN /\ (~crossed' => ~crossed /\ \A u \in Attempts : attempt[u].at = "off")
  BY DEF OthersSend, IInv, Typed
<1>4. Typed'
  BY <1>2, <1>3 DEF OthersSend, IInv, Typed
<1>5. MailHasItsRow' /\ HistoryTells' /\ MailsReach' /\ ClaimedIsBegun'
  BY DEF OthersSend, IInv, MailHasItsRow, HistoryTells, MailsReach, ReachesWhom, ClaimedIsBegun
<1>6. Alone' /\ HasRoom' /\ KeepsLimits'
  BY <1>1, <1>2, <1>3 DEF OthersSend, IInv, Alone, HasRoom, KeepsLimits
<1> QED
  BY <1>4, <1>5, <1>6 DEF IInv

LEMMA NewDayHolds ==
  ASSUME TrackerAssumption, IInv, NewDay
  PROVE  IInv'
<1>1. \A a \in Apps : /\ mail'[a] \in MailRows /\ mail'[a].status = mail[a].status
                      /\ mail'[a].today = FALSE
                      /\ mail'[a].to = mail[a].to /\ mail'[a].told = mail[a].told
  <2>1. ASSUME NEW m \in MailRows
        PROVE  LET n == [m EXCEPT !.today = FALSE]
               IN  /\ n \in MailRows /\ n.status = m.status /\ n.today = FALSE
                   /\ n.to = m.to /\ n.told = m.told
    BY DEF MailRows
  <2>2. mail' = [a \in Apps |-> [mail[a] EXCEPT !.today = FALSE]]
    BY DEF NewDay
  <2>3. \A a \in Apps : mail[a] \in MailRows
    BY DEF IInv, Typed
  <2> QED
    BY <2>1, <2>2, <2>3
<1>2. /\ UNCHANGED <<delivery, row, last, attempt, client, crossed>> /\ others' = 0
      /\ mail' \in [Apps -> MailRows]
  BY <1>1 DEF NewDay
<1>3. others \in Nat /\ others' \in Nat /\ others' <= others /\ others' \in 0..MaxOthers
  BY <1>2, Numbers DEF IInv, Typed
<1>4. Typed'
  BY <1>2, <1>3 DEF IInv, Typed
<1>5. MailHasItsRow' /\ HistoryTells' /\ MailsReach'
  BY <1>1, <1>2 DEF IInv, MailHasItsRow, HistoryTells, MailsReach, ReachesWhom
<1>6. ClaimedIsBegun'
  BY <1>1, <1>2 DEF IInv, Typed, ClaimedIsBegun
<1>7. Sent(mail') \subseteq Sent(mail)
  BY <1>1 DEF Sent
<1>8. Alone' /\ HasRoom' /\ KeepsLimits'
  BY <1>2, <1>3, <1>7, LimitsStand DEF IInv
<1> QED
  BY <1>4, <1>5, <1>6, <1>8 DEF IInv

-----------------------------------------------------------------------------
LEMMA InvStep ==
  ASSUME TrackerAssumption, IInv, [Next]_tVars
  PROVE  IInv'
<1>1. ASSUME NEW a \in Apps, Saved(a) \/ Prepared(a) \/ \E t \in Attempts : Begins(t, a)
      PROVE  IInv'
  BY <1>1, SavedHolds, PreparedHolds, BeginsHolds
<1>2. ASSUME NEW c \in Clients, \/ \E a \in Apps : RequestLoads(c, a)
                                \/ \E s \in UserSettable : Patched(c, s)
                                \/ LeftAlone(c) \/ SoftDeleted(c)
      PROVE  IInv'
  BY <1>2, RequestLoadsHolds, PatchedHolds, LeftAloneHolds, SoftDeletedHolds
<1>3. ASSUME NEW t \in Attempts, Claims(t) PROVE IInv'
  <2>1. CASE mail[attempt[t].app].status \in {"sending", "sent"}
    BY <1>3, <2>1, ClaimLost DEF Claims
  <2>2. CASE mail[attempt[t].app].status \notin {"sending", "sent"}
    BY <1>3, <2>2, RefusedFailedClaimedHold
  <2> QED
    BY <2>1, <2>2
<1>4. ASSUME NEW t \in Attempts, CapRefuses(t) \/ CapAllows(t) \/ Delivers(t) \/ DeliveryFails(t)
      PROVE  IInv'
  <2>1. CASE CapRefuses(t) \/ DeliveryFails(t)
    BY <2>1, RefusedFailedClaimedHold
  <2>2. CASE CapAllows(t)
    BY <2>2, CapAllowsHolds
  <2>3. CASE Delivers(t)
    BY <2>3, DeliversHolds
  <2> QED
    BY <1>4, <2>1, <2>2, <2>3
<1>5. CASE OthersSend \/ NewDay
  BY <1>5, OthersSendHolds, NewDayHolds
<1>6. CASE UNCHANGED tVars
  <2>1. SentToday' = SentToday
    BY <1>6 DEF tVars, SentToday
  <2>2. Typed' /\ MailHasItsRow' /\ ClaimedIsBegun' /\ Alone' /\ MailsReach' /\ HistoryTells'
    BY <1>6 DEF tVars, IInv, Typed, MailHasItsRow, ClaimedIsBegun, Alone, MailsReach,
                ReachesWhom, HistoryTells
  <2>3. HasRoom' /\ KeepsLimits'
    BY <1>6, <2>1 DEF tVars, IInv, HasRoom, KeepsLimits
  <2> QED
    BY <2>2, <2>3 DEF IInv
<1>7. CASE \E a \in Apps : Saved(a) \/ Prepared(a) \/ \E t \in Attempts : Begins(t, a)
  BY <1>1, <1>7
<1>8. CASE \E c \in Clients : \/ \E a \in Apps : RequestLoads(c, a)
                              \/ \E s \in UserSettable : Patched(c, s)
                              \/ LeftAlone(c) \/ SoftDeleted(c)
  BY <1>2, <1>8
<1>9. CASE \E t \in Attempts :
             CapRefuses(t) \/ CapAllows(t) \/ Claims(t) \/ Delivers(t) \/ DeliveryFails(t)
  BY <1>3, <1>4, <1>9
<1> QED
  BY <1>5, <1>6, <1>7, <1>8, <1>9 DEF Next

(* The rows are those the module's type invariant speaks of. *)
LEMMA IInvIsTyped == IInv => TypeOK
BY DEF IInv, Typed, ClaimedIsBegun, TypeOK, RowRows, RowStatuses, MailRows

LEMMA DeliversWhat ==
  ASSUME Typed, NEW t \in Attempts, Delivers(t)
  PROVE  attempt[t].app \in Apps
<1>1. attempt[t].at # "off"
  BY DEF Delivers
<1> QED
  BY <1>1 DEF Typed

(* Together, attempts exceed the cap by less than their number. *)
LEMMA BurdenCounts ==
  ASSUME TrackerAssumption
  PROVE  /\ IsFiniteSet(InFlight) /\ IsFiniteSet(InFlight') /\ Cardinality(Attempts) \in Nat
         /\ SentToday \in Nat /\ SentToday' \in Nat
         /\ Cardinality(InFlight) \in Nat /\ Cardinality(InFlight') \in Nat
         /\ Cardinality(InFlight') <= Cardinality(Attempts)
<1>1. IsFiniteSet(Attempts)
  BY DEF TrackerAssumption
<1>2. InFlight \in SUBSET Attempts /\ InFlight' \in SUBSET Attempts
  BY DEF InFlight
<1> QED
  BY <1>1, <1>2, SentCounts, FS_Subset, FS_CardinalityType

LEMMA BurdenStands ==
  ASSUME TrackerAssumption, Overshoots, Sent(mail') \subseteq Sent(mail),
         InFlight' \subseteq InFlight
  PROVE  Overshoots'
<1>1. InFlight' \in SUBSET InFlight
  OBVIOUS
<1>2. Cardinality(InFlight') <= Cardinality(InFlight) /\ SentToday' <= SentToday
  BY <1>1, BurdenCounts, SentCounts, FS_Subset
<1> QED
  BY <1>2, BurdenCounts, Numbers DEF Overshoots, Burden

LEMMA OvershootStep ==
  ASSUME TrackerAssumption, IInv, Overshoots, [Next]_tVars
  PROVE  Overshoots'
<1>0. attempt \in [Attempts -> AttemptRows] /\ mail \in [Apps -> MailRows]
  BY DEF IInv, Typed
<1>1. ASSUME mail' = mail, attempt' = attempt PROVE Overshoots'
  BY <1>1, BurdenStands DEF Sent, InFlight
<1>2. ASSUME NEW a \in Apps, NEW s \in {"draft", "sending", "failed"},
             mail' = [mail EXCEPT ![a].status = s], UNCHANGED delivery
      PROVE  Sent(mail') \subseteq Sent(mail)
  BY <1>0, <1>2, MailStatus DEF IInv
<1>3. ASSUME NEW t \in Attempts, Ends(t) PROVE InFlight' = InFlight \ {t}
  <2>1. attempt'[t].at = "off" /\ \A u \in Attempts \ {t} : attempt'[u] = attempt[u]
    BY <1>3, AttemptEnds DEF IInv
  <2> QED
    BY <2>1 DEF InFlight
<1>4. ASSUME NEW a \in Apps, Saved(a) PROVE Overshoots'
  BY <1>1, <1>4 DEF Saved
<1>5. ASSUME NEW a \in Apps, Prepared(a) PROVE Overshoots'
  <2>1. Sent(mail') \subseteq Sent(mail)
    BY <1>2, <1>5 DEF Prepared
  <2> QED
    BY <1>5, <2>1, BurdenStands DEF Prepared, InFlight
<1>6. ASSUME NEW a \in Apps, NEW t \in Attempts, Begins(t, a) PROVE Overshoots'
  <2> DEFINE r == [at |-> "begun", app |-> a, seen |-> row[a].status]
  <2>1. r.at = "begun" /\ attempt' = [attempt EXCEPT ![t] = r] /\ mail' = mail
    BY <1>6 DEF Begins
  <2> HIDE DEF r
  <2>2. InFlight' \subseteq InFlight
    BY <1>0, <2>1 DEF InFlight
  <2> QED
    BY <2>1, <2>2, BurdenStands DEF Sent
<1>7. ASSUME NEW c \in Clients, \/ \E a \in Apps : RequestLoads(c, a)
                                \/ \E s \in UserSettable : Patched(c, s)
                                \/ LeftAlone(c) \/ SoftDeleted(c)
      PROVE  Overshoots'
  BY <1>1, <1>7 DEF RequestLoads, Patched, LeftAlone, SoftDeleted
<1>8. ASSUME NEW t \in Attempts, CapRefuses(t) \/ DeliveryFails(t) PROVE Overshoots'
  <2>1. attempt[t].app \in Apps /\ Ends(t) /\ UNCHANGED delivery
        /\ mail' = [mail EXCEPT ![attempt[t].app].status = "failed"]
    BY <1>8 DEF IInv, Typed, CapRefuses, DeliveryFails
  <2>2. Sent(mail') \subseteq Sent(mail)
    BY <1>2, <2>1
  <2> QED
    BY <1>3, <2>1, <2>2, BurdenStands
<1>9. ASSUME NEW t \in Attempts, CapAllows(t) PROVE Overshoots'
  <2>1. ~(SentToday >= UserLimit) /\ SentToday' = SentToday
    BY <1>9 DEF CapAllows, Capped, SentToday
  <2> QED
    BY <2>1, BurdenCounts, Numbers DEF Overshoots, Burden
<1>10. ASSUME NEW t \in Attempts, Claims(t) PROVE Overshoots'
  <2>1. CASE mail[attempt[t].app].status \in {"sending", "sent"}
    <3>1. Ends(t) /\ mail' = mail
      BY <1>10, <2>1 DEF Claims
    <3> QED
      BY <1>3, <3>1, BurdenStands
  <2>2. CASE mail[attempt[t].app].status \notin {"sending", "sent"}
    <3>1. /\ attempt[t].at = "allowed" /\ attempt' = [attempt EXCEPT ![t].at = "claimed"]
          /\ mail' = [mail EXCEPT ![attempt[t].app].status = "sending"] /\ UNCHANGED delivery
      BY <1>10, <2>2 DEF Claims
    <3>2. attempt[t].app \in Apps
      BY <3>1 DEF IInv, Typed
    <3>3. Sent(mail') \subseteq Sent(mail)
      BY <1>2, <3>1, <3>2
    <3>4. \A u \in Attempts \ {t} : attempt'[u] = attempt[u]
      BY <3>1, AttemptMoves DEF IInv
    <3>5. InFlight' \subseteq InFlight
      BY <3>1, <3>4 DEF InFlight
    <3> QED
      BY <3>3, <3>5, BurdenStands
  <2> QED
    BY <2>1, <2>2
<1>11. ASSUME NEW t \in Attempts, Delivers(t) PROVE Overshoots'
  <2> DEFINE a == attempt[t].app
  <2>1. a \in Apps /\ Ends(t) /\ t \in InFlight
    BY <1>11, DeliversWhat DEF Delivers, IInv, InFlight
  <2>2. PICK m : mail' = [mail EXCEPT ![a] = m]
    BY <1>11 DEF Delivers
  <2> HIDE DEF a
  <2>3. Sent(mail') \subseteq Sent(mail) \cup {a}
    BY <1>0, <2>2 DEF Sent
  <2>4. SentToday' <= SentToday + 1
    BY <2>1, <2>3, SentCounts
  <2>5. Cardinality(InFlight') = Cardinality(InFlight) - 1
    <3>1. InFlight' = InFlight \ {t}
      BY <1>3, <2>1
    <3>2. IsFiniteSet(InFlight)
      BY BurdenCounts
    <3>3. Cardinality(InFlight \ {t}) = Cardinality(InFlight) - 1
      BY <2>1, <3>2, FS_RemoveElement
    <3> QED
      BY <3>1, <3>3
  <2>6. Burden > 0
    BY <2>5, BurdenCounts DEF Burden
  <2> QED
    BY <2>4, <2>5, <2>6, BurdenCounts, Numbers DEF Overshoots, Burden
<1>12. CASE OthersSend
  BY <1>1, <1>12 DEF OthersSend
<1>13. CASE NewDay
  <2>1. \A a \in Apps : mail'[a].today = FALSE
    BY <1>0, <1>13 DEF NewDay, MailRows
  <2>2. Sent(mail') \subseteq Sent(mail)
    BY <2>1 DEF Sent
  <2> QED
    BY <1>13, <2>2, BurdenStands DEF NewDay, InFlight
<1>14. CASE UNCHANGED tVars
  BY <1>1, <1>14 DEF tVars
<1> QED
  BY <1>4, <1>5, <1>6, <1>7, <1>8, <1>9, <1>10, <1>11, <1>12, <1>13, <1>14 DEF Next

LEMMA OvershootInit == ASSUME TrackerAssumption, Init PROVE Overshoots
<1>1. Sent(mail) = {} /\ InFlight = {}
  BY DEF Init, NotSent, OffAttempt, Sent, InFlight
<1>2. SentToday = 0 /\ Cardinality(InFlight) = 0
  BY <1>1, FS_EmptySet DEF SentToday, Sent
<1> QED
  BY <1>2 DEF Overshoots, Burden

LimitInv == IInv /\ Overshoots

LEMMA LimitInvKeepsLimits == ASSUME TrackerAssumption PROVE LimitInv => MailStaysWithinLimits
<1> SUFFICES ASSUME LimitInv PROVE MailStaysWithinLimits
  OBVIOUS
<1>1. SentToday > 0 => SentToday < UserLimit + Cardinality(Attempts)
  BY BurdenCounts, Numbers DEF LimitInv, Overshoots, Burden
<1> QED
  BY <1>1 DEF LimitInv, IInv, KeepsLimits, MailsReach, ReachesWhom, MailStaysWithinLimits

(* What a step does to the dates. A request that dates an application had    *)
(* loaded it without one: nobody wrote it since, unless they crossed.        *)
DateStands(a) ==
  /\ row[a].dated # "never" => row'[a].dated # "never"
  /\ row[a].dated = "send" /\ ~crossed' => row'[a].dated = "send"

LEMMA DatesStand ==
  ASSUME TrackerAssumption, IInv, [Next]_tVars, NEW a \in Apps
  PROVE  DateStands(a)
<1>0. \A b \in Apps : row[b] \in RowRows
  BY DEF IInv, Typed
<1>1. ASSUME row' = row PROVE DateStands(a)
  BY <1>1 DEF DateStands
<1>2. ASSUME NEW b \in Apps, Saved(b) \/ Prepared(b) PROVE DateStands(a)
  <2>1. PICK s \in {"saved", "awaiting_approval"} : row' = [row EXCEPT ![b].status = s]
    BY <1>2 DEF Saved, Prepared
  <2>2. row'[a].dated = row[a].dated
    BY <1>0, <2>1 DEF IInv, Typed, RowRows
  <2> QED
    BY <2>2 DEF DateStands
<1>3. ASSUME NEW c \in Clients, SoftDeleted(c) PROVE DateStands(a)
  <2>1. row' = [row EXCEPT ![client[c].app].deleted = TRUE]
    BY <1>3 DEF SoftDeleted
  <2>2. row'[a].dated = row[a].dated
    BY <1>0, <2>1 DEF IInv, Typed, RowRows
  <2> QED
    BY <2>2 DEF DateStands
<1>4. ASSUME NEW c \in Clients, NEW s \in UserSettable, Patched(c, s) PROVE DateStands(a)
  <2> DEFINE b == client[c].app
             d == Dated(c, s)
             q == [row[b] EXCEPT !.status = s]
             r == [q EXCEPT !.dated = d]
  <2>1. b \in Apps /\ client[c].seen \in RowRows /\ s \in RowStatuses
    BY <1>4, Request DEF Patched, IInv, RowStatuses
  <2>2. row[b].dated \in {"never", "person", "send"}
    BY <1>0, <2>1 DEF RowRows
  <2>3. d \in {"never", "person", "send"}
    BY <2>2 DEF Dated
  <2>4. row' = [row EXCEPT ![b] = r]
    BY <1>4 DEF Patched
  <2>5. r.dated = d
    <3> HIDE DEF d
    <3>1. q \in RowRows
      BY <1>0, <2>1, RowStatus
    <3> HIDE DEF q
    <3> QED
      BY <2>3, <3>1, RowDated
  <2>6. row'[a] = IF a = b THEN r ELSE row[a]
    <3> HIDE DEF r, b
    <3> QED
      BY <2>4 DEF IInv, Typed
  <2>7. row[b].dated # "never" => d # "never"
    BY DEF Dated
  <2>8. row[b].dated = "send" /\ ~crossed' => d = "send"
    BY <1>4 DEF Dated, Patched, Overtaken
  <2> HIDE DEF r, d, b
  <2> QED
    BY <2>5, <2>6, <2>7, <2>8 DEF DateStands
<1>5. ASSUME NEW t \in Attempts, Delivers(t) PROVE DateStands(a)
  <2> DEFINE b == attempt[t].app
             s == IF attempt[t].seen = "applied" THEN row[b].status ELSE "applied"
             q == [row[b] EXCEPT !.status = s]
             r == [q EXCEPT !.dated = "send"]
  <2>1. b \in Apps /\ row[b] \in RowRows /\ row \in [Apps -> RowRows]
    BY <1>0, <1>5, DeliversWhat DEF IInv, Typed
  <2>2. row' = [row EXCEPT ![b] = r]
    BY <1>5, <2>1 DEF Delivers
  <2>3. r.dated = "send"
    <3>1. s \in RowStatuses
      BY <2>1 DEF RowRows, RowStatuses
    <3> HIDE DEF s
    <3>2. q \in RowRows
      BY <2>1, <3>1, RowStatus
    <3> HIDE DEF q
    <3> QED
      BY <3>2, RowDated
  <2>4. row'[a] = IF a = b THEN r ELSE row[a]
    <3> HIDE DEF r, b
    <3> QED
      BY <2>2 DEF IInv, Typed
  <2> HIDE DEF r, b
  <2> QED
    BY <2>3, <2>4 DEF DateStands
<1>6. ASSUME NEW c \in Clients, (\E b \in Apps : RequestLoads(c, b)) \/ LeftAlone(c) PROVE DateStands(a)
  BY <1>1, <1>6 DEF RequestLoads, LeftAlone
<1>7. ASSUME NEW t \in Attempts, \/ CapRefuses(t) \/ CapAllows(t) \/ Claims(t) \/ DeliveryFails(t)
                                 \/ \E b \in Apps : Begins(t, b)
      PROVE  DateStands(a)
  BY <1>1, <1>7 DEF CapRefuses, CapAllows, Claims, DeliveryFails, Begins
<1>8. CASE OthersSend \/ NewDay \/ UNCHANGED tVars
  BY <1>1, <1>8 DEF OthersSend, NewDay, tVars
<1>9. CASE \E b \in Apps : Saved(b) \/ Prepared(b) \/ \E t \in Attempts : Begins(t, b)
  BY <1>2, <1>7, <1>9
<1>10. CASE \E c \in Clients : \/ \E b \in Apps : RequestLoads(c, b)
                               \/ \E s \in UserSettable : Patched(c, s)
                               \/ LeftAlone(c) \/ SoftDeleted(c)
  BY <1>3, <1>4, <1>6, <1>10
<1>11. CASE \E t \in Attempts :
              CapRefuses(t) \/ CapAllows(t) \/ Claims(t) \/ Delivers(t) \/ DeliveryFails(t)
  BY <1>5, <1>7, <1>11
<1> QED
  BY <1>8, <1>9, <1>10, <1>11 DEF Next

DateStep ==
  \A a \in Apps :
     /\ DateStands(a)
     /\ \/ row'[a].status \in {"absent", "awaiting_approval", last'[a]}
        \/ row'[a].dated = "send"

LEMMA DateStepStands ==
  ASSUME TrackerAssumption, IInv, [Next]_tVars
  PROVE  DateStep
<1>1. HistoryTells'
  BY InvStep DEF IInv
<1> QED
  BY <1>1, DatesStand DEF DateStep, HistoryTells

-----------------------------------------------------------------------------
(* One at a time, attempts keep to the person's and everybody's daily cap,    *)
(* together they exceed the person's by less than their number, and a        *)
(* redirected mail reaches the applicant only (sending.py).                  *)
THEOREM LimitsHold == ASSUME TrackerAssumption PROVE Spec => []MailStaysWithinLimits
<1>1. Init => LimitInv
  BY InitInv, OvershootInit DEF LimitInv
<1>2. LimitInv /\ [Next]_tVars => LimitInv'
  BY InvStep, OvershootStep DEF LimitInv
<1>3. LimitInv => MailStaysWithinLimits
  BY LimitInvKeepsLimits
<1> QED
  BY <1>1, <1>2, <1>3, PTL DEF Spec

(* The rows, the mails and the attempts are what they are said to be.        *)
THEOREM TrackerIsTyped == ASSUME TrackerAssumption PROVE Spec => []TypeOK
<1>1. Init => IInv
  BY InitInv
<1>2. IInv /\ [Next]_tVars => IInv'
  BY InvStep
<1> QED
  BY <1>1, <1>2, IInvIsTyped, PTL DEF Spec

(* The date of an application is not taken away, the one its send gave it     *)
(* stands unless the send came between a request's read and its write, and    *)
(* the history tells the status (ApplicationService.patch).                  *)
THEOREM DatesHold == ASSUME TrackerAssumption PROVE Spec => AppliedDateStands
<1>1. Init => IInv
  BY InitInv
<1>2. IInv /\ [Next]_tVars => IInv'
  BY InvStep
<1>3. IInv /\ [Next]_tVars =>
        [\A a \in Apps :
           /\ row[a].dated # "never" => row'[a].dated # "never"
           /\ row[a].dated = "send" /\ ~crossed' => row'[a].dated = "send"
           /\ \/ row'[a].status \in {"absent", "awaiting_approval", last'[a]}
              \/ row'[a].dated = "send"]_tVars
  BY DateStepStands DEF DateStep, DateStands
<1> QED
  BY <1>1, <1>2, <1>3, PTL DEF Spec, AppliedDateStands

-----------------------------------------------------------------------------
(* The roadmaps.                                                            *)

Gaps          == [skill : Skills, made : {"first"} \cup Rebuilds]
GapRows       == [skill : Skills, made : {"first"} \cup Rebuilds, status : {"open", "closed"},
                  by : Roadmaps \cup {L!NoRoadmap}]
MilestoneRows == [rec : Roadmaps, gap : Gaps, run : Roadmaps \X Nat,
                  status : L!MilestoneStatuses]
PlanRows      == [state : {"none", "unqueued", "queued", "running"}, try : 1..PlanTries]
PlannerRows   == [at : {"off", "loaded", "planning", "done", "failed"},
                  target : Roadmaps \cup {L!NoRoadmap}, took : SUBSET GapRows]
Reads         == [at : {"read"}, m : MilestoneRows, status : L!MilestoneStatuses]
RebuildRows   == [at : {"new", "deleted", "end"}, rows : SUBSET GapRows]

PlanTyped ==
  /\ rec \in [Roadmaps -> {"absent", "planning", "active", "failed", "archived"}]
  /\ rOld \in [Roadmaps -> BOOLEAN]
  /\ milestones \subseteq MilestoneRows /\ agg \subseteq GapRows
  /\ plan \in [Roadmaps -> PlanRows] /\ planner \in [Roadmaps -> PlannerRows]
  /\ \A r \in Roadmaps : /\ planner[r].at = "off" <=> plan[r].state # "running"
                         /\ planner[r].at = "planning" => planner[r].target \in Roadmaps
  /\ patch \in [Patchers -> {[at |-> "new"]} \cup Reads]
  /\ rebuild \in [Rebuilds -> RebuildRows] /\ planCrossed \subseteq L!Crossings

(* A milestone is of a run that was, and of a roadmap that is planned.       *)
AbsentHasNoPlan == \A r \in Roadmaps : rec[r] = "absent" => plan[r].state = "none"
RunBefore(m, r) ==
  /\ rec[r] # "absent" /\ plan[r].state # "unqueued"
  /\ plan[r].state = "queued" => m.run[2] < plan[r].try
  /\ planner[r].at \in {"loaded", "planning"} => m.run[2] < plan[r].try
  /\ planner[r].at \in {"done", "failed"} => m.run[2] <= plan[r].try
RunsBefore == \A m \in milestones : RunBefore(m, m.run[1])
PlannedIsNotPlanning == \A m \in milestones : rec[m.rec] \notin {"absent", "planning"}
OneOfAKind == \A m, n \in milestones : L!SameMilestone(m, n) => m = n

(* While no two plans run together, a plan writes its own roadmap's, and the *)
(* first.                                                                   *)
OwnPlan ==
  "plans" \notin planCrossed =>
    \A r \in Roadmaps : planner[r].at = "planning" =>
      planner[r].target = r /\ \A m \in milestones : m.rec # r

(* While no two rebuilds do, there is a row for each skill.                  *)
OncePerSkill(G) == \A g, h \in G : g.skill = h.skill => g = h
RowsAreOnce ==
  "rebuilds" \notin planCrossed =>
    /\ OncePerSkill(agg) /\ \A r \in Roadmaps : OncePerSkill(planner[r].took)
    /\ \A b \in Rebuilds : rebuild[b].at = "deleted" =>
         /\ \A g \in agg : L!Gone(g, b)
         /\ \A c \in Rebuilds : rebuild[c].at = "deleted" => b = c

PlanInv ==
  /\ PlanTyped /\ AbsentHasNoPlan /\ RunsBefore /\ PlannedIsNotPlanning /\ OneOfAKind
  /\ OwnPlan /\ RowsAreOnce /\ L!OneMilestonePerSkill /\ L!AddressedWasDone

-----------------------------------------------------------------------------
(* The newest of some roadmaps is one of them: they are finitely many.       *)
LEMMA NewestIsOne ==
  ASSUME L!RoadmapAssumption, NEW R \in SUBSET Roadmaps, R # {}
  PROVE  L!Newest(R) \in R
<1>0. L!IsFiniteSet(Roadmaps) <=> IsFiniteSet(Roadmaps)
  BY Zenon DEF L!IsFiniteSet, IsFiniteSet
<1>1. IsFiniteSet(R) /\ R \subseteq Nat
  BY <1>0, FS_Subset DEF L!RoadmapAssumption
<1> DEFINE After(r) == {e \in R : r < e}
           T == {After(r) : r \in R}
<1>2. IsWellFoundedOn(StrictSubsetOrdering(R), SUBSET R)
  BY <1>1, FS_FiniteSubsetsOfFinite, FS_StrictSubsetOrderingWellFounded
<1>3. T \subseteq SUBSET R /\ T # {}
  OBVIOUS
<1>4. PICK S \in T : \A U \in T : <<U, S>> \notin StrictSubsetOrdering(R)
  <2> HIDE DEF T
  <2> QED
    BY <1>2, <1>3, WFMin
<1>5. PICK r \in R : S = After(r)
  OBVIOUS
<1>6. \A e \in R : e <= r
  <2> SUFFICES ASSUME NEW e \in R, ~(e <= r) PROVE FALSE
    OBVIOUS
  <2>1. r \in Nat /\ e \in Nat /\ r < e
    BY <1>1
  <2>a. ASSUME NEW x \in R, e < x PROVE r < x
    <3>1. x \in Nat
      BY <1>1
    <3> QED
      BY <2>1, <2>a, <3>1
  <2>b. ~(e < e)
    BY <2>1
  <2>2. After(e) \subseteq After(r) /\ e \in After(r) /\ e \notin After(e)
    BY Zenon, <2>1, <2>a, <2>b
  <2>3. <<After(e), S>> \in StrictSubsetOrdering(R)
    BY <1>5, <2>2 DEF StrictSubsetOrdering
  <2> QED
    BY <1>4, <2>3
<1> QED
  BY <1>6 DEF L!Newest

-----------------------------------------------------------------------------
(* Rows that change keep what they are known by.                             *)

Moved(m, p) ==
  IF L!SameMilestone(m, patch[p].m) /\ patch[p].status # patch[p].m.status
  THEN [m EXCEPT !.status = patch[p].status] ELSE m

LEMMA MovedKeeps ==
  ASSUME NEW m \in MilestoneRows, NEW p \in Patchers, patch[p] \in Reads
  PROVE  /\ Moved(m, p) \in MilestoneRows /\ Moved(m, p).rec = m.rec
         /\ Moved(m, p).gap = m.gap /\ Moved(m, p).run = m.run
         /\ Moved(m, p).status =
              IF L!SameMilestone(m, patch[p].m) /\ patch[p].status # patch[p].m.status
              THEN patch[p].status ELSE m.status
<1> DEFINE n == [m EXCEPT !.status = patch[p].status]
<1>1. patch[p].status \in L!MilestoneStatuses
  BY DEF Reads
<1>2. n \in MilestoneRows /\ n.rec = m.rec /\ n.gap = m.gap /\ n.run = m.run
      /\ n.status = patch[p].status
  BY <1>1 DEF MilestoneRows
<1> HIDE DEF n
<1>3. Moved(m, p) = IF L!SameMilestone(m, patch[p].m) /\ patch[p].status # patch[p].m.status
                    THEN n ELSE m
  BY DEF Moved, n
<1> QED
  BY <1>2, <1>3

LEMMA GapAfterKeeps ==
  ASSUME L!RoadmapAssumption, NEW g \in GapRows, NEW p \in Patchers, patch[p] \in Reads
  PROVE  LET pm == patch[p].m
             h == L!GapAfter(g, p)
         IN  /\ h \in GapRows /\ h.skill = g.skill /\ h.made = g.made
             /\ g.skill # pm.gap.skill => h.by = g.by
             /\ g.skill = pm.gap.skill /\ patch[p].status = "done" => h.by = pm.rec
             /\ g.skill = pm.gap.skill /\ patch[p].status # "done" =>
                  \/ h.by = L!NoRoadmap
                  \/ h.by = g.by /\ pm.status # "done"
<1> DEFINE pm == patch[p].m
<1>1. pm.rec \in Roadmaps
  BY DEF Reads, MilestoneRows
<1> DEFINE shut == [g EXCEPT !.status = "closed", !.by = pm.rec]
           open == [g EXCEPT !.status = "open", !.by = L!NoRoadmap]
<1>2. shut \in GapRows /\ shut.skill = g.skill /\ shut.made = g.made /\ shut.by = pm.rec
  BY <1>1 DEF GapRows
<1>a. open \in GapRows /\ open.skill = g.skill /\ open.made = g.made /\ open.by = L!NoRoadmap
  BY DEF GapRows
<1> HIDE DEF shut, open, pm
<1>3. CASE g.skill # pm.gap.skill
  BY <1>3 DEF L!GapAfter, pm
<1>4. CASE g.skill = pm.gap.skill /\ patch[p].status = "done"
  <2>1. L!GapAfter(g, p) = shut
    BY <1>4 DEF L!GapAfter, pm, shut
  <2> QED
    BY <1>2, <1>4, <2>1 DEF pm
<1>5. CASE g.skill = pm.gap.skill /\ patch[p].status # "done" /\ pm.status = "done"
  <2>1. L!GapAfter(g, p) = open
    BY <1>5 DEF L!GapAfter, pm, open
  <2> QED
    BY <1>5, <1>a, <2>1 DEF pm
<1>6. CASE g.skill = pm.gap.skill /\ patch[p].status # "done" /\ pm.status # "done"
  BY <1>6 DEF L!GapAfter, pm
<1> QED
  BY <1>3, <1>4, <1>5, <1>6

-----------------------------------------------------------------------------
(* One lemma per action, or per few that change the same.                    *)

LEMMA CreateKeeps ==
  ASSUME PlanInv, NEW r \in Roadmaps, L!Create(r)
  PROVE  PlanInv'
<1> USE DEF L!Create
<1>1. rec[r] = "absent" /\ plan[r].state = "none" /\ plan[r] \in PlanRows
  BY DEF PlanInv, PlanTyped, AbsentHasNoPlan
<1> DEFINE q == [plan[r] EXCEPT !.state = "unqueued"]
<1>2. q \in PlanRows /\ q.state = "unqueued" /\ q.try = plan[r].try
  BY <1>1 DEF PlanRows
<1> HIDE DEF q
<1>3. plan' = [plan EXCEPT ![r] = q]
  BY DEF q, PlanInv, PlanTyped
<1>4. \A m \in milestones : m.run[1] # r /\ m.rec # r
  BY <1>1 DEF PlanInv, RunsBefore, RunBefore, PlannedIsNotPlanning
<1>5. \A m \in milestones : m.run[1] \in Roadmaps /\ m.rec \in Roadmaps
  BY DEF PlanInv, PlanTyped, MilestoneRows
<1>6. PlanTyped'
  BY <1>1, <1>2, <1>3 DEF PlanInv, PlanTyped
<1>7. AbsentHasNoPlan'
  BY <1>3, <1>6 DEF PlanInv, PlanTyped, AbsentHasNoPlan
<1>8. RunsBefore' /\ PlannedIsNotPlanning'
  BY <1>3, <1>4, <1>5 DEF PlanInv, PlanTyped, RunsBefore, RunBefore, PlannedIsNotPlanning
<1>9. UNCHANGED <<milestones, agg, planner, rebuild, planCrossed>>
  OBVIOUS
<1>10. OneOfAKind' /\ OwnPlan' /\ RowsAreOnce' /\ L!OneMilestonePerSkill' /\ L!AddressedWasDone'
  BY <1>9 DEF PlanInv, OneOfAKind, L!SameMilestone, OwnPlan, RowsAreOnce, OncePerSkill, L!Gone,
              L!OneMilestonePerSkill, L!AddressedWasDone
<1> QED
  BY <1>6, <1>7, <1>8, <1>10 DEF PlanInv

LEMMA EnqueueKeeps ==
  ASSUME PlanInv, NEW r \in Roadmaps, L!EnqueuePlan(r)
  PROVE  PlanInv'
<1> USE DEF L!EnqueuePlan
<1>1. PICK s \in {"queued", "none"} : plan' = [plan EXCEPT ![r].state = s]
  OBVIOUS
<1>2. plan[r].state = "unqueued" /\ plan[r] \in PlanRows
  BY DEF PlanInv, PlanTyped
<1> DEFINE q == [plan[r] EXCEPT !.state = s]
<1>3. q \in PlanRows /\ q.state = s /\ q.try = plan[r].try
  BY <1>2 DEF PlanRows
<1> HIDE DEF q
<1>4. plan' = [plan EXCEPT ![r] = q]
  BY <1>1 DEF q, PlanInv, PlanTyped
<1>5. \A m \in milestones : m.run[1] # r /\ m.run[1] \in Roadmaps
  BY <1>2 DEF PlanInv, PlanTyped, MilestoneRows, RunsBefore, RunBefore
<1>6. PlanTyped'
  BY <1>2, <1>3, <1>4 DEF PlanInv, PlanTyped
<1>7. rec[r] # "absent"
  BY <1>2 DEF PlanInv, AbsentHasNoPlan
<1>8. AbsentHasNoPlan'
  BY <1>4, <1>7 DEF PlanInv, PlanTyped, AbsentHasNoPlan
<1>9. UNCHANGED <<rec, milestones, agg, planner, rebuild, planCrossed>>
  OBVIOUS
<1>10. RunsBefore'
  BY <1>4, <1>5, <1>9 DEF PlanInv, PlanTyped, RunsBefore, RunBefore
<1>11. PlannedIsNotPlanning' /\ OneOfAKind' /\ OwnPlan' /\ RowsAreOnce'
       /\ L!OneMilestonePerSkill' /\ L!AddressedWasDone'
  BY <1>9 DEF PlanInv, PlannedIsNotPlanning, OneOfAKind, L!SameMilestone, OwnPlan, RowsAreOnce,
              OncePerSkill, L!Gone, L!OneMilestonePerSkill, L!AddressedWasDone
<1> QED
  BY <1>6, <1>8, <1>10, <1>11 DEF PlanInv

(* SetStatus, SweepRoadmap and the mark of time: the status and its age.     *)
LEMMA StatusKeeps ==
  ASSUME PlanInv, NEW r \in Roadmaps, rec[r] # "absent",
         \/ \E status \in {"active", "archived"} : rec' = [rec EXCEPT ![r] = status]
         \/ rec' = rec,
         NEW old \in BOOLEAN, rOld' = [rOld EXCEPT ![r] = old],
         UNCHANGED <<milestones, agg, plan, planner, patch, rebuild, planCrossed>>
  PROVE  PlanInv'
<1>1. \A m \in milestones : m.run[1] \in Roadmaps /\ m.rec \in Roadmaps
  BY DEF PlanInv, PlanTyped, MilestoneRows
<1>2. \A e \in Roadmaps : /\ rec'[e] = "absent" => rec[e] = "absent"
                          /\ rec[e] = "absent" => rec'[e] = "absent"
                          /\ rec'[e] = "planning" => rec[e] = "planning"
  BY DEF PlanInv, PlanTyped
<1>3. PlanTyped'
  BY DEF PlanInv, PlanTyped
<1>4. AbsentHasNoPlan' /\ RunsBefore' /\ PlannedIsNotPlanning'
  BY <1>1, <1>2 DEF PlanInv, AbsentHasNoPlan, RunsBefore, RunBefore, PlannedIsNotPlanning
<1>5. OneOfAKind' /\ OwnPlan' /\ RowsAreOnce' /\ L!OneMilestonePerSkill' /\ L!AddressedWasDone'
  BY DEF PlanInv, OneOfAKind, L!SameMilestone, OwnPlan, RowsAreOnce, OncePerSkill, L!Gone,
         L!OneMilestonePerSkill, L!AddressedWasDone
<1> QED
  BY <1>3, <1>4, <1>5 DEF PlanInv

LEMMA PatchReadsKeeps ==
  ASSUME PlanInv, NEW p \in Patchers, NEW m \in milestones, NEW status \in L!MilestoneStatuses,
         L!PatchReads(p, m, status)
  PROVE  PlanInv'
<1> USE DEF L!PatchReads
<1>1. m \in MilestoneRows
  BY DEF PlanInv, PlanTyped
<1>2. [at |-> "read", m |-> m, status |-> status] \in Reads
  BY <1>1 DEF Reads
<1>3. PlanTyped'
  BY <1>2 DEF PlanInv, PlanTyped
<1>4. UNCHANGED <<rec, milestones, agg, plan, planner, rebuild, planCrossed>>
  OBVIOUS
<1>5. AbsentHasNoPlan' /\ RunsBefore' /\ PlannedIsNotPlanning' /\ OneOfAKind' /\ OwnPlan'
      /\ RowsAreOnce' /\ L!OneMilestonePerSkill' /\ L!AddressedWasDone'
  BY <1>4 DEF PlanInv, AbsentHasNoPlan, RunsBefore, RunBefore, PlannedIsNotPlanning, OneOfAKind,
              L!SameMilestone, OwnPlan, RowsAreOnce, OncePerSkill, L!Gone, L!OneMilestonePerSkill,
              L!AddressedWasDone
<1> QED
  BY <1>3, <1>5 DEF PlanInv

LEMMA PatchCommitsKeeps ==
  ASSUME L!RoadmapAssumption, PlanInv, NEW p \in Patchers, L!PatchCommits(p)
  PROVE  PlanInv'
<1> USE DEF L!PatchCommits
<1> DEFINE pm == patch[p].m
<1>1. patch[p] \in Reads /\ pm \in MilestoneRows /\ patch[p].status \in L!MilestoneStatuses
  <2>1. patch[p] \in {[at |-> "new"]} \cup Reads /\ patch[p].at = "read"
    BY DEF PlanInv, PlanTyped
  <2> QED
    BY <2>1 DEF Reads
<1>2. milestones' = {Moved(m, p) : m \in milestones} /\ agg' = {L!GapAfter(g, p) : g \in agg}
  BY DEF Moved
<1>3. \A m \in milestones :
        /\ Moved(m, p) \in MilestoneRows /\ Moved(m, p).rec = m.rec
        /\ Moved(m, p).gap = m.gap /\ Moved(m, p).run = m.run
        /\ Moved(m, p).status = IF L!SameMilestone(m, pm) /\ patch[p].status # pm.status
                               THEN patch[p].status ELSE m.status
  BY <1>1, MovedKeeps DEF PlanInv, PlanTyped
<1>4. \A g \in agg :
        /\ L!GapAfter(g, p) \in GapRows
        /\ L!GapAfter(g, p).skill = g.skill /\ L!GapAfter(g, p).made = g.made
  BY <1>1, GapAfterKeeps DEF PlanInv, PlanTyped
<1>5. \A g \in agg :
        /\ g.skill # pm.gap.skill => L!GapAfter(g, p).by = g.by
        /\ g.skill = pm.gap.skill /\ patch[p].status = "done" => L!GapAfter(g, p).by = pm.rec
        /\ g.skill = pm.gap.skill /\ patch[p].status # "done" =>
             \/ L!GapAfter(g, p).by = L!NoRoadmap
             \/ L!GapAfter(g, p).by = g.by /\ pm.status # "done"
  BY <1>1, GapAfterKeeps DEF PlanInv, PlanTyped
<1>6. UNCHANGED <<rec, rOld, plan, planner, rebuild>> /\ planCrossed \subseteq planCrossed'
  OBVIOUS
<1>7. PlanTyped'
  <2>1. milestones' \subseteq MilestoneRows /\ agg' \subseteq GapRows
    BY <1>2, <1>3, <1>4
  <2>2. patch' \in [Patchers -> {[at |-> "new"]} \cup Reads] /\ planCrossed' \subseteq L!Crossings
    BY DEF PlanInv, PlanTyped, L!Crossings
  <2> QED
    BY <1>6, <2>1, <2>2 DEF PlanInv, PlanTyped
<1>8. AbsentHasNoPlan' /\ RunsBefore' /\ PlannedIsNotPlanning'
  BY <1>2, <1>3, <1>6 DEF PlanInv, AbsentHasNoPlan, RunsBefore, RunBefore, PlannedIsNotPlanning
<1>9. OneOfAKind' /\ OwnPlan' /\ L!OneMilestonePerSkill'
  BY <1>2, <1>3, <1>6 DEF PlanInv, OneOfAKind, L!SameMilestone, OwnPlan, L!OneMilestonePerSkill
<1>10. RowsAreOnce'
  BY <1>2, <1>4, <1>6 DEF PlanInv, RowsAreOnce, OncePerSkill, L!Gone
<1>11. L!AddressedWasDone'
  <2> SUFFICES ASSUME "patches" \notin planCrossed', NEW h \in agg', h.by # L!NoRoadmap
               PROVE  \E m \in milestones' : m.rec = h.by /\ m.gap.skill = h.skill
                                             /\ m.status = "done"
    BY DEF L!AddressedWasDone
  <2>1. "patches" \notin planCrossed /\ pm \in milestones
    OBVIOUS
  <2>2. PICK g \in agg : h = L!GapAfter(g, p)
    BY <1>2
  <2> HIDE DEF pm, L!PatchCommits
  <2>3. CASE g.skill = pm.gap.skill /\ patch[p].status = "done"
    <3>1. L!SameMilestone(pm, pm)
      BY DEF L!SameMilestone
    <3>2. Moved(pm, p) \in milestones' /\ Moved(pm, p).status = "done"
      BY <1>2, <1>3, <2>1, <2>3, <3>1
    <3> QED
      BY <1>3, <1>4, <1>5, <2>1, <2>2, <2>3, <3>2
  <2>4. CASE ~(g.skill = pm.gap.skill /\ patch[p].status = "done")
    <3>1. h.by = g.by /\ (g.skill # pm.gap.skill \/ pm.status # "done")
      BY <1>5, <2>2, <2>4
    <3>2. PICK m \in milestones : m.rec = g.by /\ m.gap.skill = g.skill /\ m.status = "done"
      BY <2>1, <3>1 DEF PlanInv, L!AddressedWasDone
    <3>3. ~L!SameMilestone(m, pm)
      BY <2>1, <3>1, <3>2 DEF PlanInv, OneOfAKind, L!SameMilestone
    <3> QED
      BY <1>2, <1>3, <1>4, <2>2, <3>1, <3>2, <3>3
  <2> QED
    BY <2>3, <2>4
<1> QED
  BY <1>7, <1>8, <1>9, <1>10, <1>11 DEF PlanInv

LEMMA SetGapStatusKeeps ==
  ASSUME PlanInv, NEW g \in agg, NEW status \in {"open", "closed"}, L!SetGapStatus(g, status)
  PROVE  PlanInv'
<1> USE DEF L!SetGapStatus
<1> DEFINE h == [g EXCEPT !.status = status]
<1>1. h \in GapRows /\ h.skill = g.skill /\ h.made = g.made /\ h.by = g.by
  BY DEF PlanInv, PlanTyped, GapRows
<1>2. agg' = (agg \ {g}) \cup {h}
  OBVIOUS
<1> HIDE DEF h
<1>3. UNCHANGED <<rec, rOld, milestones, plan, planner, patch, rebuild, planCrossed>>
  OBVIOUS
<1> HIDE DEF L!SetGapStatus
<1>4. PlanTyped'
  BY <1>1, <1>2, <1>3 DEF PlanInv, PlanTyped
<1>5. AbsentHasNoPlan' /\ RunsBefore' /\ PlannedIsNotPlanning' /\ OneOfAKind' /\ OwnPlan'
      /\ L!OneMilestonePerSkill'
  BY <1>3 DEF PlanInv, AbsentHasNoPlan, RunsBefore, RunBefore, PlannedIsNotPlanning, OneOfAKind,
              L!SameMilestone, OwnPlan, L!OneMilestonePerSkill
<1>6. RowsAreOnce'
  BY <1>1, <1>2, <1>3 DEF PlanInv, RowsAreOnce, OncePerSkill, L!Gone
<1>7. L!AddressedWasDone'
  BY <1>1, <1>2, <1>3 DEF PlanInv, L!AddressedWasDone
<1> QED
  BY <1>4, <1>5, <1>6, <1>7 DEF PlanInv

LEMMA RebuildDeletesKeeps ==
  ASSUME PlanInv, NEW b \in Rebuilds, L!RebuildDeletes(b)
  PROVE  PlanInv'
<1> USE DEF L!RebuildDeletes
<1>1. UNCHANGED <<rec, rOld, milestones, agg, plan, planner, patch>> /\ planCrossed \subseteq planCrossed'
      /\ planCrossed' \subseteq planCrossed \cup {"rebuilds"}
  OBVIOUS
<1>2. \A c \in Rebuilds : rebuild'[c] = IF c = b THEN [at |-> "deleted", rows |-> agg]
                                       ELSE rebuild[c]
  BY DEF PlanInv, PlanTyped
<1>3. [at |-> "deleted", rows |-> agg] \in RebuildRows
  BY DEF PlanInv, PlanTyped, RebuildRows
<1>4. rebuild' \in [Rebuilds -> RebuildRows]
  BY <1>3 DEF PlanInv, PlanTyped
<1>5. "rebuilds" \notin planCrossed' => \A c \in Rebuilds : rebuild[c].at # "deleted"
  OBVIOUS
<1> HIDE DEF L!RebuildDeletes
<1>6. PlanTyped'
  BY <1>1, <1>4 DEF PlanInv, PlanTyped, L!Crossings
<1>7. AbsentHasNoPlan' /\ RunsBefore' /\ PlannedIsNotPlanning' /\ OneOfAKind' /\ OwnPlan'
      /\ L!OneMilestonePerSkill' /\ L!AddressedWasDone'
  BY <1>1 DEF PlanInv, AbsentHasNoPlan, RunsBefore, RunBefore, PlannedIsNotPlanning, OneOfAKind,
              L!SameMilestone, OwnPlan, L!OneMilestonePerSkill, L!AddressedWasDone
<1>8. RowsAreOnce'
  BY <1>1, <1>2, <1>5 DEF PlanInv, RowsAreOnce, OncePerSkill, L!Gone
<1> QED
  BY <1>6, <1>7, <1>8 DEF PlanInv

LEMMA RebuildCommitsKeeps ==
  ASSUME PlanInv, NEW b \in Rebuilds, L!RebuildCommits(b)
  PROVE  PlanInv'
<1> USE DEF L!RebuildCommits
<1>1. UNCHANGED <<rec, rOld, milestones, plan, planner, patch, planCrossed>>
  OBVIOUS
<1>2. \A c \in Rebuilds : rebuild'[c] = IF c = b THEN [at |-> "end", rows |-> {}]
                                       ELSE rebuild[c]
  BY DEF PlanInv, PlanTyped
<1>3. [at |-> "end", rows |-> {}] \in RebuildRows
  BY DEF RebuildRows
<1>4. rebuild' \in [Rebuilds -> RebuildRows]
  BY <1>3 DEF PlanInv, PlanTyped
<1>5. \A g \in L!Rows(b) : g \in GapRows /\ g.by = L!NoRoadmap
  BY DEF L!Rows, GapRows
<1>6. OncePerSkill(L!Rows(b))
  BY DEF OncePerSkill, L!Rows
<1>7. agg' = {g \in agg : ~L!Gone(g, b)} \cup L!Rows(b) /\ rebuild[b].at = "deleted"
  OBVIOUS
<1> HIDE DEF L!RebuildCommits
<1>8. PlanTyped'
  BY <1>1, <1>4, <1>5, <1>7 DEF PlanInv, PlanTyped
<1>9. AbsentHasNoPlan' /\ RunsBefore' /\ PlannedIsNotPlanning' /\ OneOfAKind' /\ OwnPlan'
      /\ L!OneMilestonePerSkill'
  BY <1>1 DEF PlanInv, AbsentHasNoPlan, RunsBefore, RunBefore, PlannedIsNotPlanning, OneOfAKind,
              L!SameMilestone, OwnPlan, L!OneMilestonePerSkill
<1>10. RowsAreOnce'
  <2> SUFFICES ASSUME "rebuilds" \notin planCrossed
               PROVE  /\ OncePerSkill(agg') /\ \A r \in Roadmaps : OncePerSkill(planner[r].took)
                      /\ \A c \in Rebuilds : rebuild'[c].at # "deleted"
    BY <1>1 DEF RowsAreOnce, OncePerSkill
  <2>1. agg' = L!Rows(b) /\ \A c \in Rebuilds : rebuild[c].at = "deleted" => b = c
    BY <1>7 DEF PlanInv, RowsAreOnce
  <2> QED
    BY <1>2, <1>6, <2>1 DEF PlanInv, RowsAreOnce
<1>11. L!AddressedWasDone'
  BY <1>1, <1>5, <1>7 DEF PlanInv, L!AddressedWasDone
<1> QED
  BY <1>8, <1>9, <1>10, <1>11 DEF PlanInv

(* A job that is over, or is queued for another try.                         *)
LEMMA PlanOffKeeps ==
  ASSUME PlanInv, NEW r \in Roadmaps, NEW q \in PlanRows, NEW w \in PlannerRows,
         w.at = "off", OncePerSkill(w.took) \/ w = planner[r], q.state \in {"none", "queued"},
         q.state = "queued" => planner[r].at # "off" /\ q.try = plan[r].try + 1,
         plan' = [plan EXCEPT ![r] = q], planner' = [planner EXCEPT ![r] = w],
         L!RoadmapAssumption,
         UNCHANGED <<rec, rOld, milestones, agg, patch, rebuild, planCrossed>>
  PROVE  PlanInv'
<1>1. \A e \in Roadmaps : /\ plan'[e] = IF e = r THEN q ELSE plan[e]
                          /\ planner'[e] = IF e = r THEN w ELSE planner[e]
  BY DEF PlanInv, PlanTyped
<1>2. PlanTyped'
  <2>1. plan' \in [Roadmaps -> PlanRows] /\ planner' \in [Roadmaps -> PlannerRows]
    BY DEF PlanInv, PlanTyped
  <2>2. \A e \in Roadmaps : /\ planner'[e].at = "off" <=> plan'[e].state # "running"
                            /\ planner'[e].at = "planning" => planner'[e].target \in Roadmaps
    BY <1>1 DEF PlanInv, PlanTyped
  <2> QED
    BY <2>1, <2>2 DEF PlanInv, PlanTyped
<1>3. q.state = "queued" => rec[r] # "absent"
  BY DEF PlanInv, PlanTyped, AbsentHasNoPlan
<1>4. AbsentHasNoPlan'
  BY <1>1, <1>3 DEF PlanInv, AbsentHasNoPlan
<1>5. RunsBefore'
  <2> SUFFICES ASSUME NEW m \in milestones PROVE RunBefore(m, m.run[1])'
    BY DEF RunsBefore
  <2>1. RunBefore(m, m.run[1]) /\ m.run[1] \in Roadmaps /\ m.run[2] \in Nat
    BY DEF PlanInv, RunsBefore, PlanTyped, MilestoneRows
  <2>2. CASE m.run[1] # r
    BY <1>1, <2>1, <2>2 DEF RunBefore
  <2>3. CASE m.run[1] = r
    <3>1. q.state = "queued" => m.run[2] < q.try
      <4> SUFFICES ASSUME q.state = "queued" PROVE m.run[2] < q.try
        OBVIOUS
      <4>1. planner[r].at \in {"loaded", "planning", "done", "failed"}
        BY DEF PlanInv, PlanTyped, PlannerRows
      <4>2. plan[r].try \in Nat
        BY DEF PlanInv, PlanTyped, PlanRows, L!RoadmapAssumption
      <4>3. m.run[2] <= plan[r].try
        BY <2>1, <2>3, <4>1, <4>2 DEF RunBefore
      <4> QED
        BY <2>1, <4>2, <4>3
    <3> QED
      BY <1>1, <2>1, <2>3, <3>1 DEF RunBefore
  <2> QED
    BY <2>2, <2>3
<1>6. PlannedIsNotPlanning' /\ OneOfAKind' /\ L!OneMilestonePerSkill' /\ L!AddressedWasDone'
  BY DEF PlanInv, PlannedIsNotPlanning, OneOfAKind, L!SameMilestone, L!OneMilestonePerSkill,
         L!AddressedWasDone
<1>7. OwnPlan' /\ RowsAreOnce'
  BY <1>1 DEF PlanInv, OwnPlan, RowsAreOnce, OncePerSkill, L!Gone
<1> QED
  BY <1>2, <1>4, <1>5, <1>6, <1>7 DEF PlanInv

LEMMA PlanStopsKeeps ==
  ASSUME L!RoadmapAssumption, PlanInv, NEW r \in Roadmaps,
         L!PlanSkips(r) \/ L!PlanFindsNone(r) \/ L!PlanEnds(r) \/ L!PlanDies(r)
  PROVE  PlanInv'
<1>1. L!NoPlan \in PlanRows /\ L!NoPlan.state = "none"
  BY DEF L!NoPlan, PlanRows, L!RoadmapAssumption
<1>2. L!OffPlan \in PlannerRows /\ L!OffPlan.at = "off" /\ OncePerSkill(L!OffPlan.took)
  BY DEF L!OffPlan, PlannerRows, OncePerSkill
<1>3. plan[r] \in PlanRows /\ planner[r] \in PlannerRows
  BY DEF PlanInv, PlanTyped
<1>4. CASE L!PlanSkips(r)
  <2>1. planner[r].at = "off" /\ planner' = [planner EXCEPT ![r] = planner[r]]
    BY <1>4 DEF L!PlanSkips, PlanInv, PlanTyped
  <2> QED
    BY <1>1, <1>3, <1>4, <2>1, PlanOffKeeps DEF L!PlanSkips
<1>5. CASE L!PlanFindsNone(r) \/ L!PlanEnds(r)
  BY <1>1, <1>2, <1>5, PlanOffKeeps DEF L!PlanFindsNone, L!PlanEnds
<1>6. CASE L!PlanDies(r)
  <2> DEFINE q == [state |-> "queued", try |-> plan[r].try + 1]
  <2>1. \/ plan' = [plan EXCEPT ![r] = L!NoPlan]
        \/ plan' = [plan EXCEPT ![r] = q] /\ plan[r].try < PlanTries
    BY <1>6, Zenon DEF L!PlanDies
  <2>2. plan[r].try < PlanTries => q \in PlanRows
    BY <1>3 DEF PlanRows, L!RoadmapAssumption
  <2>3. q.state = "queued" /\ q.try = plan[r].try + 1
    OBVIOUS
  <2> HIDE DEF q
  <2> QED
    BY <1>1, <1>2, <1>6, <2>1, <2>2, <2>3, PlanOffKeeps DEF L!PlanDies
<1> QED
  BY <1>4, <1>5, <1>6

LEMMA PlanStartsKeeps ==
  ASSUME L!RoadmapAssumption, PlanInv, NEW r \in Roadmaps, L!PlanStarts(r)
  PROVE  PlanInv'
<1> USE DEF L!PlanStarts
<1> DEFINE q == [plan[r] EXCEPT !.state = "running"]
           w == [L!OffPlan EXCEPT !.at = "loaded"]
<1>1. q \in PlanRows /\ q.state = "running" /\ q.try = plan[r].try /\ plan[r].state = "queued"
  BY DEF PlanInv, PlanTyped, PlanRows
<1>2. w \in PlannerRows /\ w.at = "loaded" /\ w.took = {}
  BY DEF L!OffPlan, PlannerRows
<1>3. plan' = [plan EXCEPT ![r] = q] /\ planner' = [planner EXCEPT ![r] = w]
  BY DEF PlanInv, PlanTyped
<1> HIDE DEF q, w
<1>4. UNCHANGED <<rec, rOld, milestones, agg, patch, rebuild, planCrossed>> /\ rec[r] = "planning"
  BY DEF L!Starts
<1> HIDE DEF L!PlanStarts
<1>5. \A e \in Roadmaps : /\ plan'[e] = IF e = r THEN q ELSE plan[e]
                          /\ planner'[e] = IF e = r THEN w ELSE planner[e]
  BY <1>3 DEF PlanInv, PlanTyped
<1>6. PlanTyped'
  <2>1. plan' \in [Roadmaps -> PlanRows] /\ planner' \in [Roadmaps -> PlannerRows]
    BY <1>1, <1>2, <1>3 DEF PlanInv, PlanTyped
  <2>2. \A e \in Roadmaps : /\ planner'[e].at = "off" <=> plan'[e].state # "running"
                            /\ planner'[e].at = "planning" => planner'[e].target \in Roadmaps
    BY <1>1, <1>2, <1>5 DEF PlanInv, PlanTyped
  <2> QED
    BY <1>4, <2>1, <2>2 DEF PlanInv, PlanTyped
<1>7. AbsentHasNoPlan'
  BY <1>4, <1>5 DEF PlanInv, AbsentHasNoPlan
<1>8. RunsBefore'
  BY <1>1, <1>2, <1>4, <1>5 DEF PlanInv, PlanTyped, MilestoneRows, RunsBefore, RunBefore
<1>9. PlannedIsNotPlanning' /\ OneOfAKind' /\ L!OneMilestonePerSkill' /\ L!AddressedWasDone'
  BY <1>4 DEF PlanInv, PlannedIsNotPlanning, OneOfAKind, L!SameMilestone, L!OneMilestonePerSkill,
              L!AddressedWasDone
<1>10. OwnPlan' /\ RowsAreOnce'
  BY <1>2, <1>4, <1>5 DEF PlanInv, OwnPlan, RowsAreOnce, OncePerSkill, L!Gone
<1> QED
  BY <1>6, <1>7, <1>8, <1>9, <1>10 DEF PlanInv

LEMMA PlanPicksKeeps ==
  ASSUME L!RoadmapAssumption, PlanInv, NEW r \in Roadmaps, L!PlanPicks(r)
  PROVE  PlanInv'
<1> USE DEF L!PlanPicks
<1> DEFINE t == L!Newest(L!Planning)
<1>1. t \in Roadmaps /\ rec[t] = "planning"
  BY NewestIsOne DEF L!Planning
<1>2. PICK G \in L!TopGaps :
        planner' = [planner EXCEPT ![r] = [at |-> "planning", target |-> t, took |-> G]]
  OBVIOUS
<1>3. G \subseteq agg
  BY DEF L!TopGaps, L!Open
<1> DEFINE w == [at |-> "planning", target |-> t, took |-> G]
<1>4. w \in PlannerRows /\ w.at = "planning" /\ w.target = t /\ w.took = G
  BY <1>1, <1>3 DEF PlannerRows, PlanInv, PlanTyped
<1>5. \A e \in Roadmaps : planner'[e] = IF e = r THEN w ELSE planner[e]
  BY <1>2 DEF PlanInv, PlanTyped
<1>6. planner' \in [Roadmaps -> PlannerRows]
  BY <1>2, <1>4 DEF PlanInv, PlanTyped
<1> HIDE DEF w
<1>7. UNCHANGED <<rec, rOld, milestones, agg, plan, patch, rebuild>> /\ planner[r].at = "loaded"
      /\ planCrossed \subseteq planCrossed' /\ planCrossed' \subseteq planCrossed \cup {"plans"}
      /\ ("plans" \notin planCrossed' => t = r)
  OBVIOUS
<1> HIDE DEF L!PlanPicks, t
<1>8. PlanTyped'
  <2>1. \A e \in Roadmaps : /\ planner'[e].at = "off" <=> plan'[e].state # "running"
                            /\ planner'[e].at = "planning" => planner'[e].target \in Roadmaps
    BY <1>1, <1>4, <1>5, <1>7 DEF PlanInv, PlanTyped
  <2> QED
    BY <1>6, <1>7, <2>1 DEF PlanInv, PlanTyped, L!Crossings
<1>9. AbsentHasNoPlan' /\ RunsBefore'
  BY <1>4, <1>5, <1>7 DEF PlanInv, PlanTyped, MilestoneRows, AbsentHasNoPlan, RunsBefore, RunBefore
<1>10. PlannedIsNotPlanning' /\ OneOfAKind' /\ L!OneMilestonePerSkill' /\ L!AddressedWasDone'
  BY <1>7 DEF PlanInv, PlannedIsNotPlanning, OneOfAKind, L!SameMilestone, L!OneMilestonePerSkill,
              L!AddressedWasDone
<1>11. OwnPlan'
  <2>1. "plans" \notin planCrossed' => t = r /\ \A m \in milestones : m.rec # r
    BY <1>1, <1>7 DEF PlanInv, PlannedIsNotPlanning
  <2> QED
    BY <1>4, <1>5, <1>7, <2>1 DEF PlanInv, OwnPlan
<1>12. RowsAreOnce'
  BY <1>3, <1>4, <1>5, <1>7 DEF PlanInv, RowsAreOnce, OncePerSkill, L!Gone
<1> QED
  BY <1>8, <1>9, <1>10, <1>11, <1>12 DEF PlanInv

LEMMA PlanCommitsKeeps ==
  ASSUME L!RoadmapAssumption, PlanInv, NEW r \in Roadmaps, NEW status \in {"active", "archived"},
         NEW G \in SUBSET planner[r].took, L!PlanCommits(r, status, G)
  PROVE  PlanInv'
<1> USE DEF L!PlanCommits
<1> DEFINE t == planner[r].target
           z == IF status = "active" THEN "done" ELSE "failed"
           w == [planner[r] EXCEPT !.at = z]
           try == plan[r].try
<1>1. /\ planner[r].at = "planning" /\ t \in Roadmaps /\ plan[r].state = "running"
      /\ rec[r] # "absent" /\ try \in Nat
  BY DEF PlanInv, PlanTyped, PlannerRows, PlanRows, L!RoadmapAssumption, AbsentHasNoPlan
<1>2. G \subseteq GapRows /\ planner[r] \in PlannerRows
  BY DEF PlanInv, PlanTyped, PlannerRows
<1>3. w \in PlannerRows /\ w.at = z /\ w.took = planner[r].took
  BY <1>2 DEF PlannerRows
<1>4. planner' = [planner EXCEPT ![r] = w]
  BY DEF PlanInv, PlanTyped
<1>5. \A e \in Roadmaps : /\ planner'[e] = IF e = r THEN w ELSE planner[e]
                          /\ rec'[e] = IF e = t THEN status ELSE rec[e]
  BY <1>1, <1>4 DEF PlanInv, PlanTyped
<1>6. \A n \in L!Drafted(r, G) : /\ n \in MilestoneRows /\ n.rec = t /\ n.run = <<r, try>>
                              /\ n.run[1] = r /\ n.run[2] = try
  BY <1>1, <1>2 DEF L!Drafted, MilestoneRows, Gaps, GapRows, L!MilestoneStatuses
<1>7. \A n, m \in L!Drafted(r, G) : n.gap = m.gap => n = m
  BY DEF L!Drafted
<1>8. OncePerSkill(planner[r].took) =>
        \A n, m \in L!Drafted(r, G) : n.gap.skill = m.gap.skill => n = m
  BY DEF L!Drafted, OncePerSkill
<1>9. milestones' = milestones \cup L!Drafted(r, G) /\ UNCHANGED <<agg, plan, patch, rebuild, planCrossed>>
  OBVIOUS
<1>10. \A m \in milestones : m.run[1] = r => m.run[2] \in Nat /\ m.run[2] < try
  BY <1>1 DEF PlanInv, RunsBefore, RunBefore, PlanTyped, MilestoneRows
<1>11. planner' \in [Roadmaps -> PlannerRows] /\ rOld' \in [Roadmaps -> BOOLEAN]
       /\ rec' \in [Roadmaps -> {"absent", "planning", "active", "failed", "archived"}]
  BY <1>1, <1>3, <1>4 DEF PlanInv, PlanTyped
<1>z. z \in {"done", "failed"}
  OBVIOUS
<1> HIDE DEF L!PlanCommits, t, z, w, try
<1>12. PlanTyped'
  <2>1. \A e \in Roadmaps : /\ planner'[e].at = "off" <=> plan'[e].state # "running"
                            /\ planner'[e].at = "planning" => planner'[e].target \in Roadmaps
    BY <1>1, <1>3, <1>5, <1>9, <1>z DEF PlanInv, PlanTyped
  <2>2. milestones' \subseteq MilestoneRows
    BY <1>6, <1>9 DEF PlanInv, PlanTyped
  <2> QED
    BY <1>9, <1>11, <2>1, <2>2 DEF PlanInv, PlanTyped
<1>13. AbsentHasNoPlan' /\ PlannedIsNotPlanning'
  BY <1>5, <1>6, <1>9 DEF PlanInv, PlanTyped, MilestoneRows, AbsentHasNoPlan, PlannedIsNotPlanning
<1>14. RunsBefore'
  <2> SUFFICES ASSUME NEW m \in milestones' PROVE RunBefore(m, m.run[1])'
    BY DEF RunsBefore
  <2>1. CASE m.run[1] = r
    <3>1. m.run[2] <= try
      BY <1>1, <1>6, <1>9, <1>10, <2>1
    <3> QED
      BY <1>1, <1>3, <1>5, <1>9, <1>z, <2>1, <3>1 DEF RunBefore, try
  <2>2. CASE m.run[1] # r
    <3>1. m \in milestones /\ RunBefore(m, m.run[1]) /\ m.run[1] \in Roadmaps
      BY <1>6, <1>9, <2>2 DEF PlanInv, PlanTyped, MilestoneRows, RunsBefore
    <3> QED
      BY <1>5, <1>9, <2>2, <3>1 DEF RunBefore
  <2> QED
    BY <2>1, <2>2
<1>15. OneOfAKind'
  <2>1. \A m \in milestones, n \in L!Drafted(r, G) : m.run # n.run
    BY <1>1, <1>6, <1>10
  <2> QED
    BY <1>7, <1>9, <2>1 DEF PlanInv, OneOfAKind, L!SameMilestone
<1>16. OwnPlan'
  <2>1. "plans" \notin planCrossed => t = r
    BY <1>1 DEF PlanInv, OwnPlan, t
  <2> QED
    BY <1>3, <1>5, <1>6, <1>9, <1>z, <2>1 DEF PlanInv, OwnPlan
<1>17. RowsAreOnce'
  BY <1>3, <1>5, <1>9 DEF PlanInv, RowsAreOnce, OncePerSkill, L!Gone
<1>18. L!OneMilestonePerSkill'
  <2> SUFFICES ASSUME planCrossed \cap {"plans", "rebuilds"} = {},
                      NEW m \in milestones', NEW n \in milestones',
                      m.rec = n.rec, m.gap.skill = n.gap.skill
               PROVE  m = n
    BY <1>9 DEF L!OneMilestonePerSkill
  <2>1. t = r /\ OncePerSkill(planner[r].took) /\ \A e \in milestones : e.rec # r
    BY <1>1 DEF PlanInv, OwnPlan, RowsAreOnce, t
  <2> QED
    BY <1>6, <1>8, <1>9, <2>1 DEF PlanInv, L!OneMilestonePerSkill
<1>19. L!AddressedWasDone'
  BY <1>9 DEF PlanInv, L!AddressedWasDone
<1> QED
  BY <1>12, <1>13, <1>14, <1>15, <1>16, <1>17, <1>18, <1>19 DEF PlanInv

-----------------------------------------------------------------------------
LEMMA InitKeeps ==
  ASSUME L!RoadmapAssumption, L!Init
  PROVE  PlanInv
<1> USE DEF L!Init
<1>1. L!Rows("first") \subseteq GapRows /\ OncePerSkill(L!Rows("first"))
      /\ \A g \in L!Rows("first") : g.by = L!NoRoadmap
  BY DEF L!Rows, GapRows, OncePerSkill
<1>2. L!NoPlan \in PlanRows /\ L!NoPlan.state = "none"
  BY DEF L!NoPlan, PlanRows, L!RoadmapAssumption
<1>3. L!OffPlan \in PlannerRows /\ L!OffPlan.at = "off" /\ L!OffPlan.took = {}
  BY DEF L!OffPlan, PlannerRows
<1>4. [at |-> "new", rows |-> {}] \in RebuildRows
  BY DEF RebuildRows
<1>5. PlanTyped
  BY <1>1, <1>2, <1>3, <1>4 DEF PlanTyped
<1>6. AbsentHasNoPlan /\ RunsBefore /\ PlannedIsNotPlanning /\ OneOfAKind /\ OwnPlan
      /\ L!OneMilestonePerSkill
  BY <1>2, <1>3 DEF AbsentHasNoPlan, RunsBefore, PlannedIsNotPlanning, OneOfAKind, OwnPlan,
                    L!OneMilestonePerSkill
<1>7. RowsAreOnce /\ L!AddressedWasDone
  BY <1>1, <1>3 DEF RowsAreOnce, OncePerSkill, L!AddressedWasDone
<1> QED
  BY <1>5, <1>6, <1>7 DEF PlanInv

LEMMA PlanInvStep ==
  ASSUME L!RoadmapAssumption, PlanInv, [L!Next]_(L!rVars)
  PROVE  PlanInv'
<1>1. CASE UNCHANGED L!rVars
  BY <1>1 DEF L!rVars, PlanInv, PlanTyped, AbsentHasNoPlan, RunsBefore, RunBefore, PlannedIsNotPlanning,
     OneOfAKind, L!SameMilestone, OwnPlan, RowsAreOnce, OncePerSkill, L!Gone, L!OneMilestonePerSkill,
     L!AddressedWasDone
<1>2. ASSUME NEW r \in Roadmaps, L!SetStatus(r, "active") \/ L!SetStatus(r, "archived")
      PROVE  PlanInv'
  BY <1>2, StatusKeeps DEF L!SetStatus
<1>3. ASSUME NEW r \in Roadmaps, L!SweepRoadmap(r) PROVE PlanInv'
  BY <1>3, StatusKeeps DEF L!SweepRoadmap, L!Stuck
<1>4. ASSUME NEW r \in Roadmaps, L!TimePasses(r) PROVE PlanInv'
  BY <1>4, StatusKeeps DEF L!TimePasses
<1>5. ASSUME NEW r \in Roadmaps, L!PlanSucceeds(r) \/ L!PlanFails(r) PROVE PlanInv'
  BY <1>5, PlanCommitsKeeps DEF L!PlanSucceeds, L!PlanFails
<1>6. ASSUME NEW r \in Roadmaps,
             \/ L!Create(r) \/ L!EnqueuePlan(r)
             \/ \E status \in {"active", "archived"} : L!SetStatus(r, status)
             \/ L!PlanSkips(r) \/ L!PlanStarts(r) \/ L!PlanPicks(r) \/ L!PlanFindsNone(r)
             \/ L!PlanSucceeds(r) \/ L!PlanFails(r) \/ L!PlanEnds(r) \/ L!PlanDies(r)
             \/ L!SweepRoadmap(r) \/ L!TimePasses(r)
      PROVE  PlanInv'
  BY <1>2, <1>3, <1>4, <1>5, <1>6, CreateKeeps, EnqueueKeeps, PlanStopsKeeps, PlanStartsKeeps,
     PlanPicksKeeps
<1>7. ASSUME NEW p \in Patchers,
             \/ \E m \in milestones, status \in L!MilestoneStatuses : L!PatchReads(p, m, status)
             \/ L!PatchCommits(p)
      PROVE  PlanInv'
  BY <1>7, PatchReadsKeeps, PatchCommitsKeeps
<1>8. ASSUME NEW g \in agg, NEW status \in {"open", "closed"}, L!SetGapStatus(g, status)
      PROVE  PlanInv'
  BY <1>8, SetGapStatusKeeps
<1>9. ASSUME NEW b \in Rebuilds, L!RebuildDeletes(b) \/ L!RebuildCommits(b)
      PROVE  PlanInv'
  BY <1>9, RebuildDeletesKeeps, RebuildCommitsKeeps
<1> QED
  BY <1>1, <1>6, <1>7, <1>8, <1>9 DEF L!Next

LEMMA PlanInvIsTyped ==
  ASSUME L!RoadmapAssumption, PlanInv
  PROVE  L!TypeOK
<1>1. \A g \in agg : /\ g.skill \in Skills /\ g.status \in {"open", "closed"}
                    /\ g.by \in Roadmaps \cup {L!NoRoadmap}
  BY DEF PlanInv, PlanTyped, GapRows
<1>2. \A m \in milestones : m.rec \in Roadmaps /\ m.status \in L!MilestoneStatuses
  BY DEF PlanInv, PlanTyped, MilestoneRows
<1> QED
  BY <1>1, <1>2 DEF PlanInv, PlanTyped, L!TypeOK, PlanRows

-----------------------------------------------------------------------------
(* A roadmap asks for each skill once, however often its job was run again   *)
(* and whatever its user did meanwhile, unless two plans or two rebuilds ran *)
(* together (plan_roadmap, aggregate_skill_gaps).                            *)
THEOREM MilestonesAreOnce ==
  ASSUME L!RoadmapAssumption
  PROVE  L!Spec => []L!OneMilestonePerSkill
<1>1. L!Init => PlanInv
  BY InitKeeps
<1>2. PlanInv /\ [L!Next]_(L!rVars) => PlanInv'
  BY PlanInvStep
<1>3. PlanInv => L!OneMilestonePerSkill
  BY DEF PlanInv
<1> QED
  BY <1>1, <1>2, <1>3, PTL DEF L!Spec

(* A gap that says which roadmap closed it has a milestone done there, unless *)
(* two requests on one milestone crossed (set_milestone_status).             *)
THEOREM AddressedGapsWereDone ==
  ASSUME L!RoadmapAssumption
  PROVE  L!Spec => []L!AddressedWasDone
<1>1. L!Init => PlanInv
  BY InitKeeps
<1>2. PlanInv /\ [L!Next]_(L!rVars) => PlanInv'
  BY PlanInvStep
<1>3. PlanInv => L!AddressedWasDone
  BY DEF PlanInv
<1> QED
  BY <1>1, <1>2, <1>3, PTL DEF L!Spec

(* The tables of a roadmap keep their types, and a job has a planner exactly *)
(* while it runs (plan_roadmap).                                             *)
THEOREM RoadmapIsTyped ==
  ASSUME L!RoadmapAssumption
  PROVE  L!Spec => []L!TypeOK
<1>1. L!Init => PlanInv
  BY InitKeeps
<1>2. PlanInv /\ [L!Next]_(L!rVars) => PlanInv'
  BY PlanInvStep
<1>3. PlanInv => L!TypeOK
  BY PlanInvIsTyped
<1> QED
  BY <1>1, <1>2, <1>3, PTL DEF L!Spec
=============================================================================
