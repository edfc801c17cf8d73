------------------------------- MODULE Profile -------------------------------
(***************************************************************************)
(* One person's career profile: its entries (profile/service.py), the       *)
(* confirmation of a resume that rewrites those that came from a resume     *)
(* (resume/service.py), the job build_profile that maps their skills        *)
(* (profile/builder.py, worker/tasks/profile.py) and the strength every one *)
(* of them computes again (profile/strength.py).                            *)
(*                                                                         *)
(* A request is a transaction at READ COMMITTED: it loads the profile,      *)
(* writes and counts, and commits; it sees its own rows and what others     *)
(* have committed.  Experiences and projects are alike and are one kind of  *)
(* entry; the wording, the order of the entries and the profile's own       *)
(* columns are left out.  The normalizer maps a raw skill to itself.        *)
(***************************************************************************)
EXTENDS Naturals, FiniteSets

CONSTANTS Requests,     \* requests that may overlap
          MaxEntries,   \* bound: how many rows there are at once
          Resumes,      \* uploads
          Skills,       \* the taxonomy
          SkillTarget,  \* mapped skills that make a strong profile (5 in the code)
          MaxAsked      \* bound: how many requests are made

ProfileAssumption ==
  "build_profile" \notin Requests /\ {MaxEntries, MaxAsked} \subseteq Nat /\ SkillTarget \in Nat \ {0}

VARIABLES entries,   \* rows: [id, source, tech, of]; of: the confirmation that made it
          resumes,   \* uploads: [status, primary, says]
          skills,    \* profile_skills: [skill, refs]
          strength,  \* career_profiles.profile_strength and completeness
          open,      \* the open transactions, the job's included
          job,       \* build_profile: "none", "queued", "running"
          asked,     \* how many requests were made
          promised,  \* ghost: a build that will see the entries was queued after
                     \*        the last change
          raced      \* ghost: the last to write the profile was not alone

pVars == <<entries, resumes, skills, strength, open, job, asked, promised, raced>>

Builder == "build_profile"
Writers == Requests \cup {Builder}

Idle == [at |-> "idle", op |-> "none", seen |-> {}, alone |-> TRUE, gone |-> {},
         new |-> {}, kept |-> TRUE, strength |-> {}, build |-> "none", got |-> {}]

NoResume == [status |-> "absent", primary |-> FALSE, says |-> {}]

-----------------------------------------------------------------------------
(* compute_strength: the checks the profile meets, as far as rows decide.   *)
Strength(rows, mapped) ==
  {c \in {"entries", "skills_mapped"} :
     \/ c = "entries" /\ rows # {}
     \/ c = "skills_mapped" /\ Cardinality(mapped) >= SkillTarget}

Init ==
  /\ entries = {} /\ skills = {} /\ strength = {}
  /\ resumes = [r \in Resumes |-> NoResume]
  /\ open = [w \in Writers |-> Idle]
  /\ job = "none" /\ asked = 0 /\ promised = TRUE /\ raced = FALSE

Quiet == job = "none" /\ \A w \in Writers : open[w].at = "idle"

Alone(w) == \A v \in Writers \ {w} : open[v].at = "idle"

(* A transaction begins: whoever is open is not alone any more. *)
Begun(w, tx) ==
  [v \in Writers |->
     IF v = w THEN [tx EXCEPT !.alone = Alone(w)] ELSE [open[v] EXCEPT !.alone = FALSE]]

(* A row that a transaction deleted or changed is locked until it ends. *)
Locked(w) ==
  \E v \in Writers \ {w} : open[v].at = "flushed" /\ open[w].gone \cap open[v].gone # {}

(* The profile's row is locked by a transaction that wrote its strength. *)
ProfileLocked(w) == \E v \in Writers \ {w} : ~open[v].kept

Ids(rows) == {e.id : e \in rows}
(* An id is not given again while a row or a transaction knows it. *)
Named == Ids(entries \cup UNION {open[v].new : v \in Writers})
           \cup UNION {open[v].gone : v \in Writers}
Free == 1..MaxEntries \ Named
NewId == CHOOSE id \in Free : \A other \in Free : id <= other

-----------------------------------------------------------------------------
(* Requests on entries.                                                     *)

Asks(q) == open[q].at = "idle" /\ asked < MaxAsked /\ asked' = asked + 1

Opens(q, op, gone, new, build) ==
  /\ open' = Begun(q, [Idle EXCEPT !.at = "open", !.op = op, !.seen = strength,
                                   !.gone = Ids(gone), !.new = new, !.build = build])
  /\ UNCHANGED <<entries, resumes, skills, strength, promised, raced>>

Row(id, source, tech, of) == [id |-> id, source |-> source, tech |-> tech, of |-> of]

AddItem(q) ==
  /\ Asks(q) /\ UNCHANGED job
  /\ Free # {}
  /\ \E tech \in SUBSET Skills : Opens(q, "add", {}, {Row(NewId, "user", tech, 0)}, "none")

(* An edit keeps the row's source: what came from a resume stays so. *)
UpdateItem(q) ==
  /\ Asks(q) /\ UNCHANGED job
  /\ \E e \in entries, tech \in SUBSET Skills :
       Opens(q, "update", {e}, {[e EXCEPT !.tech = tech]}, "none")

DeleteItem(q) ==
  /\ Asks(q) /\ UNCHANGED job
  /\ \E e \in entries : Opens(q, "delete", {e}, {}, "none")

\* mutant: every row, whoever wrote it
ReplacedAll(rows) == rows
Replaced(rows) == {e \in rows : e.source = "resume_extraction"}

(* The rows that came from a resume, with what each mentions. *)
FromEntries(rows) ==
  UNION {{[skill |-> s, ref |-> e.id] : s \in e.tech} : e \in Replaced(rows)}

(* core/queue.py: a job of that id, queued or running, makes it a no-op. *)
Enqueued == IF job = "none" THEN "queued" ELSE job

(* confirm_profile: the person's corrected reading of an extracted resume    *)
(* takes the place of the rows from one that are there when it begins; the  *)
(* job is queued, two seconds ahead, before the commit.                     *)
Confirm(q) ==
  /\ Asks(q) /\ UNCHANGED job
  /\ Free # {} /\ \E r \in Resumes : resumes[r].status = "extracted"
  /\ \E tech \in SUBSET Skills :
       Opens(q, "confirm", Replaced(entries),
             {Row(NewId, "resume_extraction", tech, asked + 1)}, "none")

(* _recompute: the flush, then the counts; the row is written when what it   *)
(* computes differs from what the session loaded.  add and confirm loaded    *)
(* the profile first, update and delete load it now.                         *)
Loaded(q) == IF open[q].op \in {"update", "delete"} THEN strength ELSE open[q].seen

Written(q) == {e \in entries : e.id \notin open[q].gone} \cup open[q].new

(* An update of a row that has gone fails. *)
Recomputes(q) ==
  /\ open[q].at = "open" /\ ~Locked(q)
  /\ open[q].op = "update" => open[q].gone \subseteq Ids(entries)
  /\ LET now == Strength(Written(q), skills)
     IN /\ now # Loaded(q) => ~ProfileLocked(q)
        /\ open' = [open EXCEPT ![q].at = "flushed", ![q].strength = now,
                                ![q].kept = now = Loaded(q)]
  /\ UNCHANGED <<entries, resumes, skills, strength, job, asked, promised, raced>>

(* The end of confirm_profile. *)
Queues(q) ==
  /\ open[q].at = "flushed" /\ open[q].op = "confirm" /\ open[q].build = "none"
  /\ job' = Enqueued
  /\ open' = [open EXCEPT ![q].build = IF job = "running" THEN "dropped" ELSE "waits"]
  /\ UNCHANGED <<entries, resumes, skills, strength, asked, promised, raced>>

(* What is left of the others when w ends. *)
Ended(w) ==
  [v \in Writers |-> IF v = w THEN Idle ELSE [open[v] EXCEPT !.alone = FALSE]]

Commits(q) ==
  /\ open[q].at = "flushed" /\ (open[q].op = "confirm" => open[q].build # "none")
  /\ entries' = Written(q)
  /\ strength' = IF open[q].kept THEN strength ELSE open[q].strength
  /\ raced' = ~open[q].alone
  /\ promised' = IF open[q].op = "confirm" THEN open[q].build = "waits"
                 ELSE promised /\ FromEntries(entries') = FromEntries(entries)
  /\ open' = Ended(q)
  /\ UNCHANGED <<resumes, skills, job, asked>>

(* Any failure rolls back; the job a confirmation queued stays queued. *)
RequestFails(q) ==
  /\ open[q].at # "idle" /\ open' = Ended(q)
  /\ UNCHANGED <<entries, resumes, skills, strength, job, asked, promised, raced>>

-----------------------------------------------------------------------------
(* Requests on resumes; the unique index on the primary one makes those that *)
(* overlap wait or fail.                                                     *)

Live == {r \in Resumes : resumes[r].status \notin {"absent", "deleted"}}

SetsResume(r, value) ==
  /\ resumes' = [resumes EXCEPT ![r] = value] /\ promised' = FALSE
  /\ UNCHANGED <<entries, skills, strength, open, job, raced>>

(* The first upload is the primary one. *)
Uploads(r) ==
  /\ asked < MaxAsked /\ asked' = asked + 1 /\ resumes[r].status = "absent"
  /\ \E says \in SUBSET Skills :
       SetsResume(r, [status |-> "uploaded", primary |-> Live = {}, says |-> says])

(* The pipeline ends; it runs again after reprocess. *)
Extracts(r) ==
  resumes[r].status = "uploaded" /\ UNCHANGED asked
    /\ SetsResume(r, [resumes[r] EXCEPT !.status = "extracted"])
Reprocesses(r) ==
  /\ r \in Live /\ resumes[r].status = "extracted"
  /\ asked < MaxAsked /\ asked' = asked + 1
  /\ SetsResume(r, [resumes[r] EXCEPT !.status = "uploaded"])

MakesPrimary(r) ==
  /\ r \in Live /\ ~resumes[r].primary /\ asked < MaxAsked /\ asked' = asked + 1
  /\ resumes' = [x \in Resumes |->
                   [resumes[x] EXCEPT !.primary = x = r \/ (@ /\ x \notin Live)]]
  /\ promised' = FALSE
  /\ UNCHANGED <<entries, skills, strength, open, job, raced>>

DeletesResume(r) ==
  /\ r \in Live /\ asked < MaxAsked /\ asked' = asked + 1
  /\ SetsResume(r, [resumes[r] EXCEPT !.status = "deleted"])

-----------------------------------------------------------------------------
(* build_profile.                                                           *)

(* POST /profile/rebuild *)
Rebuild ==
  /\ asked < MaxAsked /\ asked' = asked + 1
  /\ job' = Enqueued
  /\ promised' = (promised \/ job # "running")
  /\ UNCHANGED <<entries, resumes, skills, strength, open, raced>>

(* The primary resume, once it is extracted. *)
FromResume ==
  UNION {{[skill |-> s, ref |-> r] : s \in resumes[r].says} :
           r \in {x \in Live : resumes[x].primary /\ resumes[x].status = "extracted"}}

(* A confirmation that has not committed is not seen by a job that starts. *)
BuildStarts ==
  /\ job = "queued" /\ job' = "running"
  /\ LET begun == Begun(Builder, [Idle EXCEPT !.at = "open", !.seen = strength,
                                              !.got = FromEntries(entries)])
     IN open' = [w \in Writers |-> IF begun[w].build = "waits"
                                   THEN [begun[w] EXCEPT !.build = "dropped"] ELSE begun[w]]
  /\ UNCHANGED <<entries, resumes, skills, strength, asked, promised, raced>>

BuildLooks ==
  /\ open[Builder].at = "open"
  /\ open' = [open EXCEPT ![Builder].at = "read", ![Builder].got = @ \cup FromResume]
  /\ UNCHANGED <<entries, resumes, skills, strength, job, asked, promised, raced>>

Grouped(got) ==
  {[skill |-> s, refs |-> {m.ref : m \in {x \in got : x.skill = s}}] :
     s \in {m.skill : m \in got}}

\* mutant: the skills that are there stay
KeptAndGrouped(got) ==
  Grouped(got) \cup {k \in skills : k.skill \notin {m.skill : m \in got}}
Rewritten(got) == Grouped(got)

(* The rows are written and the strength is computed. *)
BuildWrites ==
  /\ open[Builder].at = "read"
  /\ LET now == Strength(entries, Rewritten(open[Builder].got))
     IN /\ now # open[Builder].seen => ~ProfileLocked(Builder)
        /\ open' = [open EXCEPT ![Builder].at = "flushed", ![Builder].strength = now,
                                ![Builder].kept = now = open[Builder].seen]
  /\ UNCHANGED <<entries, resumes, skills, strength, job, asked, promised, raced>>

BuildCommits ==
  /\ open[Builder].at = "flushed"
  /\ skills' = Rewritten(open[Builder].got)
  /\ strength' = IF open[Builder].kept THEN strength ELSE open[Builder].strength
  /\ raced' = ~open[Builder].alone
  /\ open' = Ended(Builder) /\ job' = "none"
  /\ UNCHANGED <<entries, resumes, asked, promised>>

(* Rolled back: run again after a crash or an error that may pass, or given up. *)
BuildFails ==
  /\ open[Builder].at # "idle" /\ open' = Ended(Builder)
  /\ \/ job' = "queued" /\ UNCHANGED promised
     \/ job' = "none" /\ promised' = FALSE
  /\ UNCHANGED <<entries, resumes, skills, strength, asked, raced>>

-----------------------------------------------------------------------------

Asked(q) == AddItem(q) \/ UpdateItem(q) \/ DeleteItem(q) \/ Confirm(q)

Next ==
  \/ \E q \in Requests :
       Asked(q) \/ Recomputes(q) \/ Queues(q) \/ Commits(q) \/ RequestFails(q)
  \/ \E r \in Resumes :
       Uploads(r) \/ Extracts(r) \/ Reprocesses(r) \/ MakesPrimary(r) \/ DeletesResume(r)
  \/ Rebuild \/ BuildStarts \/ BuildLooks \/ BuildWrites \/ BuildCommits \/ BuildFails

Spec == Init /\ [][Next]_pVars

-----------------------------------------------------------------------------
TypeOK ==
  /\ \A e \in entries : /\ e.id \in 1..MaxEntries /\ e.tech \subseteq Skills
                        /\ e.source \in {"user", "resume_extraction"}
  /\ \A r \in Resumes : resumes[r].status \in {"absent", "uploaded", "extracted", "deleted"}
  /\ \A k \in skills : k.skill \in Skills /\ k.refs \subseteq (1..MaxEntries) \cup Resumes
  /\ strength \subseteq {"entries", "skills_mapped"}
  /\ job \in {"none", "queued", "running"} /\ asked \in 0..MaxAsked
  /\ promised \in BOOLEAN /\ raced \in BOOLEAN

(* Once nothing is under way the profile agrees with itself: the mapped      *)
(* skills and their evidence are what the entries and the primary resume     *)
(* mention, if a build was queued for the last change and not given up; the  *)
(* stored strength is that of the rows, if who wrote it last was alone.      *)
ProfileSettles ==
  Quiet =>
    /\ promised => skills = Grouped(FromEntries(entries) \cup FromResume)
    /\ ~raced => strength = Strength(entries, skills)

(* A person's own entries are changed only by the request that names them:   *)
(* neither a confirmation nor a build takes one away.                        *)
UserRowsStand ==
  [][\A e \in entries : e.source = "user" /\ e \notin entries' =>
       \E q \in Requests : open[q].op \in {"update", "delete"} /\ e.id \in open[q].gone]_pVars

(* "Re-confirming replaces the resume_extraction-sourced rows": they all come *)
(* from one confirmation.                                                    *)
ReplacesOnConfirm ==
  \A e, f \in entries :
    e.source = "resume_extraction" /\ f.source = "resume_extraction" => e.of = f.of
=============================================================================
