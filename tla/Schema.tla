------------------------------- MODULE Schema -------------------------------
(***************************************************************************)
(* The tables of models/*.py as the graph of their references, and what     *)
(* deleting a row takes with it.  A class becomes its foreign keys with     *)
(* their ON DELETE rule (`fk') and the columns that name another row        *)
(* without a foreign key (`loose'); other columns, checks and indexes are   *)
(* left out.                                                                *)
(*                                                                         *)
(* Rows are made together by the units of code that make them; one row      *)
(* stands for those of a table that a unit makes.  A row is [table, owner,  *)
(* at, names]: whose it is, whose posting it is about (the owner's or a     *)
(* seeded one) and the loose columns that are set.                          *)
(***************************************************************************)
EXTENDS Naturals

CONSTANTS Person,     \* who uses the service
          Bystander,  \* somebody who has a row of everything
          Shared,     \* the owner of the seeded rows
          Busy        \* bound: the tables the code deletes from, but `users'

ASSUME OwnersDiffer == Person \notin {Bystander, Shared} /\ Bystander # Shared

VARIABLES rows,    \* the database
          hidden   \* rows with deleted_at

sVars == <<rows, hidden>>

-----------------------------------------------------------------------------
(* models/*.py                                                              *)

Cascade(table) == <<table, "CASCADE">>
SetNull(table) == <<table, "SET NULL">>
Table(fk, loose) == [fk |-> fk, loose |-> loose]
Owned == Cascade("users")

User     == Table({}, {})
Skill    == Table({}, {})
AuditLog == Table({}, {"users"})
RefreshToken == Table({Owned, SetNull("refresh_tokens")}, {})
AuthToken    == Table({Owned}, {})

CareerProfile == Table({Owned}, {})
SubEntity     == Table({Owned, Cascade("career_profiles")}, {})
ProfileExperience    == SubEntity
ProfileEducation     == SubEntity
ProfileProject       == SubEntity
ProfileCertification == SubEntity
ProfileSkill  == Table({Owned, Cascade("career_profiles"), Cascade("skills")}, {})

Resume        == Table({Owned}, {})
ResumeVersion == Table({Owned, Cascade("resumes")},
                       {"jobs", "applications", "resume_versions"})
ResumeChunk      == Table({Cascade("resume_versions")}, {"users"})
ResumeSuggestion == Table({Owned, Cascade("resume_versions")}, {"resume_versions"})

Job      == Table({Owned}, {})
JobChunk == Table({Cascade("jobs")}, {"users"})
JobMatch == Table({Owned, Cascade("jobs")}, {"resume_versions"})
MatchComponent == Table({Cascade("job_matches")}, {})
SkillGap == Table({Owned, Cascade("job_matches"), Cascade("skills")},
                  {"learning_recommendations"})

LearningResource       == Table({}, {})
LearningRecommendation == Table({Owned}, {"jobs"})
RoadmapMilestone == Table({Owned, Cascade("learning_recommendations")},
                          {"skills", "learning_resources"})

AiSession == Table({Owned}, {})
Message   == Table({Owned, Cascade("ai_sessions")}, {})
AiAction  == Table({Owned}, {"ai_sessions", "applications"})
\* mutant: the steps of a run outlive its session
AgentStepKept == Table({SetNull("ai_sessions")}, {})
AgentStep == Table({Cascade("ai_sessions")}, {})

CoverLetter == Table({Owned}, {"jobs", "applications", "resume_versions", "cover_letters"})
ApplicationEmail == Table({Owned}, {"jobs", "applications"})
Application == Table({Owned}, {"jobs", "resume_versions", "cover_letters",
                               "application_emails", "ai_sessions"})
ApprovalRequest  == Table({Owned}, {"applications", "ai_sessions", "users"})
ApplicationEvent == Table({Owned, Cascade("applications")}, {})

EvalRun    == Table({}, {})
EvalResult == Table({Cascade("eval_runs")}, {})

Tables ==
  [users |-> User, skills |-> Skill, audit_logs |-> AuditLog,
   refresh_tokens |-> RefreshToken, auth_tokens |-> AuthToken,
   career_profiles |-> CareerProfile, profile_experiences |-> ProfileExperience,
   profile_education |-> ProfileEducation, profile_projects |-> ProfileProject,
   profile_certifications |-> ProfileCertification, profile_skills |-> ProfileSkill,
   resumes |-> Resume, resume_versions |-> ResumeVersion, resume_chunks |-> ResumeChunk,
   resume_suggestions |-> ResumeSuggestion, jobs |-> Job, job_chunks |-> JobChunk,
   job_matches |-> JobMatch, match_components |-> MatchComponent, skill_gaps |-> SkillGap,
   learning_resources |-> LearningResource, roadmap_milestones |-> RoadmapMilestone,
   learning_recommendations |-> LearningRecommendation, ai_sessions |-> AiSession,
   messages |-> Message, ai_actions |-> AiAction, agent_steps |-> AgentStep,
   cover_letters |-> CoverLetter, application_emails |-> ApplicationEmail,
   applications |-> Application, approval_requests |-> ApprovalRequest,
   application_events |-> ApplicationEvent, eval_runs |-> EvalRun,
   eval_results |-> EvalResult]

-----------------------------------------------------------------------------
(* Rows and what they refer to.                                             *)

SeededTables == {"skills", "learning_resources", "eval_runs", "eval_results"}

Row(table, owner, at, names) == [table |-> table, owner |-> owner, at |-> at, names |-> names]

(* The owner of the row of `table' that a column of r names. *)
OwnerFor(r, table) ==
  IF table \in SeededTables THEN Shared ELSE IF table = "jobs" THEN r.at ELSE r.owner

(* A row as a reference finds it. *)
Key(table, owner, at) == <<table, owner, IF table = "job_matches" THEN at ELSE owner>>
KeyOf(r)         == Key(r.table, r.owner, r.at)
Named(r, table)  == Key(table, OwnerFor(r, table), r.at)

Falls(s) ==
  LET gone == {KeyOf(r) : r \in s}
  IN {r \in rows : \E col \in Tables[r.table].fk :
                     col[2] = "CASCADE" /\ Named(r, col[1]) \in gone}

(* What DELETE takes: nothing hangs deeper than five references. *)
Taken(s) ==
  LET after[n \in 0..5] ==
        IF n = 0 THEN s ELSE LET before == after[n - 1] IN before \cup Falls(before)
  IN after[5]

Has(p, table) == \E r \in rows : r.table = table /\ r.owner = p

-----------------------------------------------------------------------------
(* The units of code that make rows, with the loose columns they set.       *)

Alone(p, tables) == {Row(t, p, p, {}) : t \in tables}

Account(p) == Alone(p, {"users", "audit_logs", "refresh_tokens", "auth_tokens"})

Profile(p) == Alone(p, {"career_profiles", "profile_experiences", "profile_education",
                        "profile_projects", "profile_certifications", "profile_skills"})

(* A tailored version names the posting; no code writes its application, its *)
(* parent, a chunk or a suggestion.                                          *)
Tailored(p, at) == {Row("resumes", p, p, {}), Row("resume_versions", p, at, {"jobs"})}

Posting(at) == {Row(t, at, at, {}) : t \in {"jobs", "job_chunks"}}

Scored(p, at) == {Row(t, p, at, {}) : t \in {"job_matches", "match_components", "skill_gaps"}}

(* The milestones set the gap's plan when the first of them is done. *)
Planned(p, at) ==
  {Row("learning_recommendations", p, at, {"jobs"}),
   Row("roadmap_milestones", p, p, {"skills", "learning_resources"}),
   Row("skill_gaps", p, at, {"learning_recommendations"})}

Chat(p) == {Row(t, p, p, IF t = "ai_actions" THEN {"ai_sessions"} ELSE {}) :
              t \in {"ai_sessions", "messages", "ai_actions", "agent_steps"}}

Applied(p, at) ==
  {Row("cover_letters", p, at, {"jobs", "applications", "resume_versions"}),
   Row("application_emails", p, at, {"jobs", "applications"}),
   Row("applications", p, at, Application.loose),
   Row("approval_requests", p, p, ApprovalRequest.loose),
   Row("application_events", p, p, {})}

Everything(p) ==
  Account(p) \cup Profile(p) \cup Posting(p) \cup Chat(p) \cup
  UNION {Tailored(p, at) \cup Scored(p, at) \cup Planned(p, at) \cup Applied(p, at) :
           at \in {p, Shared}}

Seeded == {Row(t, Shared, Shared, {}) : t \in SeededTables} \cup Posting(Shared)

Init == rows = Seeded \cup Everything(Bystander) /\ hidden = {}

Made(s) == s \ rows # {} /\ rows' = rows \cup s /\ UNCHANGED hidden

SignsUp      == ~Has(Person, "users") /\ ~Has(Person, "audit_logs") /\ Made(Account(Person))
KeepsProfile == Has(Person, "users") /\ Made(Profile(Person))
AddsPosting  == Has(Person, "users") /\ Made(Posting(Person))
OpensChat    == Has(Person, "users") /\ Made(Chat(Person))

Reads(at) == at = Shared \/ Has(Person, "jobs")
IsScored(at) == Has(Person, "users") /\ Reads(at) /\ Made(Scored(Person, at))
Plans(at)  == Has(Person, "job_matches") /\ Reads(at) /\ Made(Planned(Person, at))
Tailors(at) == Has(Person, "ai_sessions") /\ Reads(at) /\ Made(Tailored(Person, at))
Applies(at) ==
  Has(Person, "resume_versions") /\ Has(Person, "ai_sessions") /\ Reads(at)
    /\ Made(Applied(Person, at))

-----------------------------------------------------------------------------
(* What the code deletes.                                                   *)

Deletes(s) ==
  /\ s \cap rows # {} /\ rows' = rows \ Taken(s \cap rows)
  /\ UNCHANGED hidden

OfPerson(table) == {r \in rows : r.table = table /\ r.owner = Person}

(* AccountDeleter: the row of the user. *)
AccountRemoved == Deletes(OfPerson("users"))

(* A score, an aggregate, the chunks of a posting, the profile's skills and   *)
(* what came from the resume are deleted to be written anew.                 *)
Rewritten(table) ==
  /\ table \in {"match_components", "skill_gaps", "job_chunks", "profile_skills"}
  /\ Deletes(OfPerson(table))

(* delete_item, confirm_profile *)
EntryRemoved(table) ==
  /\ table \in {"profile_experiences", "profile_projects"}
  /\ Deletes(OfPerson(table))

(* A posting, a resume and an application stay, with deleted_at. *)
SoftDeleted(table) ==
  /\ table \in {"jobs", "resumes", "applications"} /\ OfPerson(table) # {}
  /\ table \notin hidden /\ hidden' = hidden \cup {table} /\ UNCHANGED rows

Next ==
  \/ SignsUp \/ KeepsProfile \/ AddsPosting \/ OpensChat
  \/ \E at \in {Person, Shared} : IsScored(at) \/ Plans(at) \/ Tailors(at) \/ Applies(at)
  \/ AccountRemoved
  \/ \E table \in Busy : Rewritten(table) \/ EntryRemoved(table) \/ SoftDeleted(table)

Spec == Init /\ [][Next]_sVars

-----------------------------------------------------------------------------
(* "every user-owned table cascades from users" (domain/account/deletion.py): *)
(* whatever a person has and in whatever order it came to be, deleting the    *)
(* account leaves none of it but the audit trail, and takes nothing of        *)
(* anybody else or of what is seeded.                                         *)
PersonGoesWhole ==
  [][Has(Person, "users") /\ ~Has(Person, "users")' =>
       /\ \A r \in rows' : r.owner = Person => r.table = "audit_logs"
       /\ \A r \in rows : r.owner # Person => r \in rows']_sVars

(* Columns without a foreign key name rows that are there: the code deletes   *)
(* no row that another one names in that way.                                 *)
LooseRefsHold ==
  LET there == {KeyOf(r) : r \in rows}
  IN \A r \in rows : r.table # "audit_logs" => \A t \in r.names : Named(r, t) \in there
=============================================================================
