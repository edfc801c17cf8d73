------------------------------ MODULE MCServices ------------------------------
(* The systems around the agent, each on its own: `part' says which of them  *)
(* moves, the variables of the others are Off - the reading of a posting     *)
(* (JobIngest), its scoring (MatchScoring, MatchScorer), the roadmaps, the   *)
(* profile, the tracker, the context of a run (Retrieval), the career        *)
(* overview, the tables and their cascades (Schema), the tailored resume and *)
(* the letter (Grounding), versions and diffs (ResumeVersions), the          *)
(* reference data and its vectors (Catalogue), the model (ModelCalls).       *)
EXTENDS Schema, Integers, Sequences, TLC

CONSTANTS p1, b1, m1, m2, m3, None, Off,
          IngestTries,                               \* JobIngest's
          Askers, ScoreTries, MaxInputs, MaxAsked,   \* MatchScoring's
          Callers, Limit, MAX_RATE_LIMIT_WAITS, MaxDays, MaxCalls, \* ModelCalls'
          Resumes, Facts, Drafts, Letters, MaxEdits,  \* Grounding's
          Models, Dim, Processes, MaxStarts, MaxDeploys, \* Catalogue's
          Apps, Lone, Attempts, Clients, Moves,       \* Tracker's
          UserLimit, TotalLimit, MaxOthers,
          GapSkills, Roadmaps, MaxMilestones, PlanTries, Patchers, Rebuilds, \* Roadmap's
          Editors, MaxEntries, CVs, KnownSkills, SkillTarget, MaxRequests, \* Profile's
          Contents, Diffs, MaxVersions,               \* ResumeVersions'
          Blocks, BlockOwners, Sizes, Likeness, TopN, TopK, Budget, \* Retrieval's
          SkillLabels, Starters, Postings, NewTitles, Likes, YearsCap, \* MatchScorer's
          Catalogues, People, Courses, Additions, CoreSkills, MaxSteps, MaxPaths \* Career's

VARIABLES part,
  posting, pOld, patched, create, ingest, reader, pSweep, viewer, untold,
  match, mOld, inputs, listed, ask, asked, task, scorer, owed, slips,
  rec, rOld, milestones, agg, plan, planner, patch, rebuild, planCrossed,
  entries, resumes, skills, strength, open, build, edits, promised, raced,
  delivery, application, mail, last, attempt, client, others, sendCrossed,
  snapshot, job, scored,
  owner, size, alike, vec, txt, picked,
  jobs, person, shown,
  resume, about, advert, goal, node, try, basis, version, letter, trace, made, rewrites,
  restsOn,
  extraction, snapshots, versions, asks, diff,
  model, columns, taxonomy, learning, ads, roles, proc, started, deploys, late, agreed,
  adapter, today, redis, counter, call, begun, admitted, paused

-----------------------------------------------------------------------------
P == INSTANCE JobIngest
M == INSTANCE MatchScoring WITH Asks <- Askers
F == INSTANCE Profile WITH
       Requests <- Editors, Resumes <- CVs, Skills <- KnownSkills, MaxAsked <- MaxRequests,
       job <- build, asked <- edits
(* A plan that is retried and two rebuilds, two requests on its milestones,  *)
(* two plans.                                                               *)
L1 == INSTANCE Roadmap WITH
       Skills <- GapSkills, crossed <- planCrossed, Roadmaps <- {1}, Patchers <- {p1}
L2 == INSTANCE Roadmap WITH
       Skills <- GapSkills, crossed <- planCrossed, Roadmaps <- {1}, PlanTries <- 1,
       Rebuilds <- {b1}
L3 == INSTANCE Roadmap WITH
       Skills <- GapSkills, crossed <- planCrossed, PlanTries <- 1, Patchers <- {},
       Rebuilds <- {b1}
(* Two applications, and one that the person changes meanwhile.              *)
T1 == INSTANCE Tracker WITH
       row <- application, crossed <- sendCrossed, Clients <- {},
       Applicant <- "me", Contact <- "boss"
T2 == INSTANCE Tracker WITH
       row <- application, crossed <- sendCrossed, Apps <- Lone,
       Applicant <- "me", Contact <- "boss"

(* Two skills; a person of whom nothing is known that could be embedded, and *)
(* one with projects; postings with repeated, overlapping and missing        *)
(* requirements, one that says next to nothing, one whose requirements weigh *)
(* nothing; a likeness that is clamped and one that counts.                 *)
MCSkillLabels == <<"go", "sql">>
Unknown ==
  [skills |-> {}, tech |-> {}, titles |-> {}, projects |-> FALSE, projectTech |-> {},
   degree |-> TRUE, fields |-> {"data"}, years |-> None, seniority |-> "lead", roles |-> {},
   locations |-> {"oslo"}, modes |-> {"hybrid"}, floor |-> 90]
MCStarters ==
  {Unknown,
   [Unknown EXCEPT !.tech = {"go", "sql"}, !.projects = TRUE, !.projectTech = {"go"},
      !.degree = FALSE, !.fields = {}, !.years = 0, !.roles = {{"data", "engineer"}}]}
Asks(s, w) == [skill |-> s, weight |-> w]
Bare == [required |-> <<>>, preferred |-> <<Asks("sql", 5)>>, title |-> {"data", "analyst"},
         seniority |-> None, expMin |-> None, location |-> None, mode |-> None,
         salaryMin |-> None, salaryMax |-> None, chunks |-> FALSE]
Twice == [Bare EXCEPT !.required = <<Asks("go", 9), Asks("go", 3)>>, !.expMin = 1,
            !.seniority = "principal", !.mode = "onsite", !.location = "oslo", !.salaryMax = 80,
            !.chunks = TRUE, !.title = {"data", "engineer"}]
MCPostings == {Bare, Twice, [Twice EXCEPT !.required = <<Asks("sql", 0)>>],
  [Twice EXCEPT !.required = <<Asks("go", 6), Asks("sql", 7)>>, !.salaryMax = 100, !.expMin = 0,
                !.location = "bergen", !.mode = "remote", !.seniority = "senior"]}
MCNewTitles == {{"data", "engineer"}}
MCLikes == {-3, 9}
S == INSTANCE MatchScorer WITH
       Skills <- SkillLabels, Profiles <- Starters, Jobs <- Postings, Roles <- NewTitles,
       Cosines <- Likes, MaxYears <- YearsCap, profile <- snapshot, match <- scored

(* Three chunks, of the user, of somebody else and of nobody.                *)
MCOwners == {[c \in Blocks |-> IF c = 1 THEN "user" ELSE IF c = 2 THEN "other" ELSE "nobody"],
             [c \in Blocks |-> "nobody"]}
MCSizes == [Blocks -> {2, 5}]
MCLikeness == {[q \in {{c, d} : c, d \in Blocks} |-> IF q \in L THEN 9 ELSE 0] :
                 L \in {{}, {{1, 2}}, {{1, 3}, {2, 3}}}}
R == INSTANCE Retrieval WITH
       Chunks <- Blocks, Owners <- BlockOwners, K <- TopK,
       User <- "user", Other <- "other", Nobody <- "nobody"

(* Catalogues with families that differ in size, people at every station.    *)
Role(i, f, level, needs, likes) ==
  [id |-> i, family |-> f, seniority |-> level, required |-> needs, preferred |-> likes]
MCCatalogues == {{},
  {Role(1, 1, "senior", {1, 2}, {3}), Role(2, 1, "staff", {2}, {3}), Role(3, 2, None, {3}, {1})},
  {Role(1, 1, "mid", {1, 2}, {}), Role(2, 1, "principal", {2}, {1}),
   Role(3, 1, "senior", {3}, {1}), Role(4, 2, "senior", {2, 3}, {}), Role(5, 3, None, {}, {})}}
Milestone(s, status) == [skill |-> s, status |-> status]
Newcomer == [mentions |-> [source \in {"profile", "experience", "project", "resume"} |-> {}],
             seniority |-> None, targets |-> {},
             resume |-> "none", issue |-> FALSE, roadmap |-> <<>>, projects |-> 0,
             waiting |-> FALSE, sent |-> 0, interviewing |-> 0]
MCPeople == {Newcomer,
  [Newcomer EXCEPT !.resume = "read", !.issue = TRUE, !.seniority = "junior", !.waiting = TRUE],
  [Newcomer EXCEPT !.resume = "confirmed", !.targets = {2}, !.sent = 1, !.interviewing = 1,
     !.roadmap = <<Milestone(3, "done"), Milestone(2, "in_progress"), Milestone(1, "not_started")>>,
     !.seniority = "intern"],
  [Newcomer EXCEPT !.resume = "read", !.targets = {1}, !.roadmap = <<Milestone(1, "done")>>,
     !.projects = 2, !.seniority = "mid", !.waiting = TRUE]}
Course(i, s, c, l, h) == [id |-> i, skills |-> s, cost |-> c, level |-> l, hours |-> h]
MCAdditions == {<<1, "profile">>, <<2, "profile">>, <<2, "resume">>, <<3, "project">>}

MCCourses == {Course(1, {1, 2}, "paid", "beginner", 3),
              Course(2, {2}, "free", "advanced", None),
              Course(3, {2}, "free", "advanced", 5)}
C == INSTANCE Career WITH
       Resources <- Courses, Grown <- Additions

(* Lines are the sets of their words: some are in the sources, some in part. *)
Draft(claims, names) == [claims |-> claims, names |-> names]
MCResumes == {Draft({{"a", "b"}}, {{"c"}}), Draft({{"a", "b", "c"}}, {})}
MCFacts   == {{}, {{"d"}}, {{"a", "d"}}}
MCDrafts  == {Draft({{"a", "b"}}, {{"c"}}), Draft({{"a", "b", "d"}}, {{"e"}}),
              Draft({{"d", "e"}, {"a", "b"}}, {})}
MCLetters == {{{"a", "b"}}, {{"d", "e"}}, {{"e"}, {"a", "b", "d"}}, {{"a", "d", "e"}, {"c"}}}
G == INSTANCE Grounding WITH
       profile <- about, posting <- advert, attempt <- try, edits <- rewrites

(* Lists that are reordered, repeated, extended; entries that share a key.   *)
Says(key, t, points) == [key |-> key, text |-> t, points |-> points]
Lists == {<<>>, <<"a">>, <<"a", "b">>, <<"b", "a">>, <<"a", "a">>}
Sections == {<<Says("k", "t", <<"a">>)>>, <<Says("k", "u", <<"b">>)>>,
             <<Says("l", "t", <<>>), Says("k", "t", <<"a", "b">>)>>,
             <<Says("k", "t", <<"a">>), Says("l", "u", <<>>)>>,
             <<Says("k", "t", <<"b">>), Says("k", "u", <<"a">>)>>}
MCContents == [summary : {"t"}, skills : Lists, entries : {<<>>}]
                \cup [summary : {"u"}, skills : {<<>>}, entries : Sections]
V == INSTANCE ResumeVersions WITH Requests <- Diffs, shown <- diff

(* Two models of one size, and one of another.                               *)
MCDim == (m1 :> 1) @@ (m2 :> 2) @@ (m3 :> 2)
K == INSTANCE Catalogue WITH size <- columns, skills <- taxonomy, postings <- ads

(* Met at once, one after another and at midnight. *)
U == INSTANCE ModelCalls

ASSUME IngestAssumption  == P!IngestAssumption
ASSUME ScoringAssumption == M!ScoringAssumption
ASSUME CallsAssumption   == U!ModelCallsAssumption
ASSUME CatalogueIsGiven  == K!CatalogueAssumption
ASSUME RoadmapsAreGiven  == L1!RoadmapAssumption /\ L2!RoadmapAssumption /\ L3!RoadmapAssumption
ASSUME ProfileIsGiven    == F!ProfileAssumption
ASSUME VersionsAreGiven  == V!VersionsAssumption
ASSUME BlocksAreGiven    == R!RetrievalAssumption
ASSUME ScorerIsGiven     == S!ScorerAssumption
ASSUME CareersAreGiven   == C!CareerAssumption
ASSUME TrackersAreGiven  == T1!TrackerAssumption /\ T2!TrackerAssumption /\ Lone \subseteq Apps

-----------------------------------------------------------------------------
postingVars   == <<posting, pOld, patched, create, ingest, reader, pSweep, viewer, untold>>
scoreVars     == <<match, mOld, inputs, listed, ask, asked, task, scorer, owed, slips>>
planVars      == <<rec, rOld, milestones, agg, plan, planner, patch, rebuild, planCrossed>>
profileVars   == <<entries, resumes, skills, strength, open, build, edits, promised, raced>>
sendVars      == <<delivery, application, mail, last, attempt, client, others, sendCrossed>>
scorerVars    == <<snapshot, job, scored>>
contextVars   == <<owner, size, alike, vec, txt, picked>>
careerVars    == <<jobs, person, shown>>
groundingVars == <<resume, about, advert, goal, node, try, basis, version, letter, trace,
                   made, rewrites, restsOn>>
versionsVars  == <<extraction, snapshots, versions, asks, diff>>
catalogueVars == <<model, columns, taxonomy, learning, ads, roles, proc, started, deploys,
                   late, agreed>>
callVars      == <<adapter, today, redis, counter, call, begun, admitted, paused>>

NotSent == [status |-> "absent", dated |-> "never", deleted |-> FALSE]
NoPosting ==
  /\ posting = Off /\ pOld = Off /\ patched = Off /\ create = Off /\ ingest = Off
  /\ reader = Off /\ pSweep = Off /\ viewer = Off /\ untold = Off
NoScore ==
  /\ match = Off /\ mOld = Off /\ inputs = Off /\ listed = Off /\ ask = Off /\ asked = Off
  /\ task = Off /\ scorer = Off /\ owed = Off /\ slips = Off
NoPlan ==
  /\ rec = Off /\ rOld = Off /\ milestones = Off /\ agg = Off /\ plan = Off /\ planner = Off
  /\ patch = Off /\ rebuild = Off /\ planCrossed = Off
NoProfile ==
  /\ entries = {} /\ resumes = Off /\ skills = Off /\ strength = Off /\ open = Off
  /\ build = Off /\ edits = Off /\ promised = Off /\ raced = Off
NoSend ==
  /\ delivery = Off /\ application = [a \in Lone |-> NotSent] /\ mail = Off
  /\ last = [a \in Lone |-> "absent"] /\ attempt = Off /\ client = Off /\ others = Off
  /\ sendCrossed = Off
NoScorer ==
  /\ snapshot = Off /\ job = Off /\ scored = S!Unscored
NoContext ==
  /\ owner = Off /\ size = Off /\ alike = Off /\ vec = Off /\ txt = Off /\ picked = Off
NoCareer ==
  /\ jobs = Off /\ person = Off /\ shown = None
NoSchema ==
  /\ rows = {} /\ hidden = {}
NoGrounding ==
  /\ resume = Off /\ about = Off /\ advert = Off /\ goal = Off /\ node = Off /\ try = Off
  /\ basis = Off /\ version = Off /\ letter = Off /\ trace = Off /\ made = Off
  /\ rewrites = Off /\ restsOn = Off
NoVersions ==
  /\ extraction = Off /\ snapshots = Off /\ versions = Off /\ asks = Off /\ diff = Off
NoCatalogue ==
  /\ model = Off /\ columns = Off /\ taxonomy = Off /\ learning = Off /\ ads = Off
  /\ roles = Off /\ proc = Off /\ started = Off /\ deploys = Off /\ late = Off /\ agreed = Off
NoCalls ==
  /\ adapter = Off /\ today = Off /\ redis = Off /\ counter = Off /\ call = Off /\ begun = Off
  /\ admitted = Off /\ paused = Off

(* One of them is in an initial state, the others are Off. *)
ServicesInit ==
  /\ part \in {"posting", "score", "roadmap1", "roadmap2", "roadmap3", "profile", "tracker1",
               "tracker2", "scorer", "context", "career", "schema", "grounding", "versions",
               "catalogue", "model"}
  /\ IF part = "posting" THEN P!Init ELSE NoPosting
  /\ IF part = "score" THEN M!Init ELSE NoScore
  /\ CASE part = "roadmap1" -> L1!Init
       [] part = "roadmap2" -> L2!Init
       [] part = "roadmap3" -> L3!Init
       [] OTHER -> NoPlan
  /\ IF part = "profile" THEN F!Init ELSE NoProfile
  /\ CASE part = "tracker1" -> T1!Init
       [] part = "tracker2" -> T2!Init
       [] OTHER -> NoSend
  /\ IF part = "scorer" THEN S!Init ELSE NoScorer
  /\ IF part = "context" THEN R!Init ELSE NoContext
  /\ IF part = "career" THEN C!Init ELSE NoCareer
  /\ IF part = "schema" THEN Init ELSE NoSchema
  /\ IF part = "grounding" THEN G!Init ELSE NoGrounding
  /\ IF part = "versions" THEN V!Init ELSE NoVersions
  /\ IF part = "catalogue" THEN K!Init ELSE NoCatalogue
  /\ IF part = "model" THEN U!Init ELSE NoCalls

ServicesNext ==
  \/ /\ part = "posting" /\ P!Next
     /\ UNCHANGED <<part, scoreVars, planVars, profileVars, sendVars, scorerVars,
                    contextVars, careerVars, sVars, groundingVars, versionsVars,
                    catalogueVars, callVars>>
  \/ /\ part = "score" /\ M!Next
     /\ UNCHANGED <<part, postingVars, planVars, profileVars, sendVars, scorerVars,
                    contextVars, careerVars, sVars, groundingVars, versionsVars,
                    catalogueVars, callVars>>
  \/ /\ \/ part = "roadmap1" /\ L1!Next
        \/ part = "roadmap2" /\ L2!Next
        \/ part = "roadmap3" /\ L3!Next
     /\ UNCHANGED <<part, postingVars, scoreVars, profileVars, sendVars, scorerVars,
                    contextVars, careerVars, sVars, groundingVars, versionsVars,
                    catalogueVars, callVars>>
  \/ /\ part = "profile" /\ F!Next
     /\ UNCHANGED <<part, postingVars, scoreVars, planVars, sendVars, scorerVars,
                    contextVars, careerVars, sVars, groundingVars, versionsVars,
                    catalogueVars, callVars>>
  \/ /\ \/ part = "tracker1" /\ T1!Next
        \/ part = "tracker2" /\ T2!Next
     /\ UNCHANGED <<part, postingVars, scoreVars, planVars, profileVars, scorerVars,
                    contextVars, careerVars, sVars, groundingVars, versionsVars,
                    catalogueVars, callVars>>
  \/ /\ part = "scorer" /\ S!Next
     /\ UNCHANGED <<part, postingVars, scoreVars, planVars, profileVars, sendVars,
                    contextVars, careerVars, sVars, groundingVars, versionsVars,
                    catalogueVars, callVars>>
  \/ /\ part = "context" /\ R!Next
     /\ UNCHANGED <<part, postingVars, scoreVars, planVars, profileVars, sendVars,
                    scorerVars, careerVars, sVars, groundingVars, versionsVars,
                    catalogueVars, callVars>>
  \/ /\ part = "career" /\ C!Next
     /\ UNCHANGED <<part, postingVars, scoreVars, planVars, profileVars, sendVars,
                    scorerVars, contextVars, sVars, groundingVars, versionsVars,
                    catalogueVars, callVars>>
  \/ /\ part = "schema" /\ Next
     /\ UNCHANGED <<part, postingVars, scoreVars, planVars, profileVars, sendVars,
                    scorerVars, contextVars, careerVars, groundingVars, versionsVars,
                    catalogueVars, callVars>>
  \/ /\ part = "grounding" /\ G!Next
     /\ UNCHANGED <<part, postingVars, scoreVars, planVars, profileVars, sendVars,
                    scorerVars, contextVars, careerVars, sVars, versionsVars,
                    catalogueVars, callVars>>
  \/ /\ part = "versions" /\ V!Next
     /\ UNCHANGED <<part, postingVars, scoreVars, planVars, profileVars, sendVars,
                    scorerVars, contextVars, careerVars, sVars, groundingVars,
                    catalogueVars, callVars>>
  \/ /\ part = "catalogue" /\ K!Next
     /\ UNCHANGED <<part, postingVars, scoreVars, planVars, profileVars, sendVars,
                    scorerVars, contextVars, careerVars, sVars, groundingVars,
                    versionsVars, callVars>>
  \/ /\ part = "model" /\ U!Next
     /\ UNCHANGED <<part, postingVars, scoreVars, planVars, profileVars, sendVars,
                    scorerVars, contextVars, careerVars, sVars, groundingVars,
                    versionsVars, catalogueVars>>

ServicesSpec ==
  /\ ServicesInit
  /\ [][ServicesNext]_<<part, postingVars, scoreVars, planVars,
        profileVars, sendVars, scorerVars, contextVars, careerVars, sVars,
        groundingVars, versionsVars, catalogueVars, callVars>>

-----------------------------------------------------------------------------
TypeOK ==
  /\ part = "posting" => P!TypeOK
  /\ part = "score" => M!TypeOK
  /\ part = "roadmap1" => L1!TypeOK
  /\ part = "roadmap2" => L2!TypeOK
  /\ part = "roadmap3" => L3!TypeOK
  /\ part = "profile" => F!TypeOK
  /\ part = "tracker1" => T1!TypeOK
  /\ part = "tracker2" => T2!TypeOK
  /\ part = "catalogue" => K!TypeOK

(* A browser that opens the events of a posting learns how its reading ends  *)
(* (api/v1/jobs.py).                                                        *)
ViewerWillKnow == part = "posting" => P!ViewerWillKnow

(* Unless a worker was lost or a request committed after its job had begun   *)
(* or ended, a match in progress has a job that will score it, and what was  *)
(* scored is as recent as the last recompute that was answered, once no job  *)
(* and no request is under way (MatchService).                              *)
ScoreIsAsAsked == part = "score" => M!ScoringHasAJob /\ M!ScoreIsAsAsked

(* A roadmap asks for each skill once, and a gap that one is said to have    *)
(* addressed was done there (RoadmapService, aggregate_skill_gaps).          *)
PlanAndGapsAgree ==
  part \in {"roadmap1", "roadmap2", "roadmap3"} => L1!OneMilestonePerSkill /\ L1!AddressedWasDone

(* When nobody writes, the skills of a profile are those of its entries if a *)
(* build was queued for the last change and not given up, and its strength   *)
(* is that of its rows if the last to write was alone (build_profile,        *)
(* ProfileService).                                                         *)
ProfileSettles == part = "profile" => F!ProfileSettles

(* Neither a confirmation nor a build takes away what a person wrote.        *)
UserRowsStand == F!UserRowsStand

(* The daily limits hold unless two attempts overlap, which together may     *)
(* exceed the person's by less than their number, and a redirected mail      *)
(* reaches the applicant only (sending.py).                                  *)
MailStaysWithinLimits ==
  /\ part = "tracker1" => T1!MailStaysWithinLimits
  /\ part = "tracker2" => T2!MailStaysWithinLimits

(* The date of an application is not taken away, a send's date stands, and   *)
(* the history tells the status (ApplicationService.patch); said of Lone:    *)
(* the others do nothing that it does not.                                  *)
AppliedDateStands == T2!AppliedDateStands

(* A skill, a degree or a year of experience more costs a point only where   *)
(* the embedded summary is compared (scorer.py, worker/tasks/matching.py).   *)
OnlyLikenessMayFall == S!OnlyLikenessMayFall

(* The gaps of a match are what its skill dimension lacks (gaps.py).         *)
GapsExplainTheScore == S!GapsExplainTheScore

(* A run reads chunks of the user or of nobody, each once, within its budget *)
(* (retrieval/service.py).                                                  *)
ContextIsSound == part = "context" => R!ContextIsSound

(* Evidence never costs readiness, and what the overview shows together      *)
(* agrees (career/service.py, paths.py).                                    *)
GuidanceHolds == []C!GuidanceIsCoherent /\ C!EvidenceNeverCosts

(* A deleted account takes its rows and nobody else's, and no reference      *)
(* without a foreign key is left behind (app/models).                       *)
AccountRowsGoWhole == []LooseRefsHold /\ PersonGoesWhole

(* What is kept was checked as it is kept, and a letter's unsupported line   *)
(* is flagged (tailoring.py, letter_claim_validator.py).                    *)
ClaimsAreChecked == part = "grounding" => G!StoredAsChecked /\ G!LetterIsFlagged

(* The diff of two versions tells the whole change (version_service.py).     *)
DiffTellsTheChange == part = "versions" => V!DiffTellsTheChange

(* A search compares vectors of one model, which the chunks name, and roles  *)
(* ask for the skills of the taxonomy (seed.py, reembed.py).                 *)
CatalogueServes ==
  part = "catalogue" => K!VectorsAgree /\ K!ChunksAreNamed /\ K!RolesAreResolved

(* The ceiling of model calls a day holds over all callers, a day said to be *)
(* paused is, and a call tells its whole cost (daily_cap.py,                 *)
(* openai_compat.py).                                                       *)
ModelCallsHold == part = "model" => U!ModelCallsHold

-----------------------------------------------------------------------------
(* What the program says and does not keep.                                 *)

(* "a preferred skill the profile lacks is nice_to_have" (gaps.py).          *)
PreferredGapsListed == S!PreferredGapsListed

(* Generated claims without support are flagged at review (README.md).       *)
ResumeIsFlagged == part = "grounding" => G!ResumeIsFlagged
=============================================================================
