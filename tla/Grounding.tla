------------------------------ MODULE Grounding ------------------------------
(***************************************************************************)
(* What an agent run writes in a person's name, and the checks that every   *)
(* line of it rests on something they said: the tailored resume             *)
(* (resume/tailoring.py, nodes/resume_tailoring.py), the cover letter       *)
(* (generation/cover_letter.py, nodes/cover_letter.py), the e-mail, the two *)
(* nodes that check again, and application_prep.                            *)
(*                                                                         *)
(* A line is the set of its words without stop words.  A resume is [claims, *)
(* names]: the lines that are checked, and the titles, skills and           *)
(* technologies that are sources and not checked themselves.  The model     *)
(* answers with any draft of `Drafts'.  The person edits their profile and  *)
(* resume meanwhile.  The budget and stop requests are left to AgentRun.    *)
(***************************************************************************)
EXTENDS Naturals, FiniteSets

CONSTANTS Resumes,   \* what a resume may say: [claims, names]
          Facts,     \* what a profile's summary or a posting may say: sets of lines
          Drafts,    \* the model's tailored resumes
          Letters,   \* the model's letters: sets of lines
          MaxEdits   \* bound: how often the person edits

VARIABLES resume,    \* the chosen resume: [says, confirmed]
          profile, posting,  \* sets of lines
          goal,      \* "tailor_resume" or "prepare_application"
          node,      \* where the run is
          attempt,   \* which call of the loop comes next, from 0
          basis,     \* the sources the node collected
          version, letter,   \* rows: [lines, names, report, attempts]; <<>> before
          trace,     \* what the checking nodes said
          made,      \* [email, application]
          edits,
          restsOn    \* ghost: the sources of the version and of the letter

gVars == <<resume, profile, posting, goal, node, attempt, basis, version, letter, trace,
           made, edits, restsOn>>

MAX_CLAIM_REPROMPTS == 2

-----------------------------------------------------------------------------
(* ClaimValidator: 60% of a line's words in one and the same source.        *)
Supported(line, sources) ==
  line = {} \/ \E s \in sources : 10 * Cardinality(line \cap s) >= 6 * Cardinality(line)

Check(lines, sources) == {line \in lines : ~Supported(line, sources)}

(* _collect_sources of a resume *)
SourcesOf(r) == r.claims \cup r.names

(* ... and of a letter, which may draw on the posting too. *)
LetterSources(r, summary, brief) == SourcesOf(r) \cup summary \cup brief

Init ==
  /\ resume \in [says : Resumes, confirmed : BOOLEAN]
  /\ profile \in Facts /\ posting \in Facts
  /\ goal \in {"tailor_resume", "prepare_application"}
  /\ node = "resume_tailoring" /\ attempt = 0 /\ basis = {}
  /\ version = <<>> /\ letter = <<>>
  /\ trace = [resume |-> "none", letter |-> "none"]
  /\ made = [email |-> FALSE, application |-> FALSE]
  /\ edits = 0
  /\ restsOn = [version |-> {}, letter |-> {}]

There(row) == row # <<>>
Rows   == <<version, letter, trace, made, restsOn>>
Given == <<resume, profile, posting, goal>>

(* A node that raises, or finds nothing to work on, ends the run. *)
Halts == node' = "halted" /\ UNCHANGED <<Given, Rows, attempt, basis, edits>>

-----------------------------------------------------------------------------
(* resume_tailoring.                                                        *)

(* _choose_resume: the one the run names, if it is confirmed. *)
TailorHalts == node = "resume_tailoring" /\ ~resume.confirmed /\ Halts

TailorBegins ==
  /\ node = "resume_tailoring" /\ resume.confirmed
  /\ node' = "tailoring" /\ attempt' = 0
  /\ basis' = SourcesOf(resume.says) \cup profile
  /\ UNCHANGED <<Given, Rows, edits>>

(* GenerationService.generate: no usable payload is an error of the node. *)
ModelFails == node \in {"tailoring", "writing", "email_draft"} /\ Halts

Report(lines) == Check(lines, basis)

Taken(lines) == Report(lines) = {} \/ attempt = MAX_CLAIM_REPROMPTS

(* One more call, with the lines that were rejected. *)
Reprompts(lines) ==
  /\ ~Taken(lines) /\ attempt' = attempt + 1
  /\ UNCHANGED <<Given, Rows, node, basis, edits>>

(* write_version, with the report of the draft *)
Version(draft) ==
  [lines |-> draft.claims, names |-> draft.names,
   report |-> Report(draft.claims), attempts |-> attempt + 1]

Tailors(draft) ==
  /\ node = "tailoring" /\ Taken(draft.claims)
  /\ version' = Version(draft)
  /\ restsOn' = [restsOn EXCEPT !.version = basis]
  /\ node' = "claim_validator"
  /\ UNCHANGED <<Given, letter, trace, made, attempt, basis, edits>>

TailorRetries(draft) == node = "tailoring" /\ Reprompts(draft.claims)

(* claim_validator: the version is both the claims and the sources. *)
Reread == [claims |-> version.lines, names |-> version.names]
VersionVerdict == IF Check(version.lines, SourcesOf(Reread)) = {} THEN "ok" ELSE "warning"

ChecksVersion ==
  /\ node = "claim_validator"
  /\ trace' = [trace EXCEPT !.resume = VersionVerdict]
  /\ node' = IF goal = "prepare_application" THEN "cover_letter" ELSE "respond"
  /\ UNCHANGED <<Given, version, letter, made, restsOn, attempt, basis, edits>>

-----------------------------------------------------------------------------
(* cover_letter, letter_claim_validator.                                    *)

LetterBegins ==
  /\ node = "cover_letter" /\ node' = "writing" /\ attempt' = 0
  /\ basis' = LetterSources(Reread, profile, posting)
  /\ UNCHANGED <<Given, Rows, edits>>

CoverLetter(draft) == [lines |-> draft, report |-> Report(draft), attempts |-> attempt + 1]

Writes(draft) ==
  /\ node = "writing" /\ Taken(draft)
  /\ letter' = CoverLetter(draft)
  /\ restsOn' = [restsOn EXCEPT !.letter = basis]
  /\ node' = "letter_claim_validator"
  /\ UNCHANGED <<Given, version, trace, made, attempt, basis, edits>>

WriteRetries(draft) == node = "writing" /\ Reprompts(draft)

\* mutant: the letter is read as its own source
LetterAndItself == LetterSources(Reread, {}, {}) \cup letter.lines
LetterCheckedBy == LetterSources(Reread, {}, {})

ChecksLetter ==
  /\ node = "letter_claim_validator"
  /\ trace' = [trace EXCEPT
       !.letter = IF Check(letter.lines, LetterCheckedBy) = {} THEN "ok" ELSE "warning"]
  /\ node' = "email_draft"
  /\ UNCHANGED <<Given, version, letter, made, restsOn, attempt, basis, edits>>

(* email_draft: one call and no check. *)
DraftsEmail ==
  /\ node = "email_draft" /\ There(letter)
  /\ made' = [made EXCEPT !.email = TRUE] /\ node' = "application_prep"
  /\ UNCHANGED <<Given, version, letter, trace, restsOn, attempt, basis, edits>>

(* application_prep: the snapshot the person is shown. *)
Prepares ==
  /\ node = "application_prep" /\ There(letter) /\ made.email
  /\ made' = [made EXCEPT !.application = TRUE] /\ node' = "human_approval"
  /\ UNCHANGED <<Given, version, letter, trace, restsOn, attempt, basis, edits>>

-----------------------------------------------------------------------------
(* The person edits the profile, or the resume is read anew. *)
Edits ==
  /\ edits < MaxEdits /\ edits' = edits + 1
  /\ node \notin {"halted", "respond", "human_approval"}
  /\ \/ profile' \in Facts /\ UNCHANGED resume
     \/ resume' \in [says : Resumes, confirmed : {resume.confirmed}] /\ UNCHANGED profile
  /\ UNCHANGED <<Rows, posting, goal, node, attempt, basis>>

Next ==
  \/ TailorHalts \/ TailorBegins \/ ModelFails
  \/ \E draft \in Drafts : Tailors(draft) \/ TailorRetries(draft)
  \/ \E draft \in Letters : Writes(draft) \/ WriteRetries(draft)
  \/ ChecksVersion \/ LetterBegins \/ ChecksLetter \/ DraftsEmail \/ Prepares
  \/ Edits

Spec == Init /\ [][Next]_gVars

-----------------------------------------------------------------------------
(* What is kept says of itself what is true of it, and a line without a      *)
(* source is kept only after the model was asked twice to drop it: however   *)
(* the drafts of a loop differ and whatever the person edits meanwhile.      *)
StoredAsChecked ==
  /\ There(version) =>
       /\ version.report = Check(version.lines, restsOn.version)
       /\ version.report # {} => version.attempts = MAX_CLAIM_REPROMPTS + 1
  /\ There(letter) =>
       /\ letter.report = Check(letter.lines, restsOn.letter)
       /\ letter.report # {} => letter.attempts = MAX_CLAIM_REPROMPTS + 1

(* "claim_validator and letter_claim_validator compare every generated claim *)
(* ... and flag unsupported ones at review" (README.md): of the letter, what *)
(* was kept without a source is flagged,                                     *)
LetterIsFlagged ==
  There(letter) /\ letter.report # {} => trace.letter \in {"none", "warning"}

(* and of the resume.                                                       *)
ResumeIsFlagged ==
  There(version) /\ version.report # {} => trace.resume \in {"none", "warning"}
=============================================================================
