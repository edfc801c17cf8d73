---------------------------- MODULE ResumeVersions ----------------------------
(***************************************************************************)
(* The versions of one resume (resume/version_service.py, the diff of       *)
(* api/v1/resumes.py): the snapshot that the first diff takes of the        *)
(* resume, the tailored versions, and what a diff tells of two of them.     *)
(*                                                                         *)
(* What a resume says is [summary, skills, entries]: a scalar, a list of    *)
(* strings and a section.  An entry is [key, text, points]; the other       *)
(* scalars and sections are compared in the same way.  A delta is           *)
(* <<path, op, before, after>>; the path of an entry is its index, in the     *)
(* other resume unless the entry was removed.                               *)
(***************************************************************************)
EXTENDS Naturals, Sequences, FiniteSets

CONSTANTS Contents,   \* what a resume may say
          Requests,   \* diffs that may overlap
          None,
          MaxVersions \* bound: tailored versions that are kept

VARIABLES extraction,  \* resumes.extraction
          snapshots,   \* rows of kind base_snapshot
          versions,    \* rows of kind ai_tailored
          asks,        \* what each diff has done: [at, version]
          shown        \* the last diff: [base, other, deltas], or None

vVars == <<extraction, snapshots, versions, asks, shown>>

-----------------------------------------------------------------------------
(* diff                                                                     *)

Delta(path, op, before, after) == <<path, op, before, after>>
Path(d) == d[1]
Op(d) == d[2]
Before(d) == d[3]
After(d) == d[4]

Items(list) == {list[i] : i \in DOMAIN list}
Times(list, x) == Cardinality({i \in DOMAIN list : list[i] = x})
SameBag(a, b) == Items(a) = Items(b) /\ \A x \in Items(a) : Times(a, x) = Times(b, x)
Without(a, b) ==
  LET rest[n \in 0..Len(a)] ==
        IF n = 0 THEN <<>>
        ELSE IF a[n] \in Items(b) THEN rest[n - 1] ELSE Append(rest[n - 1], a[n])
  IN  rest[Len(a)]

DiffScalar(path, before, after) ==
  IF before = after THEN {} ELSE {Delta(path, "changed", before, after)}

\* mutant: what was removed is told only if nothing was added
DiffListElse(path, before, after) ==
  IF before = after THEN {}
  ELSE IF SameBag(before, after) THEN {Delta(path, "reordered", before, after)}
  ELSE IF Without(after, before) # <<>> THEN {Delta(path, "added", None, Without(after, before))}
  ELSE {Delta(path, "removed", Without(before, after), None)}

DiffList(path, before, after) ==
  IF before = after THEN {}
  ELSE IF SameBag(before, after) THEN {Delta(path, "reordered", before, after)}
  ELSE {d \in {Delta(path, "added", None, Without(after, before)),
               Delta(path, "removed", Without(before, after), None)} :
          Before(d) # <<>> /\ After(d) # <<>>}

(* Of entries with the same key the last one counts. *)
ByKey(entries) ==
  {i \in DOMAIN entries : \A j \in DOMAIN entries : j > i => entries[j].key # entries[i].key}
Match(entry, entries) == {i \in ByKey(entries) : entries[i].key = entry.key}

Field(i, name) == <<"entries", i, name>>
Entry(i) == <<"entries", i>>

DiffEntry(i, base, other) ==
  DiffScalar(Field(i, "text"), base.text, other.text)
    \cup DiffList(Field(i, "points"), base.points, other.points)

DiffSection(base, other) ==
  (UNION {IF Match(other[i], base) = {} THEN {Delta(Entry(i), "added", None, other[i])}
          ELSE UNION {DiffEntry(i, base[j], other[i]) : j \in Match(other[i], base)} :
            i \in ByKey(other)})
  \cup {Delta(Entry(j), "removed", base[j], None) :
          j \in {k \in ByKey(base) : Match(base[k], other) = {}}}

Diff(base, other) ==
  DiffScalar(<<"summary">>, base.summary, other.summary)
    \cup DiffList(<<"skills">>, base.skills, other.skills)
    \cup DiffSection(base.entries, other.entries)

-----------------------------------------------------------------------------
(* Versions and requests.                                                   *)

Idle == [at |-> "idle", version |-> None]

(* Lists are lists, and None is neither one of them nor an entry. *)
IsList(s)  == s \in Seq(Items(s))
Entries    == UNION {Items(c.entries) : c \in Contents}
Strings    == UNION ({Items(c.skills) : c \in Contents} \cup {Items(e.points) : e \in Entries})
VersionsAssumption ==
  /\ MaxVersions \in Nat /\ None \notin Entries \cup Seq(Strings)
  /\ \A c \in Contents : IsList(c.skills) /\ IsList(c.entries)
  /\ \A e \in Entries : IsList(e.points)

Init ==
  /\ extraction \in Contents /\ snapshots = <<>> /\ versions = <<>>
  /\ asks = [q \in Requests |-> Idle] /\ shown = None

(* The pipeline reads the file again. *)
Reprocessed ==
  /\ extraction' \in Contents \ {extraction}
  /\ UNCHANGED <<snapshots, versions, asks, shown>>

(* write_version: a tailored version has no parent. *)
WriteVersion ==
  /\ Len(versions) < MaxVersions
  /\ \E content \in Contents : versions' = Append(versions, content)
  /\ UNCHANGED <<extraction, snapshots, asks, shown>>

Shows(base, other) == shown' = [base |-> base, other |-> other, deltas |-> Diff(base, other)]

(* GET .../diff?against=<version> *)
DiffAgainst ==
  /\ \E i, j \in DOMAIN versions : Shows(versions[j], versions[i])
  /\ UNCHANGED <<extraction, snapshots, versions, asks>>

(* GET .../diff: ensure_base_snapshot.  More than one row is an error.       *)
FindsSnapshot(q) ==
  /\ asks[q].at = "idle" /\ Len(snapshots) = 1
  /\ \E i \in DOMAIN versions : Shows(snapshots[1], versions[i])
  /\ UNCHANGED <<extraction, snapshots, versions, asks>>

FindsNone(q) ==
  /\ asks[q].at = "idle" /\ snapshots = <<>>
  /\ \E i \in DOMAIN versions : asks' = [asks EXCEPT ![q] = [at |-> "missing", version |-> i]]
  /\ UNCHANGED <<extraction, snapshots, versions, shown>>

CreatesSnapshot(q) ==
  /\ asks[q].at = "missing"
  /\ snapshots' = Append(snapshots, extraction)
  /\ Shows(extraction, versions[asks[q].version])
  /\ asks' = [asks EXCEPT ![q] = Idle]
  /\ UNCHANGED <<extraction, versions>>

Next ==
  \/ Reprocessed \/ WriteVersion \/ DiffAgainst
  \/ \E q \in Requests : FindsSnapshot(q) \/ FindsNone(q) \/ CreatesSnapshot(q)

Spec == Init /\ [][Next]_vVars

-----------------------------------------------------------------------------
(* The deltas tell the whole change and nothing else.  Told(d, base) is what *)
(* a reader makes of the base with them; what they cannot tell, and the code *)
(* does not mean to, is how often a string is repeated, the order of the     *)
(* entries of a section, and all but the last entry of one key.              *)

At(deltas, path, op) == {d \in deltas : Path(d) = path /\ Op(d) = op}

ListTold(deltas, path, before) ==
  LET reordered == At(deltas, path, "reordered")
      added     == UNION {Items(After(d)) : d \in At(deltas, path, "added")}
      removed   == UNION {Items(Before(d)) : d \in At(deltas, path, "removed")}
  IN IF reordered # {} THEN UNION {Items(After(d)) : d \in reordered}
     ELSE (Items(before) \ removed) \cup added

ScalarTold(deltas, path, before) ==
  IF At(deltas, path, "changed") = {} THEN before
  ELSE After(CHOOSE d \in At(deltas, path, "changed") : TRUE)

(* An entry as far as its order and repetitions do not matter. *)
Gist(entry) == [key |-> entry.key, text |-> entry.text, points |-> Items(entry.points)]

EntriesTold(deltas, base, other) ==
  {Gist(After(d)) : d \in {x \in deltas : Len(Path(x)) = 2 /\ Op(x) = "added"}} \cup
  UNION {LET i == CHOOSE k \in Match(base[j], other) : TRUE
         IN {[key |-> base[j].key, text |-> ScalarTold(deltas, Field(i, "text"), base[j].text),
              points |-> ListTold(deltas, Field(i, "points"), base[j].points)]} :
           j \in {k \in ByKey(base) : At(deltas, Entry(k), "removed") = {}}}

(* However a resume was tailored, the diff that is shown turns the base into *)
(* the version, and is empty only if neither a reader nor a machine could    *)
(* tell them apart but by repetitions.                                      *)
DiffTellsTheChange ==
  shown # None =>
    LET deltas == shown.deltas  base == shown.base  other == shown.other
    IN /\ ScalarTold(deltas, <<"summary">>, base.summary) = other.summary
       /\ ListTold(deltas, <<"skills">>, base.skills) = Items(other.skills)
       /\ EntriesTold(deltas, base.entries, other.entries)
            = {Gist(other.entries[i]) : i \in ByKey(other.entries)}
       /\ \A d \in deltas : Before(d) # After(d)

(* "Idempotently return the base_snapshot version for a resume"              *)
(* (version_service.py): there is one, whoever asks at the same time.        *)
OneSnapshot == Len(snapshots) <= 1
=============================================================================
