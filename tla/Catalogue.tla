------------------------------ MODULE Catalogue ------------------------------
(***************************************************************************)
(* The reference data (seed.py) and its vectors (reembed.py): processes that *)
(* load the skills, the roles and the learning resources, one transaction    *)
(* each, `if-empty' at every start-up of a small host; a change of the       *)
(* embeddings model by a deploy; the command that computes every vector      *)
(* again; and a worker that ingests a posting meanwhile.                     *)
(*                                                                         *)
(* The rows of a table stand or fall together and are one row here: a row is *)
(* the model its vector comes from, or None.  A process keeps the model it   *)
(* was started with.  An operator's load of one part alone (`seed jobs') is  *)
(* left out: SeedAll's parts in their order.                                *)
(***************************************************************************)
EXTENDS Naturals, Sequences

CONSTANTS Models,      \* embeddings models
          Dim,         \* the size of each one's vectors
          Processes,   \* commands that may overlap
          None,
          MaxStarts,   \* bound: commands that are started
          MaxDeploys   \* bound: changes of the model

CatalogueAssumption ==
  Dim \in [Models -> Nat] /\ None \notin Models /\ "cleared" \notin Models \cup {None}

VARIABLES model,       \* the configured model
          size,        \* of the vector columns
          skills, learning, postings,  \* None, "cleared", or a model
          roles,       \* the seeded roles: [vector, recorded, resolved], or None
          proc,        \* what each process is doing
          started, deploys,
          late,        \* ghost: an older model wrote during the re-embedding
          agreed       \* ghost: re-embedded since the last deploy

cVars == <<model, size, skills, learning, postings, roles, proc, started, deploys, late, agreed>>

Idle == [left |-> <<>>, model |-> None, seen |-> FALSE]

Init ==
  /\ model \in Models /\ size = Dim[model]
  /\ skills = None /\ learning = None /\ postings = None /\ roles = None
  /\ proc = [p \in Processes |-> Idle]
  /\ started = 0 /\ deploys = 0 /\ late = FALSE /\ agreed = TRUE

-----------------------------------------------------------------------------
(* Commands.                                                                *)

WholeCatalogue == <<"skills", "resolve", "roles", "learning">>

Reembedding == <<"resize", "re-skills", "re-learning", "re-chunks">>

Runs(p, steps) ==
  /\ proc[p].left = <<>> /\ started < MaxStarts /\ started' = started + 1
  /\ proc' = [proc EXCEPT ![p] = [Idle EXCEPT !.left = steps, !.model = model]]
  /\ UNCHANGED <<model, size, skills, learning, postings, roles, deploys, agreed>>

(* catalogue_is_empty: there is no seeded role. *)
SeedAllIfEmpty(p) == roles = None /\ Runs(p, WholeCatalogue) /\ UNCHANGED late
SeedAll(p)        == Runs(p, WholeCatalogue) /\ UNCHANGED late
IngestJob(p)      == Runs(p, <<"posting">>) /\ UNCHANGED late

(* One at a time: an operator's command. *)
Reembeds == \E p \in Processes : proc[p].left # <<>> /\ proc[p].left[1] \in
              {"resize", "re-skills", "re-learning", "re-chunks"}
Reembed(p)        == ~Reembeds /\ Runs(p, Reembedding) /\ late' = FALSE

Doing(p, step) == proc[p].left # <<>> /\ Head(proc[p].left) = step
Ended(p) == IF Len(proc[p].left) = 1 THEN Idle
            ELSE [proc[p] EXCEPT !.left = Tail(@)]
Done(p)  == proc' = [proc EXCEPT ![p] = Ended(p)]

(* A vector is written if it has the size of the column. *)
Writes(p) ==
  /\ Dim[proc[p].model] = size
  /\ late' = (late \/ proc[p].model # model)
  /\ agreed' = (agreed /\ proc[p].model = model)

(* A crash, a failed embedding, a vector that does not fit: the transaction  *)
(* that is open is rolled back and the process ends.                        *)
Dies(p) ==
  /\ proc[p].left # <<>> /\ proc' = [proc EXCEPT ![p] = Idle]
  /\ UNCHANGED <<model, size, skills, learning, postings, roles, started, deploys, late, agreed>>

-----------------------------------------------------------------------------
(* seed.py: upserts, a transaction for each part.                           *)

SeedSkills(p) ==
  /\ Doing(p, "skills") /\ Writes(p) /\ Done(p)
  /\ skills' = proc[p].model
  /\ UNCHANGED <<model, size, learning, postings, roles, started, deploys>>

(* The slugs are looked up first; one that is not there is dropped. *)
SeedJobsResolves(p) ==
  /\ Doing(p, "resolve")
  /\ proc' = [proc EXCEPT ![p].seen = skills # None, ![p].left = Tail(@)]
  /\ UNCHANGED <<model, size, skills, learning, postings, roles, started, deploys, late, agreed>>

Role(p) == [vector |-> proc[p].model, recorded |-> proc[p].model, resolved |-> proc[p].seen]

(* The role is replaced, its chunks are deleted and embedded again. *)
SeedJobs(p) ==
  /\ Doing(p, "roles") /\ Writes(p) /\ Done(p)
  /\ roles' = Role(p)
  /\ UNCHANGED <<model, size, skills, learning, postings, started, deploys>>

SeedLearning(p) ==
  /\ Doing(p, "learning") /\ Writes(p) /\ Done(p)
  /\ learning' = proc[p].model
  /\ UNCHANGED <<model, size, skills, postings, roles, started, deploys>>

(* The end of a worker's ingestion. *)
PostingIngested(p) ==
  /\ Doing(p, "posting") /\ Writes(p) /\ Done(p)
  /\ postings' = [vector |-> proc[p].model, recorded |-> proc[p].model]
  /\ UNCHANGED <<model, size, skills, learning, roles, started, deploys>>

-----------------------------------------------------------------------------
(* reembed.py                                                               *)

Cleared(row) == IF row = None THEN None ELSE "cleared"
ClearedChunks(row) == IF row = None THEN None ELSE [row EXCEPT !.vector = "cleared"]

(* Columns of another size are altered, and their vectors go. *)
ResizeVectorColumns(p) ==
  /\ Doing(p, "resize") /\ Done(p)
  /\ IF size = Dim[proc[p].model] THEN UNCHANGED <<size, skills, learning, postings, roles>>
     ELSE /\ size' = Dim[proc[p].model]
          /\ skills' = Cleared(skills) /\ learning' = Cleared(learning)
          /\ postings' = ClearedChunks(postings) /\ roles' = ClearedChunks(roles)
  /\ UNCHANGED <<model, started, deploys, late, agreed>>

\* mutant: only the rows that have a vector are embedded again
AgainFilled(row, m) == IF row \in {None, "cleared"} THEN row ELSE m
Again(row, m) == IF row = None THEN None ELSE m

Chunks(row, m) == IF row = None THEN None ELSE [row EXCEPT !.vector = m, !.recorded = m]

ReembedSkills(p) ==
  /\ Doing(p, "re-skills") /\ Writes(p) /\ Done(p)
  /\ skills' = Again(skills, proc[p].model)
  /\ UNCHANGED <<model, size, learning, postings, roles, started, deploys>>

ReembedLearning(p) ==
  /\ Doing(p, "re-learning") /\ Writes(p) /\ Done(p)
  /\ learning' = Again(learning, proc[p].model)
  /\ UNCHANGED <<model, size, skills, postings, roles, started, deploys>>

(* The last table; it counts if nobody wrote a vector of another model since *)
(* the command began.                                                       *)
ReembedChunks(p) ==
  /\ Doing(p, "re-chunks") /\ Done(p)
  /\ Dim[proc[p].model] = size
  /\ roles' = Chunks(roles, proc[p].model) /\ postings' = Chunks(postings, proc[p].model)
  /\ agreed' = (proc[p].model = model /\ (~late \/ agreed)) /\ UNCHANGED late
  /\ UNCHANGED <<model, size, skills, learning, started, deploys>>

(* A deploy with another model; who is running keeps the old one. *)
Deploy(m) ==
  /\ m # model /\ deploys < MaxDeploys /\ deploys' = deploys + 1
  /\ model' = m /\ agreed' = FALSE /\ late' = TRUE
  /\ UNCHANGED <<size, skills, learning, postings, roles, proc, started>>

Next ==
  \/ \E p \in Processes :
       \/ SeedAllIfEmpty(p) \/ SeedAll(p) \/ IngestJob(p) \/ Reembed(p) \/ Dies(p)
       \/ SeedSkills(p) \/ SeedJobsResolves(p) \/ SeedJobs(p) \/ SeedLearning(p)
       \/ PostingIngested(p)
       \/ ResizeVectorColumns(p) \/ ReembedSkills(p) \/ ReembedLearning(p) \/ ReembedChunks(p)
  \/ \E m \in Models : Deploy(m)

Spec == Init /\ [][Next]_cVars

-----------------------------------------------------------------------------
TypeOK ==
  /\ model \in Models /\ size \in {Dim[m] : m \in Models}
  /\ skills \in Models \cup {None, "cleared"} /\ learning \in Models \cup {None, "cleared"}
  /\ \A p \in Processes : proc[p].model \in Models \cup {None} /\ proc[p].seen \in BOOLEAN
  /\ late \in BOOLEAN /\ agreed \in BOOLEAN

Vectors(row) == IF row = None THEN {} ELSE {row}
ChunkVectors(row) == IF row = None THEN {} ELSE {row.vector}

(* A search compares vectors of one model only: nothing else was written      *)
(* since the last deploy, or everything was embedded again since and nobody   *)
(* of the old model wrote meanwhile.                                         *)
VectorsAgree ==
  agreed =>
    Vectors(skills) \cup Vectors(learning) \cup ChunkVectors(roles) \cup ChunkVectors(postings)
      \subseteq {model}

(* A chunk names the model its vector comes from. *)
ChunksAreNamed ==
  \A row \in {roles, postings} :
    row # None => row.vector \in {row.recorded, "cleared"}

(* The seeded roles ask for the skills of the taxonomy, whoever else loads it *)
(* and wherever a load stopped before.                                       *)
RolesAreResolved == roles # None => roles.resolved

(* "Load the whole catalogue only if it isn't there yet" (seed_all_if_empty): *)
(* when nobody is loading it, it is there whole or not at all.               *)
CatalogueIsWhole ==
  (\A p \in Processes : proc[p].left = <<>>) => (roles = None) = (learning = None)
=============================================================================
