------------------------------- MODULE MCAccount -------------------------------
(* The sign-in of an account (AuthSessions) and its deletion (Account), each *)
(* on its own: `part' says which of them moves.                             *)
EXTENDS AuthSessions, TLC

CONSTANTS Uploads, Runs, Traces, Deleters  \* Account's

VARIABLES part, user, resume, files, run, latest, saved, trace, del, slips

Symmetry == Permutations(Requests) \cup Permutations(Uploads) \cup Permutations(Runs)
              \cup Permutations(Deleters)

D == INSTANCE Account

ASSUME AccountIsGiven == D!AccountAssumption

accountVars == <<user, resume, files, run, latest, saved, trace, del, slips>>

AccountInit == part \in {"sign-in", "deletion"} /\ Init /\ D!Init

AccountNext ==
  \/ part = "sign-in" /\ Next /\ UNCHANGED <<part, accountVars>>
  \/ part = "deletion" /\ D!Next /\ UNCHANGED <<part, vars>>

AccountSpec == AccountInit /\ [][AccountNext]_<<part, vars, accountVars>>

-----------------------------------------------------------------------------
(* TypeOK, SecretsWorkOnce and EndedStaysEnded are AuthSessions' own.        *)

(* No file and no checkpoint goes before the account does, and nothing that  *)
(* names the person is left after it (domain/account/deletion.py).           *)
AccountGoesWhole == D!KeptUntilGone /\ [](D!TypeOK /\ D!NothingNamedRemains)

(* "Delete an account so that nothing of the person remains"                 *)
(* (domain/account/deletion.py).                                            *)
NothingRemains == D!NothingRemains
=============================================================================
