---------------------------- MODULE AuthSessions ----------------------------
(***************************************************************************)
(* One account: its password, its signed-in sessions (refresh-token        *)
(* families, domain/auth/service.py) and its emailed links                 *)
(* (domain/auth/account_emails.py), under requests that run beside each    *)
(* other, each in one READ COMMITTED transaction.                          *)
(*                                                                         *)
(* `refresh', `link' and `account' are the committed rows.  A request      *)
(* reads them, may hold row locks (SELECT .. FOR UPDATE, or an UPDATE that *)
(* reached the row), and writes what it holds when it commits.  An         *)
(* UPDATE .. WHERE finds its rows in the snapshot its statement starts     *)
(* with, waits for their locks and looks at each once more: a row another  *)
(* request commits in between is not among them.                           *)
(*                                                                         *)
(* Raw tokens, hashes, addresses and audit rows are left out; a request    *)
(* that is refused changes nothing and is not a step.                      *)
(***************************************************************************)
EXTENDS Naturals, FiniteSets

CONSTANTS
  Requests,     \* concurrent HTTP requests
  MaxTokens,    \* bound: refresh tokens ever issued
  MaxLinks,     \* bound: emailed links ever issued
  MaxIssued,    \* bound: tokens and links together, those under way included
  MaxPasswords, \* bound: passwords the account ever has
  MaxPerHour,   \* MAX_PER_HOUR links of a kind
  None          \* no request holds the lock

ASSUME BoundAssumption ==
  /\ {MaxTokens, MaxLinks, MaxIssued, MaxPasswords, MaxPerHour} \subseteq Nat \ {0}
  /\ None \notin Requests

Tokens   == 1..MaxTokens
Links    == 1..MaxLinks
Purposes == {"password_reset", "email_verify"}

VARIABLES
  account,   \* users: status, the password's version, email_verified_at
  refresh,   \* refresh_tokens
  link,      \* auth_tokens
  lock,      \* who holds the row lock of a refresh token
  linkLock,  \* who holds the row lock of a link
  req,       \* the requests
  ended      \* history: families ended while nothing was issuing into them

vars == <<account, refresh, link, lock, linkLock, req, ended>>

(* "from" is history: the token whose rotation issued this one.             *)
NoToken == [state |-> "absent", family |-> 0, grace |-> FALSE, pw |-> 0, from |-> 0]
(* "uses" is history: how often the link was consumed.                      *)
NoLink  == [state |-> "absent", purpose |-> "email_verify", recent |-> FALSE, uses |-> 0]
(* family: the one the request issues into or ends.  saw: the rows its      *)
(* UPDATE found.  quiet (history): families nobody issued into since then.  *)
Idle    == [op |-> "idle", at |-> "start", token |-> 0, link |-> 0, pw |-> 0,
            family |-> 0, saw |-> {}, quiet |-> {}]

Init ==
  /\ account = [status |-> "none", pw |-> 0, verified |-> FALSE]
  /\ refresh = [t \in Tokens |-> NoToken]
  /\ link = [l \in Links |-> NoLink]
  /\ lock = [t \in Tokens |-> None] /\ linkLock = [l \in Links |-> None]
  /\ req = [r \in Requests |-> Idle]
  /\ ended = {}

-----------------------------------------------------------------------------
(* What a request reads.                                                    *)

Active == account.status = "active"

Usable(t) == refresh[t].state = "live"

IsSessionLive(f) == \E t \in Tokens : refresh[t].family = f /\ Usable(t)

(* get_current_user: the access token's session still has a usable token.   *)
SignedIn == Active /\ \E t \in Tokens : Usable(t)

\* mutant: grace outlives its family
WithinReuseGraceAlways(t) == refresh[t].grace

(* Rotated, not logged out, within the last fifteen seconds.                *)
WithinReuseGrace(t) == refresh[t].grace /\ IsSessionLive(refresh[t].family)

Free(t)     == lock[t] = None
FreeLink(l) == linkLock[l] = None

-----------------------------------------------------------------------------
(* The life of a request: it starts, works and commits or rolls back.       *)

IssuesInto(q) == IF q.op \in {"rotate", "sibling"} THEN {q.family} ELSE {}

FreeTokens == {t \in Tokens : refresh[t].state = "absent"}
NextToken  == CHOOSE t \in FreeTokens : \A u \in FreeTokens : t <= u
FreeLinks  == {l \in Links : link[l].state = "absent"}
NextLink   == CHOOSE l \in FreeLinks : \A m \in FreeLinks : l <= m
IssuingOps == {"register", "login", "rotate", "sibling", "change"} \cup Purposes
Issuing ==
  Cardinality(Tokens \ FreeTokens) + Cardinality(Links \ FreeLinks)
    + Cardinality({r \in Requests : req[r].op \in IssuingOps}) < MaxIssued

(* Bound: nothing starts for which no row is left.                          *)
RoomFor(op) ==
  /\ op \in {"register", "login", "rotate", "sibling", "change"} => FreeTokens # {} /\ Issuing
  /\ op \in {"register"} \cup Purposes => FreeLinks # {} /\ Issuing
  /\ op \in {"change", "reset"} => account.pw < MaxPasswords

Start(r, q) ==
  /\ req[r] = Idle /\ RoomFor(q.op)
  /\ req' = [p \in Requests |-> IF p = r THEN q
                                ELSE [req[p] EXCEPT !.quiet = @ \ IssuesInto(q)]]

(* Commit or rollback: the request is over and its row locks are released.  *)
Release(r) ==
  /\ req' = [req EXCEPT ![r] = Idle]
  /\ lock' = [t \in Tokens |-> IF lock[t] = r THEN None ELSE lock[t]]
  /\ linkLock' = [l \in Links |-> IF linkLock[l] = r THEN None ELSE linkLock[l]]

(* get_session rolls back when anything raises, a deadlock between row      *)
(* locks included, and nothing of the request remains.                      *)
RollBack(r) ==
  /\ req[r] # Idle /\ Release(r)
  /\ UNCHANGED <<account, refresh, link, ended>>

(* _issue: a new row, in the family named or in one of its own (0).         *)
\* mutant: a session begun has no family yet
NewTokenOfNone(f, pw, from) ==
  [NoToken EXCEPT !.state = "live", !.family = f, !.pw = pw, !.from = from]
NewToken(f, pw, from) ==
  [NoToken EXCEPT !.state = "live", !.family = IF f = 0 THEN NextToken ELSE f,
                  !.pw = pw, !.from = from]
Issued(table, f, pw, from) ==
  [table EXCEPT ![NextToken] = NewToken(f, pw, from)]

Revoked(S) ==
  [t \in Tokens |-> IF t \in S THEN [refresh[t] EXCEPT !.state = "revoked"] ELSE refresh[t]]

-----------------------------------------------------------------------------
(* POST /register and /login.                                               *)

RegisterStart(r) ==
  /\ account.status = "none"
  /\ Start(r, [Idle EXCEPT !.op = "register"])
  /\ UNCHANGED <<account, refresh, link, lock, linkLock, ended>>

(* The insert meets the unique email; then a session and a link to confirm  *)
(* the address, committed together.                                         *)
RegisterCommit(r) ==
  /\ req[r].op = "register" /\ account.status = "none"
  /\ FreeTokens # {} /\ FreeLinks # {}
  /\ account' = [status |-> "active", pw |-> 1, verified |-> FALSE]
  /\ refresh' = Issued(refresh, 0, 1, 0)
  /\ link' = [link EXCEPT ![NextLink] = [NoLink EXCEPT !.state = "unused", !.recent = TRUE]]
  /\ Release(r) /\ UNCHANGED ended

(* The password is verified against the row as read now.                    *)
LoginStart(r) ==
  /\ Active
  /\ Start(r, [Idle EXCEPT !.op = "login", !.pw = account.pw])
  /\ UNCHANGED <<account, refresh, link, lock, linkLock, ended>>

LoginCommit(r) ==
  /\ req[r].op = "login" /\ FreeTokens # {}
  /\ refresh' = Issued(refresh, 0, req[r].pw, 0)
  /\ Release(r) /\ UNCHANGED <<account, link, ended>>

-----------------------------------------------------------------------------
(* POST /refresh: rotate.  The presented token is locked, then judged.      *)

\* mutant: the presented token is not locked
RotateUnlocked(r, t) ==
  /\ Active /\ Usable(t)
  /\ Start(r, [Idle EXCEPT !.op = "rotate", !.token = t, !.family = refresh[t].family])
  /\ UNCHANGED <<account, refresh, link, lock, linkLock, ended>>

RotateStart(r, t) ==
  /\ Free(t) /\ Active /\ Usable(t)
  /\ Start(r, [Idle EXCEPT !.op = "rotate", !.token = t, !.family = refresh[t].family])
  /\ lock' = [lock EXCEPT ![t] = r]
  /\ UNCHANGED <<account, refresh, link, linkLock, ended>>

RotateCommit(r) ==
  LET t == req[r].token IN
  /\ req[r].op = "rotate" /\ FreeTokens # {}
  /\ refresh' = [Issued(refresh, refresh[t].family, refresh[t].pw, t)
                   EXCEPT ![t].state = "revoked", ![t].grace = TRUE]
  /\ Release(r) /\ UNCHANGED <<account, link, ended>>

(* A token rotated moments ago: a parallel request, which gets a sibling.   *)
SiblingStart(r, t) ==
  /\ Free(t) /\ WithinReuseGrace(t) /\ Active
  /\ Start(r, [Idle EXCEPT !.op = "sibling", !.family = refresh[t].family, !.pw = refresh[t].pw])
  /\ lock' = [lock EXCEPT ![t] = r]
  /\ UNCHANGED <<account, refresh, link, linkLock, ended>>

SiblingCommit(r) ==
  /\ req[r].op = "sibling" /\ FreeTokens # {}
  /\ refresh' = Issued(refresh, req[r].family, req[r].pw, 0)
  /\ Release(r) /\ UNCHANGED <<account, link, ended>>

(* Any other revoked token: the family is taken as compromised.             *)
ReuseStart(r, t) ==
  /\ Free(t) /\ refresh[t].state = "revoked" /\ ~WithinReuseGrace(t)
  /\ Start(r, [Idle EXCEPT !.op = "reuse", !.family = refresh[t].family])
  /\ lock' = [lock EXCEPT ![t] = r]
  /\ UNCHANGED <<account, refresh, link, linkLock, ended>>

-----------------------------------------------------------------------------
(* POST /password/change and /password/reset.                               *)

ChangeStart(r) ==
  /\ SignedIn
  /\ Start(r, [Idle EXCEPT !.op = "change"])
  /\ UNCHANGED <<account, refresh, link, lock, linkLock, ended>>

(* consume: a link of the purpose, unused and unexpired, is locked.         *)
Consumable(l, purpose) ==
  link[l].state = "unused" /\ link[l].purpose = purpose /\ Active

Consume(r, l, op, purpose) ==
  /\ FreeLink(l) /\ Consumable(l, purpose)
  /\ Start(r, [Idle EXCEPT !.op = op, !.link = l])
  /\ linkLock' = [linkLock EXCEPT ![l] = r]
  /\ UNCHANGED <<account, refresh, link, lock, ended>>

ResetStart(r, l)  == Consume(r, l, "reset", "password_reset")
VerifyStart(r, l) == Consume(r, l, "verify", "email_verify")

VerifyCommit(r) ==
  /\ req[r].op = "verify"
  /\ account' = [account EXCEPT !.verified = TRUE]
  /\ link' = [link EXCEPT ![req[r].link].state = "used", ![req[r].link].uses = @ + 1]
  /\ Release(r) /\ UNCHANGED <<refresh, ended>>

-----------------------------------------------------------------------------
(* Ending sessions: _revoke_family (reuse, logout), _end_all_sessions       *)
(* (change, reset).                                                         *)

Ending(r) == req[r].op \in {"reuse", "logout", "change", "reset"}

Families == {refresh[t].family : t \in Tokens} \ {0}

EndedBy(q) == IF q.op \in {"reuse", "logout"} THEN {q.family} ELSE Families

IsUnrevoked(t) == refresh[t].state \in {"live", "expired"}

(* The request once its UPDATE has its snapshot.                            *)
Updating(q) ==
  [q EXCEPT !.at = "tokens",
            !.saw = {t \in Tokens : IsUnrevoked(t) /\ refresh[t].family \in EndedBy(q)},
            !.quiet = {f \in EndedBy(q) : \A p \in Requests : f \notin IssuesInto(req[p])}]

EndSnapshot(r) ==
  /\ Ending(r) /\ req[r].at = "start"
  /\ req' = [req EXCEPT ![r] = Updating(req[r])]
  /\ UNCHANGED <<account, refresh, link, lock, linkLock, ended>>

(* POST /logout reads the presented token without a lock; all it takes from *)
(* the row is the family, which never changes, so the read and the UPDATE's *)
(* snapshot are one step.                                                   *)
LogoutStart(r, f) ==
  /\ f \in Families
  /\ Start(r, Updating([Idle EXCEPT !.op = "logout", !.family = f]))
  /\ UNCHANGED <<account, refresh, link, lock, linkLock, ended>>

(* The rows it reaches once nobody else holds them, if still unrevoked.     *)
Reached(r) == {t \in req[r].saw : IsUnrevoked(t)}
LocksFree(r) == \A t \in req[r].saw : lock[t] \in {None, r}

(* The reuse revoke is committed before the 401 is raised.                  *)
RevokeCommit(r) ==
  /\ req[r].op \in {"reuse", "logout"} /\ req[r].at = "tokens" /\ LocksFree(r)
  /\ refresh' = Revoked(Reached(r))
  /\ ended' = ended \cup req[r].quiet
  /\ Release(r) /\ UNCHANGED <<account, link>>

(* change, reset: the tokens are held, then the reset links are looked for. *)
EndTokens(r) ==
  /\ req[r].op \in {"change", "reset"} /\ req[r].at = "tokens" /\ LocksFree(r)
  /\ lock' = [t \in Tokens |-> IF t \in Reached(r) THEN r ELSE lock[t]]
  /\ req' = [req EXCEPT ![r].at = "links", ![r].saw = {}]
  /\ UNCHANGED <<account, refresh, link, linkLock, ended>>

OpenLinks(purpose) ==
  {l \in Links : link[l].state = "unused" /\ link[l].purpose = purpose}

Retired(S) == [l \in Links |-> IF l \in S THEN [link[l] EXCEPT !.state = "used"] ELSE link[l]]

HeldBy(r) == {t \in Tokens : lock[t] = r}

(* A change of password signs the person in again, in a new family.         *)
PasswordCommit(r) ==
  LET pw  == account.pw + 1
      own == {l \in Links : linkLock[l] = r}
  IN
  /\ req[r].op \in {"change", "reset"} /\ req[r].at = "links"
  /\ pw \in 1..MaxPasswords
  /\ \A l \in OpenLinks("password_reset") : linkLock[l] \in {None, r}
  /\ account' = [account EXCEPT !.pw = pw, !.verified = @ \/ req[r].op = "reset"]
  /\ link' = [l \in Links |-> IF l \in own
                THEN [link[l] EXCEPT !.state = "used", !.uses = @ + 1]
                ELSE Retired(OpenLinks("password_reset"))[l]]
  /\ IF req[r].op = "change"
     THEN FreeTokens # {} /\ refresh' = Issued(Revoked(HeldBy(r)), 0, pw, 0)
     ELSE refresh' = Revoked(HeldBy(r))
  /\ ended' = ended \cup req[r].quiet
  /\ Release(r)

-----------------------------------------------------------------------------
(* POST /password/forgot and /email/verify/resend: AccountEmailService.issue *)

RecentLinks(purpose) ==
  {l \in Links : link[l].state # "absent" /\ link[l].purpose = purpose /\ link[l].recent}

Throttled(purpose) == Cardinality(RecentLinks(purpose)) >= MaxPerHour

IssueStart(r, purpose) ==
  /\ Active /\ ~Throttled(purpose)
  /\ purpose = "email_verify" => SignedIn /\ ~account.verified
  /\ Start(r, [Idle EXCEPT !.op = purpose, !.saw = OpenLinks(purpose)])
  /\ UNCHANGED <<account, refresh, link, lock, linkLock, ended>>

IssueCommit(r) ==
  LET purpose == req[r].op IN
  /\ purpose \in Purposes /\ FreeLinks # {}
  /\ \A l \in req[r].saw : linkLock[l] \in {None, r}
  /\ link' = [Retired({l \in req[r].saw : link[l].state = "unused"}) EXCEPT
                ![NextLink] = [NoLink EXCEPT !.state = "unused", !.purpose = purpose,
                                             !.recent = TRUE]]
  /\ Release(r) /\ UNCHANGED <<account, refresh, ended>>

-----------------------------------------------------------------------------
(* Time: fifteen seconds, a token's or a link's lifetime, an hour.  A link  *)
(* that expired is refused as a used one is, and counts as used here.       *)

GraceEnds(t) ==
  /\ refresh[t].grace /\ refresh' = [refresh EXCEPT ![t].grace = FALSE]
  /\ UNCHANGED <<account, link, lock, linkLock, req, ended>>

TokenExpires(t) ==
  /\ refresh[t].state = "live" /\ refresh' = [refresh EXCEPT ![t].state = "expired"]
  /\ UNCHANGED <<account, link, lock, linkLock, req, ended>>

(* A reset link lives 30 minutes, a link to confirm an address 48 hours.    *)
LinkExpires(l) ==
  /\ link[l].state = "unused" /\ (link[l].purpose = "email_verify" => ~link[l].recent)
  /\ link' = [link EXCEPT ![l].state = "used"]
  /\ UNCHANGED <<account, refresh, lock, linkLock, req, ended>>

HourPasses(l) ==
  /\ link[l].recent /\ (link[l].purpose = "password_reset" => link[l].state = "used")
  /\ link' = [link EXCEPT ![l].recent = FALSE]
  /\ UNCHANGED <<account, refresh, lock, linkLock, req, ended>>

Time ==
  \/ \E t \in Tokens : GraceEnds(t) \/ TokenExpires(t)
  \/ \E l \in Links : LinkExpires(l) \/ HourPasses(l)

(* The handlers of api/v1/auth.py, each a request from its start to its     *)
(* commit or rollback.                                                      *)

Register(r) == RegisterStart(r) \/ RegisterCommit(r)
Login(r)    == LoginStart(r) \/ LoginCommit(r)

Refresh(r) ==
  \/ \E t \in Tokens : RotateStart(r, t) \/ SiblingStart(r, t) \/ ReuseStart(r, t)
  \/ RotateCommit(r) \/ SiblingCommit(r)

Logout(r) == \E f \in Tokens : LogoutStart(r, f)

EndSessions(r) == EndSnapshot(r) \/ RevokeCommit(r) \/ EndTokens(r) \/ PasswordCommit(r)

ResetPassword(r) == \E l \in Links : ResetStart(r, l)
VerifyEmail(r)   == VerifyCommit(r) \/ \E l \in Links : VerifyStart(r, l)

SendLink(r) == IssueCommit(r) \/ \E p \in Purposes : IssueStart(r, p)

Next ==
  \/ \E r \in Requests :
       \/ Register(r) \/ Login(r) \/ Refresh(r) \/ Logout(r) \/ ChangeStart(r)
       \/ ResetPassword(r) \/ VerifyEmail(r) \/ EndSessions(r) \/ SendLink(r)
       \/ RollBack(r)
  \/ Time

Spec == Init /\ [][Next]_vars

-----------------------------------------------------------------------------
MaybeToken == {0} \cup Tokens
TokenRows == [state: {"absent", "live", "expired", "revoked"}, family: MaybeToken,
              grace: BOOLEAN, pw: 0..MaxPasswords, from: MaybeToken]
LinkRows  == [state: {"absent", "unused", "used"}, purpose: Purposes, recent: BOOLEAN,
              uses: Nat]
Ops       == {"idle", "register", "login", "rotate", "sibling", "reuse", "logout",
              "change", "reset", "verify"} \cup Purposes
ReqRows   == [op: Ops, at: {"start", "tokens", "links"}, token: MaybeToken,
              link: {0} \cup Links, pw: 0..MaxPasswords, family: MaybeToken,
              saw: SUBSET (Tokens \cup Links), quiet: SUBSET Tokens]

(* Every row, lock and request stays within what the tables and handlers    *)
(* allow (models/auth.py, domain/auth/service.py).                          *)
TypeOK ==
  /\ account \in [status: {"none", "active"}, pw: 0..MaxPasswords, verified: BOOLEAN]
  /\ refresh \in [Tokens -> TokenRows] /\ link \in [Links -> LinkRows]
  /\ \A t \in Tokens : refresh[t].state = "absent" <=> refresh[t].family = 0
  /\ lock \in [Tokens -> Requests \cup {None}]
  /\ linkLock \in [Links -> Requests \cup {None}]
  /\ req \in [Requests -> ReqRows]
  /\ ended \subseteq Tokens

(* Two refreshes that present one token never both rotate it: the second    *)
(* sees the first one's rotation (service.py, rotate).                      *)
RotatedOnce ==
  \A t, u \in Tokens : refresh[t].from = refresh[u].from /\ refresh[t].from # 0 => t = u

(* A session that a logout, a reuse or a password change ended while nobody *)
(* was refreshing in it has no usable token afterwards, whichever of its    *)
(* tokens is presented, and however soon (service.py, _within_reuse_grace). *)
EndedStaysEnded == \A f \in ended : ~IsSessionLive(f)

(* An emailed link changes the password, or confirms the address, at most   *)
(* once, though two requests present it together (account_emails.py,        *)
(* consume).                                                                *)
LinkUsedOnce == \A l \in Links : link[l].uses <= 1

(* Both: what is presented twice, by requests side by side, works once.     *)
SecretsWorkOnce == RotatedOnce /\ LinkUsedOnce

(* What tokens.py and deps.py say: a password change ends every session     *)
(* there was, so no session signed in with an older password is usable.     *)
PasswordEndsSessions == \A t \in Tokens : Usable(t) => refresh[t].pw = account.pw
=============================================================================
