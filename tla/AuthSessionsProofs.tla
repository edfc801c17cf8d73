------------------------- MODULE AuthSessionsProofs -------------------------
(***************************************************************************)
(* Proofs about AuthSessions, for any number of requests, tokens and links, *)
(* and about Account, the deletion that MCAccount runs beside it, for any   *)
(* uploads, runs, audit rows and deleters.                                 *)
(***************************************************************************)
EXTENDS MCAccount, WellFoundedInduction, TLAPS

(* The families requests work on have a row of their own: a family is named *)
(* after its first token.                                                   *)
FamiliesNamed ==
  /\ \A t \in Tokens : refresh[t].family # 0 => refresh[refresh[t].family].state # "absent"
  /\ \A r \in Requests : req[r].op \in {"rotate", "sibling", "reuse", "logout"} =>
       req[r].family \in Tokens /\ refresh[req[r].family].state # "absent"

(* Only rows that exist are locked.                                         *)
LocksNameRows == \A t \in Tokens : lock[t] # None => refresh[t].state # "absent"

(* Who rotates a token holds its lock, and the token stays unrevoked.       *)
RotationHeld == \A r \in Requests : req[r].op = "rotate" =>
  LET t == req[r].token IN
  /\ t \in Tokens /\ lock[t] = r /\ IsUnrevoked(t)
  /\ req[r].family = refresh[t].family

(* A token that another was issued for is revoked.                          *)
RotatedRevoked == \A t \in Tokens :
  refresh[t].from # 0 => refresh[refresh[t].from].state = "revoked"

(* A link that can be consumed, or is held to be, never was.                *)
LinksHeld ==
  /\ \A l \in Links : link[l].state = "unused" \/ linkLock[l] # None => link[l].uses = 0
  /\ \A r \in Requests : req[r].op = "verify" =>
       req[r].link \in Links /\ linkLock[req[r].link] = r

(* A family a request ends with nobody issuing into it stays so, and it     *)
(* reaches, then holds, each of the family's unrevoked tokens.              *)
Quiet(f) == refresh[f].state # "absent" /\ \A p \in Requests : f \notin IssuesInto(req[p])
QuietStays == \A r \in Requests : \A f \in req[r].quiet : Quiet(f)
Reaches == \A r \in Requests : \A f \in req[r].quiet :
  /\ req[r].at # "start"
  /\ \A t \in Tokens : IsUnrevoked(t) /\ refresh[t].family = f =>
       IF req[r].at = "tokens" THEN t \in req[r].saw ELSE lock[t] = r
EndedQuiet == \A f \in ended : Quiet(f)

IInv == /\ TypeOK /\ FamiliesNamed /\ LocksNameRows /\ RotationHeld /\ RotatedRevoked
        /\ RotatedOnce /\ LinksHeld /\ LinkUsedOnce /\ QuietStays /\ Reaches
        /\ EndedQuiet /\ EndedStaysEnded

-----------------------------------------------------------------------------
(* A new row: the least free token, the least free link.                    *)

LEMMA MaybeTokens ==
  /\ 0 \in MaybeToken /\ Tokens \subseteq MaybeToken
  /\ \A t \in MaybeToken : t \in Tokens <=> t # 0
  BY BoundAssumption DEF MaybeToken, Tokens

LEMMA Least ==
  ASSUME NEW S \in SUBSET Nat, S # {}
  PROVE  \E x \in S : \A y \in S : x <= y
  <1>1. PICK x \in S : \A y \in S : ~ (<<y, x>> \in OpToRel(<, Nat))
    BY NatLessThanWellFounded, WFMin
  <1>2. \A y \in S : ~(y < x)
    BY <1>1 DEF OpToRel
  <1>3. QED
    BY <1>2

LEMMA NextTokenFree ==
  ASSUME FreeTokens # {}
  PROVE  NextToken \in Tokens /\ refresh[NextToken].state = "absent"
  <1>1. FreeTokens \in SUBSET Nat
    BY BoundAssumption DEF FreeTokens, Tokens
  <1>2. \E t \in FreeTokens : \A u \in FreeTokens : t <= u
    BY <1>1, Least
  <1>3. NextToken \in FreeTokens
    BY <1>2 DEF NextToken
  <1>4. QED
    BY <1>3 DEF FreeTokens

LEMMA NextLinkFree ==
  ASSUME FreeLinks # {}
  PROVE  NextLink \in Links /\ link[NextLink].state = "absent"
  <1>1. FreeLinks \in SUBSET Nat
    BY BoundAssumption DEF FreeLinks, Links
  <1>2. \E l \in FreeLinks : \A m \in FreeLinks : l <= m
    BY <1>1, Least
  <1>3. NextLink \in FreeLinks
    BY <1>2 DEF NextLink
  <1>4. QED
    BY <1>3 DEF FreeLinks

(* The row a new token gets, and that no other row changes.                 *)
LEMMA IssuedRow ==
  ASSUME NEW table \in [Tokens -> TokenRows], FreeTokens # {},
         NEW f \in MaybeToken, NEW pw \in 0..MaxPasswords, NEW from \in MaybeToken,
         NEW new, new = Issued(table, f, pw, from)
  PROVE  /\ new \in [Tokens -> TokenRows]
         /\ NextToken \in Tokens /\ refresh[NextToken].state = "absent"
         /\ new[NextToken].state = "live" /\ new[NextToken].from = from
         /\ new[NextToken].family # 0
         /\ f = 0 => new[NextToken].family = NextToken
         /\ f # 0 => new[NextToken].family = f
         /\ \A t \in Tokens : t # NextToken => new[t] = table[t]
  <1>1. NextToken \in Tokens /\ NextToken # 0 /\ refresh[NextToken].state = "absent"
    BY NextTokenFree, BoundAssumption DEF Tokens
  <1>2. ASSUME NEW g \in Tokens
        PROVE  LET row == [NoToken EXCEPT !.state = "live", !.family = g, !.pw = pw,
                                          !.from = from] IN
               row \in TokenRows /\ row.state = "live" /\ row.family = g /\ row.from = from
    BY DEF NoToken, TokenRows, MaybeToken
  <1>3. LET row == NewToken(f, pw, from) IN
        /\ row \in TokenRows /\ row.state = "live" /\ row.from = from
        /\ row.family = IF f = 0 THEN NextToken ELSE f
    BY <1>1, <1>2 DEF NewToken, MaybeToken
  <1>4. new = [table EXCEPT ![NextToken] = NewToken(f, pw, from)]
    BY DEF Issued
  <1>5. QED
    BY <1>1, <1>3, <1>4

(* A table of tokens in which exactly the absent ones have no family.       *)
Typed(table) == /\ table \in [Tokens -> TokenRows]
                /\ \A t \in Tokens : table[t].state = "absent" <=> table[t].family = 0

LEMMA IssuedTyped ==
  ASSUME NEW table, Typed(table), FreeTokens # {},
         NEW f \in MaybeToken, NEW pw \in 0..MaxPasswords, NEW from \in MaybeToken
  PROVE  Typed(Issued(table, f, pw, from))
  <1> DEFINE new == Issued(table, f, pw, from)
  <1>1. table \in [Tokens -> TokenRows]
    BY DEF Typed
  <1>2. /\ new \in [Tokens -> TokenRows]
        /\ new[NextToken].state = "live" /\ new[NextToken].family # 0
        /\ \A t \in Tokens : t # NextToken => new[t] = table[t]
    BY <1>1, IssuedRow
  <1> HIDE DEF new
  <1>3. Typed(new)
    BY <1>2 DEF Typed
  <1>4. QED
    BY <1>3 DEF new

(* Revoking changes only the state.                                         *)
LEMMA RevokedRows ==
  ASSUME TypeOK, NEW S
  PROVE  /\ Revoked(S) \in [Tokens -> TokenRows]
         /\ \A t \in Tokens :
              /\ Revoked(S)[t].state = IF t \in S THEN "revoked" ELSE refresh[t].state
              /\ Revoked(S)[t].family = refresh[t].family
              /\ Revoked(S)[t].from = refresh[t].from
  <1>1. ASSUME NEW row \in TokenRows
        PROVE  LET new == [row EXCEPT !.state = "revoked"] IN
               /\ new \in TokenRows /\ new.state = "revoked"
               /\ new.family = row.family /\ new.from = row.from
    BY DEF TokenRows
  <1>2. \A t \in Tokens : refresh[t] \in TokenRows
    BY DEF TypeOK
  <1>3. QED
    BY <1>1, <1>2 DEF Revoked

-----------------------------------------------------------------------------
(* How a request begins and ends.                                           *)

LEMMA IdleTyped == Idle \in ReqRows /\ IssuesInto(Idle) = {} /\ Idle.quiet = {}
  BY BoundAssumption, MaybeTokens DEF Idle, ReqRows, Ops, IssuesInto

LEMMA Starts ==
  ASSUME TypeOK, NEW r \in Requests, NEW q \in ReqRows, Start(r, q)
  PROVE  /\ req' \in [Requests -> ReqRows]
         /\ req[r] = Idle /\ req'[r] = q
         /\ \A p \in Requests \ {r} :
              /\ req'[p].quiet = req[p].quiet \ IssuesInto(q)
              /\ req'[p].op = req[p].op /\ req'[p].at = req[p].at
              /\ req'[p].token = req[p].token /\ req'[p].link = req[p].link
              /\ req'[p].family = req[p].family /\ req'[p].saw = req[p].saw
  <1>1. \A p \in Requests : req[p] \in ReqRows
    BY DEF TypeOK
  <1>2. \A p \in Requests \ {r} : req'[p] = [req[p] EXCEPT !.quiet = @ \ IssuesInto(q)]
    BY DEF Start
  <1>3. req[r] = Idle /\ req' = [p \in Requests |-> req'[p]] /\ req'[r] = q
    BY DEF Start
  <1>4. ASSUME NEW p \in Requests \ {r}
        PROVE  /\ req'[p] \in ReqRows /\ req'[p].quiet = req[p].quiet \ IssuesInto(q)
               /\ req'[p].op = req[p].op /\ req'[p].at = req[p].at
               /\ req'[p].token = req[p].token /\ req'[p].link = req[p].link
               /\ req'[p].family = req[p].family /\ req'[p].saw = req[p].saw
    <2>1. req'[p] = [req[p] EXCEPT !.quiet = @ \ IssuesInto(q)] /\ req[p] \in ReqRows
      BY <1>1, <1>2
    <2>2. QED
      BY <2>1 DEF ReqRows
  <1>5. req' \in [Requests -> ReqRows]
    BY <1>3, <1>4
  <1>6. QED
    BY <1>3, <1>4, <1>5

LEMMA Releases ==
  ASSUME TypeOK, NEW r \in Requests, Release(r)
  PROVE  /\ req' \in [Requests -> ReqRows]
         /\ req'[r] = Idle /\ \A p \in Requests \ {r} : req'[p] = req[p]
         /\ lock' \in [Tokens -> Requests \cup {None}]
         /\ linkLock' \in [Links -> Requests \cup {None}]
         /\ \A t \in Tokens : lock'[t] = IF lock[t] = r THEN None ELSE lock[t]
         /\ \A l \in Links : linkLock'[l] = IF linkLock[l] = r THEN None ELSE linkLock[l]
  BY IdleTyped DEF Release, TypeOK

(* A link is consumed, or only retired.                                     *)
LEMMA UsedRow ==
  ASSUME NEW row \in LinkRows
  PROVE  LET used    == [row EXCEPT !.state = "used", !.uses = @ + 1]
             retired == [row EXCEPT !.state = "used"] IN
         /\ used \in LinkRows /\ used.state = "used" /\ used.uses = row.uses + 1
         /\ retired \in LinkRows /\ retired.state = "used" /\ retired.uses = row.uses
  <1>1. ASSUME NEW n \in Nat
        PROVE  LET new == [row EXCEPT !.state = "used", !.uses = n] IN
               new \in LinkRows /\ new.state = "used" /\ new.uses = n
    BY DEF LinkRows
  <1>2. row.uses + 1 \in Nat
    BY DEF LinkRows
  <1>3. LET new == [row EXCEPT !.state = "used"] IN
        new \in LinkRows /\ new.state = "used" /\ new.uses = row.uses
    BY DEF LinkRows
  <1>4. QED
    BY <1>1, <1>2, <1>3

(* What an UPDATE that ends sessions notes of its snapshot.                 *)
LEMMA Updates ==
  ASSUME TypeOK, NEW q \in ReqRows,
         q.op \in {"reuse", "logout"} => q.family \in Tokens
  PROVE  /\ EndedBy(q) \subseteq Tokens
         /\ Updating(q) \in ReqRows
         /\ Updating(q).at = "tokens" /\ Updating(q).op = q.op
         /\ Updating(q).link = q.link /\ Updating(q).family = q.family
         /\ \A t \in Tokens : IsUnrevoked(t) /\ refresh[t].family \in EndedBy(q) =>
              t \in Updating(q).saw
         /\ Updating(q).quiet = {f \in EndedBy(q) : \A p \in Requests : f \notin IssuesInto(req[p])}
  <1>1. EndedBy(q) \subseteq Tokens
    BY MaybeTokens DEF EndedBy, Families, TypeOK, TokenRows
  <1> DEFINE saw   == {t \in Tokens : IsUnrevoked(t) /\ refresh[t].family \in EndedBy(q)}
             quiet == {f \in EndedBy(q) : \A p \in Requests : f \notin IssuesInto(req[p])}
  <1>3. saw \in SUBSET (Tokens \cup Links) /\ quiet \in SUBSET Tokens
    BY <1>1
  <1>4. Updating(q) = [q EXCEPT !.at = "tokens", !.saw = saw, !.quiet = quiet]
    BY DEF Updating
  <1>5. \A t \in Tokens : IsUnrevoked(t) /\ refresh[t].family \in EndedBy(q) => t \in saw
    OBVIOUS
  <1>6. quiet = {f \in EndedBy(q) : \A p \in Requests : f \notin IssuesInto(req[p])}
    OBVIOUS
  <1> HIDE DEF saw, quiet
  <1>7. /\ Updating(q) \in ReqRows /\ Updating(q).at = "tokens" /\ Updating(q).op = q.op
        /\ Updating(q).link = q.link /\ Updating(q).family = q.family
        /\ Updating(q).saw = saw /\ Updating(q).quiet = quiet
    BY <1>3, <1>4 DEF ReqRows
  <1>8. QED
    BY <1>1, <1>5, <1>6, <1>7

-----------------------------------------------------------------------------
(* Every step keeps the types.                                              *)

LEMMA TypeStart ==
  ASSUME TypeOK, NEW r \in Requests, NEW q \in ReqRows, Start(r, q),
         UNCHANGED <<account, refresh, link, ended>>,
         lock' \in [Tokens -> Requests \cup {None}],
         linkLock' \in [Links -> Requests \cup {None}]
  PROVE  TypeOK'
  BY Starts DEF TypeOK

LEMMA TypeStep ==
  ASSUME TypeOK, FamiliesNamed, LocksNameRows, RotationHeld, [Next]_vars
  PROVE  TypeOK'
  <1> USE DEF Ops, Purposes
  <1>0. Typed(refresh)
    BY DEF TypeOK, Typed
  <1>1. CASE UNCHANGED vars
    BY <1>1 DEF TypeOK, vars
  <1>2. ASSUME NEW r \in Requests, RollBack(r) PROVE TypeOK'
    BY <1>2, Releases DEF RollBack, TypeOK
  <1>3. ASSUME NEW r \in Requests, RegisterStart(r) PROVE TypeOK'
    <2>1. [Idle EXCEPT !.op = "register"] \in ReqRows
      BY IdleTyped DEF ReqRows
    <2>2. QED
      BY <1>3, <2>1, TypeStart DEF RegisterStart, TypeOK
  <1>4. ASSUME NEW r \in Requests, RegisterCommit(r) PROVE TypeOK'
    <2>1. 1 \in 0..MaxPasswords
      BY BoundAssumption
    <2>2. refresh' = Issued(refresh, 0, 1, 0) /\ FreeTokens # {} /\ FreeLinks # {}
      BY <1>4 DEF RegisterCommit
    <2>3. Typed(refresh')
      BY <2>1, <2>2, <1>0, IssuedTyped, MaybeTokens
    <2>4. [NoLink EXCEPT !.state = "unused", !.recent = TRUE] \in LinkRows
      BY DEF NoLink, LinkRows
    <2>5. link' \in [Links -> LinkRows]
      BY <1>4, <2>2, <2>4, NextLinkFree DEF RegisterCommit, TypeOK
    <2>6. QED
      BY <1>4, <2>1, <2>3, <2>5, Releases DEF RegisterCommit, TypeOK, Typed
  <1>5. ASSUME NEW r \in Requests, LoginStart(r) PROVE TypeOK'
    <2>1. [Idle EXCEPT !.op = "login", !.pw = account.pw] \in ReqRows
      BY IdleTyped DEF ReqRows, TypeOK
    <2>2. QED
      BY <1>5, <2>1, TypeStart DEF LoginStart, TypeOK
  <1>6. ASSUME NEW r \in Requests, LoginCommit(r) PROVE TypeOK'
    <2>1. req[r].pw \in 0..MaxPasswords
      BY DEF TypeOK, ReqRows
    <2>2. Typed(refresh')
      BY <1>0, <1>6, <2>1, IssuedTyped, MaybeTokens DEF LoginCommit
    <2>3. QED
      BY <1>6, <2>2, Releases DEF LoginCommit, TypeOK, Typed
  <1>7. ASSUME NEW r \in Requests, NEW t \in Tokens, RotateStart(r, t) PROVE TypeOK'
    <2>1. refresh[t].family \in MaybeToken
      BY DEF TypeOK, TokenRows
    <2>2. [Idle EXCEPT !.op = "rotate", !.token = t, !.family = refresh[t].family] \in ReqRows
      BY <2>1, IdleTyped, MaybeTokens DEF ReqRows
    <2>3. QED
      BY <1>7, <2>2, TypeStart DEF RotateStart, TypeOK
  <1>8. ASSUME NEW r \in Requests, RotateCommit(r) PROVE TypeOK'
    <2> DEFINE t == req[r].token
               new == Issued(refresh, refresh[t].family, refresh[t].pw, t)
    <2>1. t \in Tokens /\ refresh[t] \in TokenRows /\ refresh[t].family # 0
          /\ t # NextToken /\ FreeTokens # {}
      BY <1>8, NextTokenFree DEF RotateCommit, RotationHeld, TypeOK, IsUnrevoked
    <2>2. Typed(new) /\ new[t] = refresh[t]
      <3>1. refresh[t].family \in MaybeToken /\ refresh[t].pw \in 0..MaxPasswords
        BY <2>1 DEF TokenRows
      <3>2. t \in MaybeToken /\ refresh \in [Tokens -> TokenRows]
        BY <2>1, MaybeTokens DEF TypeOK
      <3> HIDE DEF t
      <3>3. new[t] = refresh[t]
        BY <2>1, <3>1, <3>2, IssuedRow
      <3>4. Typed(new)
        BY <1>0, <2>1, <3>1, <3>2, IssuedTyped
      <3>5. QED
        BY <3>3, <3>4
    <2> HIDE DEF new
    <2>3. refresh' = [new EXCEPT ![t] = [refresh[t] EXCEPT !.state = "revoked", !.grace = TRUE]]
      BY <1>8, <2>1, <2>2 DEF RotateCommit, new, Typed
    <2>4. LET row == [refresh[t] EXCEPT !.state = "revoked", !.grace = TRUE] IN
          row \in TokenRows /\ row.state = "revoked" /\ row.family = refresh[t].family
      BY <2>1 DEF TokenRows
    <2>5. Typed(refresh')
      BY <2>1, <2>2, <2>3, <2>4 DEF Typed
    <2>6. QED
      BY <1>8, <2>5, Releases DEF RotateCommit, TypeOK, Typed
  <1>9. ASSUME NEW r \in Requests, NEW t \in Tokens, SiblingStart(r, t) PROVE TypeOK'
    <2>1. refresh[t].family \in MaybeToken /\ refresh[t].pw \in 0..MaxPasswords
      BY DEF TypeOK, TokenRows
    <2>2. [Idle EXCEPT !.op = "sibling", !.family = refresh[t].family, !.pw = refresh[t].pw]
            \in ReqRows
      BY <2>1, IdleTyped DEF ReqRows
    <2>3. QED
      BY <1>9, <2>2, TypeStart DEF SiblingStart, TypeOK
  <1>10. ASSUME NEW r \in Requests, SiblingCommit(r) PROVE TypeOK'
    <2>1. req[r].pw \in 0..MaxPasswords /\ req[r].family \in MaybeToken /\ 0 \in MaybeToken
      BY <1>10, MaybeTokens DEF SiblingCommit, TypeOK, ReqRows, FamiliesNamed
    <2>2. Typed(refresh')
      BY <1>0, <1>10, <2>1, IssuedTyped DEF SiblingCommit
    <2>3. QED
      BY <1>10, <2>2, Releases DEF SiblingCommit, TypeOK, Typed
  <1>11. ASSUME NEW r \in Requests, NEW t \in Tokens, ReuseStart(r, t) PROVE TypeOK'
    <2>1. refresh[t].family \in MaybeToken
      BY DEF TypeOK, TokenRows
    <2>2. [Idle EXCEPT !.op = "reuse", !.family = refresh[t].family] \in ReqRows
      BY <2>1, IdleTyped, MaybeTokens DEF ReqRows
    <2>3. QED
      BY <1>11, <2>2, TypeStart DEF ReuseStart, TypeOK
  <1>12. ASSUME NEW r \in Requests, NEW f \in Tokens, LogoutStart(r, f) PROVE TypeOK'
    <2>1. LET q == [Idle EXCEPT !.op = "logout", !.family = f] IN
          q \in ReqRows /\ q.family \in Tokens
      BY IdleTyped, MaybeTokens DEF ReqRows
    <2>2. Updating([Idle EXCEPT !.op = "logout", !.family = f]) \in ReqRows
      BY <2>1, Updates
    <2>3. QED
      BY <1>12, <2>2, TypeStart DEF LogoutStart, TypeOK
  <1>13. ASSUME NEW r \in Requests, ChangeStart(r) PROVE TypeOK'
    <2>1. [Idle EXCEPT !.op = "change"] \in ReqRows
      BY IdleTyped DEF ReqRows
    <2>2. QED
      BY <1>13, <2>1, TypeStart DEF ChangeStart, TypeOK
  <1>14. ASSUME NEW r \in Requests, NEW l \in Links, ResetStart(r, l) \/ VerifyStart(r, l)
         PROVE  TypeOK'
    <2>1. \A op \in {"reset", "verify"} : [Idle EXCEPT !.op = op, !.link = l] \in ReqRows
      BY IdleTyped DEF ReqRows
    <2>2. PICK op \in {"reset", "verify"} : \E purpose : Consume(r, l, op, purpose)
      BY <1>14 DEF ResetStart, VerifyStart
    <2>3. QED
      BY <2>1, <2>2, TypeStart DEF Consume, TypeOK
  <1>15. ASSUME NEW r \in Requests, VerifyCommit(r) PROVE TypeOK'
    <2>1. \A l \in Links : [link[l] EXCEPT !.state = "used", !.uses = @ + 1] \in LinkRows
      BY UsedRow DEF TypeOK
    <2>2. link' \in [Links -> LinkRows]
      BY <1>15, <2>1 DEF VerifyCommit, TypeOK
    <2>3. account' \in [status: {"none", "active"}, pw: 0..MaxPasswords, verified: BOOLEAN]
      BY <1>15 DEF VerifyCommit, TypeOK
    <2>4. QED
      BY <1>15, <2>2, <2>3, Releases DEF VerifyCommit, TypeOK
  <1>16. ASSUME NEW r \in Requests, EndSnapshot(r) PROVE TypeOK'
    <2>1. req[r] \in ReqRows /\ (req[r].op \in {"reuse", "logout"} => req[r].family \in Tokens)
      BY DEF TypeOK, FamiliesNamed
    <2>2. QED
      BY <1>16, <2>1, Updates DEF EndSnapshot, TypeOK
  <1>17. ASSUME NEW r \in Requests, RevokeCommit(r) PROVE TypeOK'
    <2>1. req[r].quiet \subseteq Tokens
      BY DEF TypeOK, ReqRows
    <2>2. \A t \in Reached(r) : refresh[t].state # "absent"
      BY DEF Reached, IsUnrevoked
    <2>3. Typed(refresh')
      BY <1>0, <1>17, <2>2, RevokedRows DEF RevokeCommit, Typed
    <2>4. QED
      BY <1>17, <2>1, <2>3, Releases DEF RevokeCommit, TypeOK, Typed
  <1>18. ASSUME NEW r \in Requests, EndTokens(r) PROVE TypeOK'
    <2>1. \A row \in ReqRows : [row EXCEPT !.at = "links", !.saw = {}] \in ReqRows
      BY DEF ReqRows
    <2>2. QED
      BY <1>18, <2>1 DEF EndTokens, TypeOK
  <1>19. ASSUME NEW r \in Requests, PasswordCommit(r) PROVE TypeOK'
    <2>0. account.pw + 1 \in 0..MaxPasswords
      <3>1. account.pw + 1 \in 1..MaxPasswords
        BY <1>19, Zenon DEF PasswordCommit
      <3>2. QED
        BY <3>1, BoundAssumption
    <2> DEFINE held == Revoked(HeldBy(r))
    <2>1. Typed(held)
      <3>1. \A t \in HeldBy(r) : refresh[t].state # "absent"
        BY BoundAssumption DEF HeldBy, LocksNameRows
      <3>2. QED
        BY <1>0, <3>1, RevokedRows DEF Typed
    <2> HIDE DEF held
    <2>2. Typed(refresh')
      <3>1. CASE req[r].op = "change"
        <4>1. FreeTokens # {} /\ refresh' = Issued(held, 0, account.pw + 1, 0)
          BY <1>19, <3>1 DEF PasswordCommit, held
        <4>2. QED
          BY <2>0, <2>1, <4>1, IssuedTyped, MaybeTokens
      <3>2. CASE req[r].op # "change"
        BY <1>19, <2>1, <3>2 DEF PasswordCommit, held
      <3>3. QED
        BY <3>1, <3>2
    <2>3. \A l \in Links : link[l] \in LinkRows
      BY DEF TypeOK
    <2>4. \A l \in Links : /\ [link[l] EXCEPT !.state = "used", !.uses = @ + 1] \in LinkRows
                           /\ [link[l] EXCEPT !.state = "used"] \in LinkRows
      BY <2>3, UsedRow
    <2>5. link' \in [Links -> LinkRows]
      BY <1>19, <2>3, <2>4 DEF PasswordCommit, Retired
    <2>6. account' \in [status: {"none", "active"}, pw: 0..MaxPasswords, verified: BOOLEAN]
      <3>1. ASSUME NEW pw \in 0..MaxPasswords, NEW verified \in BOOLEAN
            PROVE  [account EXCEPT !.pw = pw, !.verified = verified]
                     \in [status: {"none", "active"}, pw: 0..MaxPasswords, verified: BOOLEAN]
        BY DEF TypeOK
      <3>2. account.pw + 1 \in 0..MaxPasswords /\ (account.verified \/ req[r].op = "reset") \in BOOLEAN
        <4>1. account.verified \in BOOLEAN
          BY DEF TypeOK
        <4>2. QED
          BY <2>0, <4>1
      <3>3. QED
        BY <1>19, <3>1, <3>2 DEF PasswordCommit
    <2>7. req[r].quiet \subseteq Tokens
      BY DEF TypeOK, ReqRows
    <2>8. QED
      BY <1>19, <2>2, <2>5, <2>6, <2>7, Releases DEF PasswordCommit, TypeOK, Typed
  <1>20. ASSUME NEW r \in Requests, NEW p \in Purposes, IssueStart(r, p) PROVE TypeOK'
    <2>1. [Idle EXCEPT !.op = p, !.saw = OpenLinks(p)] \in ReqRows
      BY IdleTyped DEF ReqRows, OpenLinks
    <2>2. QED
      BY <1>20, <2>1, TypeStart DEF IssueStart, TypeOK
  <1>21. ASSUME NEW r \in Requests, IssueCommit(r) PROVE TypeOK'
    <2> DEFINE left == Retired({l \in req[r].saw : link[l].state = "unused"})
               purpose == req[r].op
    <2>1. left \in [Links -> LinkRows]
      BY DEF TypeOK, Retired, LinkRows
    <2>2. purpose \in Purposes =>
            [NoLink EXCEPT !.state = "unused", !.purpose = purpose, !.recent = TRUE] \in LinkRows
      BY DEF NoLink, LinkRows
    <2>3. link' \in [Links -> LinkRows]
      BY <1>21, <2>1, <2>2, NextLinkFree DEF IssueCommit
    <2>4. QED
      BY <1>21, <2>3, Releases DEF IssueCommit, TypeOK
  <1>22. ASSUME Time PROVE TypeOK'
    <2>1. ASSUME NEW t \in Tokens, GraceEnds(t) \/ TokenExpires(t) PROVE TypeOK'
      <3>1. ASSUME NEW row \in TokenRows
            PROVE  /\ [row EXCEPT !.grace = FALSE] \in TokenRows
                   /\ [row EXCEPT !.state = "expired"] \in TokenRows
                   /\ [row EXCEPT !.grace = FALSE].state = row.state
                   /\ [row EXCEPT !.grace = FALSE].family = row.family
                   /\ [row EXCEPT !.state = "expired"].family = row.family
                   /\ [row EXCEPT !.state = "expired"].state = "expired"
        BY DEF TokenRows
      <3>2. refresh[t] \in TokenRows
        BY DEF TypeOK
      <3>3. refresh[t].state = "live" => refresh[t].family # 0
        BY DEF TypeOK
      <3>4. PICK row \in TokenRows : /\ refresh' = [refresh EXCEPT ![t] = row]
                                     /\ row.state = "absent" <=> row.family = 0
        <4>1. CASE GraceEnds(t)
          <5>1. refresh' = [refresh EXCEPT ![t] = [refresh[t] EXCEPT !.grace = FALSE]]
            BY <4>1 DEF GraceEnds
          <5>2. LET row == [refresh[t] EXCEPT !.grace = FALSE] IN
                row \in TokenRows /\ (row.state = "absent" <=> row.family = 0)
            BY <1>0, <3>2 DEF Typed, TokenRows
          <5>3. QED
            BY <5>1, <5>2
        <4>2. CASE TokenExpires(t)
          <5>1. refresh' = [refresh EXCEPT ![t] = [refresh[t] EXCEPT !.state = "expired"]]
            BY <4>2 DEF TokenExpires
          <5>2. [refresh[t] EXCEPT !.state = "expired"].family # 0
            BY <3>1, <3>2, <3>3, <4>2 DEF TokenExpires
          <5>3. QED
            BY <1>0, <3>1, <3>2, <5>1, <5>2 DEF Typed
        <4>3. QED
          BY <2>1, <4>1, <4>2
      <3>5. Typed(refresh')
        BY <1>0, <3>4 DEF Typed
      <3>6. QED
        BY <2>1, <3>5 DEF GraceEnds, TokenExpires, TypeOK, Typed
    <2>2. ASSUME NEW l \in Links, LinkExpires(l) \/ HourPasses(l) PROVE TypeOK'
      <3>1. ASSUME NEW row \in LinkRows
            PROVE  /\ [row EXCEPT !.state = "used"] \in LinkRows
                   /\ [row EXCEPT !.recent = FALSE] \in LinkRows
        BY DEF LinkRows
      <3>2. link[l] \in LinkRows
        BY DEF TypeOK
      <3>3. QED
        BY <2>2, <3>1, <3>2 DEF LinkExpires, HourPasses, TypeOK
    <2>3. QED
      BY <1>22, <2>1, <2>2 DEF Time
  <1>23. QED
    BY <1>1, <1>2, <1>3, <1>4, <1>5, <1>6, <1>7, <1>8, <1>9, <1>10, <1>11, <1>12, <1>13,
       <1>14, <1>15, <1>16, <1>17, <1>18, <1>19, <1>20, <1>21, <1>22
    DEF Next, Register, Login, Refresh, Logout, EndSessions, ResetPassword, VerifyEmail, SendLink

-----------------------------------------------------------------------------
(* The three kinds of step: a request works (it begins, reads or locks), it *)
(* commits or rolls back, or time passes.                                   *)

(* A row keeps its family and origin, and its state only moves on.          *)
Kept(t) ==
  /\ refresh'[t].family = refresh[t].family /\ refresh'[t].from = refresh[t].from
  /\ \/ refresh'[t].state = refresh[t].state
     \/ refresh[t].state = "live" /\ refresh'[t].state = "expired"
     \/ IsUnrevoked(t) /\ refresh'[t].state = "revoked"

(* A row that a request adds: in a family of its own, or in the one it      *)
(* issues into, and then perhaps in place of the token it rotates.          *)
Added(r, t) ==
  /\ refresh[t].state = "absent" /\ refresh'[t].state = "live"
  /\ \/ refresh'[t].family = t /\ refresh'[t].from = 0
     \/ refresh'[t].family \in IssuesInto(req[r]) /\ refresh'[t].from = 0
     \/ /\ req[r].op = "rotate" /\ refresh'[t].family = req[r].family
        /\ refresh'[t].from = req[r].token /\ refresh'[req[r].token].state = "revoked"

LinkKept(l) == link'[l].uses = link[l].uses /\ (link'[l].state = "unused" => link[l].state = "unused")

OthersWait(r) == \A p \in Requests \ {r} :
  /\ req'[p].quiet = req[p].quiet \ IssuesInto(req'[r])
  /\ req'[p].op = req[p].op /\ req'[p].at = req[p].at
  /\ req'[p].token = req[p].token /\ req'[p].link = req[p].link
  /\ req'[p].family = req[p].family /\ req'[p].saw = req[p].saw

(* What a request may be once it has begun, read or locked.                 *)
Sound(r) ==
  LET q == req'[r] IN
  /\ q.op = "rotate" => /\ q.token \in Tokens /\ lock'[q.token] = r /\ IsUnrevoked(q.token)
                        /\ q.family = refresh[q.token].family
  /\ q.op = "verify" => q.link \in Links /\ linkLock'[q.link] = r
  /\ q.op \in {"rotate", "sibling", "reuse", "logout"} =>
       q.family \in Tokens /\ refresh[q.family].state # "absent"
  /\ q.op \in {"rotate", "sibling"} => IsSessionLive(q.family)
  /\ \A f \in q.quiet :
       /\ refresh[f].state # "absent" /\ f \notin IssuesInto(q)
       /\ \A p \in Requests : f \notin IssuesInto(req[p])
       /\ q.at # "start"
       /\ \A t \in Tokens : IsUnrevoked(t) /\ refresh[t].family = f =>
            IF q.at = "tokens" THEN t \in q.saw ELSE lock'[t] = r

Works(r) ==
  /\ UNCHANGED <<refresh, link, ended>>
  /\ \A t \in Tokens : \/ lock'[t] = lock[t]
                       \/ lock[t] = None /\ lock'[t] = r /\ refresh[t].state # "absent"
  /\ \A l \in Links : linkLock'[l] = linkLock[l] \/ link[l].uses = 0
  /\ \A p \in Requests \ {r}, l \in Links : linkLock[l] = p => linkLock'[l] = p
  /\ OthersWait(r) /\ Sound(r)

Commits(r) ==
  /\ Release(r)
  /\ \E n : \A t \in Tokens : IF t = n THEN Added(r, t) ELSE Kept(t)
  /\ \A t \in Tokens : IsUnrevoked(t) /\ refresh'[t].state = "revoked" => lock[t] \in {None, r}
  /\ \A f \in ended' \ ended : f \in req[r].quiet
       /\ \A t \in Tokens : IsUnrevoked(t) /\ refresh[t].family = f => refresh'[t].state = "revoked"
  /\ \A l \in Links : \/ LinkKept(l) \/ link'[l].uses = 0
                      \/ /\ linkLock[l] = r /\ link'[l].state = "used"
                         /\ link'[l].uses = link[l].uses + 1

TimePasses ==
  /\ UNCHANGED <<lock, linkLock, req, ended>>
  /\ \A t \in Tokens : Kept(t) /\ (refresh'[t].state = "revoked" => refresh[t].state = "revoked")
  /\ \A l \in Links : LinkKept(l)

LEMMA StartWaits ==
  ASSUME TypeOK, NEW r \in Requests, NEW q \in ReqRows, Start(r, q)
  PROVE  OthersWait(r) /\ req'[r] = q
  BY Starts DEF OthersWait

(* A request that only starts.                                              *)
LEMMA StartWorks ==
  ASSUME TypeOK, NEW r \in Requests, NEW q \in ReqRows, Start(r, q),
         UNCHANGED <<refresh, link, ended, lock, linkLock>>,
         q.quiet = {},
         q.op \notin {"rotate", "sibling", "reuse", "logout", "verify"}
  PROVE  Works(r)
  <1>1. OthersWait(r) /\ req'[r] = q
    BY StartWaits
  <1>2. Sound(r)
    BY <1>1 DEF Sound
  <1>3. \A t \in Tokens : lock'[t] = lock[t]
    OBVIOUS
  <1>4. \A l \in Links : linkLock'[l] = linkLock[l]
    OBVIOUS
  <1>5. QED
    BY <1>1, <1>2, <1>3, <1>4 DEF Works

LEMMA RollBackCommits ==
  ASSUME TypeOK, NEW r \in Requests, RollBack(r)
  PROVE  Commits(r)
  <1>1. UNCHANGED <<refresh, link, ended>> /\ Release(r) /\ 0 \notin Tokens
    BY MaybeTokens DEF RollBack
  <1>2. \A t \in Tokens : Kept(t) /\ (refresh'[t].state = "revoked" => ~IsUnrevoked(t))
    BY <1>1 DEF Kept, IsUnrevoked
  <1>3. \E n : \A t \in Tokens : IF t = n THEN Added(r, t) ELSE Kept(t)
    BY <1>1, <1>2
  <1>4. QED
    BY <1>1, <1>2, <1>3 DEF Commits, LinkKept

LEMMA TimeSteps ==
  ASSUME TypeOK, Time \/ UNCHANGED vars
  PROVE  TimePasses
  <1>1. CASE UNCHANGED vars
    BY <1>1 DEF vars, TimePasses, Kept, LinkKept
  <1>2. ASSUME NEW t \in Tokens, GraceEnds(t) PROVE TimePasses
    BY <1>2 DEF GraceEnds, TimePasses, Kept, LinkKept, TypeOK, TokenRows
  <1>3. ASSUME NEW t \in Tokens, TokenExpires(t) PROVE TimePasses
    BY <1>3 DEF TokenExpires, TimePasses, Kept, LinkKept, TypeOK, TokenRows
  <1>4. ASSUME NEW l \in Links, LinkExpires(l) \/ HourPasses(l) PROVE TimePasses
    BY <1>4 DEF LinkExpires, HourPasses, TimePasses, Kept, LinkKept, TypeOK, LinkRows
  <1>5. QED
    BY <1>1, <1>2, <1>3, <1>4 DEF Time

(* A step in which a request begins, reads or locks.                        *)
LEMMA WorkSteps ==
  ASSUME IInv, NEW r \in Requests,
         \/ RegisterStart(r) \/ LoginStart(r) \/ ChangeStart(r) \/ EndSnapshot(r) \/ EndTokens(r)
         \/ \E t \in Tokens : RotateStart(r, t) \/ SiblingStart(r, t) \/ ReuseStart(r, t)
         \/ \E f \in Tokens : LogoutStart(r, f)
         \/ \E l \in Links : ResetStart(r, l) \/ VerifyStart(r, l)
         \/ \E p \in Purposes : IssueStart(r, p)
  PROVE  Works(r)
  <1> USE DEF IInv
  <1>1. CASE RegisterStart(r)
    <2>1. LET q == [Idle EXCEPT !.op = "register"] IN
          q \in ReqRows /\ q.quiet = {} /\ q.op = "register"
      BY IdleTyped DEF ReqRows, Ops
    <2>2. QED
      BY <1>1, <2>1, StartWorks DEF RegisterStart
  <1>2. CASE LoginStart(r)
    <2>1. LET q == [Idle EXCEPT !.op = "login", !.pw = account.pw] IN
          q \in ReqRows /\ q.quiet = {} /\ q.op = "login"
      BY IdleTyped DEF ReqRows, Ops, TypeOK
    <2>2. QED
      BY <1>2, <2>1, StartWorks DEF LoginStart
  <1>3. CASE ChangeStart(r)
    <2>1. LET q == [Idle EXCEPT !.op = "change"] IN
          q \in ReqRows /\ q.quiet = {} /\ q.op = "change"
      BY IdleTyped DEF ReqRows, Ops
    <2>2. QED
      BY <1>3, <2>1, StartWorks DEF ChangeStart
  <1>4. ASSUME NEW p \in Purposes, IssueStart(r, p) PROVE Works(r)
    <2>1. LET q == [Idle EXCEPT !.op = p, !.saw = OpenLinks(p)] IN
          q \in ReqRows /\ q.quiet = {} /\ q.op = p
      BY IdleTyped DEF ReqRows, Ops, OpenLinks
    <2>2. QED
      BY <1>4, <2>1, StartWorks DEF IssueStart, Purposes
  <1>5. ASSUME NEW t \in Tokens, RotateStart(r, t) PROVE Works(r)
    <2> DEFINE q == [Idle EXCEPT !.op = "rotate", !.token = t, !.family = refresh[t].family]
    <2>1. /\ refresh[t].state = "live" /\ refresh[t].family \in Tokens
          /\ refresh[refresh[t].family].state # "absent" /\ IsSessionLive(refresh[t].family)
      BY <1>5, MaybeTokens DEF RotateStart, Usable, IsSessionLive, FamiliesNamed, TypeOK, TokenRows
    <2>2. /\ q \in ReqRows /\ q.op = "rotate" /\ q.token = t /\ q.quiet = {}
          /\ q.family = refresh[t].family
      BY <2>1, IdleTyped, MaybeTokens DEF ReqRows, Ops
    <2> HIDE DEF q
    <2>3. Start(r, q) /\ UNCHANGED <<refresh, link, linkLock, ended>>
          /\ lock[t] = None /\ lock' = [lock EXCEPT ![t] = r]
      BY <1>5 DEF RotateStart, q, Free
    <2>4. OthersWait(r) /\ req'[r] = q
      BY <2>2, <2>3, StartWaits
    <2>5. \A u \in Tokens : lock'[u] = IF u = t THEN r ELSE lock[u]
      BY <2>3 DEF TypeOK
    <2>6. Sound(r)
      BY <2>1, <2>2, <2>4, <2>5 DEF Sound, IsUnrevoked
    <2>7. QED
      BY <2>1, <2>3, <2>4, <2>5, <2>6 DEF Works
  <1>6. ASSUME NEW t \in Tokens, SiblingStart(r, t) PROVE Works(r)
    <2> DEFINE q == [Idle EXCEPT !.op = "sibling", !.family = refresh[t].family,
                                 !.pw = refresh[t].pw]
    <2>1. IsSessionLive(refresh[t].family) /\ refresh[t].family \in MaybeToken
          /\ refresh[t].pw \in 0..MaxPasswords
      BY <1>6 DEF SiblingStart, WithinReuseGrace, TypeOK, TokenRows
    <2>2. /\ refresh[t].family \in Tokens /\ refresh[t].state # "absent"
          /\ refresh[refresh[t].family].state # "absent"
      BY <2>1, MaybeTokens DEF IsSessionLive, Usable, FamiliesNamed, TypeOK
    <2>3. q \in ReqRows /\ q.op = "sibling" /\ q.quiet = {} /\ q.family = refresh[t].family
      BY <2>1, IdleTyped DEF ReqRows, Ops
    <2> HIDE DEF q
    <2>4. Start(r, q) /\ UNCHANGED <<refresh, link, linkLock, ended>>
          /\ lock[t] = None /\ lock' = [lock EXCEPT ![t] = r]
      BY <1>6 DEF SiblingStart, q, Free
    <2>5. OthersWait(r) /\ req'[r] = q
      BY <2>3, <2>4, StartWaits
    <2>6. \A u \in Tokens : lock'[u] = IF u = t THEN r ELSE lock[u]
      BY <2>4 DEF TypeOK
    <2>7. Sound(r)
      BY <2>1, <2>2, <2>3, <2>5 DEF Sound
    <2>8. QED
      BY <2>2, <2>4, <2>5, <2>6, <2>7 DEF Works
  <1>7. ASSUME NEW t \in Tokens, ReuseStart(r, t) PROVE Works(r)
    <2> DEFINE q == [Idle EXCEPT !.op = "reuse", !.family = refresh[t].family]
    <2>1. refresh[t].state = "revoked" /\ refresh[t].family \in MaybeToken
      BY <1>7 DEF ReuseStart, TypeOK, TokenRows
    <2>2. refresh[t].family \in Tokens /\ refresh[refresh[t].family].state # "absent"
      BY <2>1, MaybeTokens DEF FamiliesNamed, TypeOK
    <2>3. q \in ReqRows /\ q.op = "reuse" /\ q.quiet = {} /\ q.family = refresh[t].family
      BY <2>1, IdleTyped DEF ReqRows, Ops
    <2> HIDE DEF q
    <2>4. Start(r, q) /\ UNCHANGED <<refresh, link, linkLock, ended>>
          /\ lock[t] = None /\ lock' = [lock EXCEPT ![t] = r]
      BY <1>7 DEF ReuseStart, q, Free
    <2>5. OthersWait(r) /\ req'[r] = q
      BY <2>3, <2>4, StartWaits
    <2>6. \A u \in Tokens : lock'[u] = IF u = t THEN r ELSE lock[u]
      BY <2>4 DEF TypeOK
    <2>7. Sound(r)
      BY <2>2, <2>3, <2>5 DEF Sound
    <2>8. QED
      BY <2>1, <2>4, <2>5, <2>6, <2>7 DEF Works
  <1>8. ASSUME NEW l \in Links, ResetStart(r, l) \/ VerifyStart(r, l) PROVE Works(r)
    <2>1. PICK op \in {"reset", "verify"} : \E purpose : Consume(r, l, op, purpose)
      BY <1>8 DEF ResetStart, VerifyStart
    <2> DEFINE q == [Idle EXCEPT !.op = op, !.link = l]
    <2>2. q \in ReqRows /\ q.op \in {"reset", "verify"} /\ q.quiet = {} /\ q.link = l
      BY IdleTyped DEF ReqRows, Ops
    <2> HIDE DEF q
    <2>3. Start(r, q) /\ UNCHANGED <<refresh, link, lock, ended>>
          /\ linkLock[l] = None /\ linkLock' = [linkLock EXCEPT ![l] = r]
          /\ link[l].state = "unused"
      BY <2>1 DEF Consume, q, FreeLink, Consumable
    <2>4. OthersWait(r) /\ req'[r] = q
      BY <2>2, <2>3, StartWaits
    <2>5. \A m \in Links : linkLock'[m] = IF m = l THEN r ELSE linkLock[m]
      BY <2>3 DEF TypeOK
    <2>6. link[l].uses = 0
      BY <2>3 DEF LinksHeld
    <2>7. Sound(r)
      BY <2>2, <2>4, <2>5 DEF Sound
    <2>8. \A p \in Requests \ {r}, m \in Links : linkLock[m] = p => linkLock'[m] = p
      BY <2>3, <2>5, BoundAssumption
    <2>9. QED
      BY <2>3, <2>4, <2>5, <2>6, <2>7, <2>8 DEF Works
  <1>9. ASSUME NEW f \in Tokens, LogoutStart(r, f) PROVE Works(r)
    <2> DEFINE q == [Idle EXCEPT !.op = "logout", !.family = f]
    <2>1. q \in ReqRows /\ q.op = "logout" /\ q.family = f
      BY IdleTyped, MaybeTokens DEF ReqRows, Ops
    <2>2. f \in Families /\ EndedBy(q) = {f}
      BY <1>9, <2>1 DEF LogoutStart, EndedBy
    <2>3. refresh[f].state # "absent"
      BY <2>2 DEF Families, FamiliesNamed
    <2> HIDE DEF q
    <2>4. Start(r, Updating(q)) /\ UNCHANGED <<refresh, link, lock, linkLock, ended>>
      BY <1>9 DEF LogoutStart, q
    <2>5. /\ Updating(q) \in ReqRows /\ Updating(q).at = "tokens" /\ Updating(q).op = "logout"
          /\ Updating(q).family = f
          /\ \A t \in Tokens : IsUnrevoked(t) /\ refresh[t].family = f => t \in Updating(q).saw
          /\ Updating(q).quiet = {g \in {f} : \A p \in Requests : g \notin IssuesInto(req[p])}
      BY <2>1, <2>2, Updates
    <2>6. OthersWait(r) /\ req'[r] = Updating(q)
      BY <2>4, <2>5, StartWaits
    <2>7. Sound(r)
      BY <2>3, <2>5, <2>6 DEF Sound, IssuesInto
    <2>8. QED
      BY <2>4, <2>6, <2>7 DEF Works
  <1>10. CASE EndSnapshot(r)
    <2> DEFINE q == req[r]
    <2>1. /\ q \in ReqRows /\ q.op \in {"reuse", "logout", "change", "reset"}
          /\ q.op \in {"reuse", "logout"} =>
               q.family \in Tokens /\ refresh[q.family].state # "absent"
      BY <1>10 DEF EndSnapshot, Ending, TypeOK, FamiliesNamed
    <2> HIDE DEF q
    <2>2. \A f \in EndedBy(q) : refresh[f].state # "absent"
      BY <2>1 DEF EndedBy, Families, FamiliesNamed
    <2>3. /\ req' = [req EXCEPT ![r] = Updating(q)]
          /\ UNCHANGED <<refresh, link, lock, linkLock, ended>>
      BY <1>10 DEF EndSnapshot, q
    <2>4. /\ EndedBy(q) \subseteq Tokens /\ Updating(q) \in ReqRows
          /\ Updating(q).at = "tokens" /\ Updating(q).op = q.op
          /\ Updating(q).family = q.family
          /\ \A t \in Tokens : IsUnrevoked(t) /\ refresh[t].family \in EndedBy(q) =>
               t \in Updating(q).saw
          /\ Updating(q).quiet = {f \in EndedBy(q) : \A p \in Requests : f \notin IssuesInto(req[p])}
      BY <2>1, Updates
    <2>5. req'[r] = Updating(q) /\ IssuesInto(req'[r]) = {}
      BY <2>1, <2>3, <2>4 DEF TypeOK, IssuesInto
    <2>6. OthersWait(r)
      BY <2>3, <2>5 DEF OthersWait, TypeOK
    <2>7. Sound(r)
      BY <2>1, <2>2, <2>4, <2>5 DEF Sound
    <2>8. QED
      BY <2>3, <2>6, <2>7 DEF Works
  <1>11. CASE EndTokens(r)
    <2> DEFINE q == [req[r] EXCEPT !.at = "links", !.saw = {}]
    <2>1. /\ req[r] \in ReqRows /\ req[r].op \in {"change", "reset"} /\ req[r].at = "tokens"
          /\ req' = [req EXCEPT ![r] = q] /\ UNCHANGED <<refresh, link, linkLock, ended>>
          /\ \A t \in req[r].saw : lock[t] \in {None, r}
          /\ lock' = [t \in Tokens |-> IF t \in Reached(r) THEN r ELSE lock[t]]
      BY <1>11 DEF EndTokens, LocksFree, TypeOK
    <2>2. q.op = req[r].op /\ q.at = "links" /\ q.quiet = req[r].quiet
      BY <2>1 DEF ReqRows
    <2> HIDE DEF q
    <2>3. req'[r] = q /\ IssuesInto(q) = {} /\ IssuesInto(req'[r]) = {}
      BY <2>1, <2>2 DEF TypeOK, IssuesInto
    <2>4. OthersWait(r)
      BY <2>1, <2>3 DEF OthersWait, TypeOK
    <2>5. \A f \in q.quiet, t \in Tokens :
            IsUnrevoked(t) /\ refresh[t].family = f => lock'[t] = r
      BY <2>1, <2>2 DEF Reaches, Reached
    <2>6. Sound(r)
      BY <2>1, <2>2, <2>3, <2>5 DEF Sound, QuietStays, Quiet
    <2>7. \A t \in Tokens : \/ lock'[t] = lock[t]
                            \/ lock[t] = None /\ lock'[t] = r /\ refresh[t].state # "absent"
      BY <2>1 DEF Reached, IsUnrevoked
    <2>8. QED
      BY <2>1, <2>4, <2>6, <2>7 DEF Works
  <1>12. QED
    BY <1>1, <1>2, <1>3, <1>4, <1>5, <1>6, <1>7, <1>8, <1>9, <1>10, <1>11

(* Issuing changes no row but the new one's.                                *)
LEMMA IssueAdds ==
  ASSUME TypeOK, FreeTokens # {}, NEW f \in MaybeToken, NEW pw \in 0..MaxPasswords,
         refresh' = Issued(refresh, f, pw, 0),
         NEW r \in Requests, f # 0 => f \in IssuesInto(req[r])
  PROVE  /\ \E n : \A t \in Tokens : IF t = n THEN Added(r, t) ELSE Kept(t)
         /\ \A t \in Tokens : IsUnrevoked(t) => refresh'[t].state # "revoked"
  <1>1. refresh \in [Tokens -> TokenRows] /\ 0 \in MaybeToken
    BY MaybeTokens DEF TypeOK
  <1>2. /\ NextToken \in Tokens /\ refresh[NextToken].state = "absent"
        /\ refresh'[NextToken].state = "live" /\ refresh'[NextToken].from = 0
        /\ f = 0 => refresh'[NextToken].family = NextToken
        /\ f # 0 => refresh'[NextToken].family = f
        /\ \A t \in Tokens : t # NextToken => refresh'[t] = refresh[t]
    BY <1>1, IssuedRow
  <1>3. Added(r, NextToken)
    BY <1>2 DEF Added
  <1>4. \A t \in Tokens : t # NextToken => Kept(t)
    BY <1>2 DEF Kept
  <1>5. QED
    BY <1>2, <1>3, <1>4 DEF IsUnrevoked

(* A request's commit.                                                      *)
LEMMA CommitSteps ==
  ASSUME IInv, NEW r \in Requests,
         \/ RegisterCommit(r) \/ LoginCommit(r) \/ RotateCommit(r) \/ SiblingCommit(r)
         \/ VerifyCommit(r) \/ RevokeCommit(r) \/ PasswordCommit(r) \/ IssueCommit(r)
         \/ RollBack(r)
  PROVE  Commits(r)
  <1> USE DEF IInv
  <1>1. CASE RollBack(r)
    BY <1>1, RollBackCommits
  <1>2. CASE RegisterCommit(r)
    <2>1. 1 \in 0..MaxPasswords /\ 0 \in MaybeToken
      BY BoundAssumption, MaybeTokens
    <2>2. /\ FreeTokens # {} /\ FreeLinks # {} /\ refresh' = Issued(refresh, 0, 1, 0)
          /\ link' = [link EXCEPT ![NextLink] = [NoLink EXCEPT !.state = "unused", !.recent = TRUE]]
          /\ Release(r) /\ ended' = ended
      BY <1>2 DEF RegisterCommit
    <2>3. [NoLink EXCEPT !.state = "unused", !.recent = TRUE].uses = 0
      BY DEF NoLink
    <2>4. \A l \in Links : LinkKept(l) \/ link'[l].uses = 0
      BY <2>2, <2>3 DEF LinkKept, TypeOK
    <2>5. /\ \E n : \A t \in Tokens : IF t = n THEN Added(r, t) ELSE Kept(t)
          /\ \A t \in Tokens : IsUnrevoked(t) => refresh'[t].state # "revoked"
      BY <2>1, <2>2, IssueAdds
    <2>6. QED
      BY <2>2, <2>4, <2>5 DEF Commits
  <1>3. CASE LoginCommit(r)
    <2>1. req[r].pw \in 0..MaxPasswords /\ 0 \in MaybeToken
      BY MaybeTokens DEF TypeOK, ReqRows
    <2>2. /\ FreeTokens # {} /\ refresh' = Issued(refresh, 0, req[r].pw, 0)
          /\ link' = link /\ Release(r) /\ ended' = ended
      BY <1>3 DEF LoginCommit
    <2>3. /\ \E n : \A t \in Tokens : IF t = n THEN Added(r, t) ELSE Kept(t)
          /\ \A t \in Tokens : IsUnrevoked(t) => refresh'[t].state # "revoked"
      BY <2>1, <2>2, IssueAdds
    <2>4. QED
      BY <2>2, <2>3 DEF Commits, LinkKept
  <1>4. CASE SiblingCommit(r)
    <2>1. req[r].pw \in 0..MaxPasswords /\ req[r].family \in MaybeToken
      BY DEF TypeOK, ReqRows
    <2>2. /\ FreeTokens # {} /\ refresh' = Issued(refresh, req[r].family, req[r].pw, 0)
          /\ link' = link /\ Release(r) /\ ended' = ended /\ req[r].op = "sibling"
      BY <1>4 DEF SiblingCommit
    <2>3. req[r].family \in IssuesInto(req[r])
      BY <2>2 DEF IssuesInto
    <2>4. /\ \E n : \A t \in Tokens : IF t = n THEN Added(r, t) ELSE Kept(t)
          /\ \A t \in Tokens : IsUnrevoked(t) => refresh'[t].state # "revoked"
      BY <2>1, <2>2, <2>3, IssueAdds
    <2>5. QED
      BY <2>2, <2>4 DEF Commits, LinkKept
  <1>5. CASE RotateCommit(r)
    <2> DEFINE t == req[r].token
               new == Issued(refresh, refresh[t].family, refresh[t].pw, t)
    <2>1. /\ t \in Tokens /\ lock[t] = r /\ IsUnrevoked(t) /\ refresh[t] \in TokenRows
          /\ req[r].op = "rotate" /\ req[r].family = refresh[t].family
          /\ FreeTokens # {} /\ Release(r) /\ UNCHANGED <<link, ended>>
          /\ refresh' = [new EXCEPT ![t].state = "revoked", ![t].grace = TRUE]
      BY <1>5 DEF RotateCommit, RotationHeld, TypeOK
    <2>2. refresh[t].family \in MaybeToken /\ refresh[t].pw \in 0..MaxPasswords
          /\ t \in MaybeToken /\ refresh[t].family # 0
      BY <2>1, MaybeTokens DEF TypeOK, TokenRows, IsUnrevoked
    <2>3. refresh \in [Tokens -> TokenRows]
      BY DEF TypeOK
    <2> HIDE DEF t
    <2>4. /\ NextToken \in Tokens /\ refresh[NextToken].state = "absent"
          /\ new \in [Tokens -> TokenRows]
          /\ new[NextToken].state = "live" /\ new[NextToken].from = t
          /\ new[NextToken].family = refresh[t].family
          /\ \A u \in Tokens : u # NextToken => new[u] = refresh[u]
      BY <2>1, <2>2, <2>3, IssuedRow
    <2> HIDE DEF new
    <2>5. t # NextToken
      BY <2>1, <2>4 DEF IsUnrevoked
    <2>6. new[t] = refresh[t]
      BY <2>1, <2>4, <2>5
    <2>7. refresh' = [new EXCEPT ![t] = [refresh[t] EXCEPT !.state = "revoked", !.grace = TRUE]]
      BY <2>1, <2>4, <2>6
    <2>8. LET row == [refresh[t] EXCEPT !.state = "revoked", !.grace = TRUE] IN
          row.state = "revoked" /\ row.family = refresh[t].family /\ row.from = refresh[t].from
      BY <2>1 DEF TokenRows
    <2>9. /\ refresh'[t].state = "revoked" /\ refresh'[t].family = refresh[t].family
          /\ refresh'[t].from = refresh[t].from
          /\ \A u \in Tokens : u # t => refresh'[u] = new[u]
      BY <2>1, <2>4, <2>7, <2>8
    <2>10. Added(r, NextToken)
      BY <2>1, <2>4, <2>5, <2>9 DEF Added, t
    <2>11. \A u \in Tokens : u # NextToken => Kept(u)
      BY <2>1, <2>4, <2>9 DEF Kept
    <2>12. \A u \in Tokens : IsUnrevoked(u) /\ refresh'[u].state = "revoked" => lock[u] = r
      BY <2>1, <2>4, <2>9 DEF IsUnrevoked
    <2>13. QED
      BY <2>1, <2>10, <2>11, <2>12 DEF Commits, LinkKept
  <1>6. CASE VerifyCommit(r)
    <2>1. /\ req[r].op = "verify" /\ Release(r) /\ UNCHANGED <<refresh, ended>>
          /\ link' = [link EXCEPT ![req[r].link].state = "used", ![req[r].link].uses = @ + 1]
      BY <1>6 DEF VerifyCommit
    <2> DEFINE l == req[r].link
    <2>2. l \in Links /\ linkLock[l] = r /\ link \in [Links -> LinkRows]
      BY <2>1 DEF LinksHeld, TypeOK
    <2>3. link' = [link EXCEPT ![l] = [link[l] EXCEPT !.state = "used", !.uses = @ + 1]]
      BY <2>1, <2>2
    <2>4. link'[l].state = "used" /\ link'[l].uses = link[l].uses + 1
          /\ \A m \in Links : m # l => link'[m] = link[m]
      BY <2>2, <2>3, UsedRow
    <2> HIDE DEF l
    <2>5. \A t \in Tokens : Kept(t)
      BY <2>1 DEF Kept
    <2>6. \E n : \A t \in Tokens : IF t = n THEN Added(r, t) ELSE Kept(t)
      <3>1. \A t \in Tokens : IF t = 0 THEN Added(r, t) ELSE Kept(t)
        BY <2>5, MaybeTokens
      <3>2. QED
        BY <3>1
    <2>7. QED
      BY <2>1, <2>2, <2>4, <2>6 DEF Commits, LinkKept, IsUnrevoked
  <1>7. CASE RevokeCommit(r)
    <2>1. /\ refresh' = Revoked(Reached(r)) /\ ended' = ended \cup req[r].quiet
          /\ Release(r) /\ link' = link /\ req[r].at = "tokens"
          /\ \A t \in req[r].saw : lock[t] \in {None, r}
      BY <1>7 DEF RevokeCommit, LocksFree
    <2>2. \A t \in Tokens : /\ refresh'[t].state = IF t \in Reached(r) THEN "revoked"
                                                   ELSE refresh[t].state
                            /\ refresh'[t].family = refresh[t].family
                            /\ refresh'[t].from = refresh[t].from
      BY <2>1, RevokedRows
    <2>3. \A t \in Tokens : t \in Reached(r) <=> t \in req[r].saw /\ IsUnrevoked(t)
      BY DEF Reached
    <2>4. \A t \in Tokens : Kept(t)
      BY <2>2, <2>3 DEF Kept
    <2>5. \E n : \A t \in Tokens : IF t = n THEN Added(r, t) ELSE Kept(t)
      <3>1. \A t \in Tokens : IF t = 0 THEN Added(r, t) ELSE Kept(t)
        BY <2>4, MaybeTokens
      <3>2. QED
        BY <3>1
    <2>6. \A t \in Tokens : IsUnrevoked(t) /\ refresh'[t].state = "revoked" => lock[t] \in {None, r}
      BY <2>1, <2>2, <2>3 DEF IsUnrevoked
    <2>7. \A f \in req[r].quiet, t \in Tokens :
            IsUnrevoked(t) /\ refresh[t].family = f => refresh'[t].state = "revoked"
      BY <2>1, <2>2, <2>3 DEF Reaches
    <2>8. QED
      BY <2>1, <2>5, <2>6, <2>7 DEF Commits, LinkKept
  <1>8. CASE PasswordCommit(r)
    <2> DEFINE held == Revoked(HeldBy(r))
    <2>1. /\ ended' = ended \cup req[r].quiet /\ Release(r) /\ req[r].at = "links"
          /\ link' = [l \in Links |-> IF linkLock[l] = r
                        THEN [link[l] EXCEPT !.state = "used", !.uses = @ + 1]
                        ELSE Retired(OpenLinks("password_reset"))[l]]
      BY <1>8 DEF PasswordCommit
    <2>2. held \in [Tokens -> TokenRows]
          /\ \A t \in Tokens : /\ held[t].state = IF lock[t] = r THEN "revoked"
                                                  ELSE refresh[t].state
                               /\ held[t].family = refresh[t].family
                               /\ held[t].from = refresh[t].from
      BY RevokedRows DEF HeldBy
    <2> HIDE DEF held
    <2> DEFINE TokensMove ==
          /\ \E n : \A t \in Tokens : IF t = n THEN Added(r, t) ELSE Kept(t)
          /\ \A t \in Tokens : refresh[t].state # "absent" => refresh'[t] = held[t]
    <2>3. \A t \in Tokens : lock[t] = r => refresh[t].state # "absent"
      BY BoundAssumption DEF LocksNameRows
    <2>4. \A t \in Tokens : refresh[t].state \in {"absent", "live", "expired", "revoked"}
      BY DEF TypeOK, TokenRows
    <2>5. ASSUME req[r].op # "change" PROVE TokensMove
      <3>1. refresh' = held
        BY <1>8, <2>5 DEF PasswordCommit, held
      <3>2. \A t \in Tokens : Kept(t)
        BY <2>2, <2>3, <2>4, <3>1 DEF Kept, IsUnrevoked
      <3>3. \A t \in Tokens : IF t = 0 THEN Added(r, t) ELSE Kept(t)
        BY <3>2, MaybeTokens
      <3>4. \A t \in Tokens : refresh[t].state # "absent" => refresh'[t] = held[t]
        BY <3>1
      <3>5. QED
        BY <3>3, <3>4
    <2>6. ASSUME req[r].op = "change" PROVE TokensMove
      <3>1. FreeTokens # {} /\ refresh' = Issued(held, 0, account.pw + 1, 0)
        BY <1>8, <2>6 DEF PasswordCommit, held
      <3>2. account.pw + 1 \in 0..MaxPasswords /\ 0 \in MaybeToken
        <4>1. account.pw + 1 \in 1..MaxPasswords
          BY <1>8, Zenon DEF PasswordCommit
        <4>2. QED
          BY <4>1, BoundAssumption, MaybeTokens
      <3>3. /\ NextToken \in Tokens /\ refresh[NextToken].state = "absent"
            /\ refresh'[NextToken].state = "live" /\ refresh'[NextToken].from = 0
            /\ refresh'[NextToken].family = NextToken
            /\ \A t \in Tokens : t # NextToken => refresh'[t] = held[t]
        BY <2>2, <3>1, <3>2, IssuedRow
      <3>4. Added(r, NextToken)
        BY <3>3 DEF Added
      <3>5. \A t \in Tokens : t # NextToken => Kept(t)
        BY <2>2, <2>3, <2>4, <3>3 DEF Kept, IsUnrevoked
      <3>6. QED
        BY <3>3, <3>4, <3>5
    <2>7. /\ \E n : \A t \in Tokens : IF t = n THEN Added(r, t) ELSE Kept(t)
          /\ \A t \in Tokens : refresh[t].state # "absent" => refresh'[t] = held[t]
      BY <2>5, <2>6
    <2>8. \A t \in Tokens : IsUnrevoked(t) /\ refresh'[t].state = "revoked" => lock[t] = r
      BY <2>2, <2>7 DEF IsUnrevoked
    <2>9. \A f \in req[r].quiet, t \in Tokens :
            IsUnrevoked(t) /\ refresh[t].family = f => refresh'[t].state = "revoked"
      BY <2>1, <2>2, <2>7 DEF Reaches, IsUnrevoked
    <2>10. \A l \in Links : \/ LinkKept(l)
                            \/ /\ linkLock[l] = r /\ link'[l].state = "used"
                               /\ link'[l].uses = link[l].uses + 1
      BY <2>1, UsedRow DEF LinkKept, Retired, TypeOK
    <2>11. QED
      BY <2>1, <2>7, <2>8, <2>9, <2>10 DEF Commits
  <1>9. CASE IssueCommit(r)
    <2> DEFINE left    == Retired({l \in req[r].saw : link[l].state = "unused"})
               purpose == req[r].op
               row     == [NoLink EXCEPT !.state = "unused", !.purpose = purpose, !.recent = TRUE]
    <2>1. /\ Release(r) /\ UNCHANGED <<refresh, ended>> /\ FreeLinks # {}
          /\ link' = [left EXCEPT ![NextLink] = row]
      BY <1>9 DEF IssueCommit
    <2>2. /\ \A l \in Links : left[l].uses = link[l].uses
                              /\ (left[l].state = "unused" => link[l].state = "unused")
          /\ left = [l \in Links |-> left[l]]
      BY UsedRow DEF Retired, TypeOK
    <2>3. row.uses = 0
      BY DEF NoLink
    <2> HIDE DEF left, row
    <2>4. \A l \in Links : LinkKept(l) \/ link'[l].uses = 0
      BY <2>1, <2>2, <2>3 DEF LinkKept
    <2>5. \A t \in Tokens : IF t = 0 THEN Added(r, t) ELSE Kept(t)
      BY <2>1, MaybeTokens DEF Kept
    <2>6. \E n : \A t \in Tokens : IF t = n THEN Added(r, t) ELSE Kept(t)
      BY <2>5
    <2>7. QED
      BY <2>1, <2>4, <2>6 DEF Commits, IsUnrevoked
  <1>10. QED
    BY <1>1, <1>2, <1>3, <1>4, <1>5, <1>6, <1>7, <1>8, <1>9

LEMMA StepKinds ==
  ASSUME IInv, [Next]_vars
  PROVE  TimePasses \/ \E r \in Requests : Works(r) \/ Commits(r)
  <1>1. TypeOK
    BY DEF IInv
  <1>2. CASE Time \/ UNCHANGED vars
    BY <1>1, <1>2, TimeSteps
  <1>3. ASSUME NEW r \in Requests,
               \/ Register(r) \/ Login(r) \/ Refresh(r) \/ Logout(r) \/ ChangeStart(r)
               \/ ResetPassword(r) \/ VerifyEmail(r) \/ EndSessions(r) \/ SendLink(r)
               \/ RollBack(r)
        PROVE  Works(r) \/ Commits(r)
    BY <1>3, WorkSteps, CommitSteps
    DEF Register, Login, Refresh, Logout, ResetPassword, VerifyEmail, EndSessions, SendLink
  <1>4. QED
    BY <1>2, <1>3 DEF Next

-----------------------------------------------------------------------------
(* What any step leaves as it was.                                          *)

ReqKept(p) ==
  /\ req'[p].op = req[p].op /\ req'[p].at = req[p].at /\ req'[p].token = req[p].token
  /\ req'[p].link = req[p].link /\ req'[p].family = req[p].family
  /\ req'[p].saw = req[p].saw /\ req'[p].quiet \subseteq req[p].quiet

(* A row there is stays and moves on; a commit may add one.                 *)
LEMMA RowsMove ==
  ASSUME IInv, [Next]_vars
  PROVE  /\ \A t \in Tokens : Kept(t) \/ \E r \in Requests : Commits(r) /\ Added(r, t)
         /\ \A t, u \in Tokens : Kept(t) \/ Kept(u) \/ t = u
         /\ \A t \in Tokens : refresh[t].state # "absent" =>
              Kept(t) /\ refresh'[t].state # "absent"
  <1>1. TypeOK
    BY DEF IInv
  <1>2. /\ \A t \in Tokens : Kept(t) \/ \E r \in Requests : Commits(r) /\ Added(r, t)
        /\ \A t, u \in Tokens : Kept(t) \/ Kept(u) \/ t = u
    <2>1. CASE TimePasses
      BY <2>1 DEF TimePasses
    <2>2. CASE \E r \in Requests : Works(r)
      BY <2>2 DEF Works, Kept
    <2>3. CASE \E r \in Requests : Commits(r)
      BY <2>3 DEF Commits
    <2>4. QED
      BY <2>1, <2>2, <2>3, StepKinds
  <1>3. QED
    BY <1>2 DEF Kept, Added

(* A request does not change, or it is the one that works or commits.       *)
LEMMA RequestsKept ==
  ASSUME IInv, [Next]_vars, NEW p \in Requests
  PROVE  Works(p) \/ Commits(p) \/ ReqKept(p)
  <1>1. TypeOK
    BY DEF IInv
  <1>2. CASE TimePasses
    BY <1>2 DEF TimePasses, ReqKept
  <1>3. ASSUME NEW r \in Requests \ {p}, Works(r) PROVE ReqKept(p)
    BY <1>3 DEF Works, OthersWait, ReqKept
  <1>4. ASSUME NEW r \in Requests \ {p}, Commits(r) PROVE ReqKept(p)
    BY <1>1, <1>4, Releases DEF Commits, ReqKept
  <1>5. QED
    BY <1>2, <1>3, <1>4, StepKinds

(* A row lock is kept until its holder commits.                             *)
LEMMA LocksKept ==
  ASSUME IInv, [Next]_vars, NEW p \in Requests, ~Commits(p)
  PROVE  /\ \A t \in Tokens : lock[t] = p => lock'[t] = p
         /\ ~Works(p) => \A l \in Links : linkLock[l] = p => linkLock'[l] = p
  <1>1. TypeOK /\ p # None
    BY BoundAssumption DEF IInv
  <1>2. CASE TimePasses
    BY <1>2 DEF TimePasses
  <1>3. ASSUME NEW r \in Requests, Works(r)
        PROVE  /\ \A t \in Tokens : lock[t] = p => lock'[t] = p
               /\ ~Works(p) => \A l \in Links : linkLock[l] = p => linkLock'[l] = p
    BY <1>1, <1>3 DEF Works
  <1>4. ASSUME NEW r \in Requests \ {p}, Commits(r)
        PROVE  /\ \A t \in Tokens : lock[t] = p => lock'[t] = p
               /\ \A l \in Links : linkLock[l] = p => linkLock'[l] = p
    BY <1>1, <1>4, Releases DEF Commits
  <1>5. QED
    BY <1>2, <1>3, <1>4, StepKinds

(* Who commits is idle.                                                     *)
LEMMA CommitsIdle ==
  ASSUME IInv, NEW p \in Requests, Commits(p)
  PROVE  req'[p] = Idle
  BY Releases DEF Commits, IInv

-----------------------------------------------------------------------------
(* Every step keeps each part of the invariant.                             *)

LEMMA FamiliesStep ==
  ASSUME IInv, [Next]_vars
  PROVE  FamiliesNamed'
  <1>1. TypeOK /\ FamiliesNamed
    BY DEF IInv
  <1>2. ASSUME NEW t \in Tokens, refresh'[t].family # 0
        PROVE  refresh'[refresh'[t].family].state # "absent"
    <2>1. CASE Kept(t)
      <3>1. refresh[t].family \in Tokens /\ refresh'[t].family = refresh[t].family
        BY <1>1, <1>2, <2>1, MaybeTokens DEF Kept, TypeOK, TokenRows
      <3>2. QED
        BY <1>1, <1>2, <3>1, RowsMove DEF FamiliesNamed
    <2>2. ASSUME NEW r \in Requests, Added(r, t)
          PROVE  refresh'[refresh'[t].family].state # "absent"
      <3>1. CASE refresh'[t].family = t
        BY <2>2, <3>1 DEF Added
      <3>2. CASE refresh'[t].family = req[r].family /\ req[r].op \in {"rotate", "sibling"}
        BY <1>1, <3>2, RowsMove DEF FamiliesNamed
      <3>3. QED
        BY <2>2, <3>1, <3>2 DEF Added, IssuesInto
    <2>3. QED
      BY <2>1, <2>2, RowsMove
  <1>3. ASSUME NEW p \in Requests, req'[p].op \in {"rotate", "sibling", "reuse", "logout"}
        PROVE  req'[p].family \in Tokens /\ refresh'[req'[p].family].state # "absent"
    <2>1. CASE Works(p)
      BY <1>3, <2>1 DEF Works, Sound
    <2>2. CASE Commits(p)
      BY <1>3, <2>2, CommitsIdle DEF Idle
    <2>3. CASE ReqKept(p)
      BY <1>1, <1>3, <2>3, RowsMove DEF ReqKept, FamiliesNamed
    <2>4. QED
      BY <2>1, <2>2, <2>3, RequestsKept
  <1>4. QED
    BY <1>2, <1>3 DEF FamiliesNamed

LEMMA LocksStep ==
  ASSUME IInv, [Next]_vars
  PROVE  LocksNameRows'
  <1>1. TypeOK /\ LocksNameRows
    BY DEF IInv
  <1>2. ASSUME NEW t \in Tokens, lock'[t] # None PROVE refresh[t].state # "absent"
    <2>1. CASE TimePasses
      BY <1>1, <1>2, <2>1 DEF TimePasses, LocksNameRows
    <2>2. CASE \E r \in Requests : Works(r)
      BY <1>1, <1>2, <2>2 DEF Works, LocksNameRows
    <2>3. CASE \E r \in Requests : Commits(r)
      BY <1>1, <1>2, <2>3, Releases DEF Commits, LocksNameRows
    <2>4. QED
      BY <2>1, <2>2, <2>3, StepKinds
  <1>3. QED
    BY <1>2, RowsMove DEF LocksNameRows

(* A token whose lock is held is revoked by its holder alone.               *)
LEMMA HeldUnrevoked ==
  ASSUME IInv, [Next]_vars, NEW p \in Requests, ~Commits(p),
         NEW t \in Tokens, lock[t] = p, IsUnrevoked(t)
  PROVE  refresh'[t].state \in {"live", "expired"}
  <1>1. Kept(t)
    BY RowsMove DEF IsUnrevoked
  <1>2. refresh'[t].state # "revoked"
    <2>1. CASE TimePasses
      BY <2>1 DEF TimePasses, IsUnrevoked
    <2>2. CASE \E r \in Requests : Works(r)
      BY <2>2 DEF Works, IsUnrevoked
    <2>3. ASSUME NEW r \in Requests, Commits(r) PROVE refresh'[t].state # "revoked"
      <3>1. lock[t] \notin {None, r}
        BY <2>3, BoundAssumption
      <3>2. QED
        BY <2>3, <3>1 DEF Commits
    <2>4. QED
      BY <2>1, <2>2, <2>3, StepKinds
  <1>3. QED
    BY <1>1, <1>2 DEF Kept, IsUnrevoked

LEMMA RotationStep ==
  ASSUME IInv, [Next]_vars
  PROVE  RotationHeld'
  <1>1. ASSUME NEW p \in Requests, req'[p].op = "rotate"
        PROVE  /\ req'[p].token \in Tokens /\ lock'[req'[p].token] = p
               /\ refresh'[req'[p].token].state \in {"live", "expired"}
               /\ req'[p].family = refresh'[req'[p].token].family
    <2>1. CASE Works(p)
      BY <1>1, <2>1 DEF Works, Sound, IsUnrevoked
    <2>2. CASE Commits(p)
      BY <1>1, <2>2, CommitsIdle DEF Idle
    <2>3. CASE ReqKept(p) /\ ~Commits(p)
      <3> DEFINE t == req[p].token
      <3>1. /\ t \in Tokens /\ lock[t] = p /\ IsUnrevoked(t) /\ req[p].family = refresh[t].family
            /\ req'[p].token = t /\ req'[p].family = req[p].family
        BY <1>1, <2>3 DEF IInv, RotationHeld, ReqKept
      <3> HIDE DEF t
      <3>2. lock'[t] = p /\ refresh'[t].state \in {"live", "expired"}
        BY <2>3, <3>1, LocksKept, HeldUnrevoked
      <3>3. Kept(t)
        BY <3>1, RowsMove DEF IsUnrevoked
      <3>4. QED
        BY <3>1, <3>2, <3>3 DEF Kept
    <2>4. QED
      BY <2>1, <2>2, <2>3, RequestsKept
  <1>2. QED
    BY <1>1 DEF RotationHeld, IsUnrevoked

LEMMA RotatedStep ==
  ASSUME IInv, [Next]_vars
  PROVE  RotatedRevoked' /\ RotatedOnce'
  <1>1. TypeOK /\ RotationHeld /\ RotatedRevoked /\ RotatedOnce
    BY DEF IInv
  <1>2. ASSUME NEW t \in Tokens, refresh'[t].from # 0
        PROVE  refresh'[refresh'[t].from].state = "revoked"
    <2>1. CASE Kept(t)
      <3>1. refresh[t].from \in Tokens /\ refresh'[t].from = refresh[t].from
        BY <1>1, <1>2, <2>1, MaybeTokens DEF Kept, TypeOK, TokenRows
      <3>2. refresh[refresh[t].from].state = "revoked"
        BY <1>1, <1>2, <3>1 DEF RotatedRevoked
      <3>3. QED
        BY <3>1, <3>2, RowsMove DEF Kept, IsUnrevoked
    <2>2. CASE ~Kept(t)
      BY <1>2, <2>2, RowsMove DEF Added
    <2>3. QED
      BY <2>1, <2>2
  <1>3. ASSUME NEW t \in Tokens, NEW u \in Tokens, ~Kept(t), Kept(u), refresh'[t].from # 0
        PROVE  refresh'[t].from # refresh'[u].from
    <2>1. PICK r \in Requests : req[r].op = "rotate" /\ refresh'[t].from = req[r].token
      BY <1>3, RowsMove DEF Added
    <2>2. IsUnrevoked(refresh'[t].from)
      BY <1>1, <2>1 DEF RotationHeld
    <2>3. QED
      BY <1>1, <1>3, <2>2 DEF RotatedRevoked, IsUnrevoked, Kept
  <1>4. RotatedOnce'
    BY <1>1, <1>3, RowsMove DEF RotatedOnce, Kept
  <1>5. QED
    BY <1>2, <1>4 DEF RotatedRevoked

LEMMA LinksStep ==
  ASSUME IInv, [Next]_vars
  PROVE  LinksHeld' /\ LinkUsedOnce'
  <1>1. TypeOK /\ LinksHeld /\ LinkUsedOnce
    BY DEF IInv
  <1>2. ASSUME NEW l \in Links
        PROVE  /\ link'[l].state = "unused" \/ linkLock'[l] # None => link'[l].uses = 0
               /\ link'[l].uses <= 1
    <2>1. CASE TimePasses
      BY <1>1, <2>1 DEF TimePasses, LinkKept, LinksHeld, LinkUsedOnce
    <2>2. CASE \E r \in Requests : Works(r)
      BY <1>1, <2>2 DEF Works, LinksHeld, LinkUsedOnce
    <2>3. ASSUME NEW r \in Requests, Commits(r)
          PROVE  /\ link'[l].state = "unused" \/ linkLock'[l] # None => link'[l].uses = 0
                 /\ link'[l].uses <= 1
      <3>1. linkLock'[l] = IF linkLock[l] = r THEN None ELSE linkLock[l]
        BY <1>1, <2>3, Releases DEF Commits
      <3>2. CASE LinkKept(l) \/ link'[l].uses = 0
        BY <1>1, <3>1, <3>2 DEF LinkKept, LinksHeld, LinkUsedOnce
      <3>3. CASE linkLock[l] = r /\ link'[l].state = "used" /\ link'[l].uses = link[l].uses + 1
        BY <1>1, <3>1, <3>3, BoundAssumption DEF LinksHeld
      <3>4. QED
        BY <2>3, <3>2, <3>3 DEF Commits
    <2>4. QED
      BY <2>1, <2>2, <2>3, StepKinds
  <1>3. ASSUME NEW p \in Requests, req'[p].op = "verify"
        PROVE  req'[p].link \in Links /\ linkLock'[req'[p].link] = p
    <2>1. CASE Works(p)
      BY <1>3, <2>1 DEF Works, Sound
    <2>2. CASE Commits(p)
      BY <1>3, <2>2, CommitsIdle DEF Idle
    <2>3. CASE ReqKept(p) /\ ~Works(p) /\ ~Commits(p)
      BY <1>1, <1>3, <2>3, LocksKept DEF ReqKept, LinksHeld
    <2>4. QED
      BY <2>1, <2>2, <2>3, RequestsKept
  <1>4. QED
    BY <1>2, <1>3 DEF LinksHeld, LinkUsedOnce

(* A step issues into no family that is quiet, nor into one that was ended. *)
LEMMA QuietStep ==
  ASSUME IInv, [Next]_vars, TypeOK'
  PROVE  QuietStays' /\ EndedQuiet'
  <1>1. TypeOK /\ QuietStays /\ EndedQuiet /\ EndedStaysEnded
    BY DEF IInv
  <1>2. CASE TimePasses
    BY <1>1, <1>2, RowsMove DEF TimePasses, QuietStays, EndedQuiet, Quiet, IssuesInto, TypeOK, ReqRows
  <1>3. ASSUME NEW r \in Requests, Works(r) PROVE QuietStays' /\ EndedQuiet'
    <2>1. \A o \in Requests \ {r} : IssuesInto(req'[o]) = IssuesInto(req[o])
      BY <1>3 DEF Works, OthersWait, IssuesInto
    <2>2. ASSUME NEW p \in Requests, NEW f \in req'[p].quiet PROVE Quiet(f)'
      <3>1. CASE p = r
        BY <1>3, <2>1, <2>2, <3>1 DEF Works, Sound, Quiet
      <3>2. CASE p # r
        BY <1>1, <1>3, <2>1, <2>2, <3>2 DEF Works, OthersWait, QuietStays, Quiet
      <3>3. QED
        BY <3>1, <3>2
    <2>3. ASSUME NEW f \in ended' PROVE Quiet(f)'
      <3>1. Quiet(f) /\ ~IsSessionLive(f) /\ refresh' = refresh
        BY <1>1, <1>3, <2>3 DEF Works, EndedQuiet, EndedStaysEnded
      <3>2. f \notin IssuesInto(req'[r])
        BY <1>3, <3>1 DEF Works, Sound, IssuesInto
      <3>3. QED
        BY <2>1, <3>1, <3>2 DEF Quiet
    <2>4. QED
      BY <2>2, <2>3 DEF QuietStays, EndedQuiet
  <1>4. ASSUME NEW r \in Requests, Commits(r) PROVE QuietStays' /\ EndedQuiet'
    <2>1. req'[r] = Idle /\ \A o \in Requests \ {r} : req'[o] = req[o]
      BY <1>1, <1>4, Releases DEF Commits
    <2>2. ASSUME NEW f \in Tokens, Quiet(f) PROVE Quiet(f)'
      BY <2>1, <2>2, RowsMove, IdleTyped DEF Quiet
    <2>3. \A p \in Requests : req[p].quiet \subseteq Tokens
      BY <1>1 DEF TypeOK, ReqRows
    <2>4. \A p \in Requests : \A f \in req'[p].quiet : Quiet(f)'
      BY <1>1, <2>1, <2>2, <2>3, IdleTyped DEF QuietStays
    <2>5. \A f \in ended' : Quiet(f)'
      BY <1>1, <1>4, <2>2, <2>3 DEF Commits, QuietStays, EndedQuiet, TypeOK
    <2>6. QED
      BY <2>4, <2>5 DEF QuietStays, EndedQuiet
  <1>5. QED
    BY <1>2, <1>3, <1>4, StepKinds

LEMMA ReachesStep ==
  ASSUME IInv, [Next]_vars, TypeOK'
  PROVE  Reaches'
  <1>1. TypeOK /\ QuietStays /\ Reaches
    BY DEF IInv
  <1>2. ASSUME NEW p \in Requests, NEW f \in req'[p].quiet
        PROVE  /\ req'[p].at # "start"
               /\ \A t \in Tokens :
                    refresh'[t].state \in {"live", "expired"} /\ refresh'[t].family = f =>
                      IF req'[p].at = "tokens" THEN t \in req'[p].saw ELSE lock'[t] = p
    <2>1. CASE Works(p)
      BY <1>2, <2>1 DEF Works, Sound, IsUnrevoked
    <2>2. CASE Commits(p)
      BY <1>2, <2>2, CommitsIdle, IdleTyped
    <2>3. CASE ReqKept(p) /\ ~Commits(p)
      <3>1. f \in req[p].quiet /\ Quiet(f) /\ req'[p].at = req[p].at /\ req'[p].saw = req[p].saw
        BY <1>1, <1>2, <2>3 DEF ReqKept, QuietStays
      <3>2. ASSUME NEW t \in Tokens, refresh'[t].state \in {"live", "expired"},
                   refresh'[t].family = f
            PROVE  IF req'[p].at = "tokens" THEN t \in req'[p].saw ELSE lock'[t] = p
        <4>1. CASE Kept(t)
          <5>1. IsUnrevoked(t) /\ refresh[t].family = f
            BY <3>2, <4>1 DEF Kept, IsUnrevoked
          <5>2. IF req[p].at = "tokens" THEN t \in req[p].saw ELSE lock[t] = p
            BY <1>1, <3>1, <5>1 DEF Reaches
          <5>3. QED
            BY <2>3, <3>1, <5>2, LocksKept
        <4>2. CASE ~Kept(t)
          BY <3>1, <3>2, <4>2, RowsMove DEF Added, Quiet, IssuesInto
        <4>3. QED
          BY <4>1, <4>2
      <3>3. QED
        BY <1>1, <3>1, <3>2 DEF Reaches
    <2>4. QED
      BY <2>1, <2>2, <2>3, RequestsKept
  <1>3. QED
    BY <1>2 DEF Reaches, IsUnrevoked

LEMMA EndedStep ==
  ASSUME IInv, [Next]_vars
  PROVE  EndedStaysEnded'
  <1>1. QuietStays /\ Reaches /\ EndedQuiet /\ EndedStaysEnded
    BY DEF IInv
  <1>2. ASSUME NEW f \in ended', NEW t \in Tokens, refresh'[t].family = f
        PROVE  refresh'[t].state # "live"
    <2>1. CASE f \in ended
      <3>1. Quiet(f) /\ ~IsSessionLive(f)
        BY <1>1, <2>1 DEF EndedQuiet, EndedStaysEnded
      <3>2. CASE Kept(t)
        BY <1>2, <3>1, <3>2 DEF Kept, IsSessionLive, Usable, IsUnrevoked
      <3>3. CASE ~Kept(t)
        BY <1>2, <3>1, <3>3, RowsMove DEF Added, Quiet, IssuesInto
      <3>4. QED
        BY <3>2, <3>3
    <2>2. CASE f \notin ended
      <3>1. PICK r \in Requests : Commits(r)
        BY <1>2, <2>2, StepKinds DEF TimePasses, Works
      <3>2. /\ Quiet(f)
            /\ IsUnrevoked(t) /\ refresh[t].family = f => refresh'[t].state = "revoked"
        BY <1>1, <1>2, <2>2, <3>1 DEF Commits, QuietStays
      <3>3. CASE Kept(t)
        BY <1>2, <3>2, <3>3 DEF Kept, IsUnrevoked
      <3>4. CASE ~Kept(t)
        BY <1>2, <3>2, <3>4, RowsMove DEF Added, Quiet, IssuesInto
      <3>5. QED
        BY <3>3, <3>4
    <2>3. QED
      BY <2>1, <2>2
  <1>3. QED
    BY <1>2 DEF EndedStaysEnded, IsSessionLive, Usable

-----------------------------------------------------------------------------
(* The theorems.                                                            *)

LEMMA InitInv == Init => IInv
  <1> SUFFICES ASSUME Init PROVE IInv
    OBVIOUS
  <1>1. NoToken \in TokenRows /\ NoToken.state = "absent" /\ NoToken.family = 0
        /\ NoToken.from = 0
    BY BoundAssumption, MaybeTokens DEF NoToken, TokenRows
  <1>2. NoLink \in LinkRows /\ NoLink.uses = 0
    BY DEF NoLink, LinkRows, Purposes
  <1>3. account \in [status: {"none", "active"}, pw: 0..MaxPasswords, verified: BOOLEAN]
    BY BoundAssumption DEF Init
  <1>4. /\ \A t \in Tokens : refresh[t] = NoToken /\ lock[t] = None
        /\ \A l \in Links : link[l] = NoLink /\ linkLock[l] = None
        /\ \A r \in Requests : req[r] = Idle
        /\ ended = {}
    BY DEF Init
  <1>5. TypeOK
    BY <1>1, <1>2, <1>3, <1>4, IdleTyped DEF TypeOK, Init
  <1>6. FamiliesNamed /\ RotationHeld /\ QuietStays /\ Reaches
    BY <1>1, <1>4 DEF FamiliesNamed, RotationHeld, QuietStays, Reaches, Idle
  <1>7. LocksNameRows /\ RotatedRevoked /\ RotatedOnce /\ EndedQuiet /\ EndedStaysEnded
    BY <1>1, <1>4 DEF LocksNameRows, RotatedRevoked, RotatedOnce, EndedQuiet, EndedStaysEnded
  <1>8. LinksHeld /\ LinkUsedOnce
    BY <1>2, <1>4 DEF LinksHeld, LinkUsedOnce, Idle
  <1>9. QED
    BY <1>5, <1>6, <1>7, <1>8 DEF IInv

LEMMA InvStep == IInv /\ [Next]_vars => IInv'
  <1> SUFFICES ASSUME IInv, [Next]_vars PROVE IInv'
    OBVIOUS
  <1>1. TypeOK'
    BY TypeStep DEF IInv
  <1>2. QED
    BY <1>1, FamiliesStep, LocksStep, RotationStep, RotatedStep, LinksStep, QuietStep,
       ReachesStep, EndedStep DEF IInv

(* The invariant all the others follow from: it holds initially and every   *)
(* step of the requests of api/v1/auth.py keeps it.                         *)
THEOREM Invariant == Spec => []IInv
  BY InitInv, InvStep, PTL DEF Spec

(* Every row, lock and request keeps within the tables and handlers.        *)
THEOREM TypeCorrect == Spec => []TypeOK
  <1>1. IInv => TypeOK
    BY DEF IInv
  <1>2. QED
    BY <1>1, Invariant, PTL

(* A refresh token is rotated once and an emailed link consumed once, of    *)
(* however many requests present it together (rotate, consume).             *)
THEOREM SecretsOnce == Spec => []SecretsWorkOnce
  <1>1. IInv => SecretsWorkOnce
    BY DEF IInv, SecretsWorkOnce
  <1>2. QED
    BY <1>1, Invariant, PTL

(* A session ended while nobody was refreshing in it has no usable token     *)
(* ever after (_revoke_family, _end_all_sessions, _within_reuse_grace).  Of  *)
(* a session with a refresh in flight this is not said, nor is it so:        *)
(* see PasswordEndsSessions.                                                *)
THEOREM EndedForGood == Spec => []EndedStaysEnded
  <1>1. IInv => EndedStaysEnded
    BY DEF IInv
  <1>2. QED
    BY <1>1, Invariant, PTL

-----------------------------------------------------------------------------
(* The deletion of an account (Account).                                     *)

Gone(d)   == del[d].at \in {"committed", "end"}
Coming(d) == del[d].at \in {"planned", "removed"}

(* Only a committed deletion cleans up, and what it holds at its end is done. *)
GoneIsGone ==
  \A d \in Deleters : /\ Gone(d) => ~user
                      /\ del[d].at = "end" => del[d].refs = {} /\ del[d].runs = {}
OnIsLatest == \A r \in Runs : user /\ run[r].job = "on" => latest = r
LockedOut  == D!Locked => \A u \in Uploads : resume[u].upload # "inserted"

(* Until a slip: what is stored is named by a row, the plan of a deletion     *)
(* names all that is, and after it some deletion still has it to clean.      *)
FileNamed(u) == resume[u].row # "absent" \/ resume[u].upload \in {"put", "inserted"}
StoredIsNamed ==
  user => /\ \A u \in files : FileNamed(u)
          /\ \A r \in saved : run[r].named \/ latest = r
PlanNamesAll ==
  \A d \in Deleters : Coming(d) => D!FileRefs \subseteq del[d].refs /\ saved \subseteq del[d].runs
NoAddress == D!Busy => \A t \in Traces : trace[t] # "personal"
LeftToClean ==
  ~user => \E d \in Deleters : Gone(d) /\ files \subseteq del[d].refs /\ saved \subseteq del[d].runs

NoSlip == slips \subseteq {"undone"}

ResumeRows == [row : {"absent", "live", "deleted"}, upload : {"new", "put", "inserted", "end"},
               removal : {"new", "filed", "end"}]

DeletionInv ==
  /\ D!TypeOK /\ GoneIsGone /\ OnIsLatest /\ LockedOut
  /\ NoSlip => StoredIsNamed /\ PlanNamesAll /\ NoAddress /\ LeftToClean

LEMMA DeletionInit == D!Init => DeletionInv
<1> SUFFICES ASSUME D!Init PROVE DeletionInv
  OBVIOUS
<1> USE DEF D!Init
<1>1. D!TypeOK
  BY DEF D!TypeOK, D!NoRun, D!Slips
<1>2. \A d \in Deleters : del[d].at = "off"
  OBVIOUS
<1>3. GoneIsGone /\ OnIsLatest /\ LockedOut
  BY <1>2 DEF GoneIsGone, Gone, OnIsLatest, LockedOut, D!Locked
<1>4. StoredIsNamed /\ PlanNamesAll /\ NoAddress /\ LeftToClean
  BY <1>2 DEF StoredIsNamed, PlanNamesAll, Coming, NoAddress, D!Busy, LeftToClean
<1> QED
  BY <1>1, <1>3, <1>4 DEF DeletionInv

(* One lemma per actor, a case per action.                                   *)

LEMMA UploadKeeps ==
  ASSUME DeletionInv, NEW u \in Uploads
  PROVE
    /\ D!UploadPuts(u) => DeletionInv'
    /\ D!UploadInserts(u) => DeletionInv'
    /\ D!UploadCommits(u) => DeletionInv'
    /\ D!UploadFails(u) => DeletionInv'
    /\ D!RemovalFiles(u) => DeletionInv'
    /\ D!RemovalCommits(u) => DeletionInv'
<1>1. ASSUME D!UploadPuts(u) PROVE DeletionInv'
  <2> USE <1>1 DEF D!UploadPuts
  <2>1. D!TypeOK'
    BY DEF DeletionInv, D!TypeOK
  <2>2. LockedOut'
    BY DEF DeletionInv, D!TypeOK, LockedOut, D!Locked
  <2>3. GoneIsGone' /\ OnIsLatest'
    BY DEF DeletionInv, GoneIsGone, Gone, OnIsLatest
  <2>4. ASSUME NoSlip' PROVE StoredIsNamed' /\ PlanNamesAll' /\ NoAddress' /\ LeftToClean'
    <3>1. NoSlip /\ StoredIsNamed /\ PlanNamesAll /\ NoAddress /\ LeftToClean
      BY <2>4 DEF DeletionInv, NoSlip
    <3>2. StoredIsNamed'
      BY <3>1 DEF DeletionInv, D!TypeOK, StoredIsNamed, FileNamed
    <3>3. PlanNamesAll'
      BY <3>1 DEF DeletionInv, D!TypeOK, PlanNamesAll, Coming, D!FileRefs
    <3>4. LeftToClean'
      BY <3>1 DEF DeletionInv, D!TypeOK, LeftToClean, Gone
    <3>5. NoAddress'
      BY <3>1 DEF NoAddress, D!Busy
    <3> QED
      BY <3>2, <3>3, <3>4, <3>5
  <2> QED
    BY <2>1, <2>2, <2>3, <2>4 DEF DeletionInv
<1>2. ASSUME D!UploadInserts(u) PROVE DeletionInv'
  <2> USE <1>2 DEF D!UploadInserts
  <2>1. D!TypeOK'
    BY DEF DeletionInv, D!TypeOK
  <2>2. LockedOut'
    BY DEF DeletionInv, D!TypeOK, LockedOut, D!Locked
  <2>3. GoneIsGone' /\ OnIsLatest'
    BY DEF DeletionInv, GoneIsGone, Gone, OnIsLatest
  <2>4. ASSUME NoSlip' PROVE StoredIsNamed' /\ PlanNamesAll' /\ NoAddress' /\ LeftToClean'
    <3>1. NoSlip /\ StoredIsNamed /\ PlanNamesAll /\ NoAddress /\ LeftToClean
      BY <2>4 DEF DeletionInv, NoSlip
    <3>2. StoredIsNamed'
      BY <3>1 DEF DeletionInv, D!TypeOK, StoredIsNamed, FileNamed
    <3>3. PlanNamesAll'
      BY <3>1 DEF DeletionInv, D!TypeOK, PlanNamesAll, Coming, D!FileRefs
    <3>4. NoAddress' /\ LeftToClean'
      BY <3>1 DEF NoAddress, D!Busy, LeftToClean, Gone
    <3> QED
      BY <3>2, <3>3, <3>4
  <2> QED
    BY <2>1, <2>2, <2>3, <2>4 DEF DeletionInv
<1>3. ASSUME D!UploadCommits(u) PROVE DeletionInv'
  <2> USE <1>3 DEF D!UploadCommits
  <2>r. /\ resume' \in [Uploads -> ResumeRows]
        /\ \A x \in Uploads : resume'[x].upload = "inserted" => resume[x].upload = "inserted"
        /\ \A x \in Uploads : x # u => resume'[x] = resume[x]
        /\ resume'[u].row = "live"
    <3> DEFINE q == [resume[u] EXCEPT !.upload = "end"]
               row == [q EXCEPT !.row = "live"]
    <3>1. resume \in [Uploads -> ResumeRows]
      BY DEF DeletionInv, D!TypeOK, ResumeRows
    <3>2. q \in ResumeRows /\ q.upload = "end"
      BY <3>1 DEF ResumeRows
    <3>3. resume' = [resume EXCEPT ![u] = row]
      BY <3>1
    <3> HIDE DEF q
    <3>4. row \in ResumeRows /\ row.upload = "end" /\ row.row = "live"
      BY <3>2 DEF ResumeRows
    <3> HIDE DEF row
    <3> QED
      BY <3>1, <3>3, <3>4
  <2>1. D!TypeOK'
    <3>1. slips' \subseteq D!Slips
      BY DEF DeletionInv, D!TypeOK, D!Crossed, D!Slips
    <3> QED
      BY <2>r, <3>1 DEF DeletionInv, D!TypeOK, ResumeRows
  <2>2. LockedOut'
    BY <2>r DEF DeletionInv, D!TypeOK, LockedOut, D!Locked
  <2>3. GoneIsGone' /\ OnIsLatest'
    BY DEF DeletionInv, GoneIsGone, Gone, OnIsLatest
  <2>4. ASSUME NoSlip' PROVE StoredIsNamed' /\ PlanNamesAll' /\ NoAddress' /\ LeftToClean'
    <3>1. NoSlip /\ StoredIsNamed /\ PlanNamesAll /\ NoAddress /\ LeftToClean
      BY <2>4 DEF DeletionInv, NoSlip, D!Crossed
    <3>2. StoredIsNamed'
      BY <2>4, <3>1, <2>r DEF DeletionInv, D!TypeOK, NoSlip, StoredIsNamed, FileNamed,
         D!Crossed, D!Busy
    <3>3. PlanNamesAll'
      BY <2>4, <3>1, <2>r DEF DeletionInv, D!TypeOK, NoSlip, PlanNamesAll, Coming,
         D!FileRefs, D!Crossed, D!Busy
    <3>4. NoAddress' /\ LeftToClean'
      BY <3>1 DEF NoAddress, D!Busy, LeftToClean, Gone
    <3> QED
      BY <3>2, <3>3, <3>4
  <2> QED
    BY <2>1, <2>2, <2>3, <2>4 DEF DeletionInv
<1>4. ASSUME D!UploadFails(u) PROVE DeletionInv'
  <2> USE <1>4 DEF D!UploadFails
  <2>1. D!TypeOK'
    BY DEF DeletionInv, D!TypeOK, D!Slips
  <2>2. LockedOut'
    BY DEF DeletionInv, D!TypeOK, LockedOut, D!Locked
  <2>3. GoneIsGone' /\ OnIsLatest'
    BY DEF DeletionInv, GoneIsGone, Gone, OnIsLatest
  <2>4. ASSUME NoSlip' PROVE StoredIsNamed' /\ PlanNamesAll' /\ NoAddress' /\ LeftToClean'
    <3>1. NoSlip /\ StoredIsNamed /\ PlanNamesAll /\ NoAddress /\ LeftToClean
      BY <2>4 DEF DeletionInv, NoSlip
    <3>2. StoredIsNamed'
      BY <2>4, <3>1 DEF DeletionInv, D!TypeOK, NoSlip, StoredIsNamed, FileNamed, D!Busy
    <3>3. PlanNamesAll'
      BY <2>4, <3>1 DEF DeletionInv, D!TypeOK, NoSlip, PlanNamesAll, Coming, D!FileRefs,
         D!Busy
    <3>4. NoAddress' /\ LeftToClean'
      BY <3>1 DEF NoAddress, D!Busy, LeftToClean, Gone
    <3> QED
      BY <3>2, <3>3, <3>4
  <2> QED
    BY <2>1, <2>2, <2>3, <2>4 DEF DeletionInv
<1>5. ASSUME D!RemovalFiles(u) PROVE DeletionInv'
  <2> USE <1>5 DEF D!RemovalFiles
  <2>1. D!TypeOK'
    BY DEF DeletionInv, D!TypeOK
  <2>2. LockedOut'
    BY DEF DeletionInv, D!TypeOK, LockedOut, D!Locked
  <2>3. GoneIsGone' /\ OnIsLatest'
    BY DEF DeletionInv, GoneIsGone, Gone, OnIsLatest
  <2>4. ASSUME NoSlip' PROVE StoredIsNamed' /\ PlanNamesAll' /\ NoAddress' /\ LeftToClean'
    <3>1. NoSlip /\ StoredIsNamed /\ PlanNamesAll /\ NoAddress /\ LeftToClean
      BY <2>4 DEF DeletionInv, NoSlip
    <3>2. StoredIsNamed'
      BY <3>1 DEF DeletionInv, D!TypeOK, StoredIsNamed, FileNamed
    <3>3. PlanNamesAll'
      BY <3>1 DEF DeletionInv, D!TypeOK, PlanNamesAll, Coming, D!FileRefs
    <3>4. LeftToClean'
      BY <3>1 DEF DeletionInv, D!TypeOK, LeftToClean, Gone
    <3>5. NoAddress'
      BY <3>1 DEF NoAddress, D!Busy
    <3> QED
      BY <3>2, <3>3, <3>4, <3>5
  <2> QED
    BY <2>1, <2>2, <2>3, <2>4 DEF DeletionInv
<1>6. ASSUME D!RemovalCommits(u) PROVE DeletionInv'
  <2> USE <1>6 DEF D!RemovalCommits
  <2>r. PICK row \in {"live", "absent", "deleted"} :
           /\ resume' = [resume EXCEPT ![u] = [row |-> row, upload |-> resume[u].upload,
                                              removal |-> "end"]]
           /\ row = "absent" <=> resume[u].row = "absent"
    BY DEF DeletionInv, D!TypeOK
  <2>1. D!TypeOK'
    BY <2>r DEF DeletionInv, D!TypeOK, D!Slips
  <2>2. LockedOut'
    BY <2>r DEF DeletionInv, D!TypeOK, LockedOut, D!Locked
  <2>3. GoneIsGone' /\ OnIsLatest'
    BY DEF DeletionInv, GoneIsGone, Gone, OnIsLatest
  <2>4. ASSUME NoSlip' PROVE StoredIsNamed' /\ PlanNamesAll' /\ NoAddress' /\ LeftToClean'
    <3>1. NoSlip /\ StoredIsNamed /\ PlanNamesAll /\ NoAddress /\ LeftToClean
      BY <2>4 DEF DeletionInv, NoSlip
    <3>2. StoredIsNamed'
      BY <2>4, <3>1, <2>r DEF DeletionInv, D!TypeOK, NoSlip, StoredIsNamed, FileNamed
    <3>3. PlanNamesAll'
      BY <2>4, <3>1, <2>r DEF DeletionInv, D!TypeOK, NoSlip, PlanNamesAll, Coming,
         D!FileRefs
    <3>4. NoAddress' /\ LeftToClean'
      BY <3>1 DEF NoAddress, D!Busy, LeftToClean, Gone
    <3> QED
      BY <3>2, <3>3, <3>4
  <2> QED
    BY <2>1, <2>2, <2>3, <2>4 DEF DeletionInv
<1> QED
  BY <1>1, <1>2, <1>3, <1>4, <1>5, <1>6

LEMMA RunKeeps ==
  ASSUME DeletionInv, NEW r \in Runs
  PROVE
    /\ D!RunPosted(r) => DeletionInv'
    /\ D!RunSaves(r) => DeletionInv'
    /\ D!RunEnds(r) => DeletionInv'
    /\ D!RunDies(r) => DeletionInv'
<1>1. ASSUME D!RunPosted(r) PROVE DeletionInv'
  <2> USE <1>1 DEF D!RunPosted
  <2>1. D!TypeOK'
    BY DEF DeletionInv, D!TypeOK, D!Slips
  <2>2. OnIsLatest'
    BY AccountIsGiven DEF DeletionInv, D!TypeOK, OnIsLatest, D!AccountAssumption
  <2>3. GoneIsGone' /\ LockedOut'
    BY DEF DeletionInv, GoneIsGone, Gone, LockedOut, D!Locked
  <2>4. ASSUME NoSlip' PROVE StoredIsNamed' /\ PlanNamesAll' /\ NoAddress' /\ LeftToClean'
    <3>1. NoSlip /\ StoredIsNamed /\ PlanNamesAll /\ NoAddress /\ LeftToClean
      BY <2>4 DEF DeletionInv, NoSlip
    <3>2. StoredIsNamed'
      BY <2>4, <3>1, AccountIsGiven
         DEF DeletionInv, D!TypeOK, D!AccountAssumption, NoSlip, StoredIsNamed, FileNamed, D!Busy
    <3>3. PlanNamesAll' /\ NoAddress' /\ LeftToClean'
      BY <3>1 DEF PlanNamesAll, Coming, D!FileRefs, NoAddress, D!Busy, LeftToClean, Gone
    <3> QED
      BY <3>2, <3>3
  <2> QED
    BY <2>1, <2>2, <2>3, <2>4 DEF DeletionInv
<1>2. ASSUME D!RunSaves(r) PROVE DeletionInv'
  <2> USE <1>2 DEF D!RunSaves
  <2>1. D!TypeOK'
    BY DEF DeletionInv, D!TypeOK, D!Crossed, D!Slips
  <2>2. GoneIsGone' /\ OnIsLatest' /\ LockedOut'
    BY DEF DeletionInv, GoneIsGone, Gone, OnIsLatest, LockedOut, D!Locked
  <2>3. ASSUME NoSlip' PROVE StoredIsNamed' /\ PlanNamesAll' /\ NoAddress' /\ LeftToClean'
    <3>1. NoSlip /\ StoredIsNamed /\ PlanNamesAll /\ NoAddress /\ LeftToClean
      BY <2>3 DEF DeletionInv, NoSlip, D!Crossed
    <3>2. StoredIsNamed'
      BY <3>1 DEF DeletionInv, OnIsLatest, StoredIsNamed, FileNamed
    <3>3. PlanNamesAll'
      BY <2>3, <3>1 DEF DeletionInv, D!TypeOK, NoSlip, PlanNamesAll, Coming, D!FileRefs,
         D!Crossed, D!Busy
    <3>4. LeftToClean'
      BY <2>3, <3>1 DEF DeletionInv, D!TypeOK, NoSlip, LeftToClean, Gone, D!Crossed, D!Busy
    <3>5. NoAddress'
      BY <3>1 DEF NoAddress, D!Busy
    <3> QED
      BY <3>2, <3>3, <3>4, <3>5
  <2> QED
    BY <2>1, <2>2, <2>3 DEF DeletionInv
<1>3. ASSUME D!RunEnds(r) PROVE DeletionInv'
  <2> USE <1>3 DEF D!RunEnds
  <2>1. D!TypeOK'
    BY DEF DeletionInv, D!TypeOK
  <2>2. OnIsLatest'
    BY DEF DeletionInv, D!TypeOK, OnIsLatest
  <2>3. GoneIsGone' /\ LockedOut'
    BY DEF DeletionInv, GoneIsGone, Gone, LockedOut, D!Locked
  <2>4. ASSUME NoSlip' PROVE StoredIsNamed' /\ PlanNamesAll' /\ NoAddress' /\ LeftToClean'
    <3>1. NoSlip /\ StoredIsNamed /\ PlanNamesAll /\ NoAddress /\ LeftToClean
      BY <2>4 DEF DeletionInv, NoSlip
    <3>2. StoredIsNamed'
      BY <3>1 DEF DeletionInv, D!TypeOK, StoredIsNamed, FileNamed
    <3>3. PlanNamesAll' /\ NoAddress' /\ LeftToClean'
      BY <3>1 DEF PlanNamesAll, Coming, D!FileRefs, NoAddress, D!Busy, LeftToClean, Gone
    <3> QED
      BY <3>2, <3>3
  <2> QED
    BY <2>1, <2>2, <2>3, <2>4 DEF DeletionInv
<1>4. ASSUME D!RunDies(r) PROVE DeletionInv'
  <2> USE <1>4 DEF D!RunDies
  <2>1. D!TypeOK'
    BY DEF DeletionInv, D!TypeOK
  <2>2. OnIsLatest'
    BY DEF DeletionInv, D!TypeOK, OnIsLatest
  <2>3. GoneIsGone' /\ LockedOut'
    BY DEF DeletionInv, GoneIsGone, Gone, LockedOut, D!Locked
  <2>4. ASSUME NoSlip' PROVE StoredIsNamed' /\ PlanNamesAll' /\ NoAddress' /\ LeftToClean'
    <3>1. NoSlip /\ StoredIsNamed /\ PlanNamesAll /\ NoAddress /\ LeftToClean
      BY <2>4 DEF DeletionInv, NoSlip
    <3>2. StoredIsNamed'
      BY <3>1 DEF DeletionInv, D!TypeOK, StoredIsNamed, FileNamed
    <3>3. PlanNamesAll' /\ NoAddress' /\ LeftToClean'
      BY <3>1 DEF PlanNamesAll, Coming, D!FileRefs, NoAddress, D!Busy, LeftToClean, Gone
    <3> QED
      BY <3>2, <3>3
  <2> QED
    BY <2>1, <2>2, <2>3, <2>4 DEF DeletionInv
<1> QED
  BY <1>1, <1>2, <1>3, <1>4

LEMMA TraceKeeps ==
  ASSUME DeletionInv, NEW t \in Traces
  PROVE
    /\ D!TraceFlushed(t) => DeletionInv'
    /\ D!TraceCommits(t) => DeletionInv'
<1>1. ASSUME D!TraceFlushed(t) PROVE DeletionInv'
  <2> USE <1>1 DEF D!TraceFlushed
  <2>1. D!TypeOK'
    BY DEF DeletionInv, D!TypeOK
  <2>2. GoneIsGone' /\ OnIsLatest' /\ LockedOut'
    BY DEF DeletionInv, GoneIsGone, Gone, OnIsLatest, LockedOut, D!Locked
  <2>3. ASSUME NoSlip' PROVE StoredIsNamed' /\ PlanNamesAll' /\ NoAddress' /\ LeftToClean'
    <3>1. NoSlip /\ StoredIsNamed /\ PlanNamesAll /\ NoAddress /\ LeftToClean
      BY <2>3 DEF DeletionInv, NoSlip
    <3>2. NoAddress'
      BY <3>1 DEF DeletionInv, D!TypeOK, NoAddress, D!Busy
    <3>3. StoredIsNamed' /\ PlanNamesAll' /\ LeftToClean'
      BY <3>1 DEF StoredIsNamed, FileNamed, PlanNamesAll, Coming, D!FileRefs, LeftToClean,
         Gone
    <3> QED
      BY <3>2, <3>3
  <2> QED
    BY <2>1, <2>2, <2>3 DEF DeletionInv
<1>2. ASSUME D!TraceCommits(t) PROVE DeletionInv'
  <2> USE <1>2 DEF D!TraceCommits
  <2>1. D!TypeOK'
    BY DEF DeletionInv, D!TypeOK, D!Crossed, D!Slips
  <2>2. GoneIsGone' /\ OnIsLatest' /\ LockedOut'
    BY DEF DeletionInv, GoneIsGone, Gone, OnIsLatest, LockedOut, D!Locked
  <2>3. ASSUME NoSlip' PROVE StoredIsNamed' /\ PlanNamesAll' /\ NoAddress' /\ LeftToClean'
    <3>1. NoSlip /\ StoredIsNamed /\ PlanNamesAll /\ NoAddress /\ LeftToClean
      BY <2>3 DEF DeletionInv, NoSlip, D!Crossed
    <3>2. NoAddress'
      BY <2>3, <3>1 DEF DeletionInv, D!TypeOK, NoSlip, NoAddress, D!Busy, D!Crossed
    <3>3. StoredIsNamed' /\ PlanNamesAll' /\ LeftToClean'
      BY <3>1 DEF StoredIsNamed, FileNamed, PlanNamesAll, Coming, D!FileRefs, LeftToClean,
         Gone
    <3> QED
      BY <3>2, <3>3
  <2> QED
    BY <2>1, <2>2, <2>3 DEF DeletionInv
<1> QED
  BY <1>1, <1>2

LEMMA DeleterKeeps ==
  ASSUME DeletionInv, NEW d \in Deleters
  PROVE
    /\ D!Plans(d) => DeletionInv'
    /\ D!Refused(d) => DeletionInv'
    /\ D!Removes(d) => DeletionInv'
    /\ D!DeletionCommits(d) => DeletionInv'
    /\ \A r \in Runs : D!CleansRun(d, r) => DeletionInv'
    /\ \A u \in Uploads : D!CleansFile(d, u) => DeletionInv'
    /\ D!CleanupEnds(d) => DeletionInv'
<1>1. ASSUME D!Plans(d) PROVE DeletionInv'
  <2> USE <1>1 DEF D!Plans
  <2>1. D!TypeOK'
    BY DEF DeletionInv, D!TypeOK, D!FileRefs, D!Named
  <2>2. GoneIsGone' /\ LockedOut'
    BY DEF DeletionInv, D!TypeOK, GoneIsGone, Gone, LockedOut, D!Locked
  <2>3. OnIsLatest'
    BY DEF DeletionInv, OnIsLatest
  <2>4. ASSUME NoSlip' PROVE StoredIsNamed' /\ PlanNamesAll' /\ NoAddress' /\ LeftToClean'
    <3>1. NoSlip /\ StoredIsNamed /\ PlanNamesAll /\ NoAddress /\ LeftToClean
      BY <2>4 DEF DeletionInv, NoSlip
    <3>2. PlanNamesAll'
      <4>1. saved \subseteq D!Named
        BY <3>1, AccountIsGiven
           DEF DeletionInv, D!TypeOK, D!AccountAssumption, StoredIsNamed, D!Named
      <4> QED
        BY <3>1, <4>1 DEF DeletionInv, D!TypeOK, PlanNamesAll, Coming, D!FileRefs
    <3>3. NoAddress'
      BY <3>1 DEF DeletionInv, D!TypeOK, NoAddress, D!Busy, D!FileRefs, D!Named
    <3>4. LeftToClean'
      BY <3>1 DEF DeletionInv, D!TypeOK, LeftToClean, Gone, D!FileRefs, D!Named
    <3>5. StoredIsNamed'
      BY <3>1 DEF StoredIsNamed, FileNamed
    <3> QED
      BY <3>2, <3>3, <3>4, <3>5
  <2> QED
    BY <2>1, <2>2, <2>3, <2>4 DEF DeletionInv
<1>2. ASSUME D!Refused(d) PROVE DeletionInv'
  <2> USE <1>2 DEF D!Refused
  <2>1. D!TypeOK'
    BY DEF DeletionInv, D!TypeOK
  <2>2. GoneIsGone' /\ LockedOut'
    BY DEF DeletionInv, D!TypeOK, GoneIsGone, Gone, LockedOut, D!Locked
  <2>3. OnIsLatest'
    BY DEF DeletionInv, OnIsLatest
  <2>4. ASSUME NoSlip' PROVE StoredIsNamed' /\ PlanNamesAll' /\ NoAddress' /\ LeftToClean'
    <3>1. NoSlip /\ StoredIsNamed /\ PlanNamesAll /\ NoAddress /\ LeftToClean
      BY <2>4 DEF DeletionInv, NoSlip
    <3>2. PlanNamesAll'
      BY <3>1 DEF DeletionInv, D!TypeOK, PlanNamesAll, Coming, D!FileRefs
    <3>3. NoAddress'
      BY <3>1 DEF DeletionInv, D!TypeOK, NoAddress, D!Busy
    <3>4. LeftToClean'
      BY <3>1 DEF DeletionInv, D!TypeOK, LeftToClean, Gone
    <3>5. StoredIsNamed'
      BY <3>1 DEF StoredIsNamed, FileNamed
    <3> QED
      BY <3>2, <3>3, <3>4, <3>5
  <2> QED
    BY <2>1, <2>2, <2>3, <2>4 DEF DeletionInv
<1>3. ASSUME D!Removes(d) PROVE DeletionInv'
  <2> USE <1>3 DEF D!Removes
  <2>1. D!TypeOK'
    BY DEF DeletionInv, D!TypeOK
  <2>2. GoneIsGone' /\ LockedOut'
    BY DEF DeletionInv, D!TypeOK, GoneIsGone, Gone, LockedOut, D!Locked
  <2>3. OnIsLatest'
    BY DEF DeletionInv, OnIsLatest
  <2>4. ASSUME NoSlip' PROVE StoredIsNamed' /\ PlanNamesAll' /\ NoAddress' /\ LeftToClean'
    <3>1. NoSlip /\ StoredIsNamed /\ PlanNamesAll /\ NoAddress /\ LeftToClean
      BY <2>4 DEF DeletionInv, NoSlip
    <3>2. PlanNamesAll'
      BY <3>1 DEF DeletionInv, D!TypeOK, PlanNamesAll, Coming, D!FileRefs
    <3>3. NoAddress'
      BY <3>1 DEF DeletionInv, D!TypeOK, NoAddress, D!Busy
    <3>4. LeftToClean'
      BY <3>1 DEF DeletionInv, D!TypeOK, LeftToClean, Gone
    <3>5. StoredIsNamed'
      BY <3>1 DEF StoredIsNamed, FileNamed
    <3> QED
      BY <3>2, <3>3, <3>4, <3>5
  <2> QED
    BY <2>1, <2>2, <2>3, <2>4 DEF DeletionInv
<1>4. ASSUME D!DeletionCommits(d) PROVE DeletionInv'
  <2> USE <1>4 DEF D!DeletionCommits
  <2>1. D!TypeOK'
    <3>1. slips' \subseteq D!Slips
      BY DEF DeletionInv, D!TypeOK, D!Crossed, D!Slips
    <3>r. \A q \in ResumeRows : [q EXCEPT !.row = "absent"] \in ResumeRows
      BY DEF ResumeRows
    <3>2. resume' \in [Uploads -> ResumeRows]
      <4>1. \A x \in Uploads : resume[x] \in ResumeRows
        BY DEF DeletionInv, D!TypeOK, ResumeRows
      <4> QED
        BY <3>r, <4>1
    <3>3. run' \in [Runs -> [job : {"new", "on", "off"}, named : BOOLEAN]]
      BY DEF DeletionInv, D!TypeOK
    <3>4. del' \in [Deleters -> [at : {"off", "refused", "planned", "removed", "committed", "end"},
                                refs : SUBSET Uploads, runs : SUBSET Runs]]
      BY DEF DeletionInv, D!TypeOK
    <3> QED
      BY <3>1, <3>2, <3>3, <3>4 DEF DeletionInv, D!TypeOK, D!NoRun, ResumeRows
  <2>2. GoneIsGone' /\ OnIsLatest' /\ LockedOut'
    BY DEF DeletionInv, D!TypeOK, GoneIsGone, Gone, OnIsLatest, LockedOut, D!Locked
  <2>3. ASSUME NoSlip' PROVE StoredIsNamed' /\ PlanNamesAll' /\ NoAddress' /\ LeftToClean'
    <3>1. NoSlip /\ StoredIsNamed /\ PlanNamesAll /\ NoAddress /\ LeftToClean
      BY <2>3 DEF DeletionInv, NoSlip, D!Crossed
    <3>2. StoredIsNamed'
      BY <2>3, <3>1 DEF DeletionInv, D!TypeOK, NoSlip, StoredIsNamed, FileNamed, D!Crossed,
         D!Busy
    <3>3. PlanNamesAll'
      BY <2>3, <3>1 DEF DeletionInv, D!TypeOK, NoSlip, PlanNamesAll, Coming, D!FileRefs,
         D!Crossed, D!Busy
    <3>4. NoAddress'
      BY <2>3, <3>1 DEF DeletionInv, D!TypeOK, NoSlip, NoAddress, D!Busy, D!Crossed
    <3>5. LeftToClean'
      <4>1. CASE user
        <5>1. del'[d].at = "committed" /\ del'[d].refs = del[d].refs /\ del'[d].runs = del[d].runs
          BY DEF DeletionInv, D!TypeOK
        <5>2. files \subseteq D!FileRefs
          BY <2>3, <3>1, <4>1 DEF DeletionInv, D!TypeOK, LockedOut, D!Locked, StoredIsNamed,
             FileNamed, D!FileRefs, NoSlip, D!Crossed
        <5>3. D!FileRefs \subseteq del[d].refs /\ saved \subseteq del[d].runs
          BY <3>1 DEF PlanNamesAll, Coming
        <5> QED
          BY <5>1, <5>2, <5>3 DEF LeftToClean, Gone
      <4>2. CASE ~user
        BY <3>1, <4>2 DEF DeletionInv, D!TypeOK, LeftToClean, Gone
      <4> QED
        BY <4>1, <4>2
    <3> QED
      BY <3>2, <3>3, <3>4, <3>5
  <2> QED
    BY <2>1, <2>2, <2>3 DEF DeletionInv
<1>5. ASSUME NEW r \in Runs, D!CleansRun(d, r) PROVE DeletionInv'
  <2> USE <1>5 DEF D!CleansRun
  <2>1. D!TypeOK'
    BY DEF DeletionInv, D!TypeOK, D!Cleans, D!Slips
  <2>2. GoneIsGone' /\ LockedOut'
    BY DEF DeletionInv, D!TypeOK, GoneIsGone, Gone, LockedOut, D!Locked, D!Cleans
  <2>3. OnIsLatest'
    BY DEF DeletionInv, OnIsLatest
  <2>4. ASSUME NoSlip' PROVE StoredIsNamed' /\ PlanNamesAll' /\ NoAddress' /\ LeftToClean'
    <3>1. NoSlip /\ StoredIsNamed /\ PlanNamesAll /\ NoAddress /\ LeftToClean
      BY <2>4 DEF DeletionInv, NoSlip
    <3>2. StoredIsNamed'
      BY <2>4, <3>1 DEF DeletionInv, D!TypeOK, NoSlip, StoredIsNamed, FileNamed, D!Cleans,
         GoneIsGone
    <3>3. PlanNamesAll'
      BY <2>4, <3>1 DEF DeletionInv, D!TypeOK, NoSlip, PlanNamesAll, Coming, D!FileRefs,
         D!Cleans
    <3>4. NoAddress'
      BY <2>4, <3>1 DEF DeletionInv, D!TypeOK, NoSlip, NoAddress, D!Busy, D!Cleans
    <3>5. LeftToClean'
      <4>1. saved' = saved \ {r} /\ files' = files /\ ~user
        BY <2>4 DEF DeletionInv, NoSlip, GoneIsGone, Gone, D!Cleans
      <4>2. PICK e \in Deleters : Gone(e) /\ files \subseteq del[e].refs /\ saved \subseteq del[e].runs
        BY <3>1, <4>1 DEF LeftToClean
      <4>3. /\ del'[e].at = del[e].at /\ del'[e].refs = del[e].refs
            /\ del'[e].runs = IF e = d THEN del[e].runs \ {r} ELSE del[e].runs
        BY DEF DeletionInv, D!TypeOK
      <4> QED
        BY <4>1, <4>2, <4>3 DEF LeftToClean, Gone
    <3> QED
      BY <3>2, <3>3, <3>4, <3>5
  <2> QED
    BY <2>1, <2>2, <2>3, <2>4 DEF DeletionInv
<1>6. ASSUME NEW u \in Uploads, D!CleansFile(d, u) PROVE DeletionInv'
  <2> USE <1>6 DEF D!CleansFile
  <2>1. D!TypeOK'
    BY DEF DeletionInv, D!TypeOK, D!Cleans, D!Slips
  <2>2. GoneIsGone' /\ LockedOut'
    BY DEF DeletionInv, D!TypeOK, GoneIsGone, Gone, LockedOut, D!Locked, D!Cleans
  <2>3. OnIsLatest'
    BY DEF DeletionInv, OnIsLatest
  <2>4. ASSUME NoSlip' PROVE StoredIsNamed' /\ PlanNamesAll' /\ NoAddress' /\ LeftToClean'
    <3>1. NoSlip /\ StoredIsNamed /\ PlanNamesAll /\ NoAddress /\ LeftToClean
      BY <2>4 DEF DeletionInv, NoSlip
    <3>2. StoredIsNamed'
      BY <2>4, <3>1 DEF DeletionInv, D!TypeOK, NoSlip, StoredIsNamed, FileNamed, D!Cleans,
         GoneIsGone
    <3>3. PlanNamesAll'
      BY <2>4, <3>1 DEF DeletionInv, D!TypeOK, NoSlip, PlanNamesAll, Coming, D!FileRefs,
         D!Cleans
    <3>4. NoAddress'
      BY <2>4, <3>1 DEF DeletionInv, D!TypeOK, NoSlip, NoAddress, D!Busy, D!Cleans
    <3>5. LeftToClean'
      <4>1. files' = files \ {u} /\ saved' = saved /\ ~user
        BY <2>4 DEF DeletionInv, NoSlip, GoneIsGone, Gone, D!Cleans
      <4>2. PICK e \in Deleters : Gone(e) /\ files \subseteq del[e].refs /\ saved \subseteq del[e].runs
        BY <3>1, <4>1 DEF LeftToClean
      <4>3. /\ del'[e].at = del[e].at /\ del'[e].runs = del[e].runs
            /\ del'[e].refs = IF e = d THEN del[e].refs \ {u} ELSE del[e].refs
        BY DEF DeletionInv, D!TypeOK
      <4> QED
        BY <4>1, <4>2, <4>3 DEF LeftToClean, Gone
    <3> QED
      BY <3>2, <3>3, <3>4, <3>5
  <2> QED
    BY <2>1, <2>2, <2>3, <2>4 DEF DeletionInv
<1>7. ASSUME D!CleanupEnds(d) PROVE DeletionInv'
  <2> USE <1>7 DEF D!CleanupEnds
  <2>1. D!TypeOK'
    BY DEF DeletionInv, D!TypeOK, D!Slips
  <2>2. GoneIsGone' /\ LockedOut'
    BY DEF DeletionInv, D!TypeOK, GoneIsGone, Gone, LockedOut, D!Locked
  <2>3. OnIsLatest'
    BY DEF DeletionInv, OnIsLatest
  <2>4. ASSUME NoSlip' PROVE StoredIsNamed' /\ PlanNamesAll' /\ NoAddress' /\ LeftToClean'
    <3>1. NoSlip /\ StoredIsNamed /\ PlanNamesAll /\ NoAddress /\ LeftToClean
      BY <2>4 DEF DeletionInv, NoSlip
    <3>2. PlanNamesAll'
      BY <2>4, <3>1 DEF DeletionInv, D!TypeOK, NoSlip, PlanNamesAll, Coming, D!FileRefs
    <3>3. NoAddress'
      BY <2>4, <3>1 DEF DeletionInv, D!TypeOK, NoSlip, NoAddress, D!Busy
    <3>4. LeftToClean'
      BY <2>4, <3>1 DEF DeletionInv, D!TypeOK, NoSlip, LeftToClean, Gone
    <3>5. StoredIsNamed'
      BY <3>1 DEF StoredIsNamed, FileNamed
    <3> QED
      BY <3>2, <3>3, <3>4, <3>5
  <2> QED
    BY <2>1, <2>2, <2>3, <2>4 DEF DeletionInv
<1> QED
  BY <1>1, <1>2, <1>3, <1>4, <1>5, <1>6, <1>7

LEMMA DeletionStep ==
  ASSUME DeletionInv, [AccountNext]_<<part, vars, accountVars>>
  PROVE  DeletionInv'
<1>1. CASE D!Next
  BY <1>1, UploadKeeps, RunKeeps, TraceKeeps, DeleterKeeps DEF D!Next
<1>2. CASE UNCHANGED accountVars
  <2>1. D!TypeOK' /\ GoneIsGone' /\ OnIsLatest' /\ LockedOut'
    BY <1>2 DEF accountVars, DeletionInv, D!TypeOK, GoneIsGone, Gone, OnIsLatest, LockedOut,
       D!Locked
  <2>2. NoSlip' => StoredIsNamed' /\ PlanNamesAll' /\ NoAddress' /\ LeftToClean'
    BY <1>2 DEF accountVars, DeletionInv, NoSlip, StoredIsNamed, FileNamed, PlanNamesAll, Coming,
       D!FileRefs, NoAddress, D!Busy, LeftToClean, Gone
  <2> QED
    BY <2>1, <2>2 DEF DeletionInv
<1> QED
  BY <1>1, <1>2 DEF AccountNext

(* What is deleted for good was cleaned to the end.                          *)
LEMMA DeletedIsClean ==
  ASSUME DeletionInv
  PROVE  D!NothingNamedRemains
<1> SUFFICES ASSUME D!Deleted, NoSlip PROVE ~D!Remains
  BY DEF D!NothingNamedRemains, NoSlip
<1>1. PICK d \in Deleters : Gone(d) /\ files \subseteq del[d].refs /\ saved \subseteq del[d].runs
  BY DEF DeletionInv, LeftToClean, D!Deleted
<1>2. del[d].at = "end"
  BY <1>1 DEF D!Deleted, Gone
<1>3. files = {} /\ saved = {}
  BY <1>1, <1>2 DEF DeletionInv, GoneIsGone
<1>4. \A t \in Traces : trace[t] # "personal"
  BY <1>2 DEF DeletionInv, NoAddress, D!Busy
<1> QED
  BY <1>3, <1>4 DEF D!Remains

(* While the account is there, a checkpoint stays and a file goes only with  *)
(* a removal the person asked for.                                          *)
KeptStep == user' => /\ saved \subseteq saved'
                     /\ \A u \in files \ files' : resume'[u].removal # "new"

LEMMA StepKeeps ==
  ASSUME DeletionInv, D!Next
  PROVE  KeptStep
<1>1. ASSUME NEW u \in Uploads, D!RemovalFiles(u) PROVE KeptStep
  BY <1>1 DEF D!RemovalFiles, DeletionInv, D!TypeOK, KeptStep
<1>2. ASSUME NEW u \in Uploads,
             \/ D!UploadPuts(u) \/ D!UploadInserts(u) \/ D!UploadCommits(u) \/ D!UploadFails(u)
             \/ D!RemovalCommits(u)
      PROVE  KeptStep
  BY <1>2 DEF D!UploadPuts, D!UploadInserts, D!UploadCommits, D!UploadFails, D!RemovalCommits,
     KeptStep
<1>3. ASSUME NEW r \in Runs,
             D!RunPosted(r) \/ D!RunSaves(r) \/ D!RunEnds(r) \/ D!RunDies(r)
      PROVE  KeptStep
  BY <1>3 DEF D!RunPosted, D!RunSaves, D!RunEnds, D!RunDies, KeptStep
<1>4. ASSUME NEW t \in Traces, D!TraceFlushed(t) \/ D!TraceCommits(t) PROVE KeptStep
  BY <1>4 DEF D!TraceFlushed, D!TraceCommits, KeptStep
<1>5. ASSUME NEW d \in Deleters,
             D!Plans(d) \/ D!Refused(d) \/ D!Removes(d) \/ D!DeletionCommits(d) \/ D!CleanupEnds(d)
      PROVE  KeptStep
  BY <1>5 DEF D!Plans, D!Refused, D!Removes, D!DeletionCommits, D!CleanupEnds, KeptStep
<1>6. ASSUME NEW d \in Deleters,
             \/ \E r \in Runs : D!CleansRun(d, r)
             \/ \E u \in Uploads : D!CleansFile(d, u)
      PROVE  KeptStep
  BY <1>6 DEF D!CleansRun, D!CleansFile, D!Cleans, DeletionInv, GoneIsGone, Gone, KeptStep
<1> QED
  BY <1>1, <1>2, <1>3, <1>4, <1>5, <1>6 DEF D!Next

(* No file and no checkpoint goes before the account does, and nothing that  *)
(* names the person is left after it unless a slip happened, for any number  *)
(* of uploads, runs, audit rows and deleters (domain/account/deletion.py).   *)
THEOREM DeletionIsWhole == AccountSpec => AccountGoesWhole
<1>1. AccountInit => DeletionInv
  BY DeletionInit DEF AccountInit
<1>2. DeletionInv /\ [AccountNext]_<<part, vars, accountVars>> => DeletionInv'
  BY DeletionStep
<1>3. DeletionInv => D!TypeOK /\ D!NothingNamedRemains
  BY DeletedIsClean DEF DeletionInv
<1>4. DeletionInv /\ [AccountNext]_<<part, vars, accountVars>> => [KeptStep]_(D!aVars)
  BY StepKeeps DEF AccountNext, accountVars, D!aVars
<1> QED
  BY <1>1, <1>2, <1>3, <1>4, PTL DEF AccountSpec, AccountGoesWhole, D!KeptUntilGone, KeptStep

(* Beside a deletion the sign-in moves as AuthSessions says, so that its     *)
(* theorems are about what MCAccount runs (api/v1/auth.py).                  *)
THEOREM SignInStands == AccountSpec => Spec
<1>1. AccountInit => Init
  BY DEF AccountInit
<1>2. [AccountNext]_<<part, vars, accountVars>> => [Next]_vars
  BY DEF AccountNext
<1> QED
  BY <1>1, <1>2, PTL DEF AccountSpec, Spec
=============================================================================
