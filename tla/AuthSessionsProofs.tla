------------------------- MODULE AuthSessionsProofs -------------------------
(***************************************************************************)
(* Proofs about AuthSessions, for any callers, requests, tabs and bounds.  *)
(***************************************************************************)
EXTENDS AuthSessions, FiniteSetTheorems, TLAPS

-----------------------------------------------------------------------------
(* Types *)

TabRecord ==
    [pc : {"start", "drop", "login", "issue", "shown", "leave", "clear"},
     sent : Tokens \cup {None}, rt : Tokens \cup {None}, live : BOOLEAN,
     role : Roles \cup {None}, stale : BOOLEAN, persisted : BOOLEAN,
     had : Tokens \cup {None}, left : Tokens \cup {None}]

AccountTypes ==
    /\ users \in [Logins -> Roles \cup {None}]
    /\ creds \subseteq Logins /\ ident \in Logins \cup {None} /\ dead \subseteq Logins
    /\ call \in [Callers -> [kind : Kinds, login : Logins \cup {None},
                             pc : {"check", "create", "link", "ok", "refused", "raised"}]]
    /\ \A c \in Callers : call[c].pc \in {"create", "link"} => call[c].login \in Logins

TokenTypes ==
    /\ token \in [Tokens -> {"none", "active", "dead"}]
    /\ parent \in [Tokens -> Tokens \cup {None}]
    /\ held \in Tokens /\ raced \subseteq Tokens
    /\ client \in [Clients -> [pc : {"idle", "revoke", "issue"}, rt : Tokens \cup {None}]]
    /\ \A c \in Clients : client[c].pc # "idle" => client[c].rt \in Tokens

TabTypes ==
    /\ cookie \in Tokens \cup {None} /\ writer \in Tabs \cup {None}
    /\ tab \in [Tabs -> TabRecord]
    /\ role \in Roles /\ roles \in 0..MaxRoles /\ out \in BOOLEAN

Typed ==
    /\ part \in {"accounts", "client", "tabs"}
    /\ AccountTypes /\ TokenTypes /\ TabTypes

LEMMA TypedInit == Init => Typed
<1> SUFFICES ASSUME Init PROVE Typed
  OBVIOUS
<1> USE ConstantsAssumption DEF Init
<1>1. AccountTypes
  BY DEF AccountTypes, Kinds
<1>2. TokenTypes
  BY DEF TokenTypes, Tokens
<1>3. TabTypes
  <2>1. Fresh(None, None) \in TabRecord
    BY DEF Fresh, TabRecord
  <2>2. tab \in [Tabs -> TabRecord]
    BY <2>1
  <2>3. role \in Roles /\ roles \in 0..MaxRoles
    BY DEF Roles
  <2>4. QED
    BY <2>2, <2>3 DEF TabTypes
<1>4. QED
  BY <1>1, <1>2, <1>3 DEF Typed

\* A token that is issued is one of those that were not.
LEMMA FreshToken ==
    ASSUME TokenTypes, Unused # {}
    PROVE  Next1 \in Tokens /\ token[Next1] = "none"
BY DEF Unused, Next1

LEMMA AccountTypesStep ==
    ASSUME AccountTypes, NEW c \in Callers, Accounting(c)
    PROVE  AccountTypes'
<1> USE ConstantsAssumption DEF AccountTypes
<1>1. CASE Check(c)
  <2>1. call[c].kind \in Kinds
    OBVIOUS
  <2>2. CASE call[c].kind = "oidc"
    <3>1. CASE ident # None
      BY <1>1, <2>2, <3>1 DEF Check, At
    <3>2. CASE ident = None
      <4>1. PICK l \in Logins : Go(c, l)
        BY <1>1, <2>2, <3>2 DEF Check, Logins
      <4>2. QED
        BY <1>1, <4>1 DEF Check, Go
    <3>3. QED
      BY <3>1, <3>2
  <2>3. CASE call[c].kind = "register"
    BY <1>1, <2>3 DEF Check, At, End, Go, Taken, Logins
  <2>4. CASE call[c].kind = "admin"
    BY <1>1, <2>4 DEF Check, At, End, Go, Taken
  <2>5. QED
    BY <2>1, <2>2, <2>3, <2>4 DEF Kinds
<1>2. CASE Create(c)
  BY <1>2 DEF Create, At, End, Taken, RoleOf, Roles
<1>3. CASE Link(c)
  BY <1>3 DEF Link, At, End
<1>4. CASE SetPassword(c)
  BY <1>4 DEF SetPassword, At, End
<1>5. CASE Die(c)
  BY <1>5 DEF Die, At, End
<1>6. QED
  BY <1>1, <1>2, <1>3, <1>4, <1>5 DEF Accounting

LEMMA RotatingTypes ==
    ASSUME TokenTypes, NEW c \in Clients, Rotating(c)
    PROVE  TokenTypes'
<1> USE DEF TokenTypes
<1>1. CASE ReadOld(c)
  <2>1. raced' \subseteq Tokens
    BY <1>1 DEF ReadOld
  <2>2. client' = [client EXCEPT ![c] = [pc |-> "revoke", rt |-> held]] /\ UNCHANGED <<tokens, held>>
    BY <1>1 DEF ReadOld
  <2>3. QED
    BY <2>1, <2>2 DEF tokens
<1>2. CASE RevokeOld(c)
  BY <1>2 DEF RevokeOld
<1>3. CASE IssueNew(c)
  BY <1>3, FreshToken DEF IssueNew
<1>4. QED
  BY <1>1, <1>2, <1>3 DEF Rotating

\* A step of a tab, or a change of the user's role.
TabStep(t) == Reload(t) \/ SignIn(t) \/ Running(t) \/ Persist(t) \/ ExpireAccess(t) \/ Logout(t)

LEMMA SetTyped ==
    ASSUME tab \in [Tabs -> TabRecord], NEW t \in Tabs, NEW r \in TabRecord, Set(t, r)
    PROVE  tab' \in [Tabs -> TabRecord]
BY DEF Set

\* A tab's record with other values in its fields.
LEMMA FieldsTyped ==
    ASSUME NEW r \in TabRecord
    PROVE  /\ \A pc \in {"drop", "login", "clear"} : [r EXCEPT !.pc = pc] \in TabRecord
           /\ \A n \in Tokens \cup {None} : Applied(r, n) \in TabRecord
           /\ \A n \in Tokens, k \in Roles :
                [r EXCEPT !.pc = "issue", !.rt = n, !.role = k, !.stale = FALSE] \in TabRecord
           /\ \A k \in Roles :
                [r EXCEPT !.pc = "issue", !.role = k, !.stale = FALSE, !.had = None, !.left = None]
                  \in TabRecord
           /\ [r EXCEPT !.pc = "leave", !.live = FALSE, !.left = r.rt] \in TabRecord
           /\ [r EXCEPT !.pc = "start", !.rt = None, !.role = None, !.stale = FALSE] \in TabRecord
           /\ [r EXCEPT !.persisted = TRUE] \in TabRecord
           /\ [r EXCEPT !.live = FALSE] \in TabRecord
           /\ [r EXCEPT !.stale = TRUE] \in TabRecord
           /\ r.rt \in Tokens \cup {None} /\ r.sent \in Tokens \cup {None}
<1> USE DEF TabRecord
<1>1. \A pc \in {"drop", "login", "clear"} : [r EXCEPT !.pc = pc] \in TabRecord
  OBVIOUS
<1>2. \A n \in Tokens \cup {None} : Applied(r, n) \in TabRecord
  BY DEF Applied
<1>3. \A n \in Tokens, k \in Roles :
        [r EXCEPT !.pc = "issue", !.rt = n, !.role = k, !.stale = FALSE] \in TabRecord
  OBVIOUS
<1>4. \A k \in Roles :
        [r EXCEPT !.pc = "issue", !.role = k, !.stale = FALSE, !.had = None, !.left = None]
          \in TabRecord
  OBVIOUS
<1>5. [r EXCEPT !.pc = "leave", !.live = FALSE, !.left = r.rt] \in TabRecord
  OBVIOUS
<1>6. [r EXCEPT !.pc = "start", !.rt = None, !.role = None, !.stale = FALSE] \in TabRecord
  OBVIOUS
<1>7. /\ [r EXCEPT !.persisted = TRUE] \in TabRecord
      /\ [r EXCEPT !.live = FALSE] \in TabRecord
      /\ [r EXCEPT !.stale = TRUE] \in TabRecord
  OBVIOUS
<1>8. r.rt \in Tokens \cup {None} /\ r.sent \in Tokens \cup {None}
  OBVIOUS
<1>9. QED
  BY <1>1, <1>2, <1>3, <1>4, <1>5, <1>6, <1>7, <1>8

LEMMA TabTypesStep ==
    ASSUME TokenTypes, TabTypes, NEW t \in Tabs, TabStep(t)
    PROVE  TokenTypes' /\ TabTypes'
<1> USE ConstantsAssumption DEF TabTypes
<1>1. tab[t] \in TabRecord
  OBVIOUS
<1>2. CASE Reload(t)
  <2>1. [Fresh(cookie, None) EXCEPT
           !.had = IF tab[t].persisted /\ writer = t THEN tab[t].rt ELSE None] \in TabRecord
    BY <1>1 DEF TabRecord, Fresh
  <2>2. QED
    BY <1>2, <2>1, SetTyped DEF Reload, tokens, clients, browser, TokenTypes
<1>3. CASE SignIn(t)
  BY <1>3, <1>1, FieldsTyped, SetTyped DEF SignIn, UsersRole, tokens, clients, browser, TokenTypes
<1>4. CASE Start(t)
  <2>1. Cookie(t) # None => Cookie(t) \in Tokens
    BY <1>1, FieldsTyped DEF Cookie
  <2>2. tab' \in [Tabs -> TabRecord]
    BY <1>4, <1>1, <2>1, FieldsTyped, SetTyped DEF Start, UsersRole
  <2>3. QED
    BY <1>4, <2>2 DEF Start, tokens, clients, browser, TokenTypes
<1>5. CASE Drop(t)
  BY <1>5, <1>1, FieldsTyped, SetTyped DEF Drop, tokens, clients, TokenTypes
<1>6. CASE Issue(t)
  <2>1. tab[t].rt \in Tokens \cup {None}
    BY <1>1, FieldsTyped
  <2>2. CASE tab[t].rt # None
    BY <1>1, <1>6, <2>1, <2>2, FieldsTyped, SetTyped DEF Issue, clients, browser, TokenTypes
  <2>3. CASE tab[t].rt = None
    <3>1. Next1 \in Tokens
      BY <1>6, <2>3, FreshToken DEF Issue
    <3>2. tab' \in [Tabs -> TabRecord]
      BY <1>1, <1>6, <2>3, <3>1, FieldsTyped, SetTyped DEF Issue
    <3>3. token' \in [Tokens -> {"none", "active", "dead"}] /\ out' = FALSE
      BY <1>6, <2>3, <3>1 DEF Issue, TokenTypes
    <3>4. QED
      BY <1>6, <3>2, <3>3 DEF Issue, clients, browser, TokenTypes
  <2>4. QED
    BY <2>2, <2>3
<1>7. CASE RevokeUser(t)
  <2>1. token' \in [Tokens -> {"none", "active", "dead"}]
    BY <1>7 DEF RevokeUser, TokenTypes
  <2>2. QED
    BY <1>1, <1>7, <2>1, FieldsTyped, SetTyped DEF RevokeUser, clients, browser, TokenTypes
<1>8. CASE Clear(t)
  BY <1>1, <1>8, FieldsTyped, SetTyped DEF Clear, tokens, clients, TokenTypes
<1>9. CASE Persist(t)
  BY <1>1, <1>9, FieldsTyped, SetTyped DEF Persist, tokens, clients, TokenTypes
<1>10. CASE ExpireAccess(t)
  BY <1>1, <1>10, FieldsTyped, SetTyped DEF ExpireAccess, tokens, clients, browser, TokenTypes
<1>11. CASE Logout(t)
  <2>1. tab' \in [Tabs -> TabRecord]
    BY <1>1, <1>11, FieldsTyped, SetTyped DEF Logout
  <2>2. QED
    BY <1>11, <2>1 DEF Logout, tokens, clients, browser, TokenTypes
<1>12. QED
  BY <1>2, <1>3, <1>4, <1>5, <1>6, <1>7, <1>8, <1>9, <1>10, <1>11 DEF TabStep, Running

LEMMA RoleTypes ==
    ASSUME TabTypes, SetRole
    PROVE  TabTypes'
<1>1. tab' \in [Tabs -> TabRecord]
  BY FieldsTyped DEF TabTypes, SetRole
<1>2. role' \in Roles /\ roles' \in 0..MaxRoles
  BY ConstantsAssumption DEF TabTypes, SetRole
<1>3. QED
  BY <1>1, <1>2 DEF TabTypes, SetRole, browser

\* What each kind of step leaves alone.
LEMMA Frames ==
    /\ \A c \in Callers : Accounting(c) => UNCHANGED <<part, tokens, clients, browser, role, roles, tab, out>>
    /\ \A c \in Clients : Rotating(c) => UNCHANGED <<part, accounts, browser, role, roles, tab, out>>
    /\ \A n \in Tokens : ExpireToken(n) => UNCHANGED <<part, accounts, parent, clients, browser, role, roles, tab, out>>
    /\ \A t \in Tabs : TabStep(t) => UNCHANGED <<part, accounts, parent, clients, role, roles>>
    /\ SetRole => UNCHANGED <<part, accounts, tokens, clients, browser, out>>
BY DEF Accounting, Check, Create, Link, SetPassword, Die, Rotating, ReadOld, RevokeOld,
       IssueNew, ExpireToken, TabStep, Reload, SignIn, Running, Start, Drop, Issue,
       RevokeUser, Clear, Persist, ExpireAccess, Logout, SetRole, accounts, tokens, clients, browser

LEMMA TypedStep == Typed /\ [Next]_vars => Typed'
<1> SUFFICES ASSUME Typed, [Next]_vars PROVE Typed'
  OBVIOUS
<1> USE DEF Typed
<1>1. ASSUME NEW c \in Callers, Accounting(c) PROVE Typed'
  BY <1>1, Frames, AccountTypesStep DEF TokenTypes, TabTypes, tokens, clients, browser
<1>2. ASSUME NEW c \in Clients, Rotating(c) PROVE Typed'
  BY <1>2, Frames, RotatingTypes DEF AccountTypes, TabTypes, accounts, browser
<1>3. ASSUME NEW n \in Tokens, ExpireToken(n) PROVE Typed'
  <2>1. token' \in [Tokens -> {"none", "active", "dead"}]
    BY <1>3 DEF ExpireToken, TokenTypes
  <2>2. QED
    BY <1>3, <2>1, Frames DEF AccountTypes, TokenTypes, TabTypes, accounts, clients, browser
<1>4. ASSUME NEW t \in Tabs, TabStep(t) PROVE Typed'
  BY <1>4, Frames, TabTypesStep DEF AccountTypes, accounts
<1>5. CASE SetRole
  BY <1>5, Frames, RoleTypes DEF AccountTypes, TokenTypes, accounts, tokens, clients
<1>6. CASE UNCHANGED vars
  BY <1>6 DEF vars, AccountTypes, TokenTypes, TabTypes, accounts, tokens, clients, browser
<1>7. QED
  BY <1>1, <1>2, <1>3, <1>4, <1>5, <1>6 DEF Next, TabStep

LEMMA TypedHolds == Spec => []Typed
BY TypedInit, TypedStep, PTL DEF Spec

\* Type correctness of accounts, tokens, requests and tabs (auth/service.py,
\* frontend/session.py).
THEOREM TypeCorrect == Spec => []TypeOK
<1>1. Typed => TypeOK
  BY DEF Typed, AccountTypes, TokenTypes, TabTypes, TabRecord, TypeOK
<1>2. QED
  BY TypedHolds, <1>1, PTL

-----------------------------------------------------------------------------
(* Accounts *)

\* An identity, once linked, stays with its user; and the OIDC callers that
\* succeed are that user.
Linked == \A c \in Callers :
    call[c].kind = "oidc" /\ call[c].pc = "ok" => ident # None /\ call[c].login = ident

LEMMA AccountsStep ==
    Typed /\ Linked /\ HalfMadeExplained /\ [Next]_vars => Linked' /\ HalfMadeExplained'
<1> SUFFICES ASSUME Typed, Linked, HalfMadeExplained, [Next]_vars
             PROVE  Linked' /\ HalfMadeExplained'
  OBVIOUS
<1> USE ConstantsAssumption DEF Typed, AccountTypes, Linked, HalfMadeExplained, Taken
<1>1. CASE UNCHANGED accounts
  BY <1>1 DEF accounts
<1>2. ASSUME NEW c \in Callers, Check(c) PROVE Linked' /\ HalfMadeExplained'
  <2>1. call'[c].kind = call[c].kind /\ \A d \in Callers : d # c => call'[d] = call[d]
    <3>1. ASSUME (\E pc : End(c, pc)) \/ (\E l : Go(c, l))
          PROVE  call'[c].kind = call[c].kind /\ \A d \in Callers : d # c => call'[d] = call[d]
      BY <3>1 DEF End, Go
    <3>2. CASE call[c].kind = "oidc" /\ ident # None
      BY <1>2, <3>2 DEF Check
    <3>3. CASE call[c].kind = "oidc" /\ ident = None
      BY <1>2, <3>1, <3>3 DEF Check
    <3>4. CASE call[c].kind = "register"
      BY <1>2, <3>1, <3>4 DEF Check
    <3>5. CASE call[c].kind = "admin"
      BY <1>2, <3>1, <3>5 DEF Check
    <3>6. QED
      BY <3>2, <3>3, <3>4, <3>5 DEF Kinds
  <2>2. UNCHANGED <<users, creds, ident, dead>>
    BY <1>2 DEF Check
  <2>3. call[c].pc = "check"
    BY <1>2 DEF Check, At
  <2>4. call'[c].kind = "oidc" /\ call'[c].pc = "ok" => ident # None /\ call'[c].login = ident
    <3>1. CASE call[c].kind = "oidc" /\ ident # None
      BY <1>2, <3>1 DEF Check
    <3>2. CASE call[c].kind = "oidc" /\ ident = None
      <4>1. PICK l \in Logins : Go(c, l)
        BY <1>2, <3>2 DEF Check, Logins
      <4>2. QED
        BY <4>1 DEF Go
    <3>3. QED
      BY <2>1, <3>1, <3>2
  <2>5. QED
    BY <2>1, <2>2, <2>3, <2>4
<1>3. ASSUME NEW c \in Callers, Create(c) PROVE Linked' /\ HalfMadeExplained'
  <2>1. /\ \A d \in Callers : d # c => call'[d] = call[d]
        /\ call'[c].kind = call[c].kind /\ call'[c].login = call[c].login
        /\ call[c].pc = "create" /\ call'[c].pc \in {"raised", "link"}
        /\ UNCHANGED <<creds, ident, dead>>
    BY <1>3 DEF Create, At, End
  <2>2. \/ users' = users
        \/ call'[c].pc = "link" /\ \A l \in Logins : l # call[c].login => users'[l] = users[l]
    BY <1>3 DEF Create, End
  <2>3. QED
    BY <2>1, <2>2
<1>4. ASSUME NEW c \in Callers, Link(c) PROVE Linked' /\ HalfMadeExplained'
  <2>1. /\ \A d \in Callers : d # c => call'[d] = call[d]
        /\ call'[c].kind = call[c].kind /\ call'[c].login = call[c].login
        /\ call[c].pc = "link" /\ call'[c].pc \in {"ok", "raised"}
        /\ UNCHANGED <<creds, users>>
    BY <1>4 DEF Link, At, End
  <2>2. \/ ident = None /\ ident' = call[c].login /\ dead' = dead
        \/ ident # None /\ ident' = ident /\ dead' = dead \cup {call[c].login} /\ call'[c].pc = "raised"
    BY <1>4 DEF Link, End
  <2>3. QED
    BY <2>1, <2>2
<1>5. ASSUME NEW c \in Callers, SetPassword(c) PROVE Linked' /\ HalfMadeExplained'
  <2>1. /\ \A d \in Callers : d # c => call'[d] = call[d]
        /\ call'[c].kind = call[c].kind /\ call[c].kind # "oidc"
        /\ creds' = creds \cup {call[c].login}
        /\ UNCHANGED <<users, ident, dead>>
    BY <1>5 DEF SetPassword, At, End
  <2>2. QED
    BY <2>1
<1>6. ASSUME NEW c \in Callers, Die(c) PROVE Linked' /\ HalfMadeExplained'
  <2>1. /\ \A d \in Callers : d # c => call'[d] = call[d]
        /\ call'[c].kind = call[c].kind /\ call'[c].pc = "raised"
        /\ dead' = dead \cup {call[c].login}
        /\ UNCHANGED <<users, creds, ident>>
    BY <1>6 DEF Die, At, End
  <2>2. QED
    BY <2>1
<1>7. QED
  BY <1>1, <1>2, <1>3, <1>4, <1>5, <1>6, Frames DEF Next, Accounting, TabStep, accounts, vars

LEMMA AccountsHold == Spec => [](Linked /\ HalfMadeExplained)
<1>1. Init => Linked /\ HalfMadeExplained
  BY DEF Init, Linked, HalfMadeExplained, Taken
<1>2. QED
  BY TypedHolds, <1>1, AccountsStep, PTL DEF Spec

\* A user whom nothing lets in is being made, or its maker has failed between
\* its two commits (register, login_oidc, ensure_admin).
THEOREM HalfMadeExplainedHolds == Spec => []HalfMadeExplained
BY AccountsHold, PTL

\* All the overlapping first sign-ins with one OIDC account that succeed are
\* one user (login_oidc, service.py:87).
THEOREM OneSubjectOneUserHolds == Spec => []OneSubjectOneUser
<1>1. Linked => OneSubjectOneUser
  BY DEF Linked, OneSubjectOneUser
<1>2. QED
  BY AccountsHold, <1>1, PTL

-----------------------------------------------------------------------------
(* Rotation *)

\* A token that was exchanged is dead, and two exchanges of one were a race.
Rotated ==
    /\ \A n \in Tokens : parent[n] # None => token[parent[n]] = "dead"
    /\ \A k, n \in Tokens : parent[k] # None /\ parent[k] = parent[n] /\ k # n => parent[k] \in raced
    /\ \A c \in Clients : client[c].pc = "issue" => token[client[c].rt] = "dead"
    /\ \A c \in Clients, n \in Tokens :
         client[c].pc # "idle" /\ parent[n] = client[c].rt => client[c].rt \in raced
    /\ \A c, d \in Clients :
         client[c].pc # "idle" /\ client[d].pc # "idle" /\ c # d /\ client[c].rt = client[d].rt
           => client[c].rt \in raced

\* No token comes back.
LEMMA DeadStays ==
    ASSUME Typed, [Next]_vars
    PROVE  \A n \in Tokens : /\ token[n] = "dead" => token'[n] = "dead"
                             /\ token[n] # "none" => token'[n] # "none"
                             /\ token[n] # "none" /\ token[n] # "active" => token'[n] # "active"
<1> USE DEF Typed, TokenTypes
<1>1. CASE UNCHANGED token
  BY <1>1
<1>2. ASSUME Unused # {}, token' = [token EXCEPT ![Next1] = "active"]
      PROVE  \A n \in Tokens : token'[n] = token[n] \/ token[n] = "none"
  BY <1>2, FreshToken
<1>3. CASE \E c \in Clients : Rotating(c)
  BY <1>2, <1>3 DEF Rotating, ReadOld, RevokeOld, IssueNew, tokens
<1>4. CASE \E t \in Tabs : Issue(t)
  BY <1>2, <1>4 DEF Issue
<1>5. CASE \E t \in Tabs : RevokeUser(t)
  BY <1>5 DEF RevokeUser
<1>6. CASE \E n \in Tokens : ExpireToken(n)
  BY <1>6 DEF ExpireToken
<1>7. QED
  BY <1>1, <1>3, <1>4, <1>5, <1>6, Frames
     DEF Next, Running, Reload, SignIn, Start, Drop, Clear, Persist, ExpireAccess, Logout, tokens, vars

LEMMA RotatedStep == Typed /\ Rotated /\ [Next]_vars => Rotated'
<1> SUFFICES ASSUME Typed, Rotated, [Next]_vars PROVE Rotated'
  OBVIOUS
<1> USE ConstantsAssumption DEF Typed, TokenTypes, Rotated
<1>1. \A n \in Tokens : token[n] = "dead" => token'[n] = "dead"
  BY DeadStays
<1>2. None \notin Tokens
  BY DEF Tokens
<1>3. CASE UNCHANGED <<parent, clients>>
  BY <1>1, <1>3 DEF clients
<1>4. ASSUME NEW c \in Clients, ReadOld(c) PROVE Rotated'
  <2>1. /\ client[c].pc = "idle" /\ token[held] = "active" /\ UNCHANGED <<token, parent>>
        /\ client' = [client EXCEPT ![c] = [pc |-> "revoke", rt |-> held]]
        /\ raced \subseteq raced'
    BY <1>4 DEF ReadOld, tokens
  <2>2. \A d \in Clients : client[d].pc # "idle" /\ client[d].rt = held => held \in raced'
    BY <1>4 DEF ReadOld
  <2>3. \A n \in Tokens : parent[n] # held
    BY <1>2, <2>1
  <2>4. /\ client'[c] = [pc |-> "revoke", rt |-> held]
        /\ \A d \in Clients : d # c => client'[d] = client[d]
    BY <2>1
  <2>5. QED
    BY <1>2, <2>1, <2>2, <2>3, <2>4
<1>5. ASSUME NEW c \in Clients, RevokeOld(c) PROVE Rotated'
  <2>1. /\ client[c].pc = "revoke" /\ UNCHANGED <<parent, raced>>
        /\ client' = [client EXCEPT ![c].pc = "issue"]
        /\ token'[client[c].rt] = "dead"
    BY <1>5 DEF RevokeOld
  <2>2. /\ client'[c].pc = "issue" /\ client'[c].rt = client[c].rt
        /\ \A d \in Clients : d # c => client'[d] = client[d]
    BY <2>1
  <2>3. QED
    BY <1>1, <1>2, <2>1, <2>2
<1>6. ASSUME NEW c \in Clients, IssueNew(c) PROVE Rotated'
  <2> DEFINE old == client[c].rt
  <2>1. /\ client[c].pc = "issue" /\ raced' = raced
        /\ parent' = [parent EXCEPT ![Next1] = old]
        /\ client' = [client EXCEPT ![c] = [pc |-> "idle", rt |-> None]]
        /\ Next1 \in Tokens /\ token[Next1] = "none"
    BY <1>6, FreshToken DEF IssueNew
  <2>2. old \in Tokens /\ token[old] = "dead"
    BY <2>1
  <2>3. /\ client'[c].pc = "idle"
        /\ \A d \in Clients : d # c => client'[d] = client[d]
    BY <2>1
  <2>4. parent'[Next1] = old /\ \A n \in Tokens : n # Next1 => parent'[n] = parent[n]
    BY <2>1
  <2>5. \A n \in Tokens : parent[n] = old => old \in raced
    BY <2>1
  <2>6. \A d \in Clients : client[d].pc # "idle" /\ d # c /\ client[d].rt = old => old \in raced
    BY <2>1
  <2>7. QED
    BY <1>1, <1>2, <2>1, <2>2, <2>3, <2>4, <2>5, <2>6
<1>7. QED
  BY <1>3, <1>4, <1>5, <1>6, Frames DEF Next, Rotating, TabStep, tokens, clients, vars

\* A refresh token is exchanged once, but for two requests that read it before
\* either revoked it (refresh, service.py:102).
THEOREM OneSuccessorHolds == Spec => []OneSuccessor
<1>1. Init => Rotated
  BY ConstantsAssumption DEF Init, Rotated
<1>2. Typed /\ Rotated => OneSuccessor
  <2> SUFFICES ASSUME Typed, Rotated, NEW n \in Tokens
               PROVE  /\ Cardinality({k \in Tokens : parent[k] = n}) > 1 => n \in raced
                      /\ parent[n] # None => token[parent[n]] # "active"
    BY DEF OneSuccessor
  <2> DEFINE S == {k \in Tokens : parent[k] = n}
  <2>1. IsFiniteSet(S)
    <3>1. IsFiniteSet(Tokens)
      BY ConstantsAssumption, FS_Interval DEF Tokens
    <3>2. S \subseteq Tokens
      OBVIOUS
    <3>3. QED
      BY <3>1, <3>2, FS_Subset
  <2>2. CASE \E k, m \in S : k # m
    BY <2>2, ConstantsAssumption DEF Rotated, Typed, TokenTypes, Tokens
  <2>3. CASE ~ \E k, m \in S : k # m
    <3>1. S = {} \/ \E k : S = {k}
      BY <2>3
    <3>2. Cardinality(S) = 0 \/ Cardinality(S) = 1
      BY <2>1, <3>1, FS_EmptySet, FS_Singleton
    <3>3. QED
      BY <3>2 DEF Rotated
  <2>4. QED
    BY <2>2, <2>3
<1>3. QED
  BY TypedHolds, <1>1, RotatedStep, <1>2, PTL DEF Spec

-----------------------------------------------------------------------------
(* Tabs *)

\* What holds of a tab with record r, while the tokens are tok, the cookie
\* is ck, written by wr, and the user's role is now.
Fits(t, r, tok, ck, wr, now) ==
    \* It goes by the role that was read with its tokens.
    /\ r.pc \in {"issue", "shown"} /\ ~r.stale => r.role = now
    \* Its tokens were issued.
    /\ r.sent # None => tok[r.sent] # "none"
    /\ r.rt # None => tok[r.rt] # "none"
    /\ r.left # None => tok[r.left] # "none"
    \* What it left is dead when it looks for a session again.
    /\ r.left # None /\ r.pc # "leave" => tok[r.left] = "dead"
    /\ r.left # None /\ r.pc \in {"issue", "shown"} => r.rt # r.left
    \* Reloaded, it looks first at the token it had.
    /\ r.pc \in {"start", "drop", "login"} => r.rt = None
    /\ r.pc = "shown" /\ r.persisted /\ wr = t => ck = r.rt
    /\ r.had # None => r.sent = r.had
    /\ r.had # None /\ r.pc \in {"drop", "login"} => tok[r.had] # "active"

Sessions ==
    /\ cookie # None => token[cookie] # "none"
    /\ \A t \in Tabs : Fits(t, tab[t], token, cookie, writer, role)

\* How tokens may change between two states.
Ages(tok, tok2) ==
    \A n \in Tokens : /\ tok[n] = "dead" => tok2[n] = "dead"
                      /\ tok[n] # "none" => tok2[n] # "none"
                      /\ tok[n] # "none" /\ tok[n] # "active" => tok2[n] # "active"

\* A tab fits still when its tokens have aged.
LEMMA FitsStill ==
    ASSUME NEW t, NEW r \in TabRecord, NEW tok, NEW tok2, Ages(tok, tok2),
           NEW ck, NEW wr, NEW ck2, NEW wr2, <<ck, wr>> = <<ck2, wr2>> \/ wr2 # t,
           NEW now, Fits(t, r, tok, ck, wr, now)
    PROVE  Fits(t, r, tok2, ck2, wr2, now)
<1>1. {r.sent, r.rt, r.had, r.left} \subseteq Tokens \cup {None}
  BY DEF TabRecord
<1>2. QED
  BY <1>1 DEF Ages, Fits

\* It is enough to look at the tab that moves.
LEMMA OneTab ==
    ASSUME Typed, Sessions, [Next]_vars, NEW t \in Tabs, NEW r, Set(t, r),
           role' = role, cookie' # None => token'[cookie'] # "none",
           <<cookie', writer'>> = <<cookie, writer>> \/ writer' = t,
           Fits(t, r, token', cookie', writer', role)
    PROVE  Sessions'
<1>1. tab'[t] = r /\ \A u \in Tabs : u # t => tab'[u] = tab[u]
  BY DEF Set, Typed, TabTypes
<1>2. Ages(token, token')
  BY DeadStays DEF Ages
<1>3. ASSUME NEW u \in Tabs, u # t PROVE Fits(u, tab[u], token', cookie', writer', role)
  <2>1. tab[u] \in TabRecord /\ Fits(u, tab[u], token, cookie, writer, role)
    BY DEF Typed, TabTypes, Sessions
  <2>2. <<cookie', writer'>> = <<cookie, writer>> \/ writer' # u
    BY <1>3
  <2>3. QED
    BY <1>2, <2>1, <2>2, FitsStill
<1>4. QED
  BY <1>1, <1>3 DEF Sessions

LEMMA SessionsInit == Init => Sessions
BY DEF Init, Sessions, Fits, Fresh

LEMMA SessionsStep == Typed /\ Sessions /\ [Next]_vars => Sessions'
<1> SUFFICES ASSUME Typed, Sessions, [Next]_vars PROVE Sessions'
  OBVIOUS
<1>1. Ages(token, token')
  BY DeadStays DEF Ages
<1>2. \A t \in Tabs : tab[t] \in TabRecord /\ Fits(t, tab[t], token, cookie, writer, role)
  BY DEF Typed, TabTypes, Sessions
<1>3. cookie \in Tokens \cup {None} /\ (cookie # None => token'[cookie] # "none")
  BY <1>1 DEF Ages, Typed, TabTypes, Sessions
<1>4. CASE UNCHANGED <<tab, role, browser>>
  BY <1>1, <1>2, <1>3, <1>4, FitsStill DEF Sessions, browser
<1>5. CASE SetRole
  <2>1. UNCHANGED <<tokens, browser>> /\ tab' = [t \in Tabs |-> [tab[t] EXCEPT !.stale = TRUE]]
    BY <1>5 DEF SetRole
  <2>2. ASSUME NEW t \in Tabs PROVE Fits(t, tab'[t], token, cookie, writer, role')
    <3>1. /\ tab'[t].stale /\ tab'[t].pc = tab[t].pc /\ tab'[t].sent = tab[t].sent
          /\ tab'[t].rt = tab[t].rt /\ tab'[t].persisted = tab[t].persisted
          /\ tab'[t].had = tab[t].had /\ tab'[t].left = tab[t].left
      BY <1>2, <2>1 DEF TabRecord
    <3>2. QED
      BY <1>2, <3>1 DEF Fits
  <2>3. QED
    BY <2>1, <2>2 DEF Sessions, tokens, browser
<1>6. ASSUME NEW t \in Tabs, TabStep(t) PROVE Sessions'
  <2> DEFINE old == tab[t]
  <2>1. role' = role
    BY <1>6, Frames
  <2>2. old \in TabRecord /\ Fits(t, old, token, cookie, writer, role)
    BY <1>2
  <2>3. Fits(t, old, token', cookie, writer, role)
    BY <1>1, <2>2, FitsStill
  <2>4. {old.sent, old.rt, old.had, old.left} \subseteq Tokens \cup {None}
    BY <2>2 DEF TabRecord
  <2>5. CASE Reload(t)
    <3> DEFINE q == [Fresh(cookie, None) EXCEPT
                      !.had = IF tab[t].persisted /\ writer = t THEN tab[t].rt ELSE None]
    <3>1. Set(t, q) /\ UNCHANGED <<token, cookie, writer>> /\ old.pc \in {"shown", "login"}
      BY <2>5 DEF Reload, tokens, browser
    <3>2. /\ q.pc = "start" /\ q.sent = cookie /\ q.rt = None /\ q.left = None
          /\ q.had = IF old.persisted /\ writer = t THEN old.rt ELSE None
      BY DEF Fresh
    <3>3. Fits(t, q, token', cookie', writer', role)
      BY <1>3, <2>2, <3>1, <3>2 DEF Fits
    <3>4. QED
      BY <1>3, <2>1, <3>1, <3>3, OneTab
  <2>6. CASE SignIn(t)
    <3> DEFINE q == [tab[t] EXCEPT !.pc = "issue", !.role = UsersRole, !.stale = FALSE,
                                   !.had = None, !.left = None]
    <3>1. Set(t, q) /\ UNCHANGED <<token, cookie, writer>> /\ old.pc = "login"
      BY <2>6 DEF SignIn, In, tokens, browser
    <3>2. /\ q.pc = "issue" /\ q.role = role /\ q.had = None /\ q.left = None
          /\ q.sent = old.sent /\ q.rt = old.rt
      BY <2>2 DEF TabRecord, UsersRole
    <3>3. Fits(t, q, token', cookie', writer', role)
      BY <2>3, <3>1, <3>2 DEF Fits
    <3>4. QED
      BY <1>3, <2>1, <3>1, <3>3, OneTab
  <2>7. CASE Start(t)
    <3>1. UNCHANGED <<token, cookie, writer>> /\ old.pc = "start"
      BY <2>7 DEF Start, In, tokens, browser
    <3>2. old.had # None => Cookie(t) = old.had /\ Cookie(t) # None
      BY <2>2 DEF Cookie, Fits
    <3>3. CASE Cookie(t) = None
      <4> DEFINE q == [tab[t] EXCEPT !.pc = "login"]
      <4>1. Set(t, q)
        BY <2>7, <3>3 DEF Start
      <4>2. /\ q.pc = "login" /\ q.sent = old.sent /\ q.rt = old.rt /\ q.had = old.had
            /\ q.left = old.left
        BY <2>2 DEF TabRecord
      <4>3. Fits(t, q, token', cookie', writer', role)
        BY <2>3, <3>1, <3>2, <3>3, <4>2 DEF Fits
      <4>4. QED
        BY <1>3, <2>1, <3>1, <4>1, <4>3, OneTab
    <3>4. CASE Cookie(t) # None /\ ~Restorable(Cookie(t))
      <4> DEFINE q == [tab[t] EXCEPT !.pc = "drop"]
      <4>1. Set(t, q)
        BY <2>7, <3>4 DEF Start
      <4>2. /\ q.pc = "drop" /\ q.sent = old.sent /\ q.rt = old.rt /\ q.had = old.had
            /\ q.left = old.left
        BY <2>2 DEF TabRecord
      <4>3. Fits(t, q, token', cookie', writer', role)
        BY <2>3, <3>1, <3>2, <3>4, <4>2 DEF Fits, Restorable
      <4>4. QED
        BY <1>3, <2>1, <3>1, <4>1, <4>3, OneTab
    <3>5. CASE Cookie(t) # None /\ Restorable(Cookie(t))
      <4> DEFINE q == [tab[t] EXCEPT !.pc = "issue", !.rt = Cookie(t), !.role = UsersRole, !.stale = FALSE]
      <4>1. Set(t, q)
        BY <2>7, <3>5 DEF Start
      <4>2. /\ q.pc = "issue" /\ q.role = role /\ q.rt = Cookie(t) /\ q.sent = old.sent
            /\ q.had = old.had /\ q.left = old.left
        BY <2>2 DEF TabRecord, UsersRole
      <4>3. token[Cookie(t)] = "active"
        BY <3>5 DEF Restorable
      <4>4. Fits(t, q, token', cookie', writer', role)
        BY <2>3, <3>1, <4>2, <4>3 DEF Fits
      <4>5. QED
        BY <1>3, <2>1, <3>1, <4>1, <4>4, OneTab
    <3>6. QED
      BY <3>3, <3>4, <3>5
  <2>8. CASE Drop(t)
    <3> DEFINE q == [tab[t] EXCEPT !.pc = "login"]
    <3>1. Set(t, q) /\ token' = token /\ cookie' = None /\ writer' = t /\ old.pc = "drop"
      BY <2>8 DEF Drop, In, tokens
    <3>2. /\ q.pc = "login" /\ q.sent = old.sent /\ q.rt = old.rt /\ q.had = old.had
          /\ q.left = old.left
      BY <2>2 DEF TabRecord
    <3>3. Fits(t, q, token', cookie', writer', role)
      BY <2>3, <3>1, <3>2 DEF Fits
    <3>4. QED
      BY <2>1, <3>1, <3>3, OneTab
  <2>9. CASE Issue(t)
    <3> DEFINE n == IF tab[t].rt = None THEN Next1 ELSE tab[t].rt
               q == Applied(tab[t], n)
    <3>1. Set(t, q) /\ UNCHANGED <<cookie, writer>> /\ old.pc = "issue"
      BY <2>9 DEF Issue, In, browser
    <3>2. CASE old.rt = None
      <4>1. Next1 \in Tokens /\ token[Next1] = "none" /\ token'[Next1] = "active"
        BY <2>9, <3>2, FreshToken DEF Issue, Typed, TokenTypes
      <4>2. /\ q.pc = "shown" /\ q.rt = Next1 /\ ~q.persisted /\ q.role = old.role
            /\ q.stale = old.stale /\ q.sent = old.sent /\ q.had = old.had /\ q.left = old.left
        BY <2>2, <3>2 DEF Applied, TabRecord
      <4>3. Fits(t, q, token', cookie', writer', role)
        BY <2>2, <2>3, <3>1, <4>1, <4>2 DEF Fits
      <4>4. QED
        BY <1>3, <2>1, <3>1, <4>3, OneTab
    <3>3. CASE old.rt # None
      <4>1. /\ q.pc = "shown" /\ q.rt = old.rt /\ ~q.persisted /\ q.role = old.role
            /\ q.stale = old.stale /\ q.sent = old.sent /\ q.had = old.had /\ q.left = old.left
        BY <2>2, <3>3 DEF Applied, TabRecord
      <4>2. Fits(t, q, token', cookie', writer', role)
        BY <2>3, <3>1, <4>1 DEF Fits
      <4>3. QED
        BY <1>3, <2>1, <3>1, <4>2, OneTab
    <3>4. QED
      BY <3>2, <3>3
  <2>10. CASE RevokeUser(t)
    <3> DEFINE q == [tab[t] EXCEPT !.pc = "clear"]
    <3>1. Set(t, q) /\ UNCHANGED <<cookie, writer>>
      BY <2>10 DEF RevokeUser, browser
    <3>2. \A k \in Tokens : token[k] # "none" => token'[k] = "dead"
      BY <2>10 DEF RevokeUser, Typed, TokenTypes
    <3>3. /\ q.pc = "clear" /\ q.sent = old.sent /\ q.rt = old.rt /\ q.had = old.had
          /\ q.left = old.left
      BY <2>2 DEF TabRecord
    <3>4. Fits(t, q, token', cookie', writer', role)
      BY <2>2, <2>4, <3>1, <3>2, <3>3 DEF Fits
    <3>5. QED
      BY <1>3, <2>1, <3>1, <3>4, OneTab
  <2>11. CASE Clear(t)
    <3> DEFINE q == [tab[t] EXCEPT !.pc = "start", !.rt = None, !.role = None, !.stale = FALSE]
    <3>1. Set(t, q) /\ token' = token /\ cookie' = None /\ writer' = t /\ old.pc = "clear"
      BY <2>11 DEF Clear, In, tokens
    <3>2. /\ q.pc = "start" /\ q.rt = None /\ q.sent = old.sent /\ q.had = old.had
          /\ q.left = old.left
      BY <2>2 DEF TabRecord
    <3>3. Fits(t, q, token', cookie', writer', role)
      BY <2>3, <3>1, <3>2 DEF Fits
    <3>4. QED
      BY <2>1, <3>1, <3>3, OneTab
  <2>12. CASE Persist(t)
    <3> DEFINE q == [tab[t] EXCEPT !.persisted = TRUE]
    <3>1. Set(t, q) /\ token' = token /\ cookie' = old.rt /\ writer' = t /\ old.pc = "shown"
      BY <2>12 DEF Persist, In, tokens
    <3>2. /\ q.pc = "shown" /\ q.rt = old.rt /\ q.sent = old.sent /\ q.had = old.had
          /\ q.left = old.left /\ q.role = old.role /\ q.stale = old.stale
      BY <2>2, <3>1 DEF TabRecord
    <3>3. Fits(t, q, token', cookie', writer', role) /\ (cookie' # None => token'[cookie'] # "none")
      BY <2>3, <3>1, <3>2 DEF Fits
    <3>4. QED
      BY <2>1, <3>1, <3>3, OneTab
  <2>13. CASE ExpireAccess(t)
    <3> DEFINE q == [tab[t] EXCEPT !.live = FALSE]
    <3>1. Set(t, q) /\ UNCHANGED <<token, cookie, writer>>
      BY <2>13 DEF ExpireAccess, tokens, browser
    <3>2. /\ q.pc = old.pc /\ q.rt = old.rt /\ q.sent = old.sent /\ q.had = old.had
          /\ q.left = old.left /\ q.role = old.role /\ q.stale = old.stale
          /\ q.persisted = old.persisted
      BY <2>2 DEF TabRecord
    <3>3. Fits(t, q, token', cookie', writer', role)
      BY <2>3, <3>1, <3>2 DEF Fits
    <3>4. QED
      BY <1>3, <2>1, <3>1, <3>3, OneTab
  <2>14. CASE Logout(t)
    <3>1. UNCHANGED <<token, cookie, writer>> /\ old.pc = "shown"
      BY <2>14 DEF Logout, In, tokens, browser
    <3>2. CASE old.live
      <4> DEFINE q == [tab[t] EXCEPT !.pc = "leave", !.live = FALSE, !.left = tab[t].rt]
      <4>1. Set(t, q)
        BY <2>14, <3>2 DEF Logout
      <4>2. /\ q.pc = "leave" /\ q.rt = old.rt /\ q.sent = old.sent /\ q.had = old.had
            /\ q.left = old.rt
        BY <2>2 DEF TabRecord
      <4>3. Fits(t, q, token', cookie', writer', role)
        BY <2>3, <3>1, <4>2 DEF Fits
      <4>4. QED
        BY <1>3, <2>1, <3>1, <4>1, <4>3, OneTab
    <3>3. CASE ~old.live
      <4> DEFINE q == [tab[t] EXCEPT !.pc = "clear"]
      <4>1. Set(t, q)
        BY <2>14, <3>3 DEF Logout
      <4>2. /\ q.pc = "clear" /\ q.rt = old.rt /\ q.sent = old.sent /\ q.had = old.had
            /\ q.left = old.left
        BY <2>2 DEF TabRecord
      <4>3. Fits(t, q, token', cookie', writer', role)
        BY <2>3, <3>1, <4>2 DEF Fits
      <4>4. QED
        BY <1>3, <2>1, <3>1, <4>1, <4>3, OneTab
    <3>4. QED
      BY <3>2, <3>3
  <2>15. QED
    BY <1>6, <2>5, <2>6, <2>7, <2>8, <2>9, <2>10, <2>11, <2>12, <2>13, <2>14 DEF TabStep, Running
<1>7. QED
  BY <1>4, <1>5, <1>6, Frames DEF Next, TabStep, ExpireToken, vars, browser

LEMMA SessionsHold == Spec => []Sessions
BY TypedHolds, SessionsInit, SessionsStep, PTL DEF Spec

\* The role a tab goes by is the user's, unless it has changed since the tab
\* signed in or was restored (_issue_access, service.py:115).
THEOREM RolesFollowIssueHolds == Spec => []RolesFollowIssue
<1>1. Sessions => RolesFollowIssue
  BY DEF Sessions, Fits, RolesFollowIssue
<1>2. QED
  BY SessionsHold, <1>1, PTL

\* A tab that logged out in time does not come back with what it left, though
\* it sees the cookies of its page's request (session.py:116).
THEOREM LeftForGoodHolds == Spec => []LeftForGood
<1>1. Sessions => LeftForGood
  BY DEF Sessions, Fits, LeftForGood
<1>2. QED
  BY SessionsHold, <1>1, PTL

\* A page that is reloaded asks for no password while its token is active and
\* no other tab has touched the cookie (session.py:148, 239).
THEOREM ReloadKeepsSessionHolds == Spec => []ReloadKeepsSession
<1>1. Sessions => ReloadKeepsSession
  BY DEF Sessions, Fits, ReloadKeepsSession
<1>2. QED
  BY SessionsHold, <1>1, PTL

=============================================================================
