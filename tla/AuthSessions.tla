---------------------------- MODULE AuthSessions ----------------------------
(***************************************************************************)
(* Accounts and sessions: AuthService (auth/service.py) over its tables    *)
(* (auth/repositories.py, persistence/orm.py) and the browser sessions of  *)
(* the page (frontend/session.py).                                         *)
(*                                                                         *)
(* A behaviour follows one part: accounts are made, each in two commits;   *)
(* or the requests of an API client exchange its refresh token; or one     *)
(* user signs in and out in the tabs of one browser, which share a cookie. *)
(* An access token is known to the tab that got it only, so its entry in   *)
(* the cache is a field of that tab.                                       *)
(***************************************************************************)
EXTENDS Naturals, FiniteSets

CONSTANTS
    Callers,    \* bound: each makes one account, or fails to
    AdminLogin, \* the login of the configuration's first admin
    Tabs,       \* of one browser and one user
    Clients,    \* requests of one API client of the same user
    MaxTokens,  \* bound: refresh tokens
    MaxSignIns, \* bound: those the tabs get for the password
    MaxRoles,   \* bound: changes of the user's role
    None

\* One person's login, the same as the e-mail of an OIDC account, and the
\* login that account gets when the e-mail is taken.
Logins == {"ann", "google:1"}

ASSUME ConstantsAssumption ==
    /\ AdminLogin \in Logins
    /\ MaxTokens \in Nat \ {0} /\ {MaxSignIns, MaxRoles} \subseteq Nat
    /\ None \notin Logins \cup Nat \cup Tabs \cup {"user", "admin"}

Kinds == {"register", "oidc", "admin"}
Tokens == 1..MaxTokens
Roles == {"user", "admin"}

VARIABLES
    part,    \* accounts, client or tabs
    users,   \* the role of each login's row, None without a row
    creds,   \* the logins with a password
    ident,   \* the user the OIDC identity is linked to
    call,    \* the callers
    dead,    \* history: logins whose caller failed between its commits
    token,   \* the refresh tokens: none, active, dead
    parent,  \* history: the token each was exchanged for
    role,    \* the user's row
    roles,   \* bound: how often it has changed
    held,    \* the token the API client holds
    client,  \* its requests
    raced,   \* history: tokens two requests exchanged at once
    cookie,  \* the browser's refresh cookie
    writer,  \* history: the tab that last wrote or removed it
    tab,     \* the tabs' Streamlit sessions
    out      \* history: the user has logged out, and not in since

accounts == <<users, creds, ident, call, dead>>
tokens == <<token, parent>>
clients == <<held, client, raced>>
browser == <<cookie, writer>>
vars == <<part, accounts, tokens, clients, browser, role, roles, tab, out>>

Fresh(sent, had) ==
    [pc |-> "start",
     sent |-> sent,       \* the cookie the page was asked for with
     rt |-> None, live |-> FALSE, role |-> None, \* the pair of tokens it has
     stale |-> FALSE,     \* history: the role has changed since it was read
     persisted |-> FALSE, \* the cookie was written
     had |-> None,        \* history: the token before the page was reloaded
     left |-> None]       \* history: the token it logged out of

Init ==
    /\ part \in {"accounts", "client", "tabs"}
    /\ users = [l \in Logins |-> None] /\ creds = {} /\ ident = None
    /\ call \in [Callers -> [kind : Kinds, pc : {"check"}, login : {None}]]
    /\ part # "accounts" => \A c \in Callers : call[c].kind = "admin"
    /\ dead = {}
    /\ token = [n \in Tokens |-> IF n = 1 /\ part = "client" THEN "active" ELSE "none"]
    /\ parent = [n \in Tokens |-> None]
    /\ role = "user" /\ roles = 0
    /\ held = 1 /\ raced = {}
    /\ client = [c \in Clients |-> [pc |-> "idle", rt |-> None]]
    /\ cookie = None /\ writer = None
    /\ tab = [t \in Tabs |-> Fresh(None, None)]
    /\ out = FALSE

-----------------------------------------------------------------------------
(* Accounts: register, login_oidc, ensure_admin *)

Taken(l) == users[l] # None

At(c, pc) == part = "accounts" /\ call[c].pc = pc
End(c, pc) == call' = [call EXCEPT ![c].pc = pc]
Go(c, login) == call' = [call EXCEPT ![c].pc = "create", ![c].login = login]

Check(c) ==
    /\ At(c, "check")
    /\ CASE call[c].kind = "oidc" /\ ident # None ->
              call' = [call EXCEPT ![c].pc = "ok", ![c].login = ident]
         [] call[c].kind = "oidc" /\ ident = None ->
              Go(c, IF Taken("ann") THEN "google:1" ELSE "ann")
         [] call[c].kind = "register" ->
              IF Taken("ann") THEN End(c, "refused") ELSE Go(c, "ann")
         [] call[c].kind = "admin" ->
              IF Taken(AdminLogin) THEN End(c, "ok") ELSE Go(c, AdminLogin)
    /\ UNCHANGED <<part, users, creds, ident, dead, tokens, clients, browser, role, roles, tab, out>>

RoleOf(kind) == IF kind = "admin" THEN "admin" ELSE "user"

\* users.create: the login is unique.
Create(c) ==
    /\ At(c, "create")
    /\ IF Taken(call[c].login)
       THEN End(c, "raised") /\ UNCHANGED users
       ELSE /\ users' = [users EXCEPT ![call[c].login] = RoleOf(call[c].kind)]
            /\ End(c, "link")
    /\ UNCHANGED <<part, creds, ident, dead, tokens, clients, browser, role, roles, tab, out>>

\* identities.link: provider and subject are unique.
Link(c) ==
    /\ At(c, "link") /\ call[c].kind = "oidc"
    /\ IF ident = None
       THEN ident' = call[c].login /\ End(c, "ok") /\ UNCHANGED dead
       ELSE End(c, "raised") /\ dead' = dead \cup {call[c].login} /\ UNCHANGED ident
    /\ UNCHANGED <<part, users, creds, tokens, clients, browser, role, roles, tab, out>>

\* Mutation of SetPassword: the admin's is forgotten.
SetUsersPassword(c) ==
    /\ At(c, "link") /\ call[c].kind # "oidc"
    /\ creds' = IF call[c].kind = "admin" THEN creds ELSE creds \cup {call[c].login}
    /\ End(c, "ok")
    /\ UNCHANGED <<part, users, ident, dead, tokens, clients, browser, role, roles, tab, out>>

\* creds.set
SetPassword(c) ==
    /\ At(c, "link") /\ call[c].kind # "oidc"
    /\ creds' = creds \cup {call[c].login}
    /\ End(c, "ok")
    /\ UNCHANGED <<part, users, ident, dead, tokens, clients, browser, role, roles, tab, out>>

\* The process or the database fails between the two commits.
Die(c) ==
    /\ At(c, "link")
    /\ End(c, "raised")
    /\ dead' = dead \cup {call[c].login}
    /\ UNCHANGED <<part, users, creds, ident, tokens, clients, browser, role, roles, tab, out>>

-----------------------------------------------------------------------------
(* Refresh tokens: _issue and the rotation by an API client *)

Unused == {n \in Tokens : token[n] = "none"}
Next1 == CHOOSE n \in Unused : TRUE

ReadOld(c) ==
    /\ part = "client" /\ client[c].pc = "idle"
    /\ token[held] = "active"
    /\ client' = [client EXCEPT ![c] = [pc |-> "revoke", rt |-> held]]
    /\ raced' = raced \cup {held : d \in {d \in Clients : client[d].pc # "idle" /\ client[d].rt = held}}
    /\ UNCHANGED <<part, accounts, tokens, browser, role, roles, held, tab, out>>

\* Mutation of RevokeOld: the old token stays.
KeepOld(c) ==
    /\ client[c].pc = "revoke"
    /\ client' = [client EXCEPT ![c].pc = "issue"]
    /\ UNCHANGED <<part, accounts, tokens, held, raced, browser, role, roles, tab, out>>

RevokeOld(c) ==
    /\ client[c].pc = "revoke"
    /\ token' = [token EXCEPT ![client[c].rt] = "dead"]
    /\ client' = [client EXCEPT ![c].pc = "issue"]
    /\ UNCHANGED <<part, accounts, parent, held, raced, browser, role, roles, tab, out>>

IssueNew(c) ==
    /\ client[c].pc = "issue" /\ Unused # {}
    /\ token' = [token EXCEPT ![Next1] = "active"]
    /\ parent' = [parent EXCEPT ![Next1] = client[c].rt]
    /\ held' = Next1
    /\ client' = [client EXCEPT ![c] = [pc |-> "idle", rt |-> None]]
    /\ UNCHANGED <<part, accounts, raced, browser, role, roles, tab, out>>

ExpireToken(n) ==
    /\ token[n] = "active"
    /\ token' = [token EXCEPT ![n] = "dead"]
    /\ UNCHANGED <<part, accounts, parent, clients, browser, role, roles, tab, out>>

-----------------------------------------------------------------------------
(* The tabs *)

In(t, pc) == part = "tabs" /\ tab[t].pc = pc
Set(t, record) == tab' = [tab EXCEPT ![t] = record]

SetRole ==
    /\ part = "tabs" /\ roles < MaxRoles
    /\ role' \in Roles \ {role}
    /\ roles' = roles + 1
    /\ tab' = [t \in Tabs |-> [tab[t] EXCEPT !.stale = TRUE]]
    /\ UNCHANGED <<part, accounts, tokens, clients, browser, out>>

\* The page is loaded anew; only the cookie goes with the request.
Reload(t) ==
    /\ part = "tabs" /\ tab[t].pc \in {"shown", "login"}
    /\ Set(t, [Fresh(cookie, None) EXCEPT
                 !.had = IF tab[t].persisted /\ writer = t THEN tab[t].rt ELSE None])
    /\ UNCHANGED <<part, accounts, tokens, clients, browser, role, roles, out>>

\* st.context's cookies are those of the page's request, and come first.
Cookie(t) == IF tab[t].sent # None THEN tab[t].sent ELSE cookie

\* Mutation of Restorable: a token that was revoked serves until it expires.
RestorableOnce(n) == token[n] # "none"

Restorable(n) == token[n] = "active"

UsersRole == role

\* restore reads the token's row and the user's.
Start(t) ==
    /\ In(t, "start")
    /\ IF Cookie(t) = None
       THEN Set(t, [tab[t] EXCEPT !.pc = "login"])
       ELSE IF Restorable(Cookie(t))
            THEN Set(t, [tab[t] EXCEPT !.pc = "issue", !.rt = Cookie(t),
                                       !.role = UsersRole, !.stale = FALSE])
            ELSE Set(t, [tab[t] EXCEPT !.pc = "drop"])
    /\ UNCHANGED <<part, accounts, tokens, clients, browser, role, roles, out>>

\* The token was refused: the cookie goes, whatever it holds by now.
Drop(t) ==
    /\ In(t, "drop")
    /\ cookie' = None /\ writer' = t
    /\ Set(t, [tab[t] EXCEPT !.pc = "login"])
    /\ UNCHANGED <<part, accounts, tokens, clients, role, roles, out>>

SignIns == Cardinality(Tokens \ Unused)
             + Cardinality({t \in Tabs : tab[t].pc = "issue" /\ tab[t].rt = None})

\* The password is right.
SignIn(t) ==
    /\ In(t, "login") /\ SignIns < MaxSignIns
    /\ Set(t, [tab[t] EXCEPT !.pc = "issue", !.role = UsersRole, !.stale = FALSE,
                             !.had = None, !.left = None])
    /\ UNCHANGED <<part, accounts, tokens, clients, browser, role, roles, out>>

\* Mutation of Applied: the cookie of an earlier sign-in passes for this one's.
AppliedBefore(record, rt) == [record EXCEPT !.pc = "shown", !.live = TRUE, !.rt = rt]

Applied(record, rt) ==
    [record EXCEPT !.pc = "shown", !.live = TRUE, !.rt = rt, !.persisted = FALSE]

\* _issue, or _issue_access for a token that was restored.
Issue(t) ==
    /\ In(t, "issue")
    /\ IF tab[t].rt # None
       THEN UNCHANGED <<token, out>>
       ELSE /\ Unused # {}
            /\ token' = [token EXCEPT ![Next1] = "active"]
            /\ out' = FALSE
    /\ Set(t, Applied(tab[t], IF tab[t].rt = None THEN Next1 ELSE tab[t].rt))
    /\ UNCHANGED <<part, accounts, parent, clients, browser, role, roles>>

\* The cookie is written by a run that renders the page.
Persist(t) ==
    /\ In(t, "shown") /\ ~tab[t].persisted
    /\ cookie' = tab[t].rt /\ writer' = t
    /\ Set(t, [tab[t] EXCEPT !.persisted = TRUE])
    /\ UNCHANGED <<part, accounts, tokens, clients, role, roles, out>>

\* The access token's entry, and its own expiry, are access_ttl away.
ExpireAccess(t) ==
    /\ part = "tabs" /\ tab[t].live
    /\ Set(t, [tab[t] EXCEPT !.live = FALSE])
    /\ UNCHANGED <<part, accounts, tokens, clients, browser, role, roles, out>>

\* logout of an access token that is still valid; else it does nothing.
Logout(t) ==
    /\ In(t, "shown")
    /\ Set(t, IF tab[t].live
              THEN [tab[t] EXCEPT !.pc = "leave", !.live = FALSE, !.left = tab[t].rt]
              ELSE [tab[t] EXCEPT !.pc = "clear"])
    /\ UNCHANGED <<part, accounts, tokens, clients, browser, role, roles, out>>

\* Mutation of RevokeUser: only the token of the first session.
RevokeFirst(t) ==
    /\ In(t, "leave")
    /\ token' = [token EXCEPT ![1] = "dead"]
    /\ out' = TRUE
    /\ Set(t, [tab[t] EXCEPT !.pc = "clear"])
    /\ UNCHANGED <<part, accounts, parent, clients, browser, role, roles>>

RevokeUser(t) ==
    /\ In(t, "leave")
    /\ token' = [n \in Tokens |-> IF token[n] = "active" THEN "dead" ELSE token[n]]
    /\ out' = TRUE
    /\ Set(t, [tab[t] EXCEPT !.pc = "clear"])
    /\ UNCHANGED <<part, accounts, parent, clients, browser, role, roles>>

\* _clear_session, and the page runs again in the same session.
Clear(t) ==
    /\ In(t, "clear")
    /\ cookie' = None /\ writer' = t
    /\ Set(t, [tab[t] EXCEPT !.pc = "start", !.rt = None, !.role = None, !.stale = FALSE])
    /\ UNCHANGED <<part, accounts, tokens, clients, role, roles, out>>

-----------------------------------------------------------------------------
Accounting(c) == Check(c) \/ Create(c) \/ Link(c) \/ SetPassword(c) \/ Die(c)
Rotating(c) == ReadOld(c) \/ RevokeOld(c) \/ IssueNew(c)
Running(t) == Start(t) \/ Drop(t) \/ Issue(t) \/ RevokeUser(t) \/ Clear(t)

Next ==
    \/ \E c \in Callers : Accounting(c)
    \/ \E c \in Clients : Rotating(c)
    \/ \E n \in Tokens : ExpireToken(n)
    \/ \E t \in Tabs : Reload(t) \/ SignIn(t) \/ Running(t) \/ Persist(t)
                         \/ ExpireAccess(t) \/ Logout(t)
    \/ SetRole

\* A run of the page goes on, and an access token expires.
Spec ==
    /\ Init /\ [][Next]_vars
    /\ \A t \in Tabs : WF_vars(Running(t)) /\ WF_vars(ExpireAccess(t))

-----------------------------------------------------------------------------
\* Types: accounts, tokens, requests and tabs.
TypeOK ==
    /\ part \in {"accounts", "client", "tabs"}
    /\ users \in [Logins -> Roles \cup {None}]
    /\ creds \subseteq Logins /\ ident \in Logins \cup {None} /\ dead \subseteq Logins
    /\ call \in [Callers -> [kind : Kinds, login : Logins \cup {None},
                             pc : {"check", "create", "link", "ok", "refused", "raised"}]]
    /\ token \in [Tokens -> {"none", "active", "dead"}]
    /\ parent \in [Tokens -> Tokens \cup {None}]
    /\ role \in Roles /\ roles \in 0..MaxRoles
    /\ held \in Tokens /\ raced \subseteq Tokens
    /\ client \in [Clients -> [pc : {"idle", "revoke", "issue"}, rt : Tokens \cup {None}]]
    /\ cookie \in Tokens \cup {None} /\ writer \in Tabs \cup {None}
    /\ tab \in [Tabs ->
         [pc : {"start", "drop", "login", "issue", "shown", "leave", "clear"},
          sent : Tokens \cup {None}, rt : Tokens \cup {None}, live : BOOLEAN,
          role : Roles \cup {None}, stale : BOOLEAN, persisted : BOOLEAN,
          had : Tokens \cup {None}, left : Tokens \cup {None}]]
    /\ out \in BOOLEAN

\* A user whom neither password nor identity lets in is being made, or its
\* maker failed between the two commits: from then on its login is refused
\* to everybody, and ensure_admin makes no admin of it (service.py:75, 166).
HalfMadeExplained ==
    \A l \in Logins :
      Taken(l) /\ l \notin creds /\ ident # l =>
        l \in dead \/ \E c \in Callers : call[c].pc = "link" /\ call[c].login = l

\* Overlapping first sign-ins with one OIDC account may leave a useless user
\* behind, but all that succeed are the same user (service.py:92).
OneSubjectOneUser ==
    \A c \in Callers : call[c].kind = "oidc" /\ call[c].pc = "ok" => call[c].login = ident

\* A refresh token is exchanged once, unless two requests read it before
\* either had revoked it (service.py:104).
OneSuccessor ==
    \A n \in Tokens :
      /\ Cardinality({k \in Tokens : parent[k] = n}) > 1 => n \in raced
      /\ parent[n] # None => token[parent[n]] # "active"

\* The role a tab goes by is the user's, unless it has changed since the
\* tab's last sign-in or restore read it (service.py:115, 118).
RolesFollowIssue ==
    \A t \in Tabs : tab[t].pc = "shown" /\ ~tab[t].stale => tab[t].role = role

\* Reloading a page never asks for the password while its token is active,
\* once the page was rendered and if no other tab has touched the cookie
\* since (session.py:148, 239).
ReloadKeepsSession ==
    \A t \in Tabs : tab[t].pc = "login" /\ tab[t].had # None => token[tab[t].had] # "active"

\* A tab that logs out in time does not come back with the token it left,
\* though it still sees the cookie it was loaded with (session.py:116).
LeftForGood ==
    \A t \in Tabs : tab[t].pc = "shown" /\ tab[t].left # None => tab[t].rt # tab[t].left

\* A logout ends the sessions of every tab, at the latest when their access
\* tokens expire, unless somebody signs in again (service.py:122).
LogoutReachesAll ==
    out ~> (~out \/ \A t \in Tabs : ~tab[t].live)
=============================================================================
