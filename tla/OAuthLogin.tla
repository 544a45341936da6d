----------------------------- MODULE OAuthLogin -----------------------------
(***************************************************************************)
(* Logging in at an OAuth provider (internal/auth/state.go,                *)
(* internal/handler/oauth.go, UpsertUser and GetUser of internal/service). *)
(*                                                                         *)
(* Login issues a state token, kept in the server's memory; the provider   *)
(* sends the user back to Callback with it.  A callback spends the token,  *)
(* asks the provider twice who the user is, writes his row in Postgres and *)
(* signs a session token.  Each of these calls is a step of its own, and   *)
(* callbacks of one user overlap.                                          *)
(***************************************************************************)
EXTENDS Roles

CONSTANTS
    Subjects,   \* users of the provider
    Emails,
    Accounts,   \* what the provider may say of a user: his email and groups
    States,     \* state tokens ever issued
    Callbacks,  \* callbacks, and profile requests, in progress at once
    NoExpiry, NoRow, NoAccount, NoSubject,
    GroupMap,   \* LLAMERO_ROLE_GROUPS, parsed
    ScopesOf,   \* the scopes roles.yaml gives each role
    StateTTL,
    MaxTime,    \* bound of the clock
    MaxEdits    \* bound of the changes of one account

ASSUME AccountsAssumption == \A a \in Accounts : DOMAIN a = {"email", "groups"} /\ a.email \in Emails
ASSUME TimeAssumption == {StateTTL, MaxTime, MaxEdits} \subseteq Nat
ASSUME NoExpiryAssumption == NoExpiry \notin Nat
ASSUME NoSubjectAssumption == NoSubject \notin Subjects
ASSUME GroupMapAssumption == GroupIndexes(GroupMap) # {}

\* An account as it was after so many changes.
Infos == [account : Accounts, edits : Nat]
Row == [info : Infos, role : RoleNames]
Sessions == [sub : Subjects, info : Infos, role : RoleNames]

ASSUME NoRowAssumption == NoRow \notin Row
ASSUME NoAccountAssumption == NoAccount \notin Infos

VARIABLES
    now,         \* the time
    provider,    \* the provider's accounts
    groupIndex,  \* which group has which role, since the server started
    expiry,      \* StateStore: the state tokens not yet spent
    users,       \* the table of users
    sessions,    \* the session tokens that somebody holds
    phase,       \* what the server is doing with each callback
    sub,         \* the user whose authorization code it bears
    info, role,  \* what it has learned of him
    code,        \* the answer's status code
    issuedAt,    \* history: when each state token was issued
    live,        \* history: those that the running process has issued
    spent,       \* history: how many callbacks it has let through
    held,        \* history: users that ever had an email
    overtaken,   \* history: another callback has written its user's row since it asked
    crossed      \* history: users whose row was last written by such a callback

memory == <<groupIndex, expiry>>
history == <<issuedAt, live, spent, held, crossed>>
request == <<phase, sub, info, role, code, overtaken>>
vars == <<now, provider, memory, users, sessions, request, history>>

Phases == {"idle", "exchanging", "fetching", "saving", "issuing", "done"}

TypeOK ==
    /\ now \in Nat
    /\ provider \in [Subjects -> Infos]
    /\ groupIndex \in GroupIndexes(GroupMap)
    /\ expiry \in [States -> Nat \union {NoExpiry}]
    /\ users \in [Subjects -> Row \union {NoRow}]
    /\ sessions \in SUBSET Sessions
    /\ phase \in [Callbacks -> Phases]
    /\ sub \in [Callbacks -> Subjects \union {NoSubject}]
    /\ info \in [Callbacks -> Infos \union {NoAccount}]
    /\ role \in [Callbacks -> RoleNames \union {NoRole}]
    /\ code \in [Callbacks -> {0, 200, 302, 400, 403, 404, 500, 502}]
    /\ issuedAt \in [States -> Nat \union {NoExpiry}]
    /\ spent \in [States -> Nat]
    /\ held \in [Emails -> SUBSET Subjects]
    /\ overtaken \in [Callbacks -> BOOLEAN]
    /\ live \in SUBSET States
    /\ crossed \in SUBSET Subjects

Init ==
    /\ now = 0
    /\ provider \in [Subjects -> {[account |-> a, edits |-> 0] : a \in Accounts}]
    /\ groupIndex \in GroupIndexes(GroupMap)
    /\ expiry = [st \in States |-> NoExpiry]
    /\ users = [s \in Subjects |-> NoRow]
    /\ sessions = {}
    /\ phase = [c \in Callbacks |-> "idle"]
    /\ sub = [c \in Callbacks |-> NoSubject]
    /\ info = [c \in Callbacks |-> NoAccount]
    /\ role = [c \in Callbacks |-> NoRole]
    /\ code = [c \in Callbacks |-> 0]
    /\ issuedAt = [st \in States |-> NoExpiry]
    /\ spent = [st \in States |-> 0]
    /\ held = [e \in Emails |-> {s \in Subjects : provider[s].account.email = e}]
    /\ overtaken = [c \in Callbacks |-> FALSE]
    /\ live = {}
    /\ crossed = {}

-----------------------------------------------------------------------------
(* StateStore.  Its mutex makes each of its operations one step.           *)

Expired(st) == expiry[st] # NoExpiry /\ now > expiry[st]

\* The map after cleanupLocked.
Cleaned == [st \in States |-> IF Expired(st) THEN NoExpiry ELSE expiry[st]]

\* A token never issued before: they are random.
Fresh(st) == issuedAt[st] = NoExpiry

\* Login answers with a redirection to the provider.
Login(st) ==
    /\ Fresh(st)
    /\ expiry' = [Cleaned EXCEPT ![st] = now + StateTTL]
    /\ issuedAt' = [issuedAt EXCEPT ![st] = now]
    /\ live' = live \union {st}
    /\ UNCHANGED <<now, provider, groupIndex, users, sessions, request, spent, held, crossed>>

\* Mutant: an expired token is taken.
ConsumesExpired(st) ==
    /\ expiry[st] # NoExpiry
    /\ expiry' = [Cleaned EXCEPT ![st] = NoExpiry]

\* Mutant: the token stays in the map.
ConsumesNot(st) ==
    /\ Cleaned[st] # NoExpiry
    /\ expiry' = Cleaned

Consume(st) ==
    /\ Cleaned[st] # NoExpiry
    /\ expiry' = [Cleaned EXCEPT ![st] = NoExpiry]

-----------------------------------------------------------------------------
(* Callback                                                                *)

Goto(c, state) == phase' = [phase EXCEPT ![c] = state]

Answer(c, status) ==
    /\ Goto(c, "done")
    /\ code' = [code EXCEPT ![c] = status]

\* A step of a callback that changes nothing but its phase and answer.
Local ==
    UNCHANGED <<now, provider, memory, users, sessions, sub, info, role, overtaken, history>>

StartCallback(c, st, s) ==
    /\ phase[c] = "idle"
    /\ Consume(st)
    /\ Goto(c, "exchanging")
    /\ sub' = [sub EXCEPT ![c] = s]
    /\ spent' = [spent EXCEPT ![st] = @ + 1]
    /\ UNCHANGED <<now, provider, groupIndex, users, sessions, info, role, code, overtaken,
                   issuedAt, live, held, crossed>>

\* The provider reports an error, or there is no code.
RefuseCallback(c) == phase[c] = "idle" /\ Answer(c, 400) /\ Local

RefuseState(c, st) ==
    /\ phase[c] = "idle"
    /\ Cleaned[st] = NoExpiry
    /\ expiry' = Cleaned
    /\ Answer(c, 400)
    /\ UNCHANGED <<now, provider, groupIndex, users, sessions, sub, info, role, overtaken, history>>

ExchangeCode(c) ==
    /\ phase[c] = "exchanging"
    /\ Goto(c, "fetching")
    /\ Local
    /\ UNCHANGED code

\* The provider fails, answers nonsense, or names no user.
ProviderFails(c) == phase[c] \in {"exchanging", "fetching"} /\ Answer(c, 502) /\ Local

RoleOf(s) == DetermineRole(groupIndex, ScopesOf, provider[s].account.groups)

\* Mutant: a user without a role is let in.
FetchUserInfoUnchecked(c) ==
    /\ phase[c] = "fetching"
    /\ Goto(c, "saving")
    /\ info' = [info EXCEPT ![c] = provider[sub[c]]]
    /\ role' = [role EXCEPT ![c] = RoleOf(sub[c])]
    /\ overtaken' = [overtaken EXCEPT ![c] = FALSE]
    /\ UNCHANGED <<now, provider, memory, users, sessions, sub, code, history>>

FetchUserInfo(c) ==
    /\ phase[c] = "fetching"
    /\ RoleOf(sub[c]) # NoRole
    /\ Goto(c, "saving")
    /\ info' = [info EXCEPT ![c] = provider[sub[c]]]
    /\ role' = [role EXCEPT ![c] = RoleOf(sub[c])]
    /\ overtaken' = [overtaken EXCEPT ![c] = FALSE]
    /\ UNCHANGED <<now, provider, memory, users, sessions, sub, code, history>>

RefuseUser(c) ==
    /\ phase[c] = "fetching"
    /\ RoleOf(sub[c]) = NoRole
    /\ Answer(c, 403)
    /\ Local

\* Mutant: only one user may have the default email.
EmailTakenOnce(c) == \E s \in Subjects \ {sub[c]} : users[s] # NoRow

\* The table refuses a second row with the same email.
EmailTaken(c) ==
    \E s \in Subjects \ {sub[c]} :
        users[s] # NoRow /\ users[s].info.account.email = info[c].account.email

\* Mutant: a row that is there stays as it is.
WriteRowOnce(c) ==
    /\ phase[c] = "saving"
    /\ ~EmailTaken(c)
    /\ users' = IF users[sub[c]] = NoRow
                THEN [users EXCEPT ![sub[c]] = [info |-> info[c], role |-> role[c]]]
                ELSE users
    /\ overtaken' = [d \in Callbacks |-> overtaken[d] \/ (d # c /\ sub[d] = sub[c])]
    /\ crossed' = IF overtaken[c] THEN crossed \union {sub[c]} ELSE crossed \ {sub[c]}
    /\ UNCHANGED <<now, provider, memory, sessions, sub, info, role, issuedAt, live, spent, held>>

\* INSERT, or UPDATE of the user's row.
WriteRow(c) ==
    /\ phase[c] = "saving"
    /\ ~EmailTaken(c)
    /\ users' = [users EXCEPT ![sub[c]] = [info |-> info[c], role |-> role[c]]]
    /\ overtaken' = [d \in Callbacks |-> overtaken[d] \/ (d # c /\ sub[d] = sub[c])]
    /\ crossed' = IF overtaken[c] THEN crossed \union {sub[c]} ELSE crossed \ {sub[c]}
    /\ UNCHANGED <<now, provider, memory, sessions, sub, info, role, issuedAt, live, spent, held>>

UpsertUser(c) == WriteRow(c) /\ Goto(c, "issuing") /\ UNCHANGED code

\* The row is written, but the database's answer does not arrive.
UpsertUnanswered(c) == WriteRow(c) /\ Answer(c, 500)

\* For the email, or because the database fails.
UpsertFails(c) == phase[c] = "saving" /\ Answer(c, 500) /\ Local

\* The session token is signed and sent to the UI in the redirection.
Issue(c) ==
    /\ phase[c] = "issuing"
    /\ Answer(c, 302)
    /\ sessions' = sessions \union {[sub |-> sub[c], info |-> info[c], role |-> role[c]]}
    /\ UNCHANGED <<now, provider, memory, users, sub, info, role, overtaken, history>>

\* The token is not signed; the row stays.
IssueFails(c) == phase[c] = "issuing" /\ Answer(c, 500) /\ Local

-----------------------------------------------------------------------------

\* Profile: the row of the user whom a session token names.
Profile(c, session) ==
    /\ phase[c] = "idle"
    /\ \/ users[session.sub] # NoRow /\ Answer(c, 200)
       \/ users[session.sub] = NoRow /\ Answer(c, 404)
       \/ Answer(c, 500)
    /\ Local

\* The answer is sent; another request may take its place.
Finish(c) ==
    /\ phase[c] = "done"
    /\ Goto(c, "idle")
    /\ sub' = [sub EXCEPT ![c] = NoSubject]
    /\ info' = [info EXCEPT ![c] = NoAccount]
    /\ role' = [role EXCEPT ![c] = NoRole]
    /\ code' = [code EXCEPT ![c] = 0]
    /\ overtaken' = [overtaken EXCEPT ![c] = FALSE]
    /\ UNCHANGED <<now, provider, memory, users, sessions, history>>

\* The server is started again; state tokens and requests are lost.
Restart ==
    /\ groupIndex' \in GroupIndexes(GroupMap)
    /\ expiry' = [st \in States |-> NoExpiry]
    /\ live' = {}
    /\ phase' = [c \in Callbacks |-> "idle"]
    /\ sub' = [c \in Callbacks |-> NoSubject]
    /\ info' = [c \in Callbacks |-> NoAccount]
    /\ role' = [c \in Callbacks |-> NoRole]
    /\ code' = [c \in Callbacks |-> 0]
    /\ overtaken' = [c \in Callbacks |-> FALSE]
    /\ UNCHANGED <<now, provider, users, sessions, issuedAt, spent, held, crossed>>

\* An account gets another email or other groups.
EditAccount(s, account) ==
    /\ provider[s].edits < MaxEdits
    /\ provider' = [provider EXCEPT ![s] = [account |-> account, edits |-> @.edits + 1]]
    /\ held' = [held EXCEPT ![account.email] = @ \union {s}]
    /\ UNCHANGED <<now, memory, users, sessions, request, issuedAt, live, spent, crossed>>

Tick ==
    /\ now < MaxTime
    /\ now' = now + 1
    /\ UNCHANGED <<provider, memory, users, sessions, request, history>>

Next ==
    \/ \E st \in States : Login(st)
    \/ \E c \in Callbacks :
          \/ \E st \in States, s \in Subjects : StartCallback(c, st, s)
          \/ \E st \in States : RefuseState(c, st)
          \/ RefuseCallback(c)
          \/ ExchangeCode(c)
          \/ ProviderFails(c)
          \/ FetchUserInfo(c)
          \/ RefuseUser(c)
          \/ UpsertUser(c)
          \/ UpsertUnanswered(c)
          \/ UpsertFails(c)
          \/ Issue(c)
          \/ IssueFails(c)
          \/ \E session \in sessions : Profile(c, session)
          \/ Finish(c)
    \/ Restart
    \/ \E s \in Subjects, account \in Accounts : EditAccount(s, account)
    \/ Tick

Spec == Init /\ [][Next]_vars

-----------------------------------------------------------------------------
(* Properties                                                              *)

(***************************************************************************)
(* A state token lets at most one callback through, however many arrive    *)
(* with it, in time or late, before or after a restart.                    *)
(***************************************************************************)
StateSpentOnce == \A st \in States : spent[st] <= 1

(***************************************************************************)
(* A callback is let through only by a token that the running process has  *)
(* issued, and no later than its lifetime after that.                      *)
(***************************************************************************)
SpentInTime ==
    [][\A st \in States : spent'[st] # spent[st] =>
          st \in live /\ issuedAt[st] \in Nat /\ now <= issuedAt[st] + StateTTL]_vars

(***************************************************************************)
(* Whoever holds a session token has a row, which Profile finds, and the   *)
(* row is as new as the account the session was made from, unless it was   *)
(* last written by a callback that another one of the same user overtook.  *)
(***************************************************************************)
SessionsHaveUsers ==
    /\ \A session \in sessions :
          /\ users[session.sub] # NoRow
          /\ session.sub \in crossed \/ session.info.edits <= users[session.sub].info.edits
    /\ \A c \in Callbacks : code[c] # 404

(***************************************************************************)
(* A user is refused for his email only if the provider has given it to    *)
(* another user, now or before.                                            *)
(***************************************************************************)
EmailTakenOnlyIfShared ==
    \A c \in Callbacks :
        phase[c] = "saving" /\ EmailTaken(c) =>
            \E s \in held[info[c].account.email] : s # sub[c]
=============================================================================
