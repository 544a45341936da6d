---------------------------- MODULE PatLifecycle ----------------------------
(***************************************************************************)
(* Session tokens and personal access tokens (internal/service/tokens.go,  *)
(* internal/handler/tokens.go, internal/middleware/authz.go).              *)
(*                                                                         *)
(* A login gives a session token.  With a session token its owner makes    *)
(* personal access tokens, each recorded in Postgres before it is signed,  *)
(* and revokes them.  A request that bears an access token is checked      *)
(* against its record.  Every database call is a step of its own.          *)
(*                                                                         *)
(* Tokens are what their holders keep: signed, so that nobody can make     *)
(* another.  Names, emails and signatures are not represented.             *)
(***************************************************************************)
EXTENDS Naturals

CONSTANTS
    Users,
    Scopes,
    Profile,      \* the scope that the routes for access tokens require
    Grants,       \* the sets of scopes that the roles of each user may give him
    Jtis,         \* identifiers of access tokens
    Requests,     \* requests that may be in progress at once
    NoRow, NoClaims,
    SessionTTL,   \* lifetime of a session token
    MinTTL, MaxTTL, DefaultTTL,   \* lifetimes of access tokens
    MaxTime       \* bound of the clock

ASSUME ProfileAssumption == Profile \in Scopes
ASSUME GrantsAssumption == Grants \in [Users -> SUBSET ((SUBSET Scopes) \ {{}})]
ASSUME TTLAssumption ==
    /\ {SessionTTL, MinTTL, MaxTTL, DefaultTTL, MaxTime} \subseteq Nat
    /\ 0 < MinTTL /\ MinTTL <= DefaultTTL /\ DefaultTTL <= MaxTTL

\* The table refuses a record without scopes.
Row ==
    [user : Users, scopes : (SUBSET Scopes) \ {{}}, exp : Nat, revoked : BOOLEAN, used : BOOLEAN]
Sessions == [type : {"session"}, sub : Users, scopes : SUBSET Scopes, exp : Nat]
Pats == [type : {"pat"}, jti : Jtis, sub : Users, scopes : SUBSET Scopes, exp : Nat]
Claims == Sessions \union Pats

ASSUME NoRowAssumption == NoRow \notin Row
ASSUME NoClaimsAssumption == NoClaims \notin Claims

VARIABLES
    now,       \* the time
    tokens,    \* the table of access tokens
    held,      \* the tokens that somebody holds
    phase,     \* what the server is doing with each request
    claims,    \* the token it bears
    op,        \* what it is for
    need,      \* the scope its route requires
    made,      \* the access token being made for it
    code,      \* the answer's status code
    dead,      \* history: access tokens that had been revoked when it arrived
    granted    \* history: scopes that a login has given each user

requestVars == <<phase, claims, op, need, made, code, dead>>
vars == <<now, tokens, held, phase, claims, op, need, made, code, dead, granted>>

Phases == {"idle", "validating", "marking", "authorizing", "serving", "issuing", "done"}
Ops == {"use", "read", "create", "revoke"}

TypeOK ==
    /\ now \in Nat
    /\ tokens \in [Jtis -> Row \union {NoRow}]
    /\ held \in SUBSET Claims
    /\ phase \in [Requests -> Phases]
    /\ claims \in [Requests -> Claims \union {NoClaims}]
    /\ op \in [Requests -> Ops]
    /\ need \in [Requests -> Scopes]
    /\ made \in [Requests -> Pats \union {NoClaims}]
    /\ code \in [Requests -> {0, 200, 201, 204, 400, 401, 403, 404, 500}]
    /\ dead \in [Requests -> SUBSET Jtis]
    /\ granted \in [Users -> SUBSET Scopes]

Init ==
    /\ now = 0
    /\ tokens = [j \in Jtis |-> NoRow]
    /\ held = {}
    /\ phase = [r \in Requests |-> "idle"]
    /\ claims = [r \in Requests |-> NoClaims]
    /\ op = [r \in Requests |-> "use"]
    /\ need = [r \in Requests |-> Profile]
    /\ made = [r \in Requests |-> NoClaims]
    /\ code = [r \in Requests |-> 0]
    /\ dead = [r \in Requests |-> {}]
    /\ granted = [u \in Users |-> {}]

-----------------------------------------------------------------------------

IsRevoked(j) == tokens[j] # NoRow /\ tokens[j].revoked

Goto(r, state) == phase' = [phase EXCEPT ![r] = state]

Answer(r, status) ==
    /\ Goto(r, "done")
    /\ code' = [code EXCEPT ![r] = status]

\* A step of request r that changes nothing but its phase and its answer.
Local(r) == UNCHANGED <<now, tokens, held, claims, op, need, made, dead, granted>>

\* The callback of a login issues a session token with the scopes of the
\* user's role.
Issue(u, scopes) ==
    /\ held' = held \union
          {[type |-> "session", sub |-> u, scopes |-> scopes, exp |-> now + SessionTTL]}
    /\ granted' = [granted EXCEPT ![u] = @ \union scopes]
    /\ UNCHANGED <<now, tokens, requestVars>>

-----------------------------------------------------------------------------
(* authenticate and Require.                                               *)

\* A request with the token t arrives.
Arrives(r, t, what, scope) ==
    /\ phase[r] = "idle"
    /\ what # "use" => scope = Profile
    /\ claims' = [claims EXCEPT ![r] = t]
    /\ op' = [op EXCEPT ![r] = what]
    /\ need' = [need EXCEPT ![r] = scope]
    /\ dead' = [dead EXCEPT ![r] = {j \in Jtis : IsRevoked(j)}]
    /\ UNCHANGED <<now, tokens, held, made, granted>>

\* The token's signature and expiry are good.
Verify(r, t, what, scope) ==
    /\ now < t.exp
    /\ Arrives(r, t, what, scope)
    /\ Goto(r, IF t.type = "pat" THEN "validating" ELSE "authorizing")
    /\ UNCHANGED code

VerifyFails(r, t, what, scope) ==
    /\ now >= t.exp
    /\ Arrives(r, t, what, scope)
    /\ Answer(r, 401)

\* Mutant: a revoked token is accepted.
ActiveOrRevoked(t) ==
    /\ tokens[t.jti] # NoRow
    /\ tokens[t.jti].user = t.sub
    /\ now <= tokens[t.jti].exp

\* What ValidatePAT asks of the record.
Active(t) ==
    /\ tokens[t.jti] # NoRow
    /\ ~tokens[t.jti].revoked
    /\ tokens[t.jti].user = t.sub
    /\ now <= tokens[t.jti].exp

GetTokenByJTI(r) ==
    /\ phase[r] = "validating"
    /\ Active(claims[r])
    /\ Goto(r, "marking")
    /\ Local(r)
    /\ UNCHANGED code

RefusePAT(r) ==
    /\ phase[r] = "validating"
    /\ ~Active(claims[r])
    /\ Answer(r, 401)
    /\ Local(r)

\* The record may have been revoked since it was read.
MarkTokenUsed(r) ==
    /\ phase[r] = "marking"
    /\ tokens' = [tokens EXCEPT ![claims[r].jti].used = TRUE]
    /\ Goto(r, "authorizing")
    /\ UNCHANGED <<now, held, claims, op, need, made, code, dead, granted>>

Authorize(r) ==
    /\ phase[r] = "authorizing"
    /\ need[r] \in claims[r].scopes
    /\ Goto(r, "serving")
    /\ Local(r)
    /\ UNCHANGED code

InsufficientScope(r) ==
    /\ phase[r] = "authorizing"
    /\ need[r] \notin claims[r].scopes
    /\ Answer(r, 403)
    /\ Local(r)

-----------------------------------------------------------------------------
(* The handlers.                                                           *)

Serving(r, what) == phase[r] = "serving" /\ op[r] = what

\* Any route that is not about access tokens.
Use(r) ==
    /\ Serving(r, "use")
    /\ Answer(r, 200)
    /\ Local(r)

\* Access tokens cannot manage access tokens.
RefuseManaging(r) ==
    /\ phase[r] = "serving"
    /\ op[r] # "use"
    /\ claims[r].type = "pat"
    /\ Answer(r, 403)
    /\ Local(r)

Managing(r, what) == Serving(r, what) /\ claims[r].type = "session"

\* The payload or the identifier cannot be read, or the name is blank.
RefuseMalformed(r) ==
    /\ phase[r] = "serving"
    /\ op[r] # "use"
    /\ claims[r].type = "session"
    /\ Answer(r, 400)
    /\ Local(r)

ListTokens(r) ==
    /\ Managing(r, "read")
    /\ Answer(r, 200)
    /\ Local(r)

Lifetime(expiresIn) == IF expiresIn = 0 THEN DefaultTTL ELSE expiresIn

\* Mutant: the scopes asked for are not compared with the session's.
AcceptableWithAnyScopes(r, scopes, expiresIn) ==
    /\ scopes # {}
    /\ Lifetime(expiresIn) \in MinTTL..MaxTTL

\* Mutant: a token without scopes is made.
AcceptableWithoutScopes(r, scopes, expiresIn) ==
    /\ scopes \subseteq claims[r].scopes
    /\ Lifetime(expiresIn) \in MinTTL..MaxTTL

Acceptable(r, scopes, expiresIn) ==
    /\ scopes # {}
    /\ scopes \subseteq claims[r].scopes
    /\ Lifetime(expiresIn) \in MinTTL..MaxTTL

\* Mutant: the token is issued before its record is stored.
CreateTokenUnstored(r, j, scopes, expiresIn) ==
    /\ Managing(r, "create")
    /\ Acceptable(r, scopes, expiresIn)
    /\ tokens[j] = NoRow
    /\ made' = [made EXCEPT ![r] =
          [type |-> "pat", jti |-> j, sub |-> claims[r].sub, scopes |-> scopes,
           exp |-> now + Lifetime(expiresIn)]]
    /\ Goto(r, "issuing")
    /\ UNCHANGED <<now, tokens, held, claims, op, need, code, dead, granted>>

\* The record is stored under a new identifier.
CreateToken(r, j, scopes, expiresIn) ==
    /\ Managing(r, "create")
    /\ Acceptable(r, scopes, expiresIn)
    /\ tokens[j] = NoRow
    /\ tokens' = [tokens EXCEPT ![j] =
          [user    |-> claims[r].sub,
           scopes  |-> scopes,
           exp     |-> now + Lifetime(expiresIn),
           revoked |-> FALSE,
           used    |-> FALSE]]
    /\ made' = [made EXCEPT ![r] =
          [type |-> "pat", jti |-> j, sub |-> claims[r].sub, scopes |-> scopes,
           exp |-> now + Lifetime(expiresIn)]]
    /\ Goto(r, "issuing")
    /\ UNCHANGED <<now, held, claims, op, need, code, dead, granted>>

\* 400, or 403 for scopes that the session does not have.
RefuseCreate(r, scopes, expiresIn) ==
    /\ Managing(r, "create")
    /\ ~Acceptable(r, scopes, expiresIn)
    /\ Answer(r, IF scopes \subseteq claims[r].scopes THEN 400 ELSE 403)
    /\ Local(r)

\* The token is signed and its owner gets it.
IssuePAT(r) ==
    /\ phase[r] = "issuing"
    /\ now <= made[r].exp
    /\ held' = held \union {made[r]}
    /\ made' = [made EXCEPT ![r] = NoClaims]
    /\ Answer(r, 201)
    /\ UNCHANGED <<now, tokens, claims, op, need, dead, granted>>

\* Mutant: the queries do not compare the user.
OwnOrOthers(r, j) == tokens[j] # NoRow

Own(r, j) == tokens[j] # NoRow /\ tokens[j].user = claims[r].sub

GetToken(r, j) ==
    /\ Managing(r, "read")
    /\ Answer(r, IF Own(r, j) THEN 200 ELSE 404)
    /\ Local(r)

\* An update whose outcome is lost has happened all the same.
RevokeToken(r, j) ==
    /\ Managing(r, "revoke")
    /\ Own(r, j)
    /\ tokens' = [tokens EXCEPT ![j].revoked = TRUE]
    /\ \E status \in {204, 500} : Answer(r, status)
    /\ UNCHANGED <<now, held, claims, op, need, made, dead, granted>>

\* The identifier is unknown, or another user's.
RevokeNotFound(r, j) ==
    /\ Managing(r, "revoke")
    /\ ~Own(r, j)
    /\ Answer(r, 404)
    /\ Local(r)

\* A database call or the signing fails.  A record that was stored stays, whether
\* or not the server learnt that it was.
Fails(r) ==
    /\ phase[r] \in {"validating", "marking", "serving", "issuing"}
    /\ Answer(r, 500)
    /\ made' = [made EXCEPT ![r] = NoClaims]
    /\ UNCHANGED <<now, tokens, held, claims, op, need, dead, granted>>

-----------------------------------------------------------------------------

Finish(r) ==
    /\ phase[r] = "done"
    /\ Goto(r, "idle")
    /\ claims' = [claims EXCEPT ![r] = NoClaims]
    /\ op' = [op EXCEPT ![r] = "use"]
    /\ need' = [need EXCEPT ![r] = Profile]
    /\ code' = [code EXCEPT ![r] = 0]
    /\ dead' = [dead EXCEPT ![r] = {}]
    /\ UNCHANGED <<now, tokens, held, made, granted>>

\* The client hangs up, or the server dies: the request is gone.
Drop(r) ==
    /\ phase[r] # "idle"
    /\ Goto(r, "idle")
    /\ claims' = [claims EXCEPT ![r] = NoClaims]
    /\ op' = [op EXCEPT ![r] = "use"]
    /\ need' = [need EXCEPT ![r] = Profile]
    /\ made' = [made EXCEPT ![r] = NoClaims]
    /\ code' = [code EXCEPT ![r] = 0]
    /\ dead' = [dead EXCEPT ![r] = {}]
    /\ UNCHANGED <<now, tokens, held, granted>>

Tick ==
    /\ now < MaxTime
    /\ now' = now + 1
    /\ UNCHANGED <<tokens, held, requestVars, granted>>

-----------------------------------------------------------------------------

\* The steps of one request.
Authentication(r) ==
    \/ \E t \in held, what \in Ops, scope \in Scopes :
          Verify(r, t, what, scope) \/ VerifyFails(r, t, what, scope)
    \/ GetTokenByJTI(r)
    \/ RefusePAT(r)
    \/ MarkTokenUsed(r)
    \/ Authorize(r)
    \/ InsufficientScope(r)

Handling(r) ==
    \/ Use(r)
    \/ RefuseManaging(r)
    \/ RefuseMalformed(r)
    \/ ListTokens(r)
    \/ \E scopes \in SUBSET Scopes, expiresIn \in 0..(MaxTTL + 1) :
          \/ \E j \in Jtis : CreateToken(r, j, scopes, expiresIn)
          \/ RefuseCreate(r, scopes, expiresIn)
    \/ IssuePAT(r)
    \/ \E j \in Jtis : GetToken(r, j) \/ RevokeToken(r, j) \/ RevokeNotFound(r, j)
    \/ Fails(r)

Next ==
    \/ \E u \in Users : \E scopes \in Grants[u] : Issue(u, scopes)
    \/ \E r \in Requests : Authentication(r) \/ Handling(r) \/ Finish(r) \/ Drop(r)
    \/ Tick

Spec == Init /\ [][Next]_vars

-----------------------------------------------------------------------------
(* Properties                                                              *)

Accepted(r) == phase[r] \in {"authorizing", "serving", "issuing"}

Recorded(t) ==
    /\ tokens[t.jti] # NoRow
    /\ tokens[t.jti].user = t.sub
    /\ tokens[t.jti].scopes = t.scopes
    /\ tokens[t.jti].exp = t.exp

(***************************************************************************)
(* A request whose access token had been revoked when it arrived never     *)
(* gets past authentication, however its database calls interleave with    *)
(* those of other requests; and a token that gets past it has been         *)
(* recorded as used.                                                       *)
(***************************************************************************)
RevokedIsRefused ==
    \A r \in Requests : Accepted(r) /\ claims[r].type = "pat" =>
        /\ claims[r].jti \notin dead[r]
        /\ tokens[claims[r].jti] # NoRow /\ tokens[claims[r].jti].used

(***************************************************************************)
(* Every access token that somebody holds has a record of the same user,   *)
(* scopes and expiry, so its owner sees it and can revoke it: no failure   *)
(* between the two steps of HandleCreateToken leaves a token without one.  *)
(***************************************************************************)
HeldIsRecorded == \A t \in held \intersect Pats : Recorded(t)

(***************************************************************************)
(* An access token is refused only once it has expired or been revoked.    *)
(***************************************************************************)
RefusedOnlyIfDead ==
    \A r \in Requests : code[r] = 401 /\ claims[r].type = "pat" =>
        now >= claims[r].exp \/ IsRevoked(claims[r].jti)

(***************************************************************************)
(* Whatever tokens a user makes, none carries a scope that no login has    *)
(* given him, and no request of his is served that needs one.              *)
(***************************************************************************)
ScopesAreGranted ==
    /\ \A t \in held : t.scopes \subseteq granted[t.sub]
    /\ \A r \in Requests : phase[r] \in {"serving", "issuing"} =>
          need[r] \in granted[claims[r].sub]

(***************************************************************************)
(* A record is made, and is revoked, only by a request that bears a        *)
(* session token of its owner; it never becomes active again.              *)
(***************************************************************************)
OwnersManage ==
    [][\A j \in Jtis :
          tokens'[j] # tokens[j] =>
              \/ /\ tokens[j] # NoRow
                 /\ tokens'[j] = [tokens[j] EXCEPT !.used = TRUE]
              \/ /\ ~IsRevoked(j)
                 /\ \E r \in Requests :
                       /\ phase[r] = "serving"
                       /\ phase'[r] # "serving"
                       /\ claims[r] \in Sessions
                       /\ claims[r].sub = tokens'[j].user]_vars
=============================================================================
