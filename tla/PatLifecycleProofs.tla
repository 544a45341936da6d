------------------------- MODULE PatLifecycleProofs -------------------------
(***************************************************************************)
(* Proofs of the properties of PatLifecycle, for any users, scopes,        *)
(* lifetimes, tokens and requests.                                         *)
(***************************************************************************)
EXTENDS PatLifecycle, TLAPS

(***************************************************************************)
(* The inductive invariant, part by part.                                  *)
(***************************************************************************)

HeldIsGranted == \A t \in held : t.scopes \subseteq granted[t.sub]

\* What a request's state says of its variables.
PhaseInv(r) ==
    /\ phase[r] # "idle" => claims[r] \in held
    /\ phase[r] # "done" => code[r] = 0
    /\ phase[r] \in {"validating", "marking"} => claims[r] \in Pats
    /\ phase[r] \in {"serving", "issuing"} => need[r] \in claims[r].scopes

\* The token being made is recorded and within its owner's scopes.
MadeInv(r) ==
    phase[r] = "issuing" =>
        /\ made[r] \in Pats
        /\ Recorded(made[r])
        /\ made[r].scopes \subseteq granted[made[r].sub]

\* What was revoked when the request arrived still is, so the token of a
\* request that was found active is not among it.
DeadInv(r) ==
    /\ \A j \in dead[r] : IsRevoked(j)
    /\ phase[r] = "marking" \/ (Accepted(r) /\ claims[r].type = "pat") =>
          claims[r].jti \notin dead[r] /\ tokens[claims[r].jti] # NoRow
    /\ Accepted(r) /\ claims[r].type = "pat" => tokens[claims[r].jti].used

RefusedInv(r) ==
    code[r] = 401 /\ claims[r].type = "pat" =>
        now >= claims[r].exp \/ IsRevoked(claims[r].jti)

RequestInv(r) == PhaseInv(r) /\ MadeInv(r) /\ DeadInv(r) /\ RefusedInv(r)

PatInv ==
    /\ HeldIsRecorded
    /\ HeldIsGranted
    /\ \A r \in Requests : RequestInv(r)

(***************************************************************************)
(* What every step leaves true of the state that requests share.           *)
(***************************************************************************)
Grows ==
    /\ now <= now'
    /\ held \subseteq held'
    /\ \A u \in Users : granted[u] \subseteq granted'[u]
    /\ \A j \in Jtis : tokens[j] # NoRow =>
          /\ tokens'[j] # NoRow
          /\ tokens'[j].user = tokens[j].user
          /\ tokens'[j].scopes = tokens[j].scopes
          /\ tokens'[j].exp = tokens[j].exp
          /\ tokens[j].revoked => tokens'[j].revoked
          /\ tokens[j].used => tokens'[j].used

\* A step of another request leaves the variables of request c alone.
SameRequest(c) ==
    /\ phase'[c] = phase[c]
    /\ claims'[c] = claims[c]
    /\ need'[c] = need[c]
    /\ made'[c] = made[c]
    /\ code'[c] = code[c]
    /\ dead'[c] = dead[c]
-----------------------------------------------------------------------------
(* Types.                                                                  *)

\* The tokens that exist are well formed.
LEMMA ClaimsParts ==
    ASSUME NEW t \in Claims
    PROVE  /\ t.sub \in Users /\ t.scopes \subseteq Scopes /\ t.exp \in Nat
           /\ t.type = "pat" <=> t \in Pats
           /\ t.type = "session" <=> t \in Sessions
           /\ t \in Pats => t.jti \in Jtis
           /\ t # NoClaims
BY NoClaimsAssumption DEF Claims, Pats, Sessions

LEMMA InitType == Init => TypeOK
BY ProfileAssumption DEF Init, TypeOK, Phases, Ops

\* Steps that only change a request's phase, and perhaps its answer.
LEMMA LocalType ==
    ASSUME TypeOK, NEW r \in Requests, Local(r),
           phase' \in [Requests -> Phases],
           code' \in [Requests -> {0, 200, 201, 204, 400, 401, 403, 404, 500}]
    PROVE  TypeOK'
BY DEF TypeOK, Local

LEMMA GotoType ==
    ASSUME TypeOK, NEW r \in Requests, NEW state \in Phases, Goto(r, state)
    PROVE  phase' \in [Requests -> Phases]
BY DEF TypeOK, Goto

LEMMA AnswerType ==
    ASSUME TypeOK, NEW r \in Requests,
           NEW status \in {0, 200, 201, 204, 400, 401, 403, 404, 500}, Answer(r, status)
    PROVE  /\ phase' \in [Requests -> Phases]
           /\ code' \in [Requests -> {0, 200, 201, 204, 400, 401, 403, 404, 500}]
BY DEF TypeOK, Answer, Goto, Phases

LEMMA ArrivesType ==
    ASSUME TypeOK, NEW r \in Requests, NEW t \in held, NEW what \in Ops,
           NEW scope \in Scopes, Arrives(r, t, what, scope),
           phase' \in [Requests -> Phases],
           code' \in [Requests -> {0, 200, 201, 204, 400, 401, 403, 404, 500}]
    PROVE  TypeOK'
BY DEF TypeOK, Arrives

LEMMA AuthenticationType ==
    ASSUME TypeOK, PatInv, NEW r \in Requests, Authentication(r)
    PROVE  TypeOK'
<1>1. ASSUME NEW t \in held, NEW what \in Ops, NEW scope \in Scopes, Verify(r, t, what, scope)
      PROVE  TypeOK'
  <2>1. phase' \in [Requests -> Phases]
    BY <1>1, GotoType DEF Verify, Phases
  <2> QED
    BY <1>1, <2>1, ArrivesType DEF Verify, TypeOK
<1>2. ASSUME NEW t \in held, NEW what \in Ops, NEW scope \in Scopes,
             VerifyFails(r, t, what, scope)
      PROVE  TypeOK'
  <2>1. /\ phase' \in [Requests -> Phases]
        /\ code' \in [Requests -> {0, 200, 201, 204, 400, 401, 403, 404, 500}]
    BY <1>2, AnswerType DEF VerifyFails
  <2> QED
    BY <1>2, <2>1, ArrivesType DEF VerifyFails
<1>3. CASE GetTokenByJTI(r)
  BY <1>3, GotoType, LocalType DEF GetTokenByJTI, Phases, TypeOK
<1>4. CASE RefusePAT(r)
  BY <1>4, AnswerType, LocalType DEF RefusePAT
<1>5. CASE MarkTokenUsed(r)
  <2>1. phase' \in [Requests -> Phases]
    BY <1>5, GotoType DEF MarkTokenUsed, Phases
  <2>2. claims[r].jti \in Jtis /\ tokens[claims[r].jti] \in Row
    BY <1>5 DEF MarkTokenUsed, TypeOK, PatInv, RequestInv, PhaseInv, DeadInv, Pats
  <2>3. [tokens[claims[r].jti] EXCEPT !.used = TRUE] \in Row
    BY <2>2 DEF Row
  <2>4. tokens' \in [Jtis -> Row \union {NoRow}]
    BY <1>5, <2>3 DEF MarkTokenUsed, TypeOK
  <2> QED
    BY <1>5, <2>1, <2>4 DEF MarkTokenUsed, TypeOK
<1>6. CASE Authorize(r)
  BY <1>6, GotoType, LocalType DEF Authorize, Phases, TypeOK
<1>7. CASE InsufficientScope(r)
  BY <1>7, AnswerType, LocalType DEF InsufficientScope
<1> QED
  BY <1>1, <1>2, <1>3, <1>4, <1>5, <1>6, <1>7 DEF Authentication

\* The record and the claims of a new token.
LEMMA CreateTokenType ==
    ASSUME TypeOK, PatInv, NEW r \in Requests, NEW j \in Jtis,
           NEW scopes \in SUBSET Scopes, NEW expiresIn \in 0..(MaxTTL + 1),
           CreateToken(r, j, scopes, expiresIn)
    PROVE  /\ tokens' \in [Jtis -> Row \union {NoRow}]
           /\ made' \in [Requests -> Pats \union {NoClaims}]
<1>1. now + Lifetime(expiresIn) \in Nat
  BY TTLAssumption DEF CreateToken, Acceptable, TypeOK
<1>2. claims[r].sub \in Users
  BY ClaimsParts DEF CreateToken, Managing, Serving, PatInv, RequestInv, PhaseInv, TypeOK
<1>3. scopes \in (SUBSET Scopes) \ {{}}
  BY DEF CreateToken, Acceptable
<1> DEFINE row == [user    |-> claims[r].sub,
                   scopes  |-> scopes,
                   exp     |-> now + Lifetime(expiresIn),
                   revoked |-> FALSE,
                   used    |-> FALSE]
           pat == [type |-> "pat", jti |-> j, sub |-> claims[r].sub, scopes |-> scopes,
                   exp |-> now + Lifetime(expiresIn)]
<1>4. row \in Row
  BY <1>1, <1>2, <1>3 DEF Row
<1>5. pat \in Pats
  BY <1>1, <1>2 DEF Pats
<1>6. tokens' = [tokens EXCEPT ![j] = row] /\ made' = [made EXCEPT ![r] = pat]
  BY DEF CreateToken
<1> HIDE DEF row, pat
<1> QED
  BY <1>4, <1>5, <1>6 DEF TypeOK

LEMMA HandlingType ==
    ASSUME TypeOK, PatInv, NEW r \in Requests, Handling(r)
    PROVE  TypeOK'
<1>1. CASE Use(r)
  BY <1>1, AnswerType, LocalType DEF Use
<1>2. CASE RefuseManaging(r)
  BY <1>2, AnswerType, LocalType DEF RefuseManaging
<1>11. CASE RefuseMalformed(r)
  BY <1>11, AnswerType, LocalType DEF RefuseMalformed
<1>3. CASE ListTokens(r)
  BY <1>3, AnswerType, LocalType DEF ListTokens
<1>4. ASSUME NEW scopes \in SUBSET Scopes, NEW expiresIn \in 0..(MaxTTL + 1), NEW j \in Jtis,
             CreateToken(r, j, scopes, expiresIn)
      PROVE  TypeOK'
  <2>1. phase' \in [Requests -> Phases]
    BY <1>4, GotoType DEF CreateToken, Phases
  <2> QED
    BY <1>4, <2>1, CreateTokenType DEF CreateToken, TypeOK
<1>5. ASSUME NEW scopes \in SUBSET Scopes, NEW expiresIn \in 0..(MaxTTL + 1),
             RefuseCreate(r, scopes, expiresIn)
      PROVE  TypeOK'
  BY <1>5, AnswerType, LocalType DEF RefuseCreate
<1>6. CASE IssuePAT(r)
  <2>1. /\ phase' \in [Requests -> Phases]
        /\ code' \in [Requests -> {0, 200, 201, 204, 400, 401, 403, 404, 500}]
    BY <1>6, AnswerType DEF IssuePAT
  <2>2. made[r] \in Claims
    BY <1>6 DEF IssuePAT, PatInv, RequestInv, MadeInv, Claims
  <2>3. held' \in SUBSET Claims
    BY <1>6, <2>2 DEF IssuePAT, TypeOK
  <2>4. made' \in [Requests -> Pats \union {NoClaims}]
    BY <1>6 DEF IssuePAT, TypeOK
  <2> QED
    BY <1>6, <2>1, <2>3, <2>4 DEF IssuePAT, TypeOK
<1>7. ASSUME NEW j \in Jtis, GetToken(r, j)
      PROVE  TypeOK'
  BY <1>7, AnswerType, LocalType DEF GetToken
<1>8. ASSUME NEW j \in Jtis, RevokeToken(r, j)
      PROVE  TypeOK'
  <2>1. /\ phase' \in [Requests -> Phases]
        /\ code' \in [Requests -> {0, 200, 201, 204, 400, 401, 403, 404, 500}]
    BY <1>8, AnswerType DEF RevokeToken
  <2>2. tokens[j] \in Row
    BY <1>8 DEF RevokeToken, Own, TypeOK
  <2>3. [tokens[j] EXCEPT !.revoked = TRUE] \in Row
    BY <2>2 DEF Row
  <2>4. tokens' \in [Jtis -> Row \union {NoRow}]
    BY <1>8, <2>3 DEF RevokeToken, TypeOK
  <2> QED
    BY <1>8, <2>1, <2>4 DEF RevokeToken, TypeOK
<1>9. ASSUME NEW j \in Jtis, RevokeNotFound(r, j)
      PROVE  TypeOK'
  BY <1>9, AnswerType, LocalType DEF RevokeNotFound
<1>10. CASE Fails(r)
  <2>1. /\ phase' \in [Requests -> Phases]
        /\ code' \in [Requests -> {0, 200, 201, 204, 400, 401, 403, 404, 500}]
    BY <1>10, AnswerType DEF Fails
  <2> QED
    BY <1>10, <2>1 DEF Fails, TypeOK
<1> QED
  BY <1>1, <1>2, <1>3, <1>4, <1>5, <1>6, <1>7, <1>8, <1>9, <1>10, <1>11 DEF Handling

LEMMA NextType == TypeOK /\ PatInv /\ [Next]_vars => TypeOK'
<1> SUFFICES ASSUME TypeOK, PatInv, [Next]_vars PROVE TypeOK'
  OBVIOUS
<1>1. ASSUME NEW u \in Users, NEW scopes \in Grants[u], Issue(u, scopes)
      PROVE  TypeOK'
  <2>1. scopes \subseteq Scopes /\ now + SessionTTL \in Nat
    BY GrantsAssumption, TTLAssumption DEF TypeOK
  <2>2. [type |-> "session", sub |-> u, scopes |-> scopes, exp |-> now + SessionTTL] \in Claims
    BY <2>1 DEF Claims, Sessions
  <2> QED
    BY <1>1, <2>1, <2>2 DEF Issue, TypeOK, requestVars
<1>2. ASSUME NEW r \in Requests, Finish(r)
      PROVE  TypeOK'
  BY <1>2, ProfileAssumption DEF Finish, Goto, TypeOK, Phases, Ops
<1>3. ASSUME NEW r \in Requests, Drop(r)
      PROVE  TypeOK'
  BY <1>3, ProfileAssumption DEF Drop, Goto, TypeOK, Phases, Ops
<1>4. CASE Tick
  BY <1>4 DEF Tick, TypeOK, requestVars
<1>5. CASE UNCHANGED vars
  BY <1>5 DEF vars, requestVars, TypeOK
<1> QED
  BY <1>1, <1>2, <1>3, <1>4, <1>5, AuthenticationType, HandlingType DEF Next
-----------------------------------------------------------------------------
(* What requests share only grows.                                         *)

LEMMA QuietGrows ==
    ASSUME TypeOK, UNCHANGED <<tokens, granted>>, now <= now', held \subseteq held'
    PROVE  Grows
BY DEF Grows

LEMMA AuthenticationGrows ==
    ASSUME TypeOK, PatInv, NEW r \in Requests, Authentication(r)
    PROVE  Grows
<1>1. now <= now
  BY DEF TypeOK
<1>2. CASE MarkTokenUsed(r)
  <2>1. claims[r].jti \in Jtis /\ tokens[claims[r].jti] \in Row
    BY <1>2 DEF MarkTokenUsed, TypeOK, PatInv, RequestInv, PhaseInv, DeadInv, Pats
  <2>0. PICK j \in Jtis : j = claims[r].jti
    BY <2>1
  <2>2. tokens' = [tokens EXCEPT ![j] = [tokens[j] EXCEPT !.used = TRUE]]
    BY <1>2, <2>0 DEF MarkTokenUsed
  <2>3. /\ \A i \in Jtis \ {j} : tokens'[i] = tokens[i]
        /\ tokens'[j] = [tokens[j] EXCEPT !.used = TRUE]
    BY <2>2 DEF TypeOK
  <2>4. /\ tokens'[j] \in Row
        /\ tokens'[j].user = tokens[j].user
        /\ tokens'[j].scopes = tokens[j].scopes
        /\ tokens'[j].exp = tokens[j].exp
        /\ tokens[j].revoked => tokens'[j].revoked
        /\ tokens[j].used => tokens'[j].used
    BY <2>1, <2>0, <2>3 DEF Row
  <2>5. now' = now /\ held' = held /\ granted' = granted
    BY <1>2 DEF MarkTokenUsed
  <2> QED
    BY <1>1, <2>3, <2>4, <2>5, NoRowAssumption DEF Grows
<1>3. CASE ~MarkTokenUsed(r)
  BY <1>1, <1>3, QuietGrows
     DEF Authentication, Verify, VerifyFails, Arrives, GetTokenByJTI, RefusePAT, Authorize,
         InsufficientScope, Local
<1> QED
  BY <1>2, <1>3

LEMMA HandlingGrows ==
    ASSUME TypeOK, PatInv, NEW r \in Requests, Handling(r)
    PROVE  Grows
<1>1. now <= now
  BY DEF TypeOK
<1>2. ASSUME NEW scopes \in SUBSET Scopes, NEW expiresIn \in 0..(MaxTTL + 1), NEW j \in Jtis,
             CreateToken(r, j, scopes, expiresIn)
      PROVE  Grows
  <2>1. \A i \in Jtis : tokens[i] # NoRow => tokens'[i] = tokens[i]
    BY <1>2 DEF CreateToken, TypeOK
  <2> QED
    BY <1>1, <1>2, <2>1 DEF CreateToken, Grows
<1>3. ASSUME NEW j \in Jtis, RevokeToken(r, j)
      PROVE  Grows
  <2>1. tokens[j] \in Row
    BY <1>3 DEF RevokeToken, Own, TypeOK
  <2>2. \A i \in Jtis \ {j} : tokens'[i] = tokens[i]
    BY <1>3 DEF RevokeToken, TypeOK
  <2>3. tokens'[j] = [tokens[j] EXCEPT !.revoked = TRUE]
    BY <1>3 DEF RevokeToken, TypeOK
  <2>4. /\ tokens'[j] \in Row
        /\ tokens'[j].user = tokens[j].user
        /\ tokens'[j].scopes = tokens[j].scopes
        /\ tokens'[j].exp = tokens[j].exp
        /\ tokens[j].revoked => tokens'[j].revoked
        /\ tokens[j].used => tokens'[j].used
    BY <2>1, <2>3 DEF Row
  <2>5. now' = now /\ held' = held /\ granted' = granted
    BY <1>3 DEF RevokeToken
  <2> QED
    BY <1>1, <2>2, <2>4, <2>5, NoRowAssumption DEF Grows
<1>4. CASE UNCHANGED <<now, tokens, held, granted>>
  BY <1>1, <1>4, QuietGrows
<1>5. CASE IssuePAT(r)
  BY <1>1, <1>5, QuietGrows DEF IssuePAT
<1> QED
  BY <1>2, <1>3, <1>4, <1>5
     DEF Handling, Use, RefuseManaging, RefuseMalformed, ListTokens, RefuseCreate, GetToken,
         RevokeNotFound, Fails, Local

LEMMA NextGrows == TypeOK /\ PatInv /\ [Next]_vars => Grows
<1> SUFFICES ASSUME TypeOK, PatInv, [Next]_vars PROVE Grows
  OBVIOUS
<1>1. now <= now /\ now <= now + 1
  BY DEF TypeOK
<1>2. ASSUME NEW u \in Users, NEW scopes \in Grants[u], Issue(u, scopes)
      PROVE  Grows
  BY <1>1, <1>2 DEF Issue, TypeOK, Grows
<1>3. CASE \E r \in Requests : Finish(r) \/ Drop(r)
  BY <1>1, <1>3, QuietGrows DEF Finish, Drop
<1>4. CASE Tick
  BY <1>1, <1>4, QuietGrows DEF Tick
<1>5. CASE UNCHANGED vars
  BY <1>1, <1>5, QuietGrows DEF vars
<1> QED
  BY <1>2, <1>3, <1>4, <1>5, AuthenticationGrows, HandlingGrows DEF Next

\* A token that is recorded stays recorded, and a revoked one revoked.
LEMMA RecordedStays ==
    ASSUME Grows, NEW t \in Pats, Recorded(t)
    PROVE  Recorded(t)'
BY DEF Grows, Recorded, Pats

LEMMA RevokedStays ==
    ASSUME Grows, NEW j \in Jtis, IsRevoked(j)
    PROVE  IsRevoked(j)'
BY DEF Grows, IsRevoked

\* A step of another request leaves a request's part of the invariant true.
LEMMA OthersKeep ==
    ASSUME TypeOK, PatInv, TypeOK', Grows, NEW c \in Requests, SameRequest(c)
    PROVE  RequestInv(c)'
<1>0. RequestInv(c)
  BY DEF PatInv
<1>1. PhaseInv(c)'
  BY <1>0 DEF RequestInv, PhaseInv, Grows, SameRequest
<1>2. ASSUME phase'[c] = "issuing"
      PROVE  /\ made'[c] \in Pats
             /\ Recorded(made[c])'
             /\ (made[c].scopes \subseteq granted[made[c].sub])'
  <2>1. made[c] \in Pats /\ Recorded(made[c]) /\ made[c].scopes \subseteq granted[made[c].sub]
    BY <1>0, <1>2 DEF RequestInv, MadeInv, SameRequest
  <2>2. made'[c] = made[c] /\ made[c].sub \in Users /\ made[c].jti \in Jtis
    BY <2>1 DEF Pats, SameRequest
  <2> QED
    BY <2>1, <2>2 DEF Grows, Recorded
<1>3. DeadInv(c)'
  <2>1. dead[c] \subseteq Jtis /\ dead'[c] = dead[c]
    BY DEF TypeOK, SameRequest
  <2>2. \A j \in dead[c] : IsRevoked(j)'
    BY <1>0, <2>1, RevokedStays DEF RequestInv, DeadInv
  <2>3. phase[c] = "marking" \/ (Accepted(c) /\ claims[c].type = "pat") => claims[c].jti \in Jtis
    BY <1>0, ClaimsParts DEF RequestInv, PhaseInv, TypeOK, Accepted, Pats
  <2>4. ASSUME phase'[c] = "marking" \/ (Accepted(c)' /\ claims'[c].type = "pat")
        PROVE  claims'[c].jti \notin dead'[c] /\ tokens'[claims'[c].jti] # NoRow
    BY <1>0, <2>1, <2>3, <2>4 DEF RequestInv, DeadInv, Accepted, Grows, SameRequest
  <2>5. ASSUME Accepted(c)', claims'[c].type = "pat"
        PROVE  tokens'[claims'[c].jti].used
    BY <1>0, <2>3, <2>5 DEF RequestInv, DeadInv, Accepted, Grows, SameRequest
  <2> QED
    BY <2>1, <2>2, <2>4, <2>5 DEF DeadInv, IsRevoked
<1>4. ASSUME code'[c] = 401, claims'[c].type = "pat"
      PROVE  now' >= claims'[c].exp \/ IsRevoked(claims[c].jti)'
  <2>1. code[c] = 401 /\ claims[c].type = "pat" /\ claims'[c] = claims[c]
    BY <1>4 DEF SameRequest
  <2>2. claims[c] \in held
    BY <1>0, <2>1 DEF RequestInv, PhaseInv
  <2>3. claims[c].jti \in Jtis /\ claims[c].exp \in Nat
    BY <2>1, <2>2, ClaimsParts DEF TypeOK
  <2>4. now >= claims[c].exp \/ IsRevoked(claims[c].jti)
    BY <1>0, <2>1 DEF RequestInv, RefusedInv
  <2>5. now' >= now /\ now' \in Nat /\ now \in Nat
    BY DEF Grows, TypeOK
  <2>6. CASE now >= claims[c].exp
    BY <2>1, <2>3, <2>5, <2>6
  <2>7. CASE IsRevoked(claims[c].jti)
    BY <2>1, <2>3, <2>7 DEF Grows, IsRevoked
  <2> QED
    BY <2>4, <2>6, <2>7
<1> QED
  BY <1>1, <1>2, <1>3, <1>4 DEF RequestInv, MadeInv, RefusedInv
-----------------------------------------------------------------------------
(* The invariant.                                                          *)

LEMMA InitInv == Init => PatInv
BY DEF Init, PatInv, HeldIsRecorded, HeldIsGranted, RequestInv, PhaseInv, MadeInv, DeadInv,
       RefusedInv, Accepted, IsRevoked

\* A step of request r leaves the other requests' variables alone.
LEMMA StepOfOne ==
    ASSUME TypeOK, NEW r \in Requests, Authentication(r) \/ Handling(r) \/ Finish(r) \/ Drop(r),
           NEW c \in Requests \ {r}
    PROVE  SameRequest(c)
<1> USE DEF SameRequest, TypeOK, Goto, Answer, Local
<1>1. CASE Authentication(r)
  BY <1>1 DEF Authentication, Verify, VerifyFails, Arrives, GetTokenByJTI, RefusePAT,
     MarkTokenUsed, Authorize, InsufficientScope
<1>2. CASE Handling(r)
  BY <1>2 DEF Handling, Use, RefuseManaging, RefuseMalformed, ListTokens, CreateToken,
     RefuseCreate, IssuePAT, GetToken, RevokeToken, RevokeNotFound, Fails
<1>3. CASE Finish(r)
  BY <1>3 DEF Finish
<1>4. CASE Drop(r)
  BY <1>4 DEF Drop
<1> QED
  BY <1>1, <1>2, <1>3, <1>4

\* The tokens that are held stay recorded and within their owners' scopes.
LEMMA HeldStays ==
    ASSUME TypeOK, PatInv, Grows, UNCHANGED held
    PROVE  HeldIsRecorded' /\ HeldIsGranted'
<1>1. ASSUME NEW t \in held, t \in Pats
      PROVE  Recorded(t)'
  BY <1>1, RecordedStays DEF PatInv, HeldIsRecorded
<1>2. ASSUME NEW t \in held
      PROVE  t.scopes \subseteq granted'[t.sub]
  BY <1>2, ClaimsParts DEF TypeOK, Grows, PatInv, HeldIsGranted
<1> QED
  BY <1>1, <1>2 DEF HeldIsRecorded, HeldIsGranted

\* A request arrives.
LEMMA ArrivesInv ==
    ASSUME TypeOK, PatInv, NEW r \in Requests, NEW t \in held, NEW what \in Ops,
           NEW scope \in Scopes, Verify(r, t, what, scope) \/ VerifyFails(r, t, what, scope)
    PROVE  RequestInv(r)'
<1>1. /\ phase[r] = "idle" /\ code[r] = 0
      /\ claims'[r] = t /\ need'[r] = scope /\ held' = held /\ now' = now /\ tokens' = tokens
      /\ dead'[r] = {j \in Jtis : IsRevoked(j)}
  BY DEF Verify, VerifyFails, Arrives, TypeOK, PatInv, RequestInv, PhaseInv
<1>2. t \in Claims
  BY DEF TypeOK
<1>3. CASE Verify(r, t, what, scope)
  <2>1. /\ phase'[r] = IF t.type = "pat" THEN "validating" ELSE "authorizing"
        /\ code'[r] = 0
    BY <1>1, <1>3 DEF Verify, Goto, TypeOK
  <2>2. PhaseInv(r)'
    BY <1>1, <1>2, <2>1, ClaimsParts DEF PhaseInv
  <2> QED
    BY <1>1, <2>1, <2>2 DEF RequestInv, MadeInv, DeadInv, RefusedInv, Accepted, IsRevoked
<1>4. CASE VerifyFails(r, t, what, scope)
  <2>1. phase'[r] = "done" /\ code'[r] = 401 /\ now >= t.exp
    BY <1>1, <1>4, <1>2, ClaimsParts DEF VerifyFails, Answer, Goto, TypeOK
  <2> QED
    BY <1>1, <2>1 DEF RequestInv, PhaseInv, MadeInv, DeadInv, RefusedInv, Accepted, IsRevoked
<1> QED
  BY <1>3, <1>4

\* A request is answered, other than with a refusal of its token.
LEMMA AnswerInv ==
    ASSUME TypeOK, PatInv, Grows, NEW r \in Requests, phase[r] # "idle",
           NEW status, status # 401, Answer(r, status), UNCHANGED <<claims, dead>>
    PROVE  RequestInv(r)'
<1>1. phase'[r] = "done" /\ code'[r] = status /\ claims[r] \in held' /\ dead[r] \subseteq Jtis
  BY DEF Answer, Goto, TypeOK, PatInv, RequestInv, PhaseInv, Grows
<1>2. \A j \in dead[r] : IsRevoked(j)'
  BY <1>1, RevokedStays DEF PatInv, RequestInv, DeadInv
<1> QED
  BY <1>1, <1>2 DEF RequestInv, PhaseInv, MadeInv, DeadInv, RefusedInv, Accepted, IsRevoked

LEMMA AuthenticationInv ==
    ASSUME TypeOK, PatInv, Grows, NEW r \in Requests, Authentication(r)
    PROVE  RequestInv(r)'
<1>0. RequestInv(r)
  BY DEF PatInv
<1>1. CASE \E t \in held, what \in Ops, scope \in Scopes :
             Verify(r, t, what, scope) \/ VerifyFails(r, t, what, scope)
  BY <1>1, ArrivesInv
<1>2. CASE GetTokenByJTI(r)
  <2>1. /\ phase[r] = "validating" /\ phase'[r] = "marking"
        /\ UNCHANGED <<tokens, held, claims, dead, code>>
    BY <1>2 DEF GetTokenByJTI, Goto, Local, TypeOK
  <2>2. claims[r] \in Pats /\ claims[r] \in held /\ code[r] = 0
    BY <1>0, <2>1 DEF RequestInv, PhaseInv
  <2>3. tokens[claims[r].jti] # NoRow /\ claims[r].jti \notin dead[r]
    BY <1>0, <1>2 DEF GetTokenByJTI, Active, RequestInv, DeadInv, IsRevoked
  <2> QED
    BY <1>0, <2>1, <2>2, <2>3
       DEF RequestInv, PhaseInv, MadeInv, DeadInv, RefusedInv, Accepted, IsRevoked
<1>3. CASE RefusePAT(r)
  <2>1. /\ phase[r] = "validating" /\ phase'[r] = "done" /\ code'[r] = 401
        /\ UNCHANGED <<now, tokens, held, claims, dead>>
    BY <1>3 DEF RefusePAT, Answer, Goto, Local, TypeOK
  <2>2. claims[r] \in Pats /\ claims[r] \in held
    BY <1>0, <2>1 DEF RequestInv, PhaseInv
  <2>3. Recorded(claims[r]) /\ claims[r].exp \in Nat /\ now \in Nat
    BY <2>2 DEF PatInv, HeldIsRecorded, Pats, TypeOK
  <2>4. IsRevoked(claims[r].jti) \/ now >= claims[r].exp
    BY <1>3, <2>3 DEF RefusePAT, Active, Recorded, IsRevoked
  <2> QED
    BY <1>0, <2>1, <2>2, <2>4
       DEF RequestInv, PhaseInv, MadeInv, DeadInv, RefusedInv, Accepted, IsRevoked
<1>4. CASE MarkTokenUsed(r)
  <2>1. /\ phase[r] = "marking" /\ phase'[r] = "authorizing"
        /\ UNCHANGED <<held, claims, dead, code>>
    BY <1>4 DEF MarkTokenUsed, Goto, TypeOK
  <2>2. claims[r] \in Pats /\ claims[r] \in held /\ code[r] = 0
    BY <1>0, <2>1 DEF RequestInv, PhaseInv
  <2>3. /\ claims[r].jti \in Jtis /\ tokens[claims[r].jti] \in Row
        /\ claims[r].jti \notin dead[r] /\ tokens[claims[r].jti] # NoRow
    BY <1>0, <2>1, <2>2 DEF RequestInv, DeadInv, Pats, TypeOK
  <2>4. PICK j \in Jtis : j = claims[r].jti
    BY <2>3
  <2>5. tokens' = [tokens EXCEPT ![j] = [tokens[j] EXCEPT !.used = TRUE]]
    BY <1>4, <2>4 DEF MarkTokenUsed
  <2>6. tokens'[j] = [tokens[j] EXCEPT !.used = TRUE]
    BY <2>5 DEF TypeOK
  <2>7. tokens'[claims[r].jti].used /\ tokens'[claims[r].jti] # NoRow
    BY <2>3, <2>4, <2>6 DEF Row, Grows
  <2>8. \A i \in dead[r] : IsRevoked(i)'
    BY <1>0, RevokedStays DEF RequestInv, DeadInv, TypeOK
  <2> QED
    BY <2>1, <2>2, <2>3, <2>7, <2>8
       DEF RequestInv, PhaseInv, MadeInv, DeadInv, RefusedInv, Accepted, IsRevoked
<1>5. CASE Authorize(r)
  <2>1. /\ phase[r] = "authorizing" /\ phase'[r] = "serving" /\ need[r] \in claims[r].scopes
        /\ UNCHANGED <<tokens, held, claims, need, dead, code>>
    BY <1>5 DEF Authorize, Goto, Local, TypeOK
  <2> QED
    BY <1>0, <2>1 DEF RequestInv, PhaseInv, MadeInv, DeadInv, RefusedInv, Accepted, IsRevoked
<1>6. CASE InsufficientScope(r)
  BY <1>6, AnswerInv DEF InsufficientScope, Local
<1> QED
  BY <1>1, <1>2, <1>3, <1>4, <1>5, <1>6 DEF Authentication

\* The token of a request that is served is recorded, and not revoked when it
\* arrived, after any step too.
LEMMA ServedStays ==
    ASSUME TypeOK, PatInv, Grows, NEW r \in Requests, phase[r] = "serving",
           UNCHANGED <<claims, dead>>, phase'[r] # "marking"
    PROVE  DeadInv(r)'
<1>0. RequestInv(r)
  BY DEF PatInv
<1>1. \A j \in dead[r] : IsRevoked(j)'
  BY <1>0, RevokedStays DEF RequestInv, DeadInv, TypeOK
<1>2. claims[r].type = "pat" => claims[r].jti \in Jtis
  BY <1>0, ClaimsParts DEF RequestInv, PhaseInv, TypeOK
<1>3. claims[r].type = "pat" =>
        /\ claims[r].jti \notin dead[r]
        /\ tokens'[claims[r].jti] # NoRow
        /\ tokens'[claims[r].jti].used
  BY <1>0, <1>2 DEF RequestInv, DeadInv, Accepted, Grows
<1> QED
  BY <1>1, <1>3 DEF DeadInv, Accepted, IsRevoked

LEMMA HandlingInv ==
    ASSUME TypeOK, PatInv, TypeOK', Grows, NEW r \in Requests, Handling(r)
    PROVE  RequestInv(r)' /\ HeldIsRecorded' /\ HeldIsGranted'
<1>0. RequestInv(r)
  BY DEF PatInv
<1>1. ASSUME NEW scopes \in SUBSET Scopes, NEW expiresIn \in 0..(MaxTTL + 1), NEW j \in Jtis,
             CreateToken(r, j, scopes, expiresIn)
      PROVE  RequestInv(r)' /\ HeldIsRecorded' /\ HeldIsGranted'
  <2>1. /\ phase[r] = "serving" /\ phase'[r] = "issuing" /\ code[r] = 0
        /\ UNCHANGED <<held, claims, need, code, dead, granted>>
    BY <1>0, <1>1 DEF CreateToken, Managing, Serving, Goto, TypeOK, RequestInv, PhaseInv
  <2>2. claims[r] \in held /\ need[r] \in claims[r].scopes /\ scopes \subseteq claims[r].scopes
    BY <1>0, <1>1, <2>1 DEF RequestInv, PhaseInv, CreateToken, Acceptable
  <2>3. claims[r].scopes \subseteq granted[claims[r].sub]
    BY <2>2 DEF PatInv, HeldIsGranted
  <2>4. /\ made'[r] = [type |-> "pat", jti |-> j, sub |-> claims[r].sub, scopes |-> scopes,
                       exp |-> now + Lifetime(expiresIn)]
        /\ tokens'[j] = [user |-> claims[r].sub, scopes |-> scopes,
                         exp |-> now + Lifetime(expiresIn), revoked |-> FALSE, used |-> FALSE]
        /\ made'[r] \in Pats \union {NoClaims}
        /\ tokens'[j] \in Row \union {NoRow}
    BY <1>1, CreateTokenType DEF CreateToken, TypeOK
  <2>5. made'[r] \in Pats /\ tokens'[j] # NoRow
    <3>1. now + Lifetime(expiresIn) \in Nat
      BY <1>1, TTLAssumption DEF CreateToken, Acceptable, TypeOK
    <3>2. claims[r].sub \in Users /\ scopes \in (SUBSET Scopes) \ {{}}
      BY <1>1, <2>2, ClaimsParts DEF CreateToken, Acceptable, TypeOK
    <3>3. made'[r] \in Pats
      BY <2>4, <3>1, <3>2 DEF Pats
    <3>4. tokens'[j] \in Row
      BY <2>4, <3>1, <3>2 DEF Row
    <3> QED
      BY <3>3, <3>4, NoRowAssumption
  <2>6. MadeInv(r)'
    BY <2>1, <2>2, <2>3, <2>4, <2>5 DEF MadeInv, Recorded
  <2>7. PhaseInv(r)'
    BY <2>1, <2>2 DEF PhaseInv
  <2>8. DeadInv(r)'
    BY <2>1, ServedStays
  <2>9. RefusedInv(r)'
    BY <2>1 DEF RefusedInv
  <2> QED
    BY <2>1, <2>6, <2>7, <2>8, <2>9, HeldStays DEF RequestInv
<1>2. CASE IssuePAT(r)
  <2>1. /\ phase[r] = "issuing" /\ held' = held \union {made[r]}
        /\ Answer(r, 201) /\ UNCHANGED <<tokens, claims, dead, granted>>
    BY <1>2 DEF IssuePAT
  <2>2. made[r] \in Pats /\ Recorded(made[r]) /\ made[r].scopes \subseteq granted[made[r].sub]
    BY <1>0, <2>1 DEF RequestInv, MadeInv
  <2>3. HeldIsRecorded'
    BY <2>1, <2>2 DEF PatInv, HeldIsRecorded, Recorded
  <2>4. HeldIsGranted'
    BY <2>1, <2>2 DEF PatInv, HeldIsGranted
  <2> QED
    BY <2>1, <2>3, <2>4, AnswerInv
<1>3. ASSUME NEW status, status # 401, Answer(r, status), phase[r] # "idle",
             UNCHANGED <<claims, dead, held>>
      PROVE  RequestInv(r)' /\ HeldIsRecorded' /\ HeldIsGranted'
  BY <1>3, AnswerInv, HeldStays
<1>4. CASE Use(r) \/ RefuseManaging(r) \/ RefuseMalformed(r) \/ ListTokens(r)
  BY <1>3, <1>4 DEF Use, RefuseManaging, RefuseMalformed, ListTokens, Managing, Serving, Local
<1>5. ASSUME NEW scopes \in SUBSET Scopes, NEW expiresIn \in 0..(MaxTTL + 1),
             RefuseCreate(r, scopes, expiresIn)
      PROVE  RequestInv(r)' /\ HeldIsRecorded' /\ HeldIsGranted'
  BY <1>3, <1>5 DEF RefuseCreate, Managing, Serving, Local
<1>6. ASSUME NEW j \in Jtis, GetToken(r, j) \/ RevokeNotFound(r, j)
      PROVE  RequestInv(r)' /\ HeldIsRecorded' /\ HeldIsGranted'
  BY <1>3, <1>6 DEF GetToken, RevokeNotFound, Managing, Serving, Local
<1>7. ASSUME NEW j \in Jtis, RevokeToken(r, j)
      PROVE  RequestInv(r)' /\ HeldIsRecorded' /\ HeldIsGranted'
  BY <1>3, <1>7 DEF RevokeToken, Managing, Serving
<1>8. CASE Fails(r)
  BY <1>3, <1>8 DEF Fails
<1> QED
  BY <1>1, <1>2, <1>4, <1>5, <1>6, <1>7, <1>8 DEF Handling

LEMMA NextInv == TypeOK /\ PatInv /\ TypeOK' /\ [Next]_vars => PatInv'
<1> SUFFICES ASSUME TypeOK, PatInv, TypeOK', [Next]_vars PROVE PatInv'
  OBVIOUS
<1>0. Grows
  BY NextGrows
<1>1. ASSUME NEW r \in Requests, Authentication(r) \/ Handling(r) \/ Finish(r) \/ Drop(r)
      PROVE  PatInv'
  <2>1. ASSUME NEW c \in Requests \ {r}
        PROVE  RequestInv(c)'
    BY <1>0, <1>1, StepOfOne, OthersKeep
  <2>2. RequestInv(r)' /\ HeldIsRecorded' /\ HeldIsGranted'
    <3>1. CASE Authentication(r)
      <4>1. UNCHANGED held
        BY <3>1 DEF Authentication, Verify, VerifyFails, Arrives, GetTokenByJTI, RefusePAT,
           MarkTokenUsed, Authorize, InsufficientScope, Local
      <4> QED
        BY <1>0, <3>1, <4>1, AuthenticationInv, HeldStays
    <3>2. CASE Handling(r)
      BY <1>0, <3>2, HandlingInv
    <3>3. CASE Finish(r) \/ Drop(r)
      <4>1. /\ phase'[r] = "idle" /\ code'[r] = 0 /\ dead'[r] = {} /\ UNCHANGED held
        BY <3>3 DEF Finish, Drop, Goto, TypeOK
      <4> QED
        BY <1>0, <4>1, HeldStays
           DEF RequestInv, PhaseInv, MadeInv, DeadInv, RefusedInv, Accepted
    <3> QED
      BY <1>1, <3>1, <3>2, <3>3
  <2> QED
    BY <2>1, <2>2 DEF PatInv
<1>2. ASSUME UNCHANGED requestVars
      PROVE  \A c \in Requests : RequestInv(c)'
  BY <1>0, <1>2, OthersKeep DEF requestVars, SameRequest
<1>3. ASSUME NEW u \in Users, NEW scopes \in Grants[u], Issue(u, scopes)
      PROVE  PatInv'
  <2> DEFINE t == [type |-> "session", sub |-> u, scopes |-> scopes, exp |-> now + SessionTTL]
  <2>1. held' = held \union {t} /\ tokens' = tokens /\ t \notin Pats
    BY <1>3 DEF Issue, Pats
  <2>2. HeldIsRecorded'
    BY <2>1 DEF PatInv, HeldIsRecorded, Recorded
  <2>3. t.sub = u /\ t.scopes = scopes /\ scopes \subseteq granted'[u]
    BY <1>3 DEF Issue, TypeOK
  <2>4. \A s \in held : s.scopes \subseteq granted'[s.sub]
    BY <1>0, ClaimsParts DEF TypeOK, Grows, PatInv, HeldIsGranted
  <2> HIDE DEF t
  <2>5. HeldIsGranted'
    BY <2>1, <2>3, <2>4 DEF HeldIsGranted
  <2> QED
    BY <1>2, <1>3, <2>2, <2>5 DEF Issue, PatInv
<1>4. CASE Tick
  BY <1>0, <1>2, <1>4, HeldStays DEF Tick, PatInv
<1>5. CASE UNCHANGED vars
  BY <1>0, <1>2, <1>5, HeldStays DEF vars, requestVars, PatInv
<1> QED
  BY <1>1, <1>3, <1>4, <1>5 DEF Next

LEMMA Invariant == Spec => [](TypeOK /\ PatInv)
<1>1. Init => TypeOK /\ PatInv
  BY InitType, InitInv
<1>2. TypeOK /\ PatInv /\ [Next]_vars => TypeOK' /\ PatInv'
  BY NextType, NextInv
<1> QED
  BY <1>1, <1>2, PTL DEF Spec
-----------------------------------------------------------------------------
(* The theorems.                                                           *)

(***************************************************************************)
(* Every state of the tokens' table, of what is held and of the requests   *)
(* is well typed; MarkTokenUsed, for one, only ever marks a record that    *)
(* is there.                                                               *)
(***************************************************************************)
THEOREM TypeCorrect == Spec => []TypeOK
BY Invariant, PTL

(***************************************************************************)
(* A request whose access token had been revoked when it arrived never     *)
(* gets past ValidatePAT.                                                  *)
(***************************************************************************)
THEOREM RevocationHolds == Spec => []RevokedIsRefused
<1>1. TypeOK /\ PatInv => RevokedIsRefused
  BY DEF RevokedIsRefused, PatInv, RequestInv, DeadInv, Accepted
<1> QED
  BY <1>1, Invariant, PTL

(***************************************************************************)
(* Every access token that somebody holds has its record.                  *)
(***************************************************************************)
THEOREM EveryTokenRecorded == Spec => []HeldIsRecorded
<1>1. PatInv => HeldIsRecorded
  BY DEF PatInv
<1> QED
  BY <1>1, Invariant, PTL

(***************************************************************************)
(* An access token is refused only once it has expired or been revoked.    *)
(***************************************************************************)
THEOREM NoSpuriousRefusal == Spec => []RefusedOnlyIfDead
<1>1. PatInv => RefusedOnlyIfDead
  BY DEF PatInv, RequestInv, RefusedInv, RefusedOnlyIfDead
<1> QED
  BY <1>1, Invariant, PTL

(***************************************************************************)
(* Making tokens gives nobody a scope that no login has given him.         *)
(***************************************************************************)
THEOREM NoScopeGained == Spec => []ScopesAreGranted
<1>1. TypeOK /\ PatInv => ScopesAreGranted
  BY DEF PatInv, HeldIsGranted, RequestInv, PhaseInv, ScopesAreGranted
<1> QED
  BY <1>1, Invariant, PTL

\* What OwnersManage says of one record.
Managed(j) ==
    \/ /\ tokens[j] # NoRow
       /\ tokens'[j] = [tokens[j] EXCEPT !.used = TRUE]
    \/ /\ ~IsRevoked(j)
       /\ \E r \in Requests :
             /\ phase[r] = "serving"
             /\ phase'[r] # "serving"
             /\ claims[r] \in Sessions
             /\ claims[r].sub = tokens'[j].user

\* A session token bears the request that manages access tokens.
LEMMA ManagedBySession ==
    ASSUME TypeOK, PatInv, NEW r \in Requests, phase[r] = "serving", claims[r].type = "session"
    PROVE  claims[r] \in Sessions /\ claims[r].sub \in Users
<1>1. claims[r] \in Claims
  BY DEF TypeOK, PatInv, RequestInv, PhaseInv
<1> QED
  BY <1>1, ClaimsParts

(***************************************************************************)
(* A record is made, and is revoked, only by a request that bears a        *)
(* session token of its owner; it never becomes active again.              *)
(***************************************************************************)
THEOREM OnlyOwnersManage == Spec => OwnersManage
<1>1. ASSUME TypeOK, PatInv, [Next]_vars, NEW j \in Jtis, tokens'[j] # tokens[j]
      PROVE  Managed(j)
  <2>1. ASSUME NEW r \in Requests, MarkTokenUsed(r)
        PROVE  Managed(j)
    <3>1. claims[r].jti = j
      BY <1>1, <2>1 DEF MarkTokenUsed, TypeOK
    <3>2. tokens[j] # NoRow
      BY <1>1, <2>1, <3>1 DEF MarkTokenUsed, PatInv, RequestInv, DeadInv
    <3>3. tokens' = [tokens EXCEPT ![j] = [tokens[j] EXCEPT !.used = TRUE]]
      BY <2>1, <3>1 DEF MarkTokenUsed
    <3> QED
      BY <1>1, <3>2, <3>3 DEF Managed, TypeOK
  <2>2. ASSUME NEW r \in Requests, NEW scopes \in SUBSET Scopes,
               NEW expiresIn \in 0..(MaxTTL + 1), NEW i \in Jtis,
               CreateToken(r, i, scopes, expiresIn)
        PROVE  Managed(j)
    <3>1. i = j
      BY <1>1, <2>2 DEF CreateToken, TypeOK
    <3>2. /\ phase[r] = "serving" /\ phase'[r] = "issuing" /\ claims[r].type = "session"
          /\ tokens[j] = NoRow /\ tokens'[j].user = claims[r].sub
      BY <1>1, <2>2, <3>1 DEF CreateToken, Managing, Serving, Goto, TypeOK
    <3> QED
      BY <1>1, <3>2, ManagedBySession DEF Managed, IsRevoked
  <2>3. ASSUME NEW r \in Requests, NEW i \in Jtis, RevokeToken(r, i)
        PROVE  Managed(j)
    <3>1. i = j
      BY <1>1, <2>3 DEF RevokeToken, TypeOK
    <3>2. /\ phase[r] = "serving" /\ phase'[r] = "done" /\ claims[r].type = "session"
          /\ tokens[j] # NoRow /\ tokens[j].user = claims[r].sub
          /\ tokens' = [tokens EXCEPT ![j] = [tokens[j] EXCEPT !.revoked = TRUE]]
      BY <1>1, <2>3, <3>1 DEF RevokeToken, Own, Managing, Serving, Answer, Goto, TypeOK
    <3>3. tokens[j] \in Row /\ tokens'[j] = [tokens[j] EXCEPT !.revoked = TRUE]
      BY <1>1, <3>2 DEF TypeOK
    <3>4. tokens'[j].user = claims[r].sub
      BY <3>2, <3>3 DEF Row
    <3>5. CASE tokens[j].revoked
      <4>1. [tokens[j] EXCEPT !.revoked = TRUE] = tokens[j]
        BY <3>3, <3>5 DEF Row
      <4> QED
        BY <1>1, <3>3, <4>1
    <3>6. CASE ~tokens[j].revoked
      BY <1>1, <3>2, <3>4, <3>6, ManagedBySession DEF Managed, IsRevoked
    <3> QED
      BY <3>5, <3>6
  <2>4. CASE UNCHANGED tokens
    BY <1>1, <2>4
  <2> QED
    BY <1>1, <2>1, <2>2, <2>3, <2>4
       DEF Next, vars, Issue, Finish, Drop, Tick, Authentication, Verify, VerifyFails, Arrives,
           GetTokenByJTI, RefusePAT, Authorize, InsufficientScope, Handling, Use,
           RefuseManaging, RefuseMalformed, ListTokens, RefuseCreate, IssuePAT, GetToken, RevokeNotFound,
           Fails, Local
<1>2. TypeOK /\ PatInv /\ [Next]_vars =>
        [\A j \in Jtis : tokens'[j] # tokens[j] => Managed(j)]_vars
  BY <1>1
<1>3. Spec => [][\A j \in Jtis : tokens'[j] # tokens[j] => Managed(j)]_vars
  BY <1>2, Invariant, PTL DEF Spec
<1> QED
  BY <1>3 DEF OwnersManage, Managed
=============================================================================
