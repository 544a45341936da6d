------------------------ MODULE SessionTokensProofs ------------------------
(***************************************************************************)
(* Tokens are accepted by the servers that trust their signer, in time.    *)
(***************************************************************************)
EXTENDS SessionTokens, Integers, TLAPS

\* A token bears the marks of its signer, which was able to run.
SignedInv ==
    \A token \in tokens :
        /\ Usable(token.signer)
        /\ token.alg = token.signer.method
        /\ token.pair = SigningKey(token.signer)
        /\ token.issuer = token.signer.issuer
        /\ token.audience = token.signer.audience
        /\ token.exp = Unix(token.expires)

TokensInv == TypeOK /\ SignedInv /\ (Running => Usable(server))

\* A time cut to seconds is at most a second too early.
LEMMA UnixBounds ==
    ASSUME NEW time \in Nat
    PROVE  /\ Unix(time) \in Nat
           /\ Unix(time) * TicksPerSecond <= time
           /\ time < Unix(time) * TicksPerSecond + TicksPerSecond
<1>1. TicksPerSecond \in Nat /\ TicksPerSecond > 0
  BY TimeAssumption
<1>2. /\ Unix(time) \in Int
      /\ time = TicksPerSecond * Unix(time) + (time % TicksPerSecond)
      /\ time % TicksPerSecond \in 0..(TicksPerSecond - 1)
  BY <1>1 DEF Unix
<1>. QED BY <1>1, <1>2

\* The key that a usable server signs with is its private key file's.
LEMMA SigningKeyOfFile ==
    ASSUME NEW config \in Configs, SigningKey(config) # NoKey
    PROVE  SigningKey(config) = config.private.pair /\ config.private \in File
BY ConfigsAssumption DEF SigningKey, ParsePrivateKey, ParsePrivateDer, Config

\* Only a public key file is verified with: a private key that can be signed
\* with is no DER.
LEMMA VerificationKeyOfFile ==
    ASSUME NEW config \in Configs, Usable(config)
    PROVE  LoadVerificationKey(config) = config.public.pair /\ config.public \in File
BY ConfigsAssumption DEF Usable, SigningKey, LoadVerificationKey, ParsePublicKey, ParsePrivateKey,
   ParsePrivateDer, Config

LEMMA InitHolds == Init => TokensInv
BY DEF Init, TokensInv, TypeOK, SignedInv, Running

LEMMA SignKeeps == ASSUME TokensInv, NEW time \in Nat, Sign(time) PROVE TokensInv'
<1>. DEFINE new == [alg |-> server.method, pair |-> SigningKey(server),
                    issuer |-> server.issuer, audience |-> server.audience,
                    exp |-> Unix(time), expires |-> time, signer |-> server]
<1>1. server \in Configs /\ Usable(server) /\ tokens' = tokens \union {new} /\ UNCHANGED <<now, server, refused>>
  BY DEF Sign, Running, TokensInv, TypeOK
<1>2. server \in Config
  BY <1>1, ConfigsAssumption
<1>3. SigningKey(server) \in Pairs
  BY <1>1, SigningKeyOfFile DEF Usable, File
<1>4. server.method \in Methods /\ server.issuer \in Issuers /\ server.audience \in Audiences
  BY <1>1, <1>2 DEF Usable, Supported, Config
<1>5. Unix(time) \in Nat
  BY UnixBounds
<1>6. new \in Token
  BY <1>1, <1>3, <1>4, <1>5 DEF Token
<1>7. TypeOK'
  BY <1>1, <1>6 DEF TokensInv, TypeOK
<1>8. SignedInv'
  BY <1>1 DEF TokensInv, SignedInv
<1>. QED BY <1>1, <1>7, <1>8 DEF TokensInv, Running

LEMMA StepKeeps == TokensInv /\ [Next]_vars => TokensInv'
<1>. SUFFICES ASSUME TokensInv, [Next]_vars PROVE TokensInv'
  OBVIOUS
<1>1. ASSUME NEW config \in Configs, Start(config) \/ StartFails(config) PROVE TokensInv'
  BY <1>1 DEF Start, StartFails, TokensInv, TypeOK, SignedInv, Running
<1>2. CASE Stop
  BY <1>2 DEF Stop, TokensInv, TypeOK, SignedInv, Running
<1>3. CASE Issue
  <2>1. now + server.ttl \in Nat
    BY <1>3, ConfigsAssumption DEF Issue, Running, TokensInv, TypeOK, Config
  <2>. QED BY <1>3, <2>1, SignKeeps DEF Issue
<1>4. ASSUME NEW lifetime \in Lifetimes, NEW ago \in {0, 1}, IssuePAT(lifetime, ago) PROVE TokensInv'
  <2>1. (now - ago) + lifetime \in Nat
    BY <1>4, TimeAssumption DEF IssuePAT, TokensInv, TypeOK
  <2>. QED BY <1>4, <2>1, SignKeeps DEF IssuePAT
<1>5. CASE Tick
  BY <1>5 DEF Tick, TokensInv, TypeOK, SignedInv, Running
<1>6. CASE UNCHANGED vars
  BY <1>6 DEF vars, TokensInv, TypeOK, SignedInv, Running
<1>. QED BY <1>1, <1>2, <1>3, <1>4, <1>5, <1>6 DEF Next

THEOREM Inductive == Spec => []TokensInv
BY InitHolds, StepKeeps, PTL DEF Spec

\* Every state is one of the model's kind: no server runs that cannot sign.
THEOREM TypeCorrect == Spec => []TypeOK
BY Inductive, PTL DEF TokensInv

LEMMA AcceptedTrusted == TokensInv => AcceptedIsTrusted
<1>. SUFFICES ASSUME TokensInv, NEW token \in tokens, Verifies(token)
              PROVE  Trusts(server, token.signer) /\ now < token.expires
  BY DEF AcceptedIsTrusted
<1>1. server \in Configs /\ token.signer \in Configs /\ Usable(server) /\ Usable(token.signer)
  BY DEF Verifies, Running, TokensInv, TypeOK, SignedInv, Token
<1>2. Trusts(server, token.signer)
  BY <1>1, SigningKeyOfFile, VerificationKeyOfFile
     DEF Verifies, TokensInv, SignedInv, Trusts, Usable
<1>3. now < Unix(token.expires) * TicksPerSecond
  BY DEF Verifies, TokensInv, SignedInv
<1>4. token.expires \in Nat /\ now \in Nat /\ TicksPerSecond \in Nat
  BY TimeAssumption DEF TokensInv, TypeOK, Token
<1>5. Unix(token.expires) * TicksPerSecond <= token.expires /\ Unix(token.expires) * TicksPerSecond \in Nat
  BY <1>4, UnixBounds
<1>6. now < token.expires
  BY <1>3, <1>4, <1>5
<1>. QED BY <1>2, <1>6

LEMMA TrustedAccepted == TokensInv => TrustedIsAccepted
<1>. SUFFICES ASSUME TokensInv, NEW token \in tokens, Running, Trusts(server, token.signer),
                     now + TicksPerSecond <= token.expires
              PROVE  Verifies(token)
  BY DEF TrustedIsAccepted
<1>1. server \in Configs /\ token.signer \in Configs /\ Usable(server) /\ Usable(token.signer)
  BY DEF Running, TokensInv, TypeOK, SignedInv, Token
<1>2. token.pair = LoadVerificationKey(server)
  BY <1>1, SigningKeyOfFile, VerificationKeyOfFile DEF TokensInv, SignedInv, Trusts, Usable
<1>3. token.expires \in Nat /\ now \in Nat /\ TicksPerSecond \in Nat
  BY TimeAssumption DEF TokensInv, TypeOK, Token
<1>4. token.expires < Unix(token.expires) * TicksPerSecond + TicksPerSecond
      /\ Unix(token.expires) * TicksPerSecond \in Nat
  BY <1>3, UnixBounds
<1>5. now < Unix(token.expires) * TicksPerSecond
  BY <1>3, <1>4
<1>. QED BY <1>2, <1>5 DEF Verifies, TokensInv, SignedInv, Trusts

\* Only servers that trust its signer accept a token, and only in time.
THEOREM OnlyTrustedAccepted == Spec => []AcceptedIsTrusted
BY Inductive, AcceptedTrusted, PTL

\* Servers that trust its signer do accept it.
THEOREM TrustedAreAccepted == Spec => []TrustedIsAccepted
BY Inductive, TrustedAccepted, PTL
=============================================================================
