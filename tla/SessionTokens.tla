--------------------------- MODULE SessionTokens ---------------------------
(***************************************************************************)
(* Signing and verifying tokens (internal/auth/token.go, verify.go).       *)
(*                                                                         *)
(* A server loads a key to sign with and a key to verify with, each from a *)
(* file of its own, when it starts.  Tokens outlive the server that signed *)
(* them: its successors may have other keys, another method, issuer,       *)
(* audience or time to live.                                               *)
(***************************************************************************)
EXTENDS Naturals, FiniteSets

CONSTANTS
    Pairs,           \* key pairs
    KeyType,         \* "ed25519" or "rsa"
    NoKey,
    NoPath,          \* no path is configured
    Missing,         \* the configured file is not there
    Issuers, Audiences,
    Configs,         \* the configurations that servers are started with
    NoServer,
    TicksPerSecond,
    Lifetimes,       \* of access tokens, in ticks
    MaxTime,         \* bound of the clock
    MaxTokens        \* bound of the tokens

\* A file holds half of a key pair as DER, wrapped in PEM or not.
Forms == {"pkcs8", "pkcs1", "pkix", "pkcs1 public"}
File == [pem : BOOLEAN, form : Forms, pair : Pairs]

Methods == {"EdDSA", "RS256"}
MethodNames == Methods \union {"other"}

Config == [method  : MethodNames,
           private : File \union {Missing},
           public  : File \union {Missing, NoPath},
           issuer  : Issuers,
           audience : Audiences,
           ttl     : Nat]

ASSUME KeyTypeAssumption == KeyType \in [Pairs -> {"ed25519", "rsa"}]
ASSUME NoKeyAssumption == NoKey \notin Pairs
ASSUME ConfigsAssumption == Configs \subseteq Config
ASSUME NoServerAssumption == NoServer \notin Config
ASSUME NoFileAssumption == Missing \notin File /\ NoPath \notin File \union {Missing}
ASSUME TimeAssumption == TicksPerSecond \in Nat \ {0} /\ MaxTime \in Nat /\ Lifetimes \subseteq Nat
ASSUME MaxTokensAssumption == MaxTokens \in Nat

-----------------------------------------------------------------------------
(* Keys                                                                    *)

\* signingMethod knows the method.
Supported(config) == config.method \in Methods

\* The key in a DER block: Ed25519 keys are PKCS8, RSA keys PKCS1 or PKCS8.
ParsePrivateDer(file, method) ==
    IF \/ method = "EdDSA" /\ file.form = "pkcs8" /\ KeyType[file.pair] = "ed25519"
       \/ method = "RS256" /\ file.form \in {"pkcs1", "pkcs8"} /\ KeyType[file.pair] = "rsa"
    THEN file.pair ELSE NoKey

ParsePrivateKey(file, method) ==
    IF file # Missing /\ file.pem THEN ParsePrivateDer(file, method) ELSE NoKey

ParsePublicKey(file, method) ==
    IF /\ file # Missing
       /\ file.pem
       /\ \/ method = "EdDSA" /\ file.form = "pkix" /\ KeyType[file.pair] = "ed25519"
          \/ method = "RS256" /\ file.form \in {"pkix", "pkcs1 public"} /\ KeyType[file.pair] = "rsa"
    THEN file.pair ELSE NoKey

\* Mutant: the pair of the private key, whatever the public key's path.
AlwaysPrivateKey(config) == ParsePrivateKey(config.private, config.method)

\* Without a public key the private one is parsed as DER, though it is PEM.
LoadVerificationKey(config) ==
    IF config.public # NoPath
    THEN ParsePublicKey(config.public, config.method)
    ELSE IF config.private # Missing /\ ~config.private.pem
         THEN ParsePrivateDer(config.private, config.method)
         ELSE NoKey

SigningKey(config) == ParsePrivateKey(config.private, config.method)

\* Mutant: a private key that cannot be used is found out when it is needed.
UsableIfVerifying(config) ==
    /\ Supported(config)
    /\ LoadVerificationKey(config) # NoKey

\* NewTokenIssuer and NewTokenVerifier both return no error.
Usable(config) ==
    /\ Supported(config)
    /\ SigningKey(config) # NoKey
    /\ LoadVerificationKey(config) # NoKey

-----------------------------------------------------------------------------

VARIABLES
    now,      \* the time in ticks
    server,   \* the configuration of the running server
    tokens,   \* the tokens that were ever issued
    refused   \* history: the configuration with which the last start that failed did

vars == <<now, server, tokens, refused>>

Token == [alg : Methods, pair : Pairs, issuer : Issuers, audience : Audiences,
          exp : Nat,       \* its claim, in seconds
          expires : Nat,   \* history: the time it stands for, in ticks
          signer : Configs]  \* history: the server that signed it

TypeOK ==
    /\ now \in Nat
    /\ server \in Configs \union {NoServer}
    /\ tokens \in SUBSET Token
    /\ refused \in Configs \union {NoServer}

Init ==
    /\ now = 0
    /\ server = NoServer
    /\ tokens = {}
    /\ refused = NoServer

Running == server # NoServer

Start(config) ==
    /\ ~Running
    /\ Usable(config)
    /\ server' = config
    /\ UNCHANGED <<now, tokens, refused>>

StartFails(config) ==
    /\ ~Running
    /\ ~Usable(config)
    /\ refused' = config
    /\ UNCHANGED <<now, server, tokens>>

Stop ==
    /\ Running
    /\ server' = NoServer
    /\ UNCHANGED <<now, tokens, refused>>

\* Mutant: the expiry is rounded up.
UnixUp(time) == (time + TicksPerSecond - 1) \div TicksPerSecond

\* Unix
Unix(time) == time \div TicksPerSecond

\* The server signs a token that expires at the time given, if it is not past.
Sign(expires) ==
    /\ Running
    /\ expires >= now
    /\ Cardinality(tokens) < MaxTokens
    /\ tokens' = tokens \union
          {[alg |-> server.method, pair |-> SigningKey(server),
            issuer |-> server.issuer, audience |-> server.audience,
            exp |-> Unix(expires), expires |-> expires, signer |-> server]}
    /\ UNCHANGED <<now, server, refused>>

\* Issue
Issue == Running /\ Sign(now + server.ttl)

\* The expiry was decided on when the token's record was made, which may be
\* some time ago.
IssuePAT(lifetime, ago) ==
    /\ ago <= now
    /\ Sign((now - ago) + lifetime)

Tick ==
    /\ now < MaxTime
    /\ now' = now + 1
    /\ UNCHANGED <<server, tokens, refused>>

Next ==
    \/ \E config \in Configs : Start(config) \/ StartFails(config)
    \/ Stop
    \/ Issue
    \/ \E lifetime \in Lifetimes, ago \in {0, 1} : IssuePAT(lifetime, ago)
    \/ Tick

Spec == Init /\ [][Next]_vars

-----------------------------------------------------------------------------
(* Verify                                                                  *)

Verifies(token) ==
    /\ Running
    /\ token.alg = server.method
    /\ token.pair = LoadVerificationKey(server)
    /\ token.issuer = server.issuer
    /\ token.audience = server.audience
    /\ now < token.exp * TicksPerSecond

-----------------------------------------------------------------------------

\* The public key, method, issuer and audience of the one server are what the
\* other signed with.
Trusts(config, signer) ==
    /\ config.public \in File
    /\ config.public.pair = signer.private.pair
    /\ config.method = signer.method
    /\ config.issuer = signer.issuer
    /\ config.audience = signer.audience

\* Across restarts, with whatever keys, a token is accepted only by a server
\* that trusts the one that signed it, and before it expires: its claim is in
\* seconds, but never later than its expiry.
AcceptedIsTrusted ==
    \A token \in tokens : Verifies(token) =>
        /\ Trusts(server, token.signer)
        /\ now < token.expires

\* A server that trusts the signer of a token accepts it to the last second
\* before it expires, though another server may have signed it.
TrustedIsAccepted ==
    \A token \in tokens :
        /\ Running
        /\ Trusts(server, token.signer)
        /\ now + TicksPerSecond <= token.expires
        => Verifies(token)

\* NewTokenVerifier's comment: it "loads the public key (or derives it from
\* the private key)".  So no start fails for want of a public key only.
DerivesPublicKey ==
    refused # NoServer =>
        ~(Supported(refused) /\ SigningKey(refused) # NoKey /\ refused.public = NoPath)
=============================================================================
