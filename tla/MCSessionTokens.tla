--------------------------- MODULE MCSessionTokens ---------------------------
(***************************************************************************)
(* Instances of SessionTokens for TLC.                                     *)
(***************************************************************************)
EXTENDS SessionTokens

CONSTANTS ed1, ed2, rsa1, llamero, other, clients

KeyTypes == [p \in Pairs |-> IF p = rsa1 THEN "rsa" ELSE "ed25519"]

PemFile(form, pair) == [pem |-> TRUE, form |-> form, pair |-> pair]

With(method, private, public, issuer, ttl) ==
    [method |-> method, private |-> private, public |-> public,
     issuer |-> issuer, audience |-> clients, ttl |-> ttl]

\* Ed25519 servers: two keys, which a rotation in two steps combines; another
\* issuer; a public key missing, of the other type, or not configured.
EdConfigs ==
    {With("EdDSA", PemFile("pkcs8", private), public, issuer, 3) :
        private \in {ed1, ed2},
        public \in {PemFile("pkix", ed1), PemFile("pkix", ed2), NoPath},
        issuer \in {llamero, other}}
    \union {With("EdDSA", PemFile("pkcs8", ed1), public, llamero, 3) :
               public \in {Missing, PemFile("pkix", rsa1)}}
    \union {With("EdDSA", private, PemFile("pkix", ed1), llamero, 3) :
               private \in {Missing, [pem |-> FALSE, form |-> "pkcs8", pair |-> ed1]}}

\* RSA servers: both forms of either key; the method spelled wrong.
RsaConfigs ==
    {With(method, PemFile(form, rsa1), PemFile(public, rsa1), llamero, 2) :
        method \in {"RS256", "other"}, form \in {"pkcs1", "pkcs8"},
        public \in {"pkix", "pkcs1 public"}}

AllConfigs == EdConfigs \union RsaConfigs
=============================================================================
