---------------------------- MODULE BackendStore ----------------------------
(***************************************************************************)
(* The backend registry that Llamero keeps in Redis                        *)
(* (internal/redisstore/backends.go): the sorted set "backend:status" of   *)
(* backend IDs and one hash "backend:meta:<id>" for each backend.          *)
(*                                                                         *)
(* Every caller saves with score 0, so ZRANGE lists the IDs in their       *)
(* lexicographic order: IDs are numbers here and that order is <.          *)
(* Latency, tags and timestamps are not represented; weights never reach   *)
(* Redis at all.                                                           *)
(***************************************************************************)
EXTENDS Naturals, FiniteSets

CONSTANTS
    Ids,         \* backend IDs
    Addresses,   \* base URLs of Ollama instances
    Models,      \* model names
    NoAddress,   \* "no address has answered"
    NoStatus     \* the answer of HGETALL on a hash that does not exist

\* One backend's hash.  observedAt is not in Redis: it is the address whose
\* answer the fields healthy, models and loaded record.
BackendStatus ==
    [address    : Addresses,
     healthy    : BOOLEAN,
     models     : SUBSET Models,
     loaded     : SUBSET Models,
     observedAt : Addresses \union {NoAddress}]

ASSUME IdsAssumption == Ids \subseteq Nat
ASSUME NoAddressAssumption == NoAddress \notin Addresses
ASSUME NoStatusAssumption == NoStatus \notin BackendStatus

VARIABLES
    index,   \* the members of the sorted set
    meta     \* the hash of each ID, or NoStatus

storeVars == <<index, meta>>

StoreTypeOK ==
    /\ index \in SUBSET Ids
    /\ meta \in [Ids -> BackendStatus \union {NoStatus}]

StoreInit ==
    /\ index = {}
    /\ meta = [id \in Ids |-> NoStatus]

\* HSET and ZADD in one MULTI/EXEC.
SaveBackend(id, status) ==
    /\ index' = index \union {id}
    /\ meta' = [meta EXCEPT ![id] = status]

\* DEL and ZREM in one MULTI/EXEC.
DeleteBackend(id) ==
    /\ index' = index \ {id}
    /\ meta' = [meta EXCEPT ![id] = NoStatus]

\* The first ID of a set in ZRANGE's order, as a predicate.
IsFirst(id, S) == id \in S /\ \A other \in S : id <= other

\* No record claims an answer of another address than the one it names.
Observed(id) ==
    meta[id] # NoStatus /\ meta[id].healthy => meta[id].observedAt = meta[id].address

(***************************************************************************)
(* The sorted set and the hashes describe the same backends: no ID is      *)
(* listed without its hash and no hash is left behind unlisted.            *)
(***************************************************************************)
IndexMatchesMeta == \A id \in Ids : id \in index <=> meta[id] # NoStatus
=============================================================================
