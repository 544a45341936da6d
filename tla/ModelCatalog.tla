---------------------------- MODULE ModelCatalog ----------------------------
(***************************************************************************)
(* What a ping learns of a backend's models, how its record is kept in     *)
(* Redis, and the catalogue of models made from the records                *)
(* (fetchInstalledModels of internal/service/backends.go, the encoding in  *)
(* internal/redisstore/backends.go, internal/service/models_api.go).       *)
(*                                                                         *)
(* A record says which models its backend has in three ways: those         *)
(* installed and those loaded, joined with commas, which requests are      *)
(* routed by; and their names, times and owners as JSON, which the         *)
(* catalogue is made from.  The two must agree.                            *)
(***************************************************************************)
EXTENDS Integers, Sequences, FiniteSetsExt, Functions

CONSTANTS
    NumBackends,   \* they are numbered in the order in which ZRANGE lists them
    Words,         \* what names are made of
    Blank,         \* white space
    Names,         \* names of models: words with commas between them
    Hosts,         \* remote hosts of models
    DefaultOwner,
    NoTime,        \* the zero time
    Answers,       \* what a backend may answer to a ping
    NoRecord,
    MaxTime        \* bound of the clock

Ids == 1..NumBackends

\* Times are seconds since 1970.
Times == Nat
Owners == Hosts \union {DefaultOwner} \union Ids

ListModel == [name : Names, model : Names, time : Times \union {NoTime}, host : Hosts \union {Blank}]
ProcessModel == [name : Names, model : Names, time : Times \union {NoTime}]
Answer == [ok : BOOLEAN, list : Seq(ListModel), ps : Seq(ProcessModel)]

ASSUME NumBackendsAssumption == NumBackends \in Nat
ASSUME NamesAssumption ==
    /\ Blank \notin Words
    /\ \A n \in Names : n \in Seq(Words \union {Blank}) /\ Len(n) > 0
    /\ \A n \in Names : \A i \in 1..Len(n) : <<n[i]>> \in Names
ASSUME AnswersAssumption == Answers \subseteq Answer
ASSUME TimeAssumption == MaxTime \in Nat /\ NoTime \notin Times

-----------------------------------------------------------------------------
(* A ping: fetchInstalledModels.                                           *)

\* TrimSpace leaves nothing.
IsBlank(n) == n = <<Blank>>

\* firstModelName(model.Name, model.Model); the blank name if both are.
FirstModelName(m) == IF IsBlank(m.name) THEN m.model ELSE m.name

NamesOf(models) == {FirstModelName(models[i]) : i \in DOMAIN models} \ {<<Blank>>}

Indexes(models, n) == {i \in DOMAIN models : FirstModelName(models[i]) = n}

\* Mutant: the zero time is kept.
TimeAsIs(time, now) == time

TimeOr(time, now) == IF time = NoTime THEN now ELSE time

InferOwner(host) == IF host = Blank THEN DefaultOwner ELSE host

\* addListModels: of two entries with one name the later stays.
AddListModels(models, now) ==
    [n \in NamesOf(models) |->
        LET m == models[Max(Indexes(models, n))]
        IN [created |-> TimeOr(m.time, now), owner |-> InferOwner(m.host)]]

\* Mutant: models that are loaded only have no metadata.
AddNoProcessModels(registry, models, now) == registry

\* addProcessModels: only names not in the registry yet, the first of each.
AddProcessModels(registry, models, now) ==
    [n \in DOMAIN registry \union NamesOf(models) |->
        IF n \in DOMAIN registry THEN registry[n]
        ELSE LET m == models[Min(Indexes(models, n))]
             IN [created |-> TimeOr(m.time, now), owner |-> DefaultOwner]]

FetchInstalledModels(answer, now) ==
    [meta   |-> AddProcessModels(AddListModels(answer.list, now), answer.ps, now),
     models |-> NamesOf(answer.list),
     loaded |-> NamesOf(answer.ps)]

-----------------------------------------------------------------------------
(* A record, as it comes back from Redis.                                  *)

\* encodeStringSlice and decodeStringSlice: a name with a comma comes back in
\* pieces, without the blank ones.  Readers ask only what is in the list.
Pieces(n) == {<<n[i]>> : i \in 1..Len(n)}
Recoded(names) == (UNION {Pieces(n) : n \in names}) \ {<<Blank>>}

Saved(record) ==
    [models |-> Recoded(record.models), loaded |-> Recoded(record.loaded),
     meta |-> record.meta, updatedAt |-> record.updatedAt]

New(now) == [models |-> {}, loaded |-> {}, meta |-> <<>>, updatedAt |-> now]

\* syncBackend: a failed ping leaves what was known.
Refreshed(record, answer, now) ==
    LET fetched == FetchInstalledModels(answer, now)
    IN IF answer.ok
       THEN [models |-> fetched.models, loaded |-> fetched.loaded, meta |-> fetched.meta,
             updatedAt |-> now]
       ELSE [record EXCEPT !.updatedAt = now]

-----------------------------------------------------------------------------

VARIABLES
    now,      \* the time
    backends  \* the records in Redis

vars == <<now, backends>>

Registered == {id \in Ids : backends[id] # NoRecord}

TypeOK ==
    /\ now \in Nat
    /\ \A id \in Registered :
          LET record == backends[id]
          IN /\ DOMAIN record = {"models", "loaded", "meta", "updatedAt"}
             /\ record.models \subseteq Names
             /\ record.loaded \subseteq Names
             /\ DOMAIN record.meta \subseteq Names
             /\ Range(record.meta) \subseteq [created : Nat, owner : Owners]
             /\ record.updatedAt \in Nat

Init ==
    /\ now = 1
    /\ backends = [id \in Ids |-> NoRecord]

Save(id, record) ==
    /\ backends' = [backends EXCEPT ![id] = Saved(record)]
    /\ UNCHANGED now

\* RegisterBackends, for one backend.
Register(id) ==
    Save(id, IF id \in Registered THEN [backends[id] EXCEPT !.updatedAt = now] ELSE New(now))

Sync(id, answer) ==
    /\ id \in Registered
    /\ Save(id, Refreshed(backends[id], answer, now))

Delete(id) ==
    /\ id \in Registered
    /\ backends' = [backends EXCEPT ![id] = NoRecord]
    /\ UNCHANGED now

Tick ==
    /\ now < MaxTime
    /\ now' = now + 1
    /\ UNCHANGED backends

Next ==
    \/ \E id \in Ids : Register(id) \/ Delete(id) \/ \E answer \in Answers : Sync(id, answer)
    \/ Tick

Spec == Init /\ [][Next]_vars

-----------------------------------------------------------------------------
(* The catalogue.                                                          *)

\* What collectModels adds for one record: its models' metadata or, when there
\* is none, their names.
Contribution(id) ==
    LET record == backends[id]
    IN IF DOMAIN record.meta = {}
       THEN [n \in record.models |-> [created |-> record.updatedAt, owner |-> id]]
       ELSE [n \in DOMAIN record.meta |->
                LET info == record.meta[n]
                IN [info EXCEPT !.created = IF @ = 0 THEN record.updatedAt ELSE @]]

\* Mutant: the entry there is stays as it is.
MergedFirst(entry, info) == entry

\* addModel, of a name that is there: the earlier time, the first owner.
Merged(entry, info) ==
    [entry EXCEPT !.created = IF info.created < @ THEN info.created ELSE @]

AddModels(entries, added) ==
    [n \in DOMAIN entries \union DOMAIN added |->
        IF n \notin DOMAIN added THEN entries[n]
        ELSE IF n \notin DOMAIN entries THEN added[n]
        ELSE Merged(entries[n], added[n])]

\* collectModels
Catalogue ==
    LET upTo[id \in 0..NumBackends] ==
            IF id = 0 THEN <<>>
            ELSE IF id \notin Registered THEN upTo[id - 1]
            ELSE AddModels(upTo[id - 1], Contribution(id))
    IN upTo[NumBackends]

-----------------------------------------------------------------------------

\* The catalogue lists what requests can be routed by and nothing else: the
\* pieces of every name listed are models of some backend, installed or
\* loaded, and every such model is a piece of a name listed.
CatalogueIsRouted ==
    LET routed == UNION {backends[id].models \union backends[id].loaded : id \in Registered}
        listed == DOMAIN Catalogue
    IN Recoded(listed) = routed

\* A model that several backends have is listed as of the earliest of them
\* and as belonging to the owner that the first one names, though the times
\* were kept, lost and replaced at different moments.
ListedOnce ==
    \A n \in DOMAIN Catalogue :
        LET having == {id \in Registered : n \in DOMAIN Contribution(id)}
            times == {Contribution(id)[n].created : id \in having}
        IN /\ having # {}
           /\ Catalogue[n].created \in times
           /\ \A t \in times : Catalogue[n].created <= t
           /\ Catalogue[n].owner = Contribution(Min(having))[n].owner
=============================================================================
