------------------------- MODULE ModelCatalogProofs -------------------------
(***************************************************************************)
(* Proofs of the properties of ModelCatalog.  The two accounts that a      *)
(* record gives of its backend's models agree whenever it is written;      *)
(* hence the catalogue, made from the one, lists what requests are routed  *)
(* by, which is the other.                                                 *)
(***************************************************************************)
EXTENDS ModelCatalog, WellFoundedInduction, TLAPS

-----------------------------------------------------------------------------
(* Numbers                                                                 *)

\* A set of numbers has a least one.
LEMMA LeastNumber ==
    ASSUME NEW S \in SUBSET Nat, S # {}
    PROVE  \E m \in S : \A n \in S : m <= n
<1>. DEFINE Less == OpToRel(<, Nat)
<1>1. IsWellFoundedOn(Less, Nat)
  BY ONLY NatLessThanWellFounded
<1>2. \A m, n \in Nat : n < m => <<n, m>> \in Less
  BY SMT DEF OpToRel
<1>. HIDE DEF Less
<1>3. S \subseteq Nat
  OBVIOUS
<1>4. \E m \in S : \A n \in S : ~ (<<n, m>> \in Less)
  BY <1>1, <1>3, WFMin
<1>5. PICK m \in S : \A n \in S : ~ (<<n, m>> \in Less)
  BY <1>4
<1>6. \A n \in S : m <= n
  <2>1. \A n \in S : ~ (n < m)
    BY <1>2, <1>3, <1>5, Zenon
  <2>. QED BY <1>3, <2>1
<1>. QED BY <1>6

\* Induction; what holds of a number is its being in S.
LEMMA InductionOverNat ==
    ASSUME NEW S, 0 \in S, \A n \in Nat : n \in S => n + 1 \in S
    PROVE  Nat \subseteq S
<1>. SUFFICES ASSUME Nat \ S # {} PROVE FALSE
  OBVIOUS
<1>1. PICK m \in Nat \ S : \A n \in Nat \ S : m <= n
  BY LeastNumber
<1>2. m # 0 /\ m - 1 \in S
  BY <1>1
<1>. QED BY <1>1, <1>2

\* A bounded set of numbers has a greatest one.
LEMMA GreatestNumber ==
    ASSUME NEW S \in SUBSET Nat, S # {}, NEW bound \in Nat, \A n \in S : n <= bound
    PROVE  \E m \in S : \A n \in S : m >= n
<1>. DEFINE T == {bound - n : n \in S}
<1>1. PICK t \in T : \A u \in T : t <= u
  <2>1. \A n \in S : bound - n \in Nat
    OBVIOUS
  <2>2. T \subseteq Nat /\ T # {}
    BY <2>1
  <2>. HIDE DEF T
  <2>. QED BY <2>2, LeastNumber
<1>2. bound - t \in S /\ \A n \in S : bound - n \in T
  OBVIOUS
<1>3. \A n \in S : t <= bound - n
  BY <1>1
<1>4. t \in Int /\ \A n \in S : bound - t >= n
  <2>1. PICK k \in S : t = bound - k
    OBVIOUS
  <2>. QED BY <1>3, <2>1
<1>. QED BY <1>2, <1>4

\* The greatest and the least of finitely many numbers.
LEMMA MaxMinOf ==
    ASSUME NEW N \in Nat, NEW S \in SUBSET (1..N), S # {}
    PROVE  /\ Max(S) \in S /\ \A i \in S : i <= Max(S)
           /\ Min(S) \in S /\ \A i \in S : Min(S) <= i
<1>1. S \in SUBSET Nat /\ \A n \in S : n <= N
  OBVIOUS
<1>2. \E m \in S : \A n \in S : m >= n
  BY <1>1, GreatestNumber
<1>3. \E m \in S : \A n \in S : m <= n
  BY <1>1, LeastNumber
<1>4. Max(S) \in S /\ \A i \in S : Max(S) >= i
  BY <1>2 DEF Max
<1>5. Min(S) \in S /\ \A i \in S : Min(S) <= i
  BY <1>3 DEF Min
<1>. QED BY <1>1, <1>4, <1>5

-----------------------------------------------------------------------------
(* A ping                                                                  *)

\* The names of a list are names, and each is some entry's.
LEMMA NamesOfTyped ==
    ASSUME NEW models \in Seq(ListModel) \union Seq(ProcessModel)
    PROVE  /\ NamesOf(models) \subseteq Names
           /\ \A n \in NamesOf(models) :
                /\ Max(Indexes(models, n)) \in DOMAIN models
                /\ Min(Indexes(models, n)) \in DOMAIN models
<1>1. DOMAIN models = 1..Len(models) /\ Len(models) \in Nat
  OBVIOUS
<1>2. \A i \in DOMAIN models : models[i] \in ListModel \union ProcessModel
  OBVIOUS
<1>3. NamesOf(models) \subseteq Names
  BY <1>2 DEF NamesOf, FirstModelName, ListModel, ProcessModel
<1>4. ASSUME NEW n \in NamesOf(models)
      PROVE  Max(Indexes(models, n)) \in DOMAIN models /\ Min(Indexes(models, n)) \in DOMAIN models
  <2>1. Indexes(models, n) # {} /\ Indexes(models, n) \subseteq DOMAIN models
    BY DEF Indexes, NamesOf
  <2>. QED BY <1>1, <2>1, MaxMinOf
<1>. QED BY <1>3, <1>4

\* What a record's metadata may be.
Info == [created : Nat, owner : Owners]
Metas == UNION {[names -> Info] : names \in SUBSET Names}

\* The metadata that a ping brings.
LEMMA FetchTyped ==
    ASSUME NEW answer \in Answers, NEW time \in Nat
    PROVE  LET fetched == FetchInstalledModels(answer, time)
           IN  /\ fetched.models = NamesOf(answer.list)
               /\ fetched.loaded = NamesOf(answer.ps)
               /\ fetched.meta \in [NamesOf(answer.list) \union NamesOf(answer.ps) -> Info]
               /\ NamesOf(answer.list) \subseteq Names /\ NamesOf(answer.ps) \subseteq Names
<1>. DEFINE list == answer.list
            ps == answer.ps
            registry == AddListModels(list, time)
<1>1. list \in Seq(ListModel) /\ ps \in Seq(ProcessModel)
  BY AnswersAssumption DEF Answer
<1>. HIDE DEF list, ps
<1>2. /\ \A i \in DOMAIN list : list[i] \in ListModel
      /\ \A i \in DOMAIN ps : ps[i] \in ProcessModel
  BY <1>1
<1>3. /\ NamesOf(list) \subseteq Names /\ NamesOf(ps) \subseteq Names
      /\ \A n \in NamesOf(list) : Max(Indexes(list, n)) \in DOMAIN list
      /\ \A n \in NamesOf(ps) : Min(Indexes(ps, n)) \in DOMAIN ps
  BY <1>1, NamesOfTyped
<1>4. ASSUME NEW t \in Times \union {NoTime} PROVE TimeOr(t, time) \in Nat
  BY DEF TimeOr, Times
<1>5. ASSUME NEW h \in Hosts \union {Blank} PROVE InferOwner(h) \in Owners
  BY DEF InferOwner, Owners
<1>6. registry \in [NamesOf(list) -> Info]
  <2>1. ASSUME NEW n \in NamesOf(list)
        PROVE  LET m == list[Max(Indexes(list, n))]
               IN  [created |-> TimeOr(m.time, time), owner |-> InferOwner(m.host)] \in Info
    <3>. DEFINE m == list[Max(Indexes(list, n))]
    <3>1. m \in ListModel
      BY <1>2, <1>3
    <3>. HIDE DEF m
    <3>2. TimeOr(m.time, time) \in Nat /\ InferOwner(m.host) \in Owners
      BY <1>4, <1>5, <3>1 DEF ListModel
    <3>. QED BY <3>2 DEF Info, m
  <2>. QED BY <2>1 DEF AddListModels
<1>. HIDE DEF registry
<1>7. AddProcessModels(registry, ps, time) \in [NamesOf(list) \union NamesOf(ps) -> Info]
  <2>1. ASSUME NEW n \in NamesOf(ps)
        PROVE  [created |-> TimeOr(ps[Min(Indexes(ps, n))].time, time), owner |-> DefaultOwner] \in Info
    <3>. DEFINE m == ps[Min(Indexes(ps, n))]
    <3>1. m \in ProcessModel
      BY <1>2, <1>3
    <3>. HIDE DEF m
    <3>2. TimeOr(m.time, time) \in Nat /\ DefaultOwner \in Owners
      BY <1>4, <3>1 DEF ProcessModel, Owners
    <3>. QED BY <3>2 DEF Info, m
  <2>2. DOMAIN registry = NamesOf(list)
    BY <1>6
  <2>. QED BY <1>6, <2>1, <2>2 DEF AddProcessModels
<1>. QED BY <1>3, <1>7 DEF FetchInstalledModels, list, ps, registry

-----------------------------------------------------------------------------
(* Lists in pieces                                                         *)

\* The pieces of names, one by one.
LEMMA PiecesOf ==
    ASSUME NEW names, NEW p
    PROVE  p \in Recoded(names) <=> p # <<Blank>> /\ \E n \in names : \E i \in 1..Len(n) : p = <<n[i]>>
<1>1. p \in UNION {Pieces(n) : n \in names} <=> \E n \in names : p \in Pieces(n)
  OBVIOUS
<1>2. \A n : p \in Pieces(n) <=> \E i \in 1..Len(n) : p = <<n[i]>>
  BY DEF Pieces
<1>. QED BY <1>1, <1>2 DEF Recoded

\* The pieces of names are names, and pieces have no pieces but themselves.
LEMMA RecodedNames ==
    ASSUME NEW names \in SUBSET Names
    PROVE  /\ Recoded(names) \subseteq Names
           /\ Recoded(Recoded(names)) = Recoded(names)
<1>1. \A p : p \in Recoded(names) <=> p # <<Blank>> /\ \E n \in names : \E i \in 1..Len(n) : p = <<n[i]>>
  BY PiecesOf
<1>2. Recoded(names) \subseteq Names
  BY <1>1, NamesAssumption
<1>3. \A p : p \in Recoded(Recoded(names)) <=>
             p # <<Blank>> /\ \E q \in Recoded(names) : \E i \in 1..Len(q) : p = <<q[i]>>
  BY PiecesOf
<1>4. \A q \in Recoded(names) : Len(q) = 1 /\ q = <<q[1]>>
  BY <1>1
<1>. HIDE DEF Recoded
<1>5. ASSUME NEW p \in Recoded(Recoded(names)) PROVE p \in Recoded(names)
  BY <1>3, <1>4
<1>6. ASSUME NEW p \in Recoded(names) PROVE p \in Recoded(Recoded(names))
  <2>1. p # <<Blank>> /\ 1 \in 1..Len(p) /\ p = <<p[1]>>
    BY <1>1, <1>4
  <2>. QED BY <1>3, <2>1
<1>. QED BY <1>2, <1>5, <1>6

\* The pieces of two sets of names are those of the one and of the other.
LEMMA RecodedUnion ==
    ASSUME NEW A, NEW B
    PROVE  Recoded(A \union B) = Recoded(A) \union Recoded(B)
BY DEF Recoded

-----------------------------------------------------------------------------
(* The invariant                                                           *)

\* What is stored for a backend.
Record == [models : SUBSET Names, loaded : SUBSET Names, meta : Metas, updatedAt : Nat]

\* The lists of a record are in pieces, and these are the pieces of the names
\* that its metadata is about.
Agrees(record) ==
    /\ Recoded(record.models) = record.models
    /\ Recoded(record.loaded) = record.loaded
    /\ Recoded(DOMAIN record.meta) = record.models \union record.loaded

\* Every record is well typed and agrees with itself.
CatalogInv ==
    /\ now \in Nat
    /\ backends \in [Ids -> Record \union {NoRecord}]
    /\ \A id \in Registered : Agrees(backends[id])

\* Nothing is stored at first.
LEMMA InitCatalog == Init => CatalogInv
BY DEF Init, CatalogInv, Registered

\* Whatever is written to a backend's record agrees with itself.
LEMMA SaveAgrees ==
    ASSUME CatalogInv, NEW id \in Ids, NEW record \in Record, Save(id, record),
           Recoded(DOMAIN record.meta) = Recoded(record.models) \union Recoded(record.loaded)
    PROVE  CatalogInv'
<1>. DEFINE saved == Saved(record)
<1>1. /\ saved.models = Recoded(record.models) /\ saved.loaded = Recoded(record.loaded)
      /\ saved.meta = record.meta /\ saved.updatedAt = record.updatedAt
      /\ saved = [models |-> saved.models, loaded |-> saved.loaded, meta |-> saved.meta,
                  updatedAt |-> saved.updatedAt]
  BY DEF Saved
<1>2. record.models \in SUBSET Names /\ record.loaded \in SUBSET Names
  BY DEF Record
<1>. HIDE DEF saved
<1>3. saved \in Record
  BY <1>1, <1>2, RecodedNames DEF Record
<1>4. Agrees(saved)
  BY <1>1, <1>2, RecodedNames DEF Agrees
<1>5. backends' = [backends EXCEPT ![id] = saved] /\ now' = now
  BY DEF Save, saved
<1>. QED BY <1>3, <1>4, <1>5 DEF CatalogInv, Registered

\* A registration, a ping, answered or not, and a deletion keep it.
LEMMA StepCatalog == CatalogInv /\ [Next]_vars => CatalogInv'
<1>. SUFFICES ASSUME CatalogInv, [Next]_vars PROVE CatalogInv'
  OBVIOUS
<1>1. ASSUME NEW id \in Registered
      PROVE  /\ id \in Ids /\ backends[id] \in Record
             /\ Recoded(DOMAIN backends[id].meta) =
                    Recoded(backends[id].models) \union Recoded(backends[id].loaded)
  BY DEF CatalogInv, Registered, Agrees
<1>2. ASSUME NEW id \in Ids, Register(id) PROVE CatalogInv'
  <2>1. CASE id \in Registered
    <3>. DEFINE record == [backends[id] EXCEPT !.updatedAt = now]
    <3>1. /\ record \in Record /\ record.meta = backends[id].meta
          /\ record.models = backends[id].models /\ record.loaded = backends[id].loaded
      BY <1>1, <2>1 DEF Record, CatalogInv
    <3>2. Save(id, record)
      BY <1>2, <2>1 DEF Register
    <3>. HIDE DEF record
    <3>. QED BY <1>1, <2>1, <3>1, <3>2, SaveAgrees
  <2>2. CASE id \notin Registered
    <3>1. New(now) \in Record
      <4>1. <<>> \in Metas
        BY DEF Metas
      <4>. QED BY <4>1 DEF New, Record, CatalogInv
    <3>2. Recoded(DOMAIN New(now).meta) = Recoded(New(now).models) \union Recoded(New(now).loaded)
      BY DEF New, Recoded
    <3>3. Save(id, New(now))
      BY <1>2, <2>2 DEF Register
    <3>. QED BY <3>1, <3>2, <3>3, SaveAgrees
  <2>. QED BY <2>1, <2>2
<1>3. ASSUME NEW id \in Ids, NEW answer \in Answers, Sync(id, answer) PROVE CatalogInv'
  <2>. DEFINE record == Refreshed(backends[id], answer, now)
              fetched == FetchInstalledModels(answer, now)
  <2>1. id \in Registered /\ Save(id, record) /\ now \in Nat
    BY <1>3 DEF Sync, CatalogInv
  <2>2. /\ fetched.models = NamesOf(answer.list) /\ fetched.loaded = NamesOf(answer.ps)
        /\ fetched.meta \in [NamesOf(answer.list) \union NamesOf(answer.ps) -> Info]
        /\ NamesOf(answer.list) \subseteq Names /\ NamesOf(answer.ps) \subseteq Names
    BY <2>1, FetchTyped
  <2>3. CASE answer.ok
    <3>1. record = [models |-> fetched.models, loaded |-> fetched.loaded, meta |-> fetched.meta,
                    updatedAt |-> now]
      BY <2>3 DEF Refreshed
    <3>2. fetched.meta \in Metas /\ DOMAIN fetched.meta = fetched.models \union fetched.loaded
      BY <2>2 DEF Metas
    <3>. HIDE DEF fetched
    <3>3. record \in Record
      BY <2>1, <2>2, <3>1, <3>2 DEF Record
    <3>4. Recoded(DOMAIN record.meta) = Recoded(record.models) \union Recoded(record.loaded)
      BY <3>1, <3>2, RecodedUnion
    <3>. HIDE DEF record
    <3>. QED BY <2>1, <3>3, <3>4, SaveAgrees
  <2>4. CASE ~answer.ok
    <3>1. record = [backends[id] EXCEPT !.updatedAt = now]
      BY <2>4 DEF Refreshed
    <3>. HIDE DEF record
    <3>2. /\ record \in Record /\ record.meta = backends[id].meta
          /\ record.models = backends[id].models /\ record.loaded = backends[id].loaded
      BY <1>1, <2>1, <3>1 DEF Record
    <3>. QED BY <1>1, <2>1, <3>2, SaveAgrees
  <2>. QED BY <2>3, <2>4
<1>4. ASSUME NEW id \in Ids, Delete(id) PROVE CatalogInv'
  BY <1>4 DEF Delete, CatalogInv, Registered
<1>5. CASE Tick
  BY <1>5 DEF Tick, CatalogInv, Registered
<1>6. CASE UNCHANGED vars
  BY <1>6 DEF vars, CatalogInv, Registered
<1>. QED BY <1>2, <1>3, <1>4, <1>5, <1>6 DEF Next

\* Records are well typed and agree with themselves, always.
THEOREM Inductive == Spec => []CatalogInv
BY InitCatalog, StepCatalog, PTL DEF Spec

\* The record types of the invariant say what TypeOK does.
LEMMA InvTyped == CatalogInv => TypeOK
<1>. SUFFICES ASSUME CatalogInv, NEW id \in Registered, NEW record, record = backends[id]
              PROVE  /\ DOMAIN record = {"models", "loaded", "meta", "updatedAt"}
                     /\ record.models \subseteq Names
                     /\ record.loaded \subseteq Names
                     /\ DOMAIN record.meta \subseteq Names
                     /\ Range(record.meta) \subseteq [created : Nat, owner : Owners]
                     /\ record.updatedAt \in Nat
  BY DEF TypeOK, CatalogInv
<1>1. record \in Record
  BY DEF CatalogInv, Registered
<1>2. PICK names \in SUBSET Names : record.meta \in [names -> Info]
  BY <1>1 DEF Record, Metas
<1>3. Range(record.meta) \subseteq Info
  BY <1>2 DEF Range
<1>. QED BY <1>1, <1>2, <1>3 DEF Record, Info

\* Whatever a backend answers and whenever its record is written, read back
\* and registered again, the record has the types that its readers expect;
\* among these a time, never the zero one, for each model.
THEOREM TypeCorrect == Spec => []TypeOK
BY Inductive, InvTyped, PTL

-----------------------------------------------------------------------------
(* The catalogue                                                           *)

\* What a record adds to the catalogue: entries for names whose pieces are the
\* models of its lists.
LEMMA ContributionTyped ==
    ASSUME CatalogInv, NEW id \in Registered
    PROVE  /\ DOMAIN Contribution(id) \in SUBSET Names
           /\ Contribution(id) \in [DOMAIN Contribution(id) -> Info]
           /\ Recoded(DOMAIN Contribution(id)) = backends[id].models \union backends[id].loaded
<1>. DEFINE record == backends[id]
            added == Contribution(id)
<1>1. record \in Record /\ Agrees(record) /\ id \in Owners
  BY DEF CatalogInv, Registered, Owners
<1>2. PICK names \in SUBSET Names : record.meta \in [names -> Info]
  BY <1>1 DEF Record, Metas
<1>3. DOMAIN record.meta = names /\ record.updatedAt \in Nat
  BY <1>1, <1>2 DEF Record
<1>4. Recoded(names) = record.models \union record.loaded
  BY <1>1, <1>3 DEF Agrees
<1>5. CASE names = {}
  <2>1. added = [n \in record.models |-> [created |-> record.updatedAt, owner |-> id]]
    BY <1>3, <1>5 DEF Contribution
  <2>2. Recoded({}) = {}
    BY DEF Recoded
  <2>3. record.models = {}
    BY <1>4, <1>5, <2>2
  <2>. HIDE DEF record, added
  <2>4. DOMAIN added = {}
    BY <2>1, <2>3
  <2>5. added \in [DOMAIN added -> Info]
    BY <2>1, <2>3
  <2>. QED BY <1>4, <1>5, <2>4, <2>5 DEF record, added
<1>6. CASE names # {}
  <2>1. added = [n \in names |->
                    LET info == record.meta[n]
                    IN [info EXCEPT !.created = IF @ = 0 THEN record.updatedAt ELSE @]]
    BY <1>3, <1>6 DEF Contribution
  <2>2. ASSUME NEW n \in names PROVE added[n] \in Info
    <3>. DEFINE info == record.meta[n]
    <3>1. info \in Info
      BY <1>2
    <3>2. added[n] = [info EXCEPT !.created = IF @ = 0 THEN record.updatedAt ELSE @]
      BY <2>1
    <3>. HIDE DEF info, added, record
    <3>. QED BY <1>3, <3>1, <3>2 DEF Info
  <2>. HIDE DEF record, added
  <2>3. DOMAIN added = names /\ added \in [names -> Info]
    BY <2>1, <2>2
  <2>. QED BY <1>4, <2>3 DEF record, added
<1>. QED BY <1>5, <1>6

\* The backends up to k, in the order of the range, that have model n.
Having(n, k) == {id \in Registered : id \in 1..k /\ n \in DOMAIN Contribution(id)}

\* An entry as it must be after the first k backends.
Listed(n, k, entry) ==
    /\ entry \in Info
    /\ \E id \in Having(n, k) : entry.created = Contribution(id)[n].created
    /\ \A id \in Having(n, k) : entry.created <= Contribution(id)[n].created
    /\ \E id \in Having(n, k) : /\ \A j \in Having(n, k) : id <= j
                                /\ entry.owner = Contribution(id)[n].owner

\* The catalogue as it must be after the first k backends.
Collected(k, entries) ==
    /\ entries = [n \in DOMAIN entries |-> entries[n]]
    /\ \A n : n \in DOMAIN entries <=> Having(n, k) # {}
    /\ \A n \in DOMAIN entries : Listed(n, k, entries[n])

\* A backend that is not registered, or does not have n, leaves n's entry.
LEMMA HavingSame ==
    ASSUME NEW n, NEW k \in Nat, k + 1 \notin Registered \/ n \notin DOMAIN Contribution(k + 1)
    PROVE  Having(n, k + 1) = Having(n, k)
BY DEF Having, Registered, Ids

\* One that has n is one more.
LEMMA HavingMore ==
    ASSUME NEW n, NEW k \in Nat, k + 1 \in Registered, n \in DOMAIN Contribution(k + 1)
    PROVE  Having(n, k + 1) = Having(n, k) \union {k + 1}
BY DEF Having, Registered, Ids

\* One more backend's models are added.
LEMMA AddModelsCollects ==
    ASSUME CatalogInv, NEW k \in Nat, NEW entries, Collected(k, entries), k + 1 \in Registered
    PROVE  Collected(k + 1, AddModels(entries, Contribution(k + 1)))
<1>. DEFINE added == Contribution(k + 1)
            result == AddModels(entries, added)
<1>1. added \in [DOMAIN added -> Info]
  BY ContributionTyped
<1>2. /\ DOMAIN result = DOMAIN entries \union DOMAIN added
      /\ result = [n \in DOMAIN result |-> result[n]]
  BY DEF AddModels
<1>3. ASSUME NEW n PROVE n \in DOMAIN result <=> Having(n, k + 1) # {}
  <2>1. n \in DOMAIN entries <=> Having(n, k) # {}
    BY DEF Collected
  <2>. QED BY <1>2, <2>1, HavingSame, HavingMore
<1>4. ASSUME NEW n \in DOMAIN result PROVE Listed(n, k + 1, result[n])
  <2>1. CASE n \notin DOMAIN added
    <3>1. result[n] = entries[n] /\ n \in DOMAIN entries
      BY <1>2, <2>1 DEF AddModels
    <3>2. Having(n, k + 1) = Having(n, k)
      BY <2>1, HavingSame
    <3>. QED BY <3>1, <3>2 DEF Collected, Listed
  <2>2. CASE n \in DOMAIN added /\ n \notin DOMAIN entries
    <3>1. result[n] = added[n] /\ added[n] \in Info
      BY <1>1, <1>2, <2>2 DEF AddModels
    <3>2. Having(n, k + 1) = {k + 1}
      BY <2>2, HavingMore DEF Collected
    <3>3. added[n].created \in Nat
      BY <3>1 DEF Info
    <3>. QED BY <3>1, <3>2, <3>3 DEF Listed
  <2>3. CASE n \in DOMAIN added /\ n \in DOMAIN entries
    <3>. DEFINE old == entries[n]
                new == added[n]
    <3>1. result[n] = Merged(old, new) /\ new \in Info
      BY <1>1, <1>2, <2>3 DEF AddModels
    <3>2. Having(n, k + 1) = Having(n, k) \union {k + 1}
      BY <2>3, HavingMore
    <3>3. Listed(n, k, old) /\ old \in Info
      BY <2>3 DEF Collected, Listed
    <3>4. /\ result[n] \in Info /\ result[n].owner = old.owner
          /\ result[n].created = IF new.created < old.created THEN new.created ELSE old.created
      <4>. HIDE DEF old, new
      <4>. QED BY <3>1, <3>3 DEF Merged, Info
    <3>5. old.created \in Nat /\ new.created \in Nat
      BY <3>1, <3>3 DEF Info
    <3>6. \E id \in Having(n, k + 1) : result[n].created = Contribution(id)[n].created
      BY <3>2, <3>3, <3>4 DEF Listed
    <3>7. \A id \in Having(n, k + 1) : result[n].created <= Contribution(id)[n].created
      <4>1. \A id \in Having(n, k) : Contribution(id)[n].created \in Nat
        <5>1. ASSUME NEW id \in Having(n, k) PROVE Contribution(id)[n] \in Info
          <6>1. id \in Registered /\ n \in DOMAIN Contribution(id)
            BY DEF Having
          <6>2. Contribution(id) \in [DOMAIN Contribution(id) -> Info]
            BY <6>1, ContributionTyped
          <6>. QED BY <6>1, <6>2
        <5>. QED BY <5>1 DEF Info
      <4>. QED BY <3>2, <3>3, <3>4, <3>5, <4>1 DEF Listed
    <3>8. \A j \in Having(n, k) : j <= k + 1
      BY DEF Having
    <3>9. \E id \in Having(n, k + 1) : /\ \A j \in Having(n, k + 1) : id <= j
                                       /\ result[n].owner = Contribution(id)[n].owner
      BY <3>2, <3>3, <3>4, <3>8 DEF Listed
    <3>. HIDE DEF result
    <3>. QED BY <3>4, <3>6, <3>7, <3>9 DEF Listed
  <2>. QED BY <2>1, <2>2, <2>3
<1>. HIDE DEF result
<1>. QED BY <1>2, <1>3, <1>4 DEF Collected, result

\* collectModels, one record after the other.
LEMMA CatalogueUnfolds ==
    \E upTo :
        /\ Catalogue = upTo[NumBackends]
        /\ upTo[0] = <<>>
        /\ \A id \in 1..NumBackends :
              upTo[id] = IF id \notin Registered THEN upTo[id - 1]
                         ELSE AddModels(upTo[id - 1], Contribution(id))
<1>. DEFINE Step(id, entries) == IF id \notin Registered THEN entries
                                 ELSE AddModels(entries, Contribution(id))
            Upto(k, f) == /\ f = [id \in 0..k |-> f[id]]
                          /\ f[0] = <<>>
                          /\ \A id \in 1..k : f[id] = Step(id, f[id - 1])
            S == {k \in Nat : \E f : Upto(k, f)}
            N == NumBackends
            out == CHOOSE f : f = [id \in 0..N |-> IF id = 0 THEN <<>> ELSE Step(id, f[id - 1])]
<1>1. 0 \in S
  <2>1. Upto(0, [id \in 0..0 |-> <<>>])
    OBVIOUS
  <2>. QED BY <2>1
<1>2. ASSUME NEW k \in Nat, k \in S PROVE k + 1 \in S
  <2>1. PICK f : Upto(k, f)
    BY <1>2
  <2>. HIDE DEF Step
  <2>. DEFINE g == [id \in 0..k + 1 |-> IF id = k + 1 THEN Step(k + 1, f[k]) ELSE f[id]]
  <2>2. Upto(k + 1, g)
    <3>1. g[0] = <<>>
      BY <2>1
    <3>2. ASSUME NEW id \in 1..k + 1 PROVE g[id] = Step(id, g[id - 1])
      BY <2>1
    <3>. QED BY <3>1, <3>2
  <2>3. \E h : Upto(k + 1, h)
    <3>. HIDE DEF g, Upto
    <3>. QED BY <2>2
  <2>. HIDE DEF Upto
  <2>. QED BY <2>3
<1>3. PICK f : Upto(N, f)
  <2>. HIDE DEF S
  <2>1. N \in S
    BY <1>1, <1>2, InductionOverNat, NumBackendsAssumption
  <2>. QED BY <2>1 DEF S
<1>4. out = [id \in 0..N |-> IF id = 0 THEN <<>> ELSE Step(id, out[id - 1])]
  <2>. HIDE DEF Step
  <2>1. f = [id \in 0..N |-> IF id = 0 THEN <<>> ELSE Step(id, f[id - 1])]
    BY <1>3
  <2>. QED BY <2>1
<1>5. Catalogue = out[N]
  BY DEF Catalogue
<1>6. out[0] = <<>> /\ \A id \in 1..N : out[id] = Step(id, out[id - 1])
  <2>. HIDE DEF Step, out
  <2>. QED BY <1>4, NumBackendsAssumption
<1>. HIDE DEF out
<1>. QED BY <1>5, <1>6

\* The catalogue is as it must be after all backends.
LEMMA CatalogueCollected ==
    ASSUME CatalogInv
    PROVE  Collected(NumBackends, Catalogue)
<1>1. PICK upTo :
        /\ Catalogue = upTo[NumBackends]
        /\ upTo[0] = <<>>
        /\ \A id \in 1..NumBackends :
              upTo[id] = IF id \notin Registered THEN upTo[id - 1]
                         ELSE AddModels(upTo[id - 1], Contribution(id))
  BY CatalogueUnfolds
<1>. DEFINE S == {k \in Nat : k <= NumBackends => Collected(k, upTo[k])}
<1>2. 0 \in S
  <2>1. \A n : Having(n, 0) = {}
    BY DEF Having
  <2>2. Collected(0, <<>>)
    BY <2>1 DEF Collected
  <2>. QED BY <1>1, <2>2
<1>3. ASSUME NEW k \in Nat, k \in S PROVE k + 1 \in S
  <2>. SUFFICES ASSUME k + 1 <= NumBackends PROVE Collected(k + 1, upTo[k + 1])
    OBVIOUS
  <2>1. Collected(k, upTo[k])
    BY <1>3, NumBackendsAssumption
  <2>2. upTo[k + 1] = IF k + 1 \notin Registered THEN upTo[k]
                      ELSE AddModels(upTo[k], Contribution(k + 1))
    BY <1>1, NumBackendsAssumption
  <2>3. CASE k + 1 \in Registered
    BY <2>1, <2>2, <2>3, AddModelsCollects
  <2>4. CASE k + 1 \notin Registered
    <3>1. \A n : Having(n, k + 1) = Having(n, k)
      BY <2>4, HavingSame
    <3>. QED BY <2>1, <2>2, <2>4, <3>1 DEF Collected, Listed
  <2>. QED BY <2>3, <2>4
<1>. HIDE DEF S
<1>4. NumBackends \in S
  BY <1>2, <1>3, InductionOverNat, NumBackendsAssumption
<1>. QED BY <1>1, <1>4, NumBackendsAssumption DEF S

\* What has a model is within reach of the whole range.
LEMMA HavingAll ==
    ASSUME NEW n
    PROVE  Having(n, NumBackends) = {id \in Registered : n \in DOMAIN Contribution(id)}
BY DEF Having, Registered, Ids

\* The pieces of the names listed are the pieces of the backends' models.
LEMMA InvRouted == CatalogInv => CatalogueIsRouted
<1>. SUFFICES ASSUME CatalogInv PROVE CatalogueIsRouted
  OBVIOUS
<1>. DEFINE listed == DOMAIN Catalogue
            Routed(id) == backends[id].models \union backends[id].loaded
<1>1. \A n : n \in listed <=> \E id \in Registered : n \in DOMAIN Contribution(id)
  <2>1. ASSUME NEW n PROVE n \in listed <=> Having(n, NumBackends) # {}
    BY CatalogueCollected DEF Collected
  <2>. QED BY <2>1, HavingAll
<1>2. \A id \in Registered : Recoded(DOMAIN Contribution(id)) = Routed(id)
  BY ContributionTyped
<1>. HIDE DEF listed, Routed
<1>3. ASSUME NEW p
      PROVE  p \in Recoded(listed) <=> \E id \in Registered : p \in Recoded(DOMAIN Contribution(id))
  <2>. DEFINE Piece(n) == \E i \in 1..Len(n) : p = <<n[i]>>
  <2>1. p \in Recoded(listed) <=> p # <<Blank>> /\ \E n \in listed : Piece(n)
    BY PiecesOf
  <2>2. \A id \in Registered : p \in Recoded(DOMAIN Contribution(id)) <=>
                p # <<Blank>> /\ \E n \in DOMAIN Contribution(id) : Piece(n)
    BY PiecesOf
  <2>. HIDE DEF Piece
  <2>. QED BY <1>1, <2>1, <2>2
<1>4. \A p : p \in UNION {Routed(id) : id \in Registered} <=> \E id \in Registered : p \in Routed(id)
  OBVIOUS
<1>5. Recoded(listed) = UNION {Routed(id) : id \in Registered}
  BY <1>2, <1>3, <1>4
<1>. QED BY <1>5 DEF CatalogueIsRouted, listed, Routed

\* The catalogue of collectModels lists what requests are routed by and
\* nothing else, though the one is made from the metadata and the other are
\* the lists joined with commas, and pings fail and records are registered
\* again in between.
THEOREM RoutedAlways == Spec => []CatalogueIsRouted
BY Inductive, InvRouted, PTL

\* The entry after all backends is that of ListedOnce.
LEMMA InvListedOnce == CatalogInv => ListedOnce
<1>. SUFFICES ASSUME CatalogInv, NEW n \in DOMAIN Catalogue,
                     NEW having, having = {id \in Registered : n \in DOMAIN Contribution(id)},
                     NEW times, times = {Contribution(id)[n].created : id \in having}
              PROVE  /\ having # {}
                     /\ Catalogue[n].created \in times
                     /\ \A t \in times : Catalogue[n].created <= t
                     /\ Catalogue[n].owner = Contribution(Min(having))[n].owner
  BY DEF ListedOnce
<1>. DEFINE entry == Catalogue[n]
<1>1. having = Having(n, NumBackends)
  BY HavingAll
<1>2. having # {} /\ Listed(n, NumBackends, entry)
  BY <1>1, CatalogueCollected DEF Collected
<1>3. having \in SUBSET (1..NumBackends)
  BY <1>1 DEF Having
<1>4. Min(having) \in having /\ \A j \in having : Min(having) <= j
  BY <1>2, <1>3, MaxMinOf, NumBackendsAssumption
<1>5. PICK id \in having : (\A j \in having : id <= j) /\ entry.owner = Contribution(id)[n].owner
  BY <1>1, <1>2 DEF Listed
<1>6. id = Min(having)
  BY <1>3, <1>4, <1>5, NumBackendsAssumption
<1>. HIDE DEF entry
<1>7. entry.created \in times /\ \A t \in times : entry.created <= t
  BY <1>1, <1>2 DEF Listed
<1>. QED BY <1>2, <1>5, <1>6, <1>7 DEF entry

\* addModel, called record by record, leaves the earliest time and the first
\* backend's owner of each model, however many backends there are.
THEOREM ListedOnceAlways == Spec => []ListedOnce
BY Inductive, InvListedOnce, PTL

\* collectModels has a branch for records with models but without metadata.
FallbackUnused ==
    \A id \in Registered : DOMAIN backends[id].meta = {} => DOMAIN Contribution(id) = {}

\* No record that this program keeps takes that branch and lists anything by
\* it: only what an earlier version left in Redis could.
THEOREM FallbackNeverLists == Spec => []FallbackUnused
<1>1. CatalogInv => FallbackUnused
  <2>. SUFFICES ASSUME CatalogInv, NEW id \in Registered, DOMAIN backends[id].meta = {}
                PROVE  DOMAIN Contribution(id) = {}
    BY DEF FallbackUnused
  <2>1. Agrees(backends[id])
    BY DEF CatalogInv
  <2>2. Recoded({}) = {}
    BY DEF Recoded
  <2>3. backends[id].models = {}
    BY <2>1, <2>2 DEF Agrees
  <2>. QED BY <2>3 DEF Contribution
<1>. QED BY <1>1, Inductive, PTL
=============================================================================
