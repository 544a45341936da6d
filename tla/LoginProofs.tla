----------------------------- MODULE LoginProofs -----------------------------
(***************************************************************************)
(* Proofs of the properties of RoleStore and OAuthLogin: a user's role is  *)
(* the one of his first group that has any and survives restarts; state    *)
(* tokens are spent once and in time; and the table of users keeps up with *)
(* the sessions.                                                           *)
(***************************************************************************)
EXTENDS OAuthLogin, RoleStore, WellFoundedInduction, TLAPS

-----------------------------------------------------------------------------
(* Numbers                                                                 *)

\* A set of numbers has a least one.
LEMMA LeastNumber ==
    ASSUME NEW S \in SUBSET Nat, S # {}
    PROVE  \E m \in S : \A n \in S : m <= n
<1>. DEFINE Less == OpToRel(<, Nat)
<1>1. IsWellFoundedOn(Less, Nat)
  BY ONLY NatLessThanWellFounded
<1>2. \A m, n \in Nat : n < m => <<n, m>> \in Less
  BY SMT DEF OpToRel
<1>. HIDE DEF Less
<1>3. S \subseteq Nat
  OBVIOUS
<1>4. \E m \in S : \A n \in S : ~ (<<n, m>> \in Less)
  BY <1>1, <1>3, WFMin
<1>5. PICK m \in S : \A n \in S : ~ (<<n, m>> \in Less)
  BY <1>4
<1>6. \A n \in S : m <= n
  <2>1. \A n \in S : ~ (n < m)
    BY <1>2, <1>3, <1>5, Zenon
  <2>. QED BY <1>3, <2>1
<1>. QED BY <1>6

\* Induction; what holds of a number is its being in S.
LEMMA InductionOverNat ==
    ASSUME NEW S, 0 \in S, \A n \in Nat : n \in S => n + 1 \in S
    PROVE  Nat \subseteq S
<1>. SUFFICES ASSUME Nat \ S # {} PROVE FALSE
  OBVIOUS
<1>1. PICK m \in Nat \ S : \A n \in Nat \ S : m <= n
  BY LeastNumber
<1>2. m # 0 /\ m - 1 \in S
  BY <1>1
<1>. QED BY <1>1, <1>2

\* A bounded set of numbers has a greatest one.
LEMMA GreatestNumber ==
    ASSUME NEW S \in SUBSET Nat, S # {}, NEW bound \in Nat, \A n \in S : n <= bound
    PROVE  \E m \in S : \A n \in S : m >= n
<1>. DEFINE T == {bound - n : n \in S}
<1>1. PICK t \in T : \A u \in T : t <= u
  <2>1. \A n \in S : bound - n \in Nat
    OBVIOUS
  <2>2. T \subseteq Nat /\ T # {}
    BY <2>1
  <2>. HIDE DEF T
  <2>. QED BY <2>2, LeastNumber
<1>2. bound - t \in S /\ \A n \in S : bound - n \in T
  OBVIOUS
<1>3. \A n \in S : t <= bound - n
  BY <1>1
<1>4. t \in Int /\ \A n \in S : bound - t >= n
  <2>1. PICK k \in S : t = bound - k
    OBVIOUS
  <2>. QED BY <1>3, <2>1
<1>. QED BY <1>2, <1>4


-----------------------------------------------------------------------------
(* The operators of Roles                                                  *)

\* Dedupe's recursion does define a function.
LEMMA DedupeUnfolds ==
    ASSUME NEW texts, Len(texts) \in Nat
    PROVE  \E out :
              /\ Dedupe(texts) = out[Len(texts)]
              /\ out[0] = <<>>
              /\ \A n \in 1..Len(texts) :
                    out[n] = IF texts[n] = Blank \/ texts[n] \in ToSet(out[n - 1])
                             THEN out[n - 1] ELSE Append(out[n - 1], texts[n])
<1>. DEFINE Step(n, kept) ==
                IF texts[n] = Blank \/ texts[n] \in ToSet(kept) THEN kept
                ELSE Append(kept, texts[n])
            Upto(k, f) == /\ f = [n \in 0..k |-> f[n]]
                          /\ f[0] = <<>>
                          /\ \A n \in 1..k : f[n] = Step(n, f[n - 1])
            S == {k \in Nat : \E f : Upto(k, f)}
            N == Len(texts)
            out == CHOOSE f : f = [n \in 0..N |-> IF n = 0 THEN <<>> ELSE Step(n, f[n - 1])]
<1>1. 0 \in S
  <2>1. Upto(0, [n \in 0..0 |-> <<>>])
    OBVIOUS
  <2>. QED BY <2>1
<1>2. ASSUME NEW k \in Nat, k \in S PROVE k + 1 \in S
  <2>1. PICK f : Upto(k, f)
    BY <1>2
  <2>. HIDE DEF Step
  <2>. DEFINE g == [n \in 0..k + 1 |-> IF n = k + 1 THEN Step(k + 1, f[k]) ELSE f[n]]
  <2>2. Upto(k + 1, g)
    <3>1. g[0] = <<>>
      BY <2>1
    <3>2. ASSUME NEW n \in 1..k + 1 PROVE g[n] = Step(n, g[n - 1])
      BY <2>1
    <3>. QED BY <3>1, <3>2
  <2>3. \E h : Upto(k + 1, h)
    <3>. HIDE DEF g, Upto
    <3>. QED BY <2>2
  <2>. HIDE DEF Upto
  <2>. QED BY <2>3
<1>3. PICK f : Upto(N, f)
  <2>. HIDE DEF S
  <2>1. N \in S
    BY <1>1, <1>2, InductionOverNat
  <2>. QED BY <2>1 DEF S
<1>4. out = [n \in 0..N |-> IF n = 0 THEN <<>> ELSE Step(n, out[n - 1])]
  <2>. HIDE DEF Step
  <2>1. f = [n \in 0..N |-> IF n = 0 THEN <<>> ELSE Step(n, f[n - 1])]
    BY <1>3
  <2>. QED BY <2>1
<1>5. Dedupe(texts) = out[N]
  BY DEF Dedupe
<1>6. out[0] = <<>> /\ \A n \in 1..N : out[n] = Step(n, out[n - 1])
  <2>. HIDE DEF Step, out
  <2>. QED BY <1>4
<1>. HIDE DEF out
<1>. QED BY <1>5, <1>6

\* What is left after Dedupe: each text that is not blank, in the order in
\* which the texts come first.
LEMMA Deduped ==
    ASSUME NEW T, NEW texts \in Seq(T)
    PROVE  LET d == Dedupe(texts) IN
           /\ d \in Seq(T)
           /\ ToSet(d) = ToSet(texts) \ {Blank}
           /\ \A p \in DOMAIN d : \E k \in DOMAIN texts :
                 /\ texts[k] = d[p]
                 /\ \A j \in 1..k - 1 : texts[j] = Blank \/ \E q \in 1..p - 1 : d[q] = texts[j]
<1>. DEFINE N == Len(texts)
<1>1. N \in Nat /\ DOMAIN texts = 1..N /\ \A n \in 1..N : texts[n] \in T
  OBVIOUS
<1>2. PICK out :
          /\ Dedupe(texts) = out[N]
          /\ out[0] = <<>>
          /\ \A n \in 1..N :
                out[n] = IF texts[n] = Blank \/ texts[n] \in ToSet(out[n - 1])
                         THEN out[n - 1] ELSE Append(out[n - 1], texts[n])
  BY <1>1, DedupeUnfolds
<1>. DEFINE Covers(n, d) == \A k \in 1..n : texts[k] # Blank => \E p \in 1..Len(d) : d[p] = texts[k]
            First(k, p, d) == /\ texts[k] = d[p]
                              /\ \A j \in 1..k - 1 :
                                    texts[j] = Blank \/ \E q \in 1..p - 1 : d[q] = texts[j]
            Ordered(n, d) == \A p \in 1..Len(d) : d[p] # Blank /\ \E k \in 1..n : First(k, p, d)
            Good(n, d) == d \in Seq(T) /\ Covers(n, d) /\ Ordered(n, d)
            S == {n \in Nat : n <= N => Good(n, out[n])}
<1>3. 0 \in S
  <2>1. Good(0, <<>>)
    OBVIOUS
  <2>. HIDE DEF Good
  <2>. QED BY <1>2, <2>1
<1>4. ASSUME NEW n \in Nat, n \in S PROVE n + 1 \in S
  <2>. SUFFICES ASSUME n + 1 <= N PROVE Good(n + 1, out[n + 1])
    <3>. HIDE DEF Good
    <3>. QED OBVIOUS
  <2>. DEFINE d == out[n]
              t == texts[n + 1]
  <2>1. Good(n, d) /\ n + 1 \in 1..N /\ t \in T
    <3>. HIDE DEF Good
    <3>. QED BY <1>1, <1>4
  <2>2. out[n + 1] = IF t = Blank \/ t \in ToSet(d) THEN d ELSE Append(d, t)
    BY <1>2, <2>1
  <2>3. DOMAIN d = 1..Len(d) /\ Len(d) \in Nat
    BY <2>1
  <2>4. CASE t = Blank \/ t \in ToSet(d)
    <3>1. t # Blank => \E p \in 1..Len(d) : d[p] = t
      BY <2>3, <2>4 DEF ToSet
    <3>2. out[n + 1] = d
      BY <2>2, <2>4
    <3>. HIDE DEF d
    <3>3. Covers(n + 1, d)
      BY <2>1, <3>1
    <3>4. Ordered(n + 1, d)
      BY <2>1
    <3>. QED BY <2>1, <3>2, <3>3, <3>4
  <2>5. CASE t # Blank /\ t \notin ToSet(d)
    <3>. DEFINE e == Append(d, t)
    <3>1. out[n + 1] = e
      BY <2>2, <2>5
    <3>. HIDE DEF d
    <3>2. /\ e \in Seq(T) /\ Len(e) = Len(d) + 1 /\ e[Len(d) + 1] = t
          /\ \A p \in 1..Len(d) : e[p] = d[p]
      BY <2>1, <2>3
    <3>. HIDE DEF e
    <3>3. ASSUME NEW k \in 1..n + 1, texts[k] # Blank PROVE \E p \in 1..Len(e) : e[p] = texts[k]
      <4>1. CASE k = n + 1
        BY <2>3, <3>2, <4>1
      <4>2. CASE k \in 1..n
        <5>1. PICK p \in 1..Len(d) : d[p] = texts[k]
          BY <2>1, <3>3, <4>2
        <5>. QED BY <2>3, <3>2, <5>1
      <4>. QED BY <4>1, <4>2
    <3>4. ASSUME NEW p \in 1..Len(e) PROVE e[p] # Blank /\ \E k \in 1..n + 1 : First(k, p, e)
      <4>1. CASE p = Len(d) + 1
        <5>1. First(n + 1, p, e)
          BY <2>1, <2>3, <3>2, <4>1
        <5>. HIDE DEF First
        <5>. QED BY <2>5, <3>2, <4>1, <5>1
      <4>2. CASE p \in 1..Len(d)
        <5>1. PICK k \in 1..n : First(k, p, d)
          BY <2>1, <4>2
        <5>2. First(k, p, e)
          BY <2>3, <3>2, <4>2, <5>1
        <5>3. k \in 1..n + 1 /\ d[p] # Blank /\ e[p] = d[p]
          BY <2>1, <3>2, <4>2
        <5>. HIDE DEF First
        <5>. QED BY <5>2, <5>3
      <4>. QED BY <2>3, <3>2, <4>1, <4>2
    <3>. QED BY <3>1, <3>2, <3>3, <3>4
  <2>. QED BY <2>4, <2>5
<1>5. Good(N, out[N])
  <2>. HIDE DEF S
  <2>1. N \in S
    BY <1>1, <1>3, <1>4, InductionOverNat
  <2>. HIDE DEF Good
  <2>. QED BY <1>1, <2>1 DEF S
<1>. DEFINE d == Dedupe(texts)
<1>6. Good(N, d)
  BY <1>2, <1>5
<1>. HIDE DEF d
<1>7. DOMAIN d = 1..Len(d) /\ d \in Seq(T)
  BY <1>6
<1>8. ToSet(d) = ToSet(texts) \ {Blank}
  <2>1. ASSUME NEW t \in ToSet(d) PROVE t \in ToSet(texts) \ {Blank}
    <3>1. PICK p \in 1..Len(d) : t = d[p]
      BY <1>7 DEF ToSet
    <3>2. t # Blank /\ \E k \in 1..N : texts[k] = t
      BY <1>6, <3>1
    <3>. QED BY <1>1, <3>2 DEF ToSet
  <2>2. ASSUME NEW t \in ToSet(texts), t # Blank PROVE t \in ToSet(d)
    <3>1. PICK k \in 1..N : t = texts[k]
      BY <1>1 DEF ToSet
    <3>2. PICK p \in 1..Len(d) : d[p] = t
      BY <1>6, <2>2, <3>1
    <3>. QED BY <1>7, <3>2 DEF ToSet
  <2>. QED BY <2>1, <2>2
<1>. QED BY <1>1, <1>6, <1>7, <1>8 DEF d

\* The greatest of finitely many numbers.
LEMMA MaxOf ==
    ASSUME NEW N \in Nat, NEW S \in SUBSET (1..N), S # {}
    PROVE  Max(S) \in S /\ \A i \in S : i <= Max(S)
<1>1. \E m \in S : \A n \in S : m >= n
  <2>1. S \in SUBSET Nat /\ \A n \in S : n <= N
    OBVIOUS
  <2>. QED BY <2>1, GreatestNumber
<1>. QED BY <1>1 DEF Max

\* Resolve gives the role of the first of a user's groups that has one.
LEMMA FirstHitDecides ==
    ASSUME NEW index \in [Groups -> RoleNames \union {NoRole}],
           NEW told \in Seq(Groups \union {Blank})
    PROVE  LET r == Resolve(index, Dedupe(told))
               hits == Hits(index, told)
           IN  \/ hits = {} /\ r = NoRole
               \/ \E i \in hits : (\A j \in 1..i - 1 : j \notin hits) /\ r = index[told[i]]
<1>. DEFINE d == Dedupe(told)
            hits == Hits(index, told)
            deduped == Hits(index, d)
            first == {p \in deduped : \A q \in deduped : p <= q}
<1>1. /\ d \in Seq(Groups \union {Blank})
      /\ ToSet(d) = ToSet(told) \ {Blank}
      /\ \A p \in DOMAIN d : \E k \in DOMAIN told :
            /\ told[k] = d[p]
            /\ \A j \in 1..k - 1 : told[j] = Blank \/ \E q \in 1..p - 1 : d[q] = told[j]
  BY Deduped
<1>2. Resolve(index, d) = IF first = {} THEN NoRole ELSE index[d[CHOOSE p \in first : TRUE]]
  BY DEF Resolve
<1>. HIDE DEF d
<1>3. DOMAIN d = 1..Len(d) /\ Len(d) \in Nat /\ DOMAIN told = 1..Len(told) /\ Len(told) \in Nat
  BY <1>1
<1>4. deduped = {} <=> hits = {}
  <2>1. ASSUME NEW p \in deduped PROVE hits # {}
    BY <1>1 DEF Hits
  <2>2. ASSUME NEW k \in hits PROVE deduped # {}
    <3>1. told[k] \in ToSet(d) /\ told[k] \in Groups /\ index[told[k]] # NoRole
      BY <1>1, BlankAssumption DEF Hits, ToSet
    <3>2. PICK p \in DOMAIN d : d[p] = told[k]
      BY <3>1 DEF ToSet
    <3>. QED BY <3>1, <3>2 DEF Hits
  <2>. QED BY <2>1, <2>2
<1>5. CASE deduped = {}
  <2>1. first = {}
    BY <1>5
  <2>. QED BY <1>2, <1>4, <1>5, <2>1 DEF d
<1>6. CASE deduped # {}
  <2>1. deduped \in SUBSET Nat
    BY <1>3 DEF Hits
  <2>2. first # {}
    <3>. HIDE DEF deduped
    <3>. QED BY <1>6, <2>1, LeastNumber
  <2>. DEFINE p == CHOOSE p \in first : TRUE
  <2>3. p \in first
    BY <2>2
  <2>4. Resolve(index, d) = index[d[p]]
    BY <1>2, <2>2
  <2>. HIDE DEF p
  <2>5. p \in DOMAIN d /\ d[p] \in Groups /\ index[d[p]] # NoRole
    BY <2>3 DEF Hits
  <2>6. PICK k \in DOMAIN told :
            /\ told[k] = d[p]
            /\ \A j \in 1..k - 1 : told[j] = Blank \/ \E q \in 1..p - 1 : d[q] = told[j]
    BY <1>1, <2>5
  <2>7. k \in hits
    BY <2>5, <2>6 DEF Hits
  <2>8. ASSUME NEW j \in 1..k - 1 PROVE j \notin hits
    <3>1. CASE told[j] = Blank
      BY <3>1, BlankAssumption DEF Hits
    <3>2. ASSUME NEW q \in 1..p - 1, d[q] = told[j] PROVE j \notin hits
      <4>1. q \in DOMAIN d /\ ~ (p <= q)
        BY <1>3, <2>5
      <4>2. q \notin deduped
        BY <2>3, <4>1
      <4>. QED BY <3>2, <4>1, <4>2 DEF Hits
    <3>. QED BY <2>6, <3>1, <3>2
  <2>. QED BY <2>4, <2>6, <2>7, <2>8 DEF d
<1>. QED BY <1>5, <1>6

\* An index gives a group one of the roles that the map gives it, if any.
LEMMA IndexGives ==
    ASSUME NEW map, DOMAIN map \subseteq RoleNames, NEW index \in GroupIndexes(map), NEW g \in Groups
    PROVE  /\ index[g] # NoRole => index[g] \in DOMAIN map /\ g \in ToSet(map[index[g]])
           /\ index[g] = NoRole => \A r \in DOMAIN map : g \notin ToSet(map[r])
<1>1. PICK order \in Orders(DOMAIN map) : IndexedBy(index, map, order)
  BY DEF GroupIndexes
<1>2. /\ \A i \in DOMAIN order : order[i] \in DOMAIN map
      /\ \A r \in DOMAIN map : \E i \in DOMAIN order : order[i] = r
  BY DEF Orders
<1>. DEFINE owners == Owners(map, order, g)
<1>3. \/ owners = {} /\ index[g] = NoRole
      \/ \E i \in owners : index[g] = order[i]
  BY <1>1 DEF IndexedBy
<1>4. ASSUME NEW i \in owners
      PROVE  order[i] \in DOMAIN map /\ g \in ToSet(map[order[i]]) /\ order[i] # NoRole
  BY <1>2, NoRoleAssumption DEF Owners
<1>5. ASSUME NEW r \in DOMAIN map, g \in ToSet(map[r]) PROVE owners # {}
  BY <1>2, <1>5 DEF Owners
<1>. HIDE DEF owners
<1>. QED BY <1>3, <1>4, <1>5

-----------------------------------------------------------------------------
(* RoleStore                                                               *)

\* The setting gives a group a role if the map parsed from it does.
LEMMA HasRoleIfMapped ==
    ASSUME items \in Settings, NEW r, NEW g
    PROVE  HasRole(g, r) <=> r \in DOMAIN ParseRoleGroups(items) /\ g \in ToSet(ParseRoleGroups(items)[r])
<1>. DEFINE mappings == {i \in DOMAIN items : items[i].kind = "mapping"}
            of == {i \in mappings : items[i].role = r}
            latest == Max(of)
            map == ParseRoleGroups(items)
<1>1. /\ items \in Seq(Items) /\ Len(items) \in Nat /\ DOMAIN items = 1..Len(items)
      /\ \A i \in DOMAIN items : items[i].groups \in Seq(Groups \union {Blank})
  <2>1. items \in Seq(Items)
    BY SettingsAssumption
  <2>2. Len(items) \in Nat /\ DOMAIN items = 1..Len(items) /\ \A i \in DOMAIN items : items[i] \in Items
    BY <2>1
  <2>. QED BY <2>1, <2>2 DEF Items
<1>2. r \in DOMAIN map <=> of # {}
  BY DEF ParseRoleGroups
<1>3. r \in DOMAIN map => map[r] = Dedupe(items[latest].groups)
  BY DEF ParseRoleGroups
<1>. HIDE DEF map
<1>4. CASE of = {}
  BY <1>2, <1>4 DEF HasRole, Gives, map
<1>5. CASE of # {}
  <2>1. latest \in of /\ \A i \in of : i <= latest
    <3>1. of \in SUBSET (1..Len(items))
      BY <1>1
    <3>. HIDE DEF of
    <3>. QED BY <1>1, <1>5, <3>1, MaxOf
  <2>. HIDE DEF latest
  <2>2. ToSet(map[r]) = ToSet(items[latest].groups) \ {Blank}
    BY <1>1, <1>2, <1>3, <1>5, <2>1, Deduped
  <2>3. HasRole(g, r) <=> Gives(items[latest], r, g)
    <3>1. \A i \in of : (\A j \in of : j <= i) <=> i = latest
      BY <1>1, <2>1
    <3>. QED BY <2>1, <3>1 DEF HasRole, Gives
  <2>4. Gives(items[latest], r, g) <=> g # Blank /\ g \in ToSet(items[latest].groups)
    BY <2>1 DEF Gives, ToSet
  <2>. QED BY <1>2, <1>5, <2>2, <2>3, <2>4 DEF map
<1>. QED BY <1>4, <1>5

\* roles.yaml gives a role some scope if what is built from it does.
LEMMA EffectiveIfScoped ==
    ASSUME doc \in Documents, NEW r \in Defined(doc)
    PROVE  Effective(r) <=> RoleScopes(doc)[r] # <<>>
<1>. DEFINE of == {i \in DOMAIN doc.roles : doc.roles[i].name = r}
            latest == Max(of)
            texts == doc.roles[latest].scopes
<1>1. /\ doc.roles \in Seq(Entries) /\ Len(doc.roles) \in Nat /\ DOMAIN doc.roles = 1..Len(doc.roles)
      /\ \A i \in DOMAIN doc.roles : doc.roles[i].scopes \in Seq(Scopes \union {Blank})
  <2>1. doc.roles \in Seq(Entries)
    BY DocumentsAssumption
  <2>2. /\ Len(doc.roles) \in Nat /\ DOMAIN doc.roles = 1..Len(doc.roles)
        /\ \A i \in DOMAIN doc.roles : doc.roles[i] \in Entries
    BY <2>1
  <2>. QED BY <2>1, <2>2 DEF Entries
<1>2. RoleScopes(doc)[r] = Dedupe(texts)
  BY DEF RoleScopes
<1>3. of # {}
  BY DEF Defined
<1>4. latest \in of /\ \A i \in of : i <= latest
  <2>1. of \in SUBSET (1..Len(doc.roles))
    BY <1>1
  <2>. HIDE DEF of
  <2>. QED BY <1>1, <1>3, <2>1, MaxOf
<1>. HIDE DEF latest
<1>5. texts \in Seq(Scopes \union {Blank})
  BY <1>1, <1>4
<1>6. Effective(r) <=> \E k \in DOMAIN texts : texts[k] # Blank
  <2>1. \A i \in of : (\A j \in of : j <= i) <=> i = latest
    BY <1>1, <1>4
  <2>. QED BY <1>4, <2>1 DEF Effective
<1>. HIDE DEF texts
<1>7. Dedupe(texts) \in Seq(Scopes \union {Blank}) /\ ToSet(Dedupe(texts)) = ToSet(texts) \ {Blank}
  BY <1>5, Deduped
<1>8. Dedupe(texts) # <<>> <=> ToSet(Dedupe(texts)) # {}
  BY <1>7 DEF ToSet
<1>. QED BY <1>2, <1>6, <1>7, <1>8 DEF ToSet

\* A map under which no group has two roles has one index only, whatever the
\* order of the loop that builds it.
LEMMA OneIndex ==
    ASSUME NEW map,
           \A one, other \in DOMAIN map :
               ToSet(map[one]) \intersect ToSet(map[other]) # {} => one = other,
           NEW a \in GroupIndexes(map), NEW b \in GroupIndexes(map)
    PROVE  a = b
<1>1. PICK p \in Orders(DOMAIN map) : IndexedBy(a, map, p)
  BY DEF GroupIndexes
<1>2. PICK q \in Orders(DOMAIN map) : IndexedBy(b, map, q)
  BY DEF GroupIndexes
<1>3. ASSUME NEW group \in Groups
      PROVE  a[group] = b[group]
  <2>. DEFINE P == Owners(map, p, group)
              Q == Owners(map, q, group)
  <2>1. (\A i \in DOMAIN p : p[i] \in DOMAIN map) /\ (\A i \in DOMAIN q : q[i] \in DOMAIN map)
    BY DEF Orders
  <2>2. \A i \in P, j \in Q : p[i] = q[j]
    BY <2>1 DEF Owners
  <2>3. P = {} <=> Q = {}
    <3>1. ASSUME NEW i \in P PROVE Q # {}
      BY <2>1 DEF Owners, Orders
    <3>2. ASSUME NEW i \in Q PROVE P # {}
      BY <2>1 DEF Owners, Orders
    <3>. QED BY <3>1, <3>2
  <2>4. (P = {} /\ a[group] = NoRole) \/ \E i \in P : a[group] = p[i]
    BY <1>1 DEF IndexedBy
  <2>5. (Q = {} /\ b[group] = NoRole) \/ \E i \in Q : b[group] = q[i]
    BY <1>2 DEF IndexedBy
  <2>. QED
    <3>. HIDE DEF P, Q
    <3>. QED BY <2>2, <2>3, <2>4, <2>5
<1>. QED
  BY <1>3 DEF GroupIndexes


\* What Load lets the server start with.
Accepted(its, file) ==
    /\ \A i \in DOMAIN its : ~ItemRefused(its[i])
    /\ Loadable(file, ParseRoleGroups(its))

\* A decision was made by some index of the configuration in force, which is
\* one that the server starts with.
Justified(decision) ==
    decision # NoDecision =>
        /\ decision.told \in Memberships
        /\ Accepted(items, doc)
        /\ \E index \in GroupIndexes(ParseRoleGroups(items)) :
              decision.role = DetermineRole(index, RoleScopes(doc), decision.told)

\* What a server that runs has built is the configuration's.
Loaded ==
    up => /\ Accepted(items, doc)
          /\ store.groupIndex \in GroupIndexes(ParseRoleGroups(items))
          /\ store.roleScopes = RoleScopes(doc)

\* What holds all the time: the store is the configuration's, and so are the
\* last two decisions.
StoreInv ==
    /\ items \in Settings
    /\ doc \in Documents
    /\ Loaded
    /\ Justified(last)
    /\ Justified(before)

LEMMA InitStore == StoreInit => StoreInv
BY DEF StoreInit, StoreInv, Loaded, Justified

LEMMA StepStore == StoreInv /\ [StoreNext]_storeVars => StoreInv'
<1>. SUFFICES ASSUME StoreInv, [StoreNext]_storeVars PROVE StoreInv'
  OBVIOUS
<1>. USE DEF StoreInv, Loaded, Justified
<1>1. CASE Load
  BY <1>1 DEF Load, configuration, Accepted
<1>2. CASE Stop
  BY <1>2 DEF Stop, configuration
<1>3. CASE Configure
  BY <1>3 DEF Configure
<1>4. ASSUME NEW groups \in Memberships, Decide(groups)
      PROVE  StoreInv'
  BY <1>4 DEF Decide, configuration
<1>5. CASE UNCHANGED storeVars
  BY <1>5 DEF storeVars, configuration
<1>. QED
  BY <1>1, <1>2, <1>3, <1>4, <1>5 DEF StoreNext

THEOREM StoreInductive == StoreSpec => []StoreInv
BY InitStore, StepStore, PTL DEF StoreSpec

\* Two decisions for the same groups agree if no group has two roles.
LEMMA StoreInvStable == StoreInv => RoleIsStable
<1>. SUFFICES ASSUME StoreInv, Unambiguous, last.told = before.told, last.told # <<>>
              PROVE  last.role = before.role
  BY DEF RoleIsStable
<1>1. last # NoDecision /\ before # NoDecision
  BY DEF NoDecision
<1>2. PICK a \in GroupIndexes(ParseRoleGroups(items)) :
          last.role = DetermineRole(a, RoleScopes(doc), last.told)
  BY <1>1 DEF StoreInv, Justified
<1>3. PICK b \in GroupIndexes(ParseRoleGroups(items)) :
          before.role = DetermineRole(b, RoleScopes(doc), before.told)
  BY <1>1 DEF StoreInv, Justified
<1>4. a = b
  BY OneIndex DEF Unambiguous
<1>. QED BY <1>2, <1>3, <1>4

(***************************************************************************)
(* If the setting gives no group two roles, a user is given the same role  *)
(* after every restart of the server, for all groups, roles and files: the *)
(* order in which Load ranges over its map is of no consequence.           *)
(***************************************************************************)
THEOREM RoleSurvivesRestart == StoreSpec => []RoleIsStable
BY StoreInductive, StoreInvStable, PTL

\* The role of the last decision is the first group's.
LEMMA StoreInvFirst == StoreInv => RoleIsOfFirstGroup
<1>. SUFFICES ASSUME StoreInv, last # NoDecision PROVE RoleIsOfFirstGroup
  BY DEF RoleIsOfFirstGroup, NoDecision
<1>. DEFINE map == ParseRoleGroups(items)
            told == last.told
            scopes == RoleScopes(doc)
            deciding == {i \in DOMAIN told :
                            /\ HasAnyRole(told[i])
                            /\ \A j \in 1..i - 1 : ~HasAnyRole(told[j])}
<1>1. /\ items \in Settings /\ doc \in Documents /\ Accepted(items, doc)
      /\ told \in Seq(Groups \union {Blank})
  BY MembershipsAssumption DEF StoreInv, Justified
<1>2. PICK index \in GroupIndexes(map) : last.role = DetermineRole(index, scopes, told)
  BY DEF StoreInv, Justified
<1>3. DOMAIN map \subseteq Defined(doc) /\ Defined(doc) \subseteq RoleNames
  <2>1. Loadable(doc, map) /\ doc.roles \in Seq(Entries)
    BY <1>1, DocumentsAssumption DEF Accepted
  <2>2. \A i \in DOMAIN doc.roles : doc.roles[i] \in Entries
    BY <2>1
  <2>. QED BY <2>1, <2>2 DEF Loadable, Defined, Entries
<1>4. index \in [Groups -> RoleNames \union {NoRole}]
  BY <1>2 DEF GroupIndexes
<1>5. \A g, r : HasRole(g, r) <=> r \in DOMAIN map /\ g \in ToSet(map[r])
  BY <1>1, HasRoleIfMapped
<1>6. \A i \in DOMAIN told : i \in Hits(index, told) <=> HasAnyRole(told[i])
  <2>1. ASSUME NEW i \in DOMAIN told, told[i] = Blank
        PROVE  i \notin Hits(index, told) /\ ~HasAnyRole(told[i])
    BY <2>1, BlankAssumption DEF Hits, HasAnyRole, HasRole, Gives
  <2>2. ASSUME NEW i \in DOMAIN told, told[i] \in Groups
        PROVE  i \in Hits(index, told) <=> HasAnyRole(told[i])
    <3>1. /\ index[told[i]] # NoRole => index[told[i]] \in DOMAIN map /\ told[i] \in ToSet(map[index[told[i]]])
          /\ index[told[i]] = NoRole => \A r \in DOMAIN map : told[i] \notin ToSet(map[r])
      BY <1>2, <1>3, <2>2, IndexGives
    <3>. QED BY <1>3, <1>5, <2>2, <3>1 DEF Hits, HasAnyRole
  <2>. QED BY <1>1, <2>1, <2>2
<1>. DEFINE hits == Hits(index, told)
            resolved == Resolve(index, Dedupe(told))
<1>7. \/ hits = {} /\ resolved = NoRole
      \/ \E i \in hits : (\A j \in 1..i - 1 : j \notin hits) /\ resolved = index[told[i]]
  BY <1>1, <1>4, FirstHitDecides
<1>8. last.role = IF resolved # NoRole /\ scopes[resolved] # <<>> THEN resolved ELSE NoRole
  BY <1>2 DEF DetermineRole
<1>9. hits \subseteq DOMAIN told /\ DOMAIN told = 1..Len(told) /\ Len(told) \in Nat
  BY <1>1 DEF Hits
<1>10. CASE hits = {}
  <2>1. deciding = {} /\ last.role = NoRole
    BY <1>6, <1>7, <1>8, <1>10
  <2>. QED BY <2>1 DEF RoleIsOfFirstGroup
<1>11. ASSUME NEW i \in hits, \A j \in 1..i - 1 : j \notin hits, resolved = index[told[i]]
       PROVE  RoleIsOfFirstGroup
  <2>1. deciding = {i}
    <3>1. i \in deciding
      BY <1>6, <1>9, <1>11
    <3>2. ASSUME NEW k \in deciding PROVE k = i
      <4>1. k \in hits /\ ~ (i \in 1..k - 1) /\ ~ (k \in 1..i - 1)
        BY <1>6, <1>9, <1>11
      <4>. QED BY <1>9, <4>1
    <3>. QED BY <3>1, <3>2
  <2>2. told[i] \in Groups /\ resolved # NoRole
    BY <1>11 DEF Hits
  <2>3. HasRole(told[i], resolved) /\ resolved \in Defined(doc) /\ resolved \in RoleNames
    BY <1>2, <1>3, <1>5, <1>11, <2>2, IndexGives
  <2>4. Effective(resolved) <=> scopes[resolved] # <<>>
    BY <1>1, <2>3, EffectiveIfScoped
  <2>5. last.role # NoRole => HasRole(told[i], last.role) /\ Effective(last.role)
    BY <1>8, <2>3, <2>4
  <2>6. last.role = NoRole => HasRole(told[i], resolved) /\ ~Effective(resolved)
    BY <1>8, <2>2, <2>3, <2>4
  <2>. QED BY <2>1, <2>3, <2>5, <2>6 DEF RoleIsOfFirstGroup
<1>. QED BY <1>7, <1>10, <1>11

(***************************************************************************)
(* A user gets a role that the setting gives the first of his groups that  *)
(* has any, through repeated items, blanks, repeated groups and whatever   *)
(* the order of Load's map, and is refused only if there is none or the    *)
(* role has no scopes.                                                     *)
(***************************************************************************)
THEOREM FirstGroupDecides == StoreSpec => []RoleIsOfFirstGroup
BY StoreInductive, StoreInvFirst, PTL

-----------------------------------------------------------------------------
(* OAuthLogin                                                              *)

\* What is known of the state tokens: one in the map has let nobody through
\* and is the running process's.
StateInv ==
    \A st \in States :
        /\ spent[st] <= 1
        /\ issuedAt[st] = NoExpiry => spent[st] = 0
        /\ expiry[st] # NoExpiry =>
              /\ spent[st] = 0
              /\ st \in live
              /\ issuedAt[st] \in Nat
              /\ expiry[st] = issuedAt[st] + StateTTL

\* What a callback knows in each phase.
PhaseInv ==
    \A c \in Callbacks :
        /\ phase[c] \in {"exchanging", "fetching", "saving", "issuing"} => sub[c] \in Subjects
        /\ phase[c] \in {"saving", "issuing"} => info[c] \in Infos /\ role[c] \in RoleNames
        /\ code[c] # 404

\* Nothing is newer than the provider's account.
NewestInv ==
    \A s \in Subjects :
        /\ users[s] # NoRow => users[s].info.edits <= provider[s].edits
        /\ \A session \in sessions : session.sub = s => session.info.edits <= provider[s].edits
        /\ \A c \in Callbacks :
              phase[c] \in {"saving", "issuing"} /\ sub[c] = s => info[c].edits <= provider[s].edits

\* A row is there, and unless it was crossed it is as new as any session, and
\* any session about to be made; and a callback that was not overtaken would
\* write one that is.
RowInv ==
    /\ \A session \in sessions :
          /\ users[session.sub] # NoRow
          /\ session.sub \in crossed \/ session.info.edits <= users[session.sub].info.edits
    /\ \A c \in Callbacks : phase[c] = "issuing" =>
          /\ users[sub[c]] # NoRow
          /\ sub[c] \in crossed \/ info[c].edits <= users[sub[c]].info.edits
    /\ \A c \in Callbacks : phase[c] = "saving" /\ ~overtaken[c] =>
          /\ \A session \in sessions : session.sub = sub[c] => session.info.edits <= info[c].edits
          /\ \A d \in Callbacks :
                phase[d] = "issuing" /\ sub[d] = sub[c] => info[d].edits <= info[c].edits

\* Every email kept of a user is one that the provider gave him.
HeldInv ==
    /\ \A s \in Subjects :
          /\ s \in held[provider[s].account.email]
          /\ users[s] # NoRow => s \in held[users[s].info.account.email]
    /\ \A c \in Callbacks :
          phase[c] = "saving" => sub[c] \in held[info[c].account.email]

LoginInv == TypeOK /\ PhaseInv /\ StateInv /\ NewestInv /\ RowInv /\ HeldInv
LEMMA InitHolds == Init => LoginInv
<1>. SUFFICES ASSUME Init PROVE LoginInv
  OBVIOUS
<1>1. TypeOK
  BY AccountsAssumption DEF Init, TypeOK, Phases, Infos
<1>2. PhaseInv /\ StateInv
  BY DEF Init, PhaseInv, StateInv
<1>3. NewestInv /\ RowInv
  BY DEF Init, NewestInv, RowInv
<1>4. HeldInv
  BY AccountsAssumption DEF Init, HeldInv
<1>. QED BY <1>1, <1>2, <1>3, <1>4 DEF LoginInv

-----------------------------------------------------------------------------

\* determineRole gives a role or none.
LEMMA RoleTyped ==
    ASSUME TypeOK, NEW s
    PROVE  RoleOf(s) \in RoleNames \union {NoRole}
<1>. DEFINE groups == Dedupe(provider[s].account.groups)
            resolved == Resolve(groupIndex, groups)
<1>1. groupIndex \in [Groups -> RoleNames \union {NoRole}]
  BY DEF TypeOK, GroupIndexes
<1>2. resolved \in RoleNames \union {NoRole}
  BY <1>1 DEF Resolve, Hits
<1>. QED BY <1>2 DEF RoleOf, DetermineRole

\* Every row that is written is of a kind the table takes.
LEMMA StepType == LoginInv /\ [Next]_vars => TypeOK'
<1>. SUFFICES ASSUME LoginInv, [Next]_vars PROVE TypeOK'
  OBVIOUS
<1>. USE TimeAssumption, AccountsAssumption, NoExpiryAssumption
     DEF LoginInv, TypeOK, Phases, Local, memory, history, request, Goto, Answer
<1>1. ASSUME NEW st \in States, Login(st) PROVE TypeOK'
  BY <1>1 DEF Login, Cleaned
<1>2. ASSUME NEW c \in Callbacks, NEW st \in States, NEW s \in Subjects, StartCallback(c, st, s)
      PROVE  TypeOK'
  BY <1>2 DEF StartCallback, Consume, Cleaned
<1>3. ASSUME NEW c \in Callbacks, NEW st \in States, RefuseState(c, st) PROVE TypeOK'
  BY <1>3 DEF RefuseState, Cleaned
<1>4. ASSUME NEW c \in Callbacks,
             \/ RefuseCallback(c) \/ ExchangeCode(c) \/ ProviderFails(c)
             \/ RefuseUser(c) \/ UpsertFails(c) \/ IssueFails(c)
      PROVE  TypeOK'
  BY <1>4 DEF RefuseCallback, ExchangeCode, ProviderFails, RefuseUser, UpsertFails, IssueFails
<1>5. ASSUME NEW c \in Callbacks, FetchUserInfo(c) PROVE TypeOK'
  <2>1. RoleOf(sub[c]) \in RoleNames \union {NoRole}
    BY RoleTyped
  <2>2. sub[c] \in Subjects
    BY <1>5 DEF FetchUserInfo, PhaseInv
  <2>. QED BY <1>5, <2>1, <2>2 DEF FetchUserInfo
<1>6. ASSUME NEW c \in Callbacks, WriteRow(c) PROVE
          /\ users' \in [Subjects -> Row \union {NoRow}]
          /\ overtaken' \in [Callbacks -> BOOLEAN]
          /\ crossed' \in SUBSET Subjects
  <2>1. [info |-> info[c], role |-> role[c]] \in Row /\ sub[c] \in Subjects
    BY <1>6 DEF WriteRow, PhaseInv, Row
  <2>. QED BY <1>6, <2>1 DEF WriteRow
<1>7. ASSUME NEW c \in Callbacks, UpsertUser(c) \/ UpsertUnanswered(c) PROVE TypeOK'
  BY <1>6, <1>7 DEF UpsertUser, UpsertUnanswered, WriteRow
<1>8. ASSUME NEW c \in Callbacks, Issue(c) PROVE TypeOK'
  <2>1. [sub |-> sub[c], info |-> info[c], role |-> role[c]] \in Sessions
    BY <1>8 DEF Issue, PhaseInv, Sessions
  <2>. QED BY <1>8, <2>1 DEF Issue
<1>9. ASSUME NEW c \in Callbacks, NEW session \in sessions, Profile(c, session) PROVE TypeOK'
  BY <1>9 DEF Profile
<1>10. ASSUME NEW c \in Callbacks, Finish(c) PROVE TypeOK'
  BY <1>10 DEF Finish
<1>11. CASE Restart
  BY <1>11 DEF Restart
<1>12. ASSUME NEW s \in Subjects, NEW account \in Accounts, EditAccount(s, account) PROVE TypeOK'
  <2>1. [account |-> account, edits |-> provider[s].edits + 1] \in Infos
    BY DEF Infos
  <2>. QED BY <1>12, <2>1 DEF EditAccount
<1>13. CASE Tick
  BY <1>13 DEF Tick
<1>14. CASE UNCHANGED vars
  BY <1>14 DEF vars
<1>. QED
  BY <1>1, <1>2, <1>3, <1>4, <1>5, <1>7, <1>8, <1>9, <1>10, <1>11, <1>12, <1>13, <1>14 DEF Next
-----------------------------------------------------------------------------

\* Steps of a callback that leave everything but its phase and answer alone,
\* and do not move it to a phase that something must hold in.
Quiet(c) ==
    \/ RefuseCallback(c)
    \/ ExchangeCode(c)
    \/ ProviderFails(c)
    \/ RefuseUser(c)
    \/ UpsertFails(c)
    \/ IssueFails(c)

LEMMA QuietIsLocal ==
    ASSUME TypeOK, NEW c \in Callbacks, Quiet(c)
    PROVE  /\ Local
           /\ \A d \in Callbacks : d # c => phase'[d] = phase[d] /\ code'[d] = code[d]
           /\ \/ phase'[c] = "done" /\ code'[c] \in {400, 403, 500, 502}
              \/ phase'[c] = "fetching" /\ code'[c] = code[c] /\ phase[c] = "exchanging"
BY DEF TypeOK, Quiet, RefuseCallback, ExchangeCode, ProviderFails, RefuseUser, UpsertFails,
       IssueFails, Goto, Answer

\* A callback knows its user once it is let through, and what the provider
\* says of him once it has asked.
LEMMA StepPhase == LoginInv /\ [Next]_vars => PhaseInv'
<1>. SUFFICES ASSUME LoginInv, [Next]_vars PROVE PhaseInv'
  OBVIOUS
<1>. USE DEF LoginInv, PhaseInv, TypeOK, memory, history, request, Goto, Answer
<1>1. ASSUME NEW st \in States, Login(st) PROVE PhaseInv'
  BY <1>1 DEF Login
<1>2. ASSUME NEW c \in Callbacks, NEW st \in States, NEW s \in Subjects, StartCallback(c, st, s)
      PROVE  PhaseInv'
  BY <1>2 DEF StartCallback
<1>3. ASSUME NEW c \in Callbacks, NEW st \in States, RefuseState(c, st) PROVE PhaseInv'
  BY <1>3 DEF RefuseState
<1>4. ASSUME NEW c \in Callbacks, Quiet(c) PROVE PhaseInv'
  BY <1>4, QuietIsLocal DEF Local
<1>5. ASSUME NEW c \in Callbacks, FetchUserInfo(c) PROVE PhaseInv'
  BY <1>5, RoleTyped DEF FetchUserInfo
<1>6. ASSUME NEW c \in Callbacks, UpsertUser(c) \/ UpsertUnanswered(c) PROVE PhaseInv'
  BY <1>6 DEF UpsertUser, UpsertUnanswered, WriteRow
<1>7. ASSUME NEW c \in Callbacks, Issue(c) PROVE PhaseInv'
  BY <1>7 DEF Issue
<1>8. ASSUME NEW c \in Callbacks, NEW session \in sessions, Profile(c, session) PROVE PhaseInv'
  <2>1. users[session.sub] # NoRow
    BY DEF RowInv
  <2>. QED BY <1>8, <2>1 DEF Profile, Local
<1>9. ASSUME NEW c \in Callbacks, Finish(c) PROVE PhaseInv'
  BY <1>9 DEF Finish
<1>10. CASE Restart
  BY <1>10 DEF Restart
<1>11. ASSUME NEW s \in Subjects, NEW account \in Accounts, EditAccount(s, account) PROVE PhaseInv'
  BY <1>11 DEF EditAccount
<1>12. CASE Tick
  BY <1>12 DEF Tick
<1>13. CASE UNCHANGED vars
  BY <1>13 DEF vars
<1>. QED
  BY <1>1, <1>2, <1>3, <1>4, <1>5, <1>6, <1>7, <1>8, <1>9, <1>10, <1>11, <1>12, <1>13
  DEF Next, Quiet

\* Only Login puts a token in the map, and whoever spends one takes it out.
LEMMA StepState == LoginInv /\ [Next]_vars => StateInv'
<1>. SUFFICES ASSUME LoginInv, [Next]_vars PROVE StateInv'
  OBVIOUS
<1>. USE TimeAssumption, NoExpiryAssumption
     DEF LoginInv, StateInv, TypeOK, memory, history, request, Cleaned
<1>1. ASSUME NEW st \in States, Login(st) PROVE StateInv'
  BY <1>1 DEF Login, Fresh
<1>2. ASSUME NEW c \in Callbacks, NEW st \in States, NEW s \in Subjects, StartCallback(c, st, s)
      PROVE  StateInv'
  BY <1>2 DEF StartCallback, Consume
<1>3. ASSUME NEW c \in Callbacks, NEW st \in States, RefuseState(c, st) PROVE StateInv'
  BY <1>3 DEF RefuseState
<1>4. ASSUME NEW c \in Callbacks, Quiet(c) PROVE StateInv'
  BY <1>4, QuietIsLocal DEF Local
<1>5. ASSUME NEW c \in Callbacks,
             \/ FetchUserInfo(c) \/ UpsertUser(c) \/ UpsertUnanswered(c) \/ Issue(c)
             \/ Finish(c) \/ \E session \in sessions : Profile(c, session)
      PROVE  StateInv'
  BY <1>5 DEF FetchUserInfo, UpsertUser, UpsertUnanswered, WriteRow, Issue, Finish, Profile, Local
<1>6. CASE Restart
  BY <1>6 DEF Restart
<1>7. CASE Tick \/ \E s \in Subjects, account \in Accounts : EditAccount(s, account)
  BY <1>7 DEF Tick, EditAccount
<1>8. CASE UNCHANGED vars
  BY <1>8 DEF vars
<1>. QED
  BY <1>1, <1>2, <1>3, <1>4, <1>5, <1>6, <1>7, <1>8 DEF Next, Quiet
-----------------------------------------------------------------------------

\* What leaves the accounts, rows, sessions and what callbacks know alone, and
\* lets no callback save or issue, disturbs none of the invariants about them.
LEMMA RowsKept ==
    ASSUME LoginInv,
           UNCHANGED <<provider, users, sessions, crossed, held>>,
           \A c \in Callbacks :
              phase'[c] \in {"saving", "issuing"} =>
                 phase'[c] = phase[c] /\ info'[c] = info[c] /\ sub'[c] = sub[c]
                    /\ overtaken'[c] = overtaken[c]
    PROVE  NewestInv' /\ RowInv' /\ HeldInv'
<1>1. NewestInv'
  BY DEF LoginInv, NewestInv
<1>2. RowInv'
  BY DEF LoginInv, RowInv
<1>3. HeldInv'
  BY DEF LoginInv, HeldInv
<1>. QED BY <1>1, <1>2, <1>3

\* The steps of which that is true.
LEMMA StepsThatKeepRows ==
    ASSUME LoginInv, [Next]_vars,
           ~\E c \in Callbacks :
               FetchUserInfo(c) \/ UpsertUser(c) \/ UpsertUnanswered(c) \/ Issue(c),
           ~\E s \in Subjects, account \in Accounts : EditAccount(s, account)
    PROVE  NewestInv' /\ RowInv' /\ HeldInv'
<1>. USE DEF LoginInv, TypeOK, memory, history, request, Goto, Answer
<1>1. CASE \/ \E st \in States : Login(st)
           \/ Tick
           \/ UNCHANGED vars
  BY <1>1, RowsKept DEF Login, Tick, vars
<1>2. ASSUME NEW c \in Callbacks, NEW st \in States, NEW s \in Subjects, StartCallback(c, st, s)
      PROVE  NewestInv' /\ RowInv' /\ HeldInv'
  BY <1>2, RowsKept DEF StartCallback
<1>3. ASSUME NEW c \in Callbacks, NEW st \in States, RefuseState(c, st)
      PROVE  NewestInv' /\ RowInv' /\ HeldInv'
  BY <1>3, RowsKept DEF RefuseState
<1>4. ASSUME NEW c \in Callbacks, Quiet(c)
      PROVE  NewestInv' /\ RowInv' /\ HeldInv'
  BY <1>4, QuietIsLocal, RowsKept DEF Local
<1>5. ASSUME NEW c \in Callbacks, NEW session \in sessions, Profile(c, session)
      PROVE  NewestInv' /\ RowInv' /\ HeldInv'
  BY <1>5, RowsKept DEF Profile, Local
<1>6. ASSUME NEW c \in Callbacks, Finish(c)
      PROVE  NewestInv' /\ RowInv' /\ HeldInv'
  BY <1>6, RowsKept DEF Finish
<1>7. CASE Restart
  BY <1>7, RowsKept DEF Restart
<1>. QED
  BY <1>1, <1>2, <1>3, <1>4, <1>5, <1>6, <1>7 DEF Next, Quiet

LEMMA StepNewest == LoginInv /\ [Next]_vars => NewestInv'
<1>. SUFFICES ASSUME LoginInv, [Next]_vars PROVE NewestInv'
  OBVIOUS
<1>. USE DEF LoginInv, TypeOK, NewestInv, memory, history, request, Goto, Answer, Infos, Row, Sessions
<1>1. ASSUME NEW c \in Callbacks, FetchUserInfo(c) PROVE NewestInv'
  BY <1>1 DEF FetchUserInfo, PhaseInv
<1>2. ASSUME NEW c \in Callbacks, UpsertUser(c) \/ UpsertUnanswered(c) PROVE NewestInv'
  BY <1>2 DEF UpsertUser, UpsertUnanswered, WriteRow, PhaseInv
<1>3. ASSUME NEW c \in Callbacks, Issue(c) PROVE NewestInv'
  BY <1>3 DEF Issue, PhaseInv
<1>4. ASSUME NEW s \in Subjects, NEW account \in Accounts, EditAccount(s, account) PROVE NewestInv'
  <2>1. \A t \in Subjects : provider[t].edits <= provider'[t].edits /\ provider'[t].edits \in Nat
    BY <1>4 DEF EditAccount
  <2>2. \A t \in Subjects : users[t] # NoRow => users[t].info.edits \in Nat
    OBVIOUS
  <2>3. \A session \in sessions : session.info.edits \in Nat
    OBVIOUS
  <2>4. \A c \in Callbacks : phase[c] \in {"saving", "issuing"} => info[c].edits \in Nat
    BY DEF PhaseInv
  <2>. QED BY <1>4, <2>1, <2>2, <2>3, <2>4 DEF EditAccount
<1>. QED
  BY <1>1, <1>2, <1>3, <1>4, StepsThatKeepRows

LEMMA StepRow == LoginInv /\ [Next]_vars => RowInv'
<1>. SUFFICES ASSUME LoginInv, [Next]_vars PROVE RowInv'
  OBVIOUS
<1>. USE DEF LoginInv, TypeOK, RowInv, memory, history, request, Goto, Answer
<1>1. ASSUME NEW c \in Callbacks, FetchUserInfo(c) PROVE RowInv'
  BY <1>1 DEF FetchUserInfo, PhaseInv, NewestInv
<1>2. ASSUME NEW c \in Callbacks, UpsertUser(c) \/ UpsertUnanswered(c) PROVE RowInv'
  <2>1. [info |-> info[c], role |-> role[c]] # NoRow /\ sub[c] \in Subjects
    BY <1>2, NoRowAssumption DEF UpsertUser, UpsertUnanswered, WriteRow, PhaseInv, Row
  <2>2. users' = [users EXCEPT ![sub[c]] = [info |-> info[c], role |-> role[c]]]
    BY <1>2 DEF UpsertUser, UpsertUnanswered, WriteRow
  <2>3. /\ crossed' = IF overtaken[c] THEN crossed \union {sub[c]} ELSE crossed \ {sub[c]}
        /\ \A d \in Callbacks : overtaken'[d] = (overtaken[d] \/ (d # c /\ sub[d] = sub[c]))
        /\ UNCHANGED <<sessions, sub, info>>
        /\ phase[c] = "saving" /\ phase'[c] \in {"issuing", "done"}
        /\ \A d \in Callbacks \ {c} : phase'[d] = phase[d]
    BY <1>2 DEF UpsertUser, UpsertUnanswered, WriteRow
  <2>4. ASSUME NEW session \in sessions
        PROVE  /\ users'[session.sub] # NoRow
               /\ session.sub \in crossed' \/ session.info.edits <= users'[session.sub].info.edits
    <3>1. session.sub \in Subjects
      BY DEF Sessions
    <3>. QED BY <2>1, <2>2, <2>3, <3>1
  <2>5. ASSUME NEW d \in Callbacks, phase'[d] = "issuing"
        PROVE  /\ users'[sub[d]] # NoRow
               /\ sub[d] \in crossed' \/ info[d].edits <= users'[sub[d]].info.edits
    <3>1. CASE d = c
      <4>1. users'[sub[d]] = [info |-> info[d], role |-> role[d]]
        BY <2>1, <2>2, <3>1
      <4>2. info[d] \in Infos
        BY <2>3, <3>1 DEF PhaseInv
      <4>3. info[d].edits <= info[d].edits
        BY <4>2 DEF Infos
      <4>. QED BY <2>1, <3>1, <4>1, <4>3
    <3>2. CASE d # c
      <4>1. phase[d] = "issuing" /\ sub[d] \in Subjects
        BY <2>3, <2>5, <3>2 DEF PhaseInv
      <4>. QED BY <2>1, <2>2, <2>3, <4>1
    <3>. QED BY <3>1, <3>2
  <2>6. ASSUME NEW d \in Callbacks, phase'[d] = "saving", ~overtaken'[d]
        PROVE  /\ d # c /\ phase[d] = "saving" /\ ~overtaken[d] /\ sub[d] # sub[c]
    BY <2>3, <2>6
  <2>. QED BY <2>3, <2>4, <2>5, <2>6
<1>3. ASSUME NEW c \in Callbacks, Issue(c) PROVE RowInv'
  BY <1>3 DEF Issue, PhaseInv
<1>4. ASSUME NEW s \in Subjects, NEW account \in Accounts, EditAccount(s, account) PROVE RowInv'
  BY <1>4 DEF EditAccount
<1>. QED
  BY <1>1, <1>2, <1>3, <1>4, StepsThatKeepRows

LEMMA StepHeld == LoginInv /\ [Next]_vars => HeldInv'
<1>. SUFFICES ASSUME LoginInv, [Next]_vars PROVE HeldInv'
  OBVIOUS
<1>. USE AccountsAssumption
     DEF LoginInv, TypeOK, HeldInv, memory, history, request, Goto, Answer
<1>1. ASSUME NEW c \in Callbacks, FetchUserInfo(c) PROVE HeldInv'
  BY <1>1 DEF FetchUserInfo, PhaseInv
<1>2. ASSUME NEW c \in Callbacks, UpsertUser(c) \/ UpsertUnanswered(c) PROVE HeldInv'
  BY <1>2 DEF UpsertUser, UpsertUnanswered, WriteRow, PhaseInv
<1>3. ASSUME NEW c \in Callbacks, Issue(c) PROVE HeldInv'
  BY <1>3 DEF Issue
<1>4. ASSUME NEW s \in Subjects, NEW account \in Accounts, EditAccount(s, account) PROVE HeldInv'
  <2>1. \A e \in Emails : held[e] \subseteq held'[e]
    BY <1>4 DEF EditAccount
  <2>2. \A t \in Subjects : users[t] # NoRow => users[t].info.account.email \in Emails
    BY DEF Row, Infos
  <2>3. \A c \in Callbacks : phase[c] = "saving" => info[c].account.email \in Emails
    BY DEF PhaseInv, Infos
  <2>4. \A t \in Subjects : provider[t].account.email \in Emails
    BY DEF Infos
  <2>5. \A t \in Subjects : t \in held'[provider'[t].account.email]
    BY <1>4, <2>1, <2>4 DEF EditAccount
  <2>. QED BY <1>4, <2>1, <2>2, <2>3, <2>5 DEF EditAccount
<1>. QED
  BY <1>1, <1>2, <1>3, <1>4, StepsThatKeepRows

-----------------------------------------------------------------------------

(***************************************************************************)
(* The invariant holds in every state of every behavior.                   *)
(***************************************************************************)
THEOREM Inductive == Spec => []LoginInv
<1>1. LoginInv /\ [Next]_vars => LoginInv'
  BY StepType, StepPhase, StepState, StepNewest, StepRow, StepHeld DEF LoginInv
<1>. QED
  BY <1>1, InitHolds, PTL DEF Spec

(***************************************************************************)
(* Whatever the provider says of its users, every row and every session    *)
(* has a role: nobody gets in without one.                                 *)
(***************************************************************************)
THEOREM TypeCorrect == Spec => []TypeOK
BY Inductive, PTL DEF LoginInv

(***************************************************************************)
(* A state token lets at most one of any number of callbacks through.      *)
(***************************************************************************)
THEOREM StateOpensOnce == Spec => []StateSpentOnce
<1>1. LoginInv => StateSpentOnce
  BY DEF LoginInv, StateInv, StateSpentOnce
<1>. QED BY <1>1, Inductive, PTL

(***************************************************************************)
(* A callback is let through only in time and by the process that sent the *)
(* user to the provider.                                                   *)
(***************************************************************************)
THEOREM StateOpensInTime == Spec => SpentInTime
<1>. DEFINE InTime ==
        \A st \in States : spent'[st] # spent[st] =>
            st \in live /\ issuedAt[st] \in Nat /\ now <= issuedAt[st] + StateTTL
<1>1. ASSUME LoginInv, [Next]_vars PROVE [InTime]_vars
  <2>1. ASSUME NEW c \in Callbacks, NEW st \in States, NEW s \in Subjects, StartCallback(c, st, s)
        PROVE  InTime
    <3>1. expiry[st] # NoExpiry /\ ~Expired(st)
      BY <2>1 DEF StartCallback, Consume, Cleaned
    <3>2. expiry[st] \in Nat /\ st \in live /\ issuedAt[st] \in Nat
          /\ expiry[st] = issuedAt[st] + StateTTL
      BY <1>1, <3>1, TimeAssumption DEF LoginInv, StateInv
    <3>3. now <= issuedAt[st] + StateTTL
      BY <1>1, <3>1, <3>2, TimeAssumption DEF Expired, LoginInv, TypeOK
    <3>4. \A other \in States \ {st} : spent'[other] = spent[other]
      BY <1>1, <2>1 DEF StartCallback, LoginInv, TypeOK
    <3>. QED BY <3>2, <3>3, <3>4
  <2>2. CASE UNCHANGED spent
    BY <2>2
  <2>3. ASSUME NEW c \in Callbacks, Quiet(c) PROVE UNCHANGED spent
    BY <1>1, <2>3, QuietIsLocal DEF Local, history, LoginInv
  <2>. QED
    BY <1>1, <2>1, <2>2, <2>3
    DEF Next, Quiet, Login, RefuseState, FetchUserInfo, UpsertUser, UpsertUnanswered, WriteRow, Issue,
        Profile, Local, Finish, Restart, EditAccount, Tick, history, vars
<1>. HIDE DEF InTime
<1>2. Spec => [][InTime]_vars
  BY <1>1, Inductive, PTL DEF Spec
<1>. QED
  BY <1>2 DEF SpentInTime, InTime

(***************************************************************************)
(* Whoever holds a session has a row, and one as new as his session but    *)
(* for callbacks that overtake each other.                                 *)
(***************************************************************************)
THEOREM EverySessionHasUser == Spec => []SessionsHaveUsers
<1>1. LoginInv => SessionsHaveUsers
  BY DEF LoginInv, RowInv, PhaseInv, SessionsHaveUsers
<1>. QED BY <1>1, Inductive, PTL

(***************************************************************************)
(* The unique index on emails refuses nobody whose email was always his    *)
(* alone.                                                                  *)
(***************************************************************************)
THEOREM OwnEmailIsFree == Spec => []EmailTakenOnlyIfShared
<1>1. LoginInv => EmailTakenOnlyIfShared
  <2>. SUFFICES ASSUME LoginInv, NEW c \in Callbacks, phase[c] = "saving", EmailTaken(c)
                PROVE  \E s \in held[info[c].account.email] : s # sub[c]
    BY DEF EmailTakenOnlyIfShared
  <2>1. PICK s \in Subjects \ {sub[c]} :
            users[s] # NoRow /\ users[s].info.account.email = info[c].account.email
    BY DEF EmailTaken
  <2>2. s \in held[info[c].account.email]
    BY <2>1 DEF LoginInv, HeldInv
  <2>. QED BY <2>1, <2>2
<1>. QED BY <1>1, Inductive, PTL
=============================================================================
