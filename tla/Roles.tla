-------------------------------- MODULE Roles --------------------------------
(***************************************************************************)
(* Which role a user gets (internal/config/config.go, internal/roles,      *)
(* determineRole): LLAMERO_ROLE_GROUPS says which groups of the identity   *)
(* provider have which role, roles.yaml which scopes a role has.           *)
(*                                                                         *)
(* A text is what trimming leaves of it; nothing may be left (Blank).      *)
(***************************************************************************)
EXTENDS Naturals, FiniteSets, Sequences, SequencesExt

CONSTANTS
    RoleNames, Groups, Scopes,
    Blank,      \* the empty text
    NoRole      \* no role, or no group to give it

ASSUME BlankAssumption == Blank \notin RoleNames \union Groups \union Scopes
ASSUME NoRoleAssumption == NoRole \notin RoleNames

\* An item of LLAMERO_ROLE_GROUPS, "role=group,group"; it may be blank, or
\* lack the "=".
Item(kind, role, groups) == [kind |-> kind, role |-> role, groups |-> groups]
Items ==
    [kind : {"mapping", "blank", "no separator"}, role : RoleNames \union {Blank},
     groups : Seq(Groups \union {Blank})]

\* A role of roles.yaml, and the file.
Entry(name, scopes) == [name |-> name, scopes |-> scopes]
Entries == [name : RoleNames \union {Blank}, scopes : Seq(Scopes \union {Blank})]
Document(default, roles) == [default |-> default, roles |-> roles]

-----------------------------------------------------------------------------

\* Drops blanks and repetitions.
Dedupe(texts) ==
    LET out[n \in 0..Len(texts)] ==
            IF n = 0 THEN <<>>
            ELSE LET kept == out[n - 1]
                 IN  IF texts[n] = Blank \/ texts[n] \in ToSet(kept) THEN kept
                     ELSE Append(kept, texts[n])
    IN  out[Len(texts)]

-----------------------------------------------------------------------------
(* parseRoleGroups                                                         *)

ItemRefused(item) ==
    \/ item.kind = "no separator"
    \/ item.kind = "mapping" /\ item.role = Blank

\* The groups of each role named; the last item for a role counts.
ParseRoleGroups(items) ==
    LET mappings == {i \in DOMAIN items : items[i].kind = "mapping"}
        Of(role) == {i \in mappings : items[i].role = role}
    IN  [role \in {items[i].role : i \in mappings} |-> Dedupe(items[Max(Of(role))].groups)]

-----------------------------------------------------------------------------
(* Load                                                                    *)

Defined(doc) == {doc.roles[i].name : i \in DOMAIN doc.roles}

Loadable(doc, groupMap) ==
    /\ doc.roles # <<>>
    /\ doc.default # Blank
    /\ \A i \in DOMAIN doc.roles : doc.roles[i].name # Blank /\ doc.roles[i].scopes # <<>>
    /\ doc.default \in Defined(doc)
    /\ DOMAIN groupMap \subseteq Defined(doc)

\* The scopes of each role defined; the last entry of a role counts.
RoleScopes(doc) ==
    LET Of(role) == {i \in DOMAIN doc.roles : doc.roles[i].name = role}
    IN  [role \in Defined(doc) |-> Dedupe(doc.roles[Max(Of(role))].scopes)]

\* The orders in which a loop may range over a map with these keys.
Orders(keys) ==
    {order \in [1 .. Cardinality(keys) -> keys] :
        \A key \in keys : \E i \in DOMAIN order : order[i] = key}

Owners(groupMap, order, group) ==
    {i \in DOMAIN order : group \in ToSet(groupMap[order[i]])}

\* Mutant: a group that no role was given goes to the role reached first.
IndexedByAll(index, groupMap, order) ==
    \A group \in Groups :
        LET owners == Owners(groupMap, order, group) IN
        \/ owners = {} /\ index[group] = IF order = <<>> THEN NoRole ELSE order[1]
        \/ \E i \in owners : (\A j \in owners : j <= i) /\ index[group] = order[i]

\* The role that was reached last has the group.
IndexedBy(index, groupMap, order) ==
    \A group \in Groups :
        LET owners == Owners(groupMap, order, group) IN
        \/ owners = {} /\ index[group] = NoRole
        \/ \E i \in owners : (\A j \in owners : j <= i) /\ index[group] = order[i]

GroupIndexes(groupMap) ==
    {index \in [Groups -> RoleNames \union {NoRole}] :
        \E order \in Orders(DOMAIN groupMap) : IndexedBy(index, groupMap, order)}

-----------------------------------------------------------------------------
(* determineRole and Resolve                                               *)

Hits(groupIndex, externals) ==
    {i \in DOMAIN externals : externals[i] \in Groups /\ groupIndex[externals[i]] # NoRole}

\* Mutant: the last of the user's groups that has a role decides.
ResolveLast(groupIndex, externals) ==
    LET hits == Hits(groupIndex, externals)
        last == {i \in hits : \A j \in hits : j <= i}
    IN  IF last = {} THEN NoRole ELSE groupIndex[externals[CHOOSE i \in last : TRUE]]

\* The first of the user's groups that has a role decides.
Resolve(groupIndex, externals) ==
    LET hits == Hits(groupIndex, externals)
        first == {i \in hits : \A j \in hits : i <= j}
    IN  IF first = {} THEN NoRole ELSE groupIndex[externals[CHOOSE i \in first : TRUE]]

\* A role without scopes is none.
DetermineRole(groupIndex, roleScopes, groups) ==
    LET role == Resolve(groupIndex, Dedupe(groups))
    IN  IF role # NoRole /\ roleScopes[role] # <<>> THEN role ELSE NoRole
=============================================================================
