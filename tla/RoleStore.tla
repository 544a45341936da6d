------------------------------ MODULE RoleStore ------------------------------
(***************************************************************************)
(* The role store from start to start of the server: the configuration is  *)
(* parsed and loaded, users are given roles, and the server is started     *)
(* again, perhaps with another configuration.                              *)
(***************************************************************************)
EXTENDS Roles

CONSTANTS
    Settings,     \* values of LLAMERO_ROLE_GROUPS: sequences of items
    Documents,    \* contents of roles.yaml
    Memberships   \* the groups a user may have: sequences of texts

ASSUME SettingsAssumption == Settings \subseteq Seq(Items)
ASSUME DocumentsAssumption ==
    Documents \subseteq [default : RoleNames \union {Blank}, roles : Seq(Entries)]
ASSUME MembershipsAssumption == Memberships \subseteq Seq(Groups \union {Blank})

VARIABLES
    items, doc,              \* the configuration
    up,                      \* whether the server runs
    store,                   \* what Load has built
    last, before             \* the role determined last, and the one before that

configuration == <<items, doc>>
storeVars == <<items, doc, up, store, last, before>>

\* A role determined for a user with these groups.
Decision == [told : Memberships, role : RoleNames \union {NoRole}]
NoDecision == [told |-> <<>>, role |-> NoRole]

NoStore == [groupIndex |-> [group \in Groups |-> NoRole], roleScopes |-> <<>>]

StoreInit ==
    /\ items \in Settings
    /\ doc \in Documents
    /\ up = FALSE
    /\ store = NoStore
    /\ last = NoDecision
    /\ before = NoDecision

\* The server does not start with a setting or a file that is refused.
Load ==
    /\ ~up
    /\ \A i \in DOMAIN items : ~ItemRefused(items[i])
    /\ Loadable(doc, ParseRoleGroups(items))
    /\ up' = TRUE
    /\ store' \in [groupIndex : GroupIndexes(ParseRoleGroups(items)), roleScopes : {RoleScopes(doc)}]
    /\ UNCHANGED <<configuration, last, before>>

Stop ==
    /\ up
    /\ up' = FALSE
    /\ UNCHANGED <<configuration, store, last, before>>

\* The configuration is edited; what was determined by it is forgotten.
Configure ==
    /\ ~up
    /\ items' \in Settings
    /\ doc' \in Documents
    /\ last' = NoDecision
    /\ before' = NoDecision
    /\ UNCHANGED <<up, store>>

Decide(groups) ==
    /\ up
    /\ before' = last
    /\ last' = [told |-> groups, role |-> DetermineRole(store.groupIndex, store.roleScopes, groups)]
    /\ UNCHANGED <<configuration, up, store>>

StoreNext == Load \/ Stop \/ Configure \/ \E groups \in Memberships : Decide(groups)

StoreSpec == StoreInit /\ [][StoreNext]_storeVars

-----------------------------------------------------------------------------
(* Properties                                                              *)

\* The item names the group; it counts unless a later item names the role.
Gives(item, role, group) ==
    /\ item.kind = "mapping"
    /\ item.role = role
    /\ group # Blank
    /\ \E i \in DOMAIN item.groups : item.groups[i] = group

HasRole(group, role) ==
    \E i \in DOMAIN items :
        /\ Gives(items[i], role, group)
        /\ \A j \in DOMAIN items : items[j].kind = "mapping" /\ items[j].role = role => j <= i

HasAnyRole(group) == \E role \in RoleNames : HasRole(group, role)

\* roles.yaml gives the role some scope.
Effective(role) ==
    \E i \in DOMAIN doc.roles :
        /\ doc.roles[i].name = role
        /\ \A j \in DOMAIN doc.roles : doc.roles[j].name = role => j <= i
        /\ \E k \in DOMAIN doc.roles[i].scopes : doc.roles[i].scopes[k] # Blank

Unambiguous ==
    LET groupMap == ParseRoleGroups(items)
    IN  \A one, other \in DOMAIN groupMap :
            ToSet(groupMap[one]) \intersect ToSet(groupMap[other]) # {} => one = other

(***************************************************************************)
(* A user gets a role that the setting gives the first of his groups that  *)
(* has any, and is refused only if no group of his has a role or that role *)
(* has no scopes: through repeated items, blanks and repeated groups, and  *)
(* whatever the order in which Load ranged over its map.                   *)
(***************************************************************************)
RoleIsOfFirstGroup ==
    LET deciding ==
            {i \in DOMAIN last.told :
                /\ HasAnyRole(last.told[i])
                /\ \A j \in 1 .. i - 1 : ~HasAnyRole(last.told[j])}
    IN  /\ last.role # NoRole =>
              \E i \in deciding : HasRole(last.told[i], last.role) /\ Effective(last.role)
        /\ last # NoDecision /\ last.role = NoRole =>
              \A i \in deciding : \E role \in RoleNames :
                  HasRole(last.told[i], role) /\ ~Effective(role)

(***************************************************************************)
(* If no group is given two roles, a user keeps his role over restarts of  *)
(* the server with the same configuration.                                 *)
(***************************************************************************)
RoleIsStable ==
    Unambiguous /\ last.told = before.told /\ last.told # <<>> => last.role = before.role
=============================================================================
