------------------------------ MODULE Members ------------------------------
(***************************************************************************)
(* The members of one merchant: invitations and changes of role (store.ts: *)
(* createMerchant, createInvitation, acceptInvitation,                     *)
(* updateMembershipRole; app.ts checks the caller's role before, outside   *)
(* the transaction).  A change locks the row of its target and counts the  *)
(* owners it sees committed.                                               *)
(***************************************************************************)
EXTENDS Naturals, FiniteSets

CONSTANTS
    Users,
    Changes         \* changes of role in progress at the same time

ASSUME MembersAssumption == IsFiniteSet(Users) /\ Users # {}

VARIABLES
    role,           \* merchant_memberships.role, "none" without a row
    invited,        \* the roles a user has a pending invitation for
    change          \* each change: where it is, its target and its role

memberVars == <<role, invited, change>>

InvitedRoles == {"admin", "auditor"}                \* auditor for catalog_manager too
Roles == InvitedRoles \cup {"owner"}
Owners == {u \in Users : role[u] = "owner"}
NoChange == [at |-> "idle", target |-> CHOOSE u \in Users : TRUE, role |-> "owner"]

(* createMerchant                                                           *)
MembersInit ==
    /\ \E founder \in Users :
        role = [u \in Users |-> IF u = founder THEN "owner" ELSE "none"]
    /\ invited = [u \in Users |-> {}]
    /\ change = [c \in Changes |-> NoChange]

CreateInvitation(actor, u, r) ==
    /\ role[actor] \in {"owner", "admin"}
    /\ invited' = [invited EXCEPT ![u] = @ \cup {r}]
    /\ UNCHANGED <<role, change>>

InvitationExpires(u, r) ==
    /\ r \in invited[u]
    /\ invited' = [invited EXCEPT ![u] = @ \ {r}]
    /\ UNCHANGED <<role, change>>

LockedMember(u) == \E c \in Changes : change[c].at = "locked" /\ change[c].target = u

(* ON CONFLICT DO UPDATE: whatever role the user has is replaced.           *)
AcceptInvitation(u, r) ==
    /\ r \in invited[u]
    /\ ~LockedMember(u)
    /\ invited' = [invited EXCEPT ![u] = @ \ {r}]
    /\ role' = [role EXCEPT ![u] = r]
    /\ UNCHANGED change

RequestChange(c, actor, target, r) ==
    /\ change[c].at = "idle"
    /\ role[actor] = "owner"
    /\ change' = [change EXCEPT ![c] = [NoChange EXCEPT !.at = "asked",
                                        !.target = target, !.role = r]]
    /\ UNCHANGED <<role, invited>>

(* A change that would take an owner away counts the owners first.          *)
LastOwner == Cardinality(Owners) <= 1

LockTarget(c) ==
    /\ change[c].at = "asked"
    /\ LET u == change[c].target
           takesOwner == role[u] = "owner" /\ change[c].role # "owner" IN
        /\ ~LockedMember(u)
        /\ change' = [change EXCEPT ![c] =
             IF role[u] = "none" \/ (takesOwner /\ LastOwner) THEN NoChange
             ELSE [change[c] EXCEPT !.at = "locked"]]
    /\ UNCHANGED <<role, invited>>

UpdateMembershipRole(c) ==
    /\ change[c].at = "locked"
    /\ role' = [role EXCEPT ![change[c].target] = change[c].role]
    /\ change' = [change EXCEPT ![c] = NoChange]
    /\ UNCHANGED invited

MembersNext ==
    \/ \E actor, u \in Users, r \in InvitedRoles : CreateInvitation(actor, u, r)
    \/ \E u \in Users, r \in InvitedRoles : InvitationExpires(u, r) \/ AcceptInvitation(u, r)
    \/ \E c \in Changes :
        \/ \E actor, u \in Users, r \in Roles : RequestChange(c, actor, u, r)
        \/ LockTarget(c) \/ UpdateMembershipRole(c)

MembersSpec == MembersInit /\ [][MembersNext]_memberVars

-----------------------------------------------------------------------------
MembersTypeOK ==
    /\ role \in [Users -> Roles \cup {"none"}]
    /\ invited \in [Users -> SUBSET InvitedRoles]
    /\ change \in [Changes -> [at : {"idle", "asked", "locked"}, target : Users,
                               role : Roles]]

(* "A merchant must retain at least one owner." (app.ts:70, the answer of   *)
(* the server to a change of role that would take the last one away.)       *)
ChangeRetainsOwner ==
    [][Owners # {} /\ (\E c \in Changes : UpdateMembershipRole(c)) =>
        Owners' # {}]_memberVars
=============================================================================
