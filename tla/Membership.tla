----------------------------- MODULE Membership -----------------------------
(***************************************************************************)
(* Organizations and the roles of their members.  The service reads the    *)
(* role of the acting user, then that of the target, each with a query of  *)
(* its own; the repository then changes the membership in a transaction    *)
(* that holds the row of the organization.  Requests overlap at all of     *)
(* these points.  Requests that are refused without a change of state      *)
(* (not a member, forbidden, unknown user) just end.                       *)
(***************************************************************************)
EXTENDS Naturals, FiniteSets

CONSTANTS
    Organizations,
    Users,
    Roles,          \* "owner" and "admin" among them
    Slugs,
    Changes,        \* requests that change memberships
    Nobody          \* no role, no slug, no lock holder

ASSUME MemberAssumption ==
    /\ IsFiniteSet(Users)
    /\ {"owner", "admin"} \subseteq Roles
    /\ Nobody \notin Roles \cup Slugs \cup Changes

VARIABLES
    slug,     \* organizations.slug; Nobody: no such row
    role,     \* organization_members.role, by organization and user
    holder,   \* the transaction that has locked the organization's row
    change    \* how far each request is

memberVars == <<slug, role, holder, change>>

Idle  == [at |-> "idle"]
Request(at, ops) ==
    [at: at, op: ops, org: Organizations, target: Users, to: Roles \cup {Nobody},
     actorRole: Roles]
Steps == Request({"target", "begin"}, {"role", "remove"}) \cup Request({"insert"}, {"add"})
Locked  == [at: {"write"}, op: {"role", "remove"},
          org: Organizations, target: Users, to: Roles \cup {Nobody},
          actorRole: Roles, current: Roles \cup {Nobody}, lastOwner: BOOLEAN]

MemberTypeOK ==
    /\ slug \in [Organizations -> Slugs \cup {Nobody}]
    /\ role \in [Organizations \X Users -> Roles \cup {Nobody}]
    /\ holder \in [Organizations -> Changes \cup {Nobody}]
    /\ change \in [Changes -> {Idle} \cup Steps \cup Locked]

Owners(o) == {u \in Users : role[<<o, u>>] = "owner"}
SlugFree(s) == \A o \in Organizations : slug[o] # s

canManageMembers(r) == r \in {"owner", "admin"}
canAssignRole(actor, r) ==
    r \in Roles /\ canManageMembers(actor) /\ (r = "owner" => actor = "owner")

MemberInit ==
    /\ slug = [o \in Organizations |-> Nobody]
    /\ role = [m \in Organizations \X Users |-> Nobody]
    /\ holder = [o \in Organizations |-> Nobody]
    /\ change = [c \in Changes |-> Idle]

-----------------------------------------------------------------------------
(* CreateWithOwner: the organization and its first member, in one          *)
(* transaction.                                                            *)
CreateWithOwner(o, u, s) ==
    /\ slug[o] = Nobody /\ SlugFree(s)
    /\ slug' = [slug EXCEPT ![o] = s]
    /\ role' = [role EXCEPT ![<<o, u>>] = "owner"]
    /\ UNCHANGED <<holder, change>>

(* Update: the role is read first, the row changed later; the two need no  *)
(* step between them as nothing but the slug's uniqueness is at stake.     *)
UpdateOrganization(o, u, s) ==
    /\ slug[o] # Nobody /\ canManageMembers(role[<<o, u>>])
    /\ holder[o] = Nobody /\ SlugFree(s)
    /\ slug' = [slug EXCEPT ![o] = s]
    /\ UNCHANGED <<role, holder, change>>

(* AddMember, ChangeRole, RemoveMember in the service: the actor's role    *)
(* decides whether the request goes on.                                    *)
Ask(c, op, o, u, t, r) ==
    /\ change[c] = Idle
    /\ \/ op \in {"add", "role"} /\ canAssignRole(role[<<o, u>>], r)
       \/ op = "remove" /\ r = Nobody /\ canManageMembers(role[<<o, u>>])
    /\ change' = [change EXCEPT ![c] =
          [at |-> IF op = "add" THEN "insert" ELSE "target", op |-> op,
           org |-> o, target |-> t, to |-> r, actorRole |-> role[<<o, u>>]]]
    /\ UNCHANGED <<slug, role, holder>>

(* AddMember in the repository: a plain insert.  Its reference to the      *)
(* organization waits for whoever has locked that row.                     *)
Insert(c) ==
    LET m == <<change[c].org, change[c].target>>
    IN  /\ change[c].at = "insert"
        /\ holder[change[c].org] = Nobody
        /\ role' = IF role[m] = Nobody THEN [role EXCEPT ![m] = change[c].to] ELSE role
        /\ change' = [change EXCEPT ![c] = Idle]
        /\ UNCHANGED <<slug, holder>>

(* The target must be a member, and an admin's target no owner.            *)
LookAtTarget(c) ==
    LET seen == role[<<change[c].org, change[c].target>>]
    IN  /\ change[c].at = "target"
        /\ change' = [change EXCEPT ![c] =
              IF \/ seen = Nobody
                 \/ seen = "owner" /\ change[c].actorRole # "owner"
              THEN Idle ELSE [@ EXCEPT !.at = "begin"]]
        /\ UNCHANGED <<slug, role, holder>>

(* What the transaction finds once it holds the organization: the target's *)
(* role, and whether the organization has no second owner.                 *)
Begun(c) ==
    [at |-> "write", op |-> change[c].op, org |-> change[c].org,
     target |-> change[c].target, to |-> change[c].to,
     actorRole |-> change[c].actorRole,
     current |-> role[<<change[c].org, change[c].target>>],
     lastOwner |-> Cardinality(Owners(change[c].org)) <= 1]

(* Faulty: the organization's row is not locked.                           *)
BeginUnlocked(c) ==
    /\ change[c].at = "begin"
    /\ change' = [change EXCEPT ![c] = Begun(c)]
    /\ UNCHANGED <<slug, role, holder>>

(* lockOrganization, then the target's role and the owners are read.       *)
Begin(c) ==
    /\ change[c].at = "begin"
    /\ holder[change[c].org] = Nobody
    /\ holder' = [holder EXCEPT ![change[c].org] = c]
    /\ change' = [change EXCEPT ![c] = Begun(c)]
    /\ UNCHANGED <<slug, role>>

(* ErrMemberNotFound and ErrLastOwner roll back.                           *)
Refused(c) ==
    \/ change[c].current = Nobody
    \/ change[c].current = "owner" /\ change[c].to # "owner" /\ change[c].lastOwner

Release(c) ==
    /\ holder' = [o \in Organizations |-> IF holder[o] = c THEN Nobody ELSE holder[o]]
    /\ change' = [change EXCEPT ![c] = Idle]
    /\ UNCHANGED slug

(* ChangeRole and RemoveMember commit.                                     *)
Write(c) ==
    LET m == <<change[c].org, change[c].target>>
    IN  /\ change[c].at = "write"
        /\ role' = IF Refused(c) THEN role ELSE [role EXCEPT ![m] = change[c].to]
        /\ Release(c)

(* The request is cut off; an open transaction rolls back.                 *)
Abandon(c) ==
    /\ change[c] # Idle
    /\ Release(c)
    /\ UNCHANGED role

MemberNext ==
    \/ \E o \in Organizations, u \in Users, s \in Slugs :
          CreateWithOwner(o, u, s) \/ UpdateOrganization(o, u, s)
    \/ \E c \in Changes :
          \/ \E op \in {"add", "role", "remove"}, o \in Organizations,
                u, t \in Users, r \in Roles \cup {Nobody} : Ask(c, op, o, u, t, r)
          \/ Insert(c) \/ LookAtTarget(c) \/ Begin(c) \/ Write(c) \/ Abandon(c)

MemberSpec == MemberInit /\ [][MemberNext]_memberVars
-----------------------------------------------------------------------------
(* "An organization must always retain at least one owner"                 *)
(* (docs/organizations.md:59), also when several owners demote or remove   *)
(* each other, or themselves, at the same time.                            *)
KeepsOwner ==
    \A o \in Organizations : slug[o] # Nobody => Owners(o) # {}

(* "Admins ... cannot modify an owner" (docs/organizations.md:55): the     *)
(* role of an owner is only ever taken by a request of an owner.           *)
AdminsSpareOwners ==
    [][\A o \in Organizations, u \in Users :
          role[<<o, u>>] = "owner" /\ role'[<<o, u>>] # "owner" =>
             \E c \in Changes : /\ change[c].at = "write"
                                /\ change[c].org = o /\ change[c].target = u
                                /\ change[c].actorRole = "owner"]_memberVars
=============================================================================
