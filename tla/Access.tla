------------------------------- MODULE Access -------------------------------
(***************************************************************************)
(* Who may use the system: users, their memberships of tenants, the        *)
(* operators of the platform, the tokens (JWT) people hold and the magic   *)
(* links they ask for.  A request reads its context, then decides on what  *)
(* is committed at that time, then writes and commits.                     *)
(***************************************************************************)
EXTENDS Integers, FiniteSets

CONSTANTS Person,           \* an email each
          Tenant, Link, Request,
          First,            \* the operators a script has left
          Overlap,          \* whether two requests may decide before either commits
          Flag,             \* values of --superuser given to create_user.py
          None,
          MaxActs           \* bound: requests, logins, links, expiries and scripts

ASSUME SomebodyIsFirst  == First \subseteq Person /\ First # {}
ASSUME FinitelyMany     == IsFiniteSet(Person) /\ IsFiniteSet(Tenant)
ASSUME OverlapIsBoolean == Overlap \in BOOLEAN

VARIABLES user,             \* rows of users
          operator,         \* is_superuser
          tenant,           \* rows of tenants
          active,           \* is_active of a tenant
          member,           \* tenant_users: the role of a person in a tenant
          token,            \* the tokens that have not expired
          link,             \* magic_link_tokens
          request,
          acts              \* bound

vars == <<user, operator, tenant, active, member, token, link, request, acts>>
rows == <<user, operator, tenant, active, member>>

Role  == {"client_admin", "staff"}
Token == [who : Person, tenant : Tenant, role : Role]

ASSUME NoneIsNoRole == None \notin Role

NoLink  == [who |-> None, state |-> "none", spent |-> 0]
LinkRow == [who : Person \cup {None}, state : {"none", "fresh", "used", "expired"}, spent : Nat]

Op == {"delete_user", "change_role", "create_user",
       "add_member", "set_role", "remove_member", "deactivate", "reactivate"}

\* A request with its context: its actor, the tenant and the role of the token, and
\* is_platform_operator as the database said.
Idle == [pc |-> "idle"]
Work == [pc : {"asked", "sure", "wipe"}, op : Op, who : Person, tenant : Tenant, role : Role,
        operator : BOOLEAN, target : Person, to : Role]
            \cup [pc : {"redeem"}, link : Link, token : Token]

Homes(p) == {t \in Tenant : member[t][p] # None}

\* What _issue_token makes of a user: any membership may be the primary.
Sessions(p) == {[who |-> p, tenant |-> t, role |-> member[t][p]] : t \in Homes(p)}

Init == /\ user = First /\ operator = First
        /\ tenant \in SUBSET Tenant /\ active = tenant
        /\ member \in [Tenant -> [Person -> {None, "client_admin"}]]
        /\ \A p \in Person : Homes(p) \subseteq tenant /\ (p \in First <=> Homes(p) # {})
        /\ token = {}
        /\ link = [l \in Link |-> NoLink]
        /\ request = [r \in Request |-> Idle]
        /\ acts = 0

Acts == acts < MaxActs /\ acts' = acts + 1

\* Without Overlap a request that has decided commits before another decides.
Alone(r) == Overlap \/ \A q \in Request \ {r} : request[q].pc \in {"idle", "asked"}

Operators == operator \cap user

-----------------------------------------------------------------------------
(* Signing in. *)

\* AuthService.login; who was deleted has no membership.
Login(p) ==
    /\ Acts
    /\ \E k \in Sessions(p) : token' = token \cup {k}
    /\ UNCHANGED <<rows, link, request>>

\* AuthService.register: a user, a tenant of its own and a token for it.
Register(p, t) ==
    /\ Acts
    /\ p \notin user /\ t \notin tenant
    /\ user' = user \cup {p} /\ tenant' = tenant \cup {t} /\ active' = active \cup {t}
    /\ member' = [member EXCEPT ![t][p] = "client_admin"]
    /\ token' = token \cup {[who |-> p, tenant |-> t, role |-> "client_admin"]}
    /\ UNCHANGED <<operator, link, request>>

TokenExpires(k) == /\ Acts
                   /\ token' = token \ {k}
                   /\ UNCHANGED <<rows, link, request>>

\* MagicLinkService.request
AskLink(p, l) ==
    /\ Acts
    /\ p \in user /\ link[l] = NoLink
    /\ link' = [link EXCEPT ![l] = [NoLink EXCEPT !.who = p, !.state = "fresh"]]
    /\ UNCHANGED <<rows, token, request>>

LinkExpires(l) ==
    /\ Acts
    /\ link[l].state = "fresh"
    /\ link' = [link EXCEPT ![l].state = "expired"]
    /\ UNCHANGED <<rows, token, request>>

\* Mutant of Usable: nobody looks at used_at.
UsableAgain(l) == link[l].state \in {"fresh", "used"}

Usable(l) == link[l].state = "fresh"

\* consume reads the link and the memberships, and writes used_at when it commits.
OpenLink(r, l) ==
    /\ Acts
    /\ request[r] = Idle /\ Alone(r)
    /\ Usable(l)
    /\ \E k \in Sessions(link[l].who) :
          request' = [request EXCEPT ![r] = [pc |-> "redeem", link |-> l, token |-> k]]
    /\ UNCHANGED <<rows, token, link>>

\* If the user was deleted meanwhile there is no row to write, and no session.
Redeem(r) ==
    /\ request[r].pc = "redeem"
    /\ request' = [request EXCEPT ![r] = Idle]
    /\ LET l == request[r].link
       IN IF link[l].state = "none" THEN UNCHANGED <<link, token>>
          ELSE /\ link' = [link EXCEPT ![l].state = "used", ![l].spent = @ + 1]
               /\ token' = token \cup {request[r].token}
    /\ UNCHANGED <<rows, acts>>

-----------------------------------------------------------------------------
(* Requests of the administration. *)

\* Operations of the users router; the others are of the tenant router.
OfManager  == {"delete_user", "change_role", "create_user"}

\* get_current_context, and the role it gives: what is true of a user and a tenant is
\* read from the database, the role from the token.
InContext(k) == k.who \in user /\ k.tenant \in active

\* require_platform_operator and require_user_manager
RunsPlatform(k) == k.who \in operator
ManagesUsers(k) == RunsPlatform(k) \/ k.role = "client_admin"

Enter(r, k, op, target, to) ==
    /\ Acts
    /\ request[r] = Idle
    /\ k \in token /\ InContext(k)
    /\ IF op \in OfManager THEN ManagesUsers(k) ELSE RunsPlatform(k)
    /\ request' = [request EXCEPT ![r] =
                      [pc |-> "asked", op |-> op, who |-> k.who, tenant |-> k.tenant,
                       role |-> k.role, operator |-> RunsPlatform(k),
                       target |-> target, to |-> to]]
    /\ UNCHANGED <<rows, token, link>>

\* Mutant of LastOperator: the actor is taken to be the one that remains.
LastOperatorNever(p) == FALSE

LastOperator(p) == p \in operator /\ Cardinality(Operators) <= 1

\* Mutant of OnlyHome: the user goes with any of its memberships.
OnlyHomeAlways(p) == TRUE

OnlyHome(p) == Cardinality(Homes(p)) <= 1

Theirs(q) == q.target \in user /\ member[q.tenant][q.target] # None
Spares(q) == q.target \in operator => q.operator

\* The guards of each operation.
MayDelete(q)     == Theirs(q) /\ Spares(q) /\ q.target # q.who /\ ~LastOperator(q.target)
MayChangeRole(q) == Theirs(q) /\ Spares(q) /\ q.target # q.who
MayCreate(q)     == q.target \notin user
MayAdd(q)        == q.target \in user /\ ~Theirs(q)

Allowed(q) == CASE q.op = "delete_user" -> MayDelete(q)
                [] q.op = "change_role" -> MayChangeRole(q)
                [] q.op = "create_user" -> MayCreate(q)
                [] q.op = "add_member"  -> MayAdd(q)
                [] q.op \in {"remove_member", "set_role"} -> Theirs(q)
                [] OTHER                -> TRUE

\* What the request means to write: to delete the user itself is "wipe".
Decide(r) ==
    /\ request[r].pc = "asked"
    /\ Alone(r)
    /\ LET q == request[r]
       IN request' = [request EXCEPT ![r] =
              IF ~Allowed(q) THEN Idle
              ELSE [q EXCEPT !.pc = IF q.op = "delete_user" /\ OnlyHome(q.target)
                                    THEN "wipe" ELSE "sure"]]
    /\ UNCHANGED <<rows, token, link, acts>>

\* The user goes with its memberships and its links (ON DELETE CASCADE).
Wipe(r) ==
    /\ request[r].pc = "wipe"
    /\ LET p == request[r].target
       IN /\ user' = user \ {p}
          /\ member' = [t \in Tenant |-> [member[t] EXCEPT ![p] = None]]
          /\ link' = [l \in Link |-> IF link[l].who = p THEN NoLink ELSE link[l]]
          /\ operator' = operator \ {p}
    /\ request' = [request EXCEPT ![r] = Idle]
    /\ UNCHANGED <<tenant, active, token, acts>>

\* The row as each operation leaves it; what a constraint or a missing row refuses
\* is rolled back.
Becomes(q, role) ==
    CASE q.op \in {"delete_user", "remove_member"} -> None
      [] q.op \in {"change_role", "set_role"} -> IF role = None THEN None ELSE q.to
      [] OTHER                -> IF role = None THEN q.to ELSE role

\* PATCH /tenants/me, and the operations on a member.
Switched(q) == IF q.op = "deactivate" THEN active \ {q.tenant} ELSE active \cup {q.tenant}
Refused(q)  == (q.op = "create_user") <=> (q.target \in user)

Write(r) ==
    /\ request[r].pc = "sure"
    /\ LET q == request[r]
       IN IF q.op \in {"deactivate", "reactivate"}
          THEN active' = Switched(q) /\ UNCHANGED <<user, member>>
          ELSE /\ user' = IF q.op = "create_user" THEN user \cup {q.target} ELSE user
               /\ member' = IF Refused(q) THEN member
                            ELSE [member EXCEPT ![q.tenant][q.target] = Becomes(q, @)]
               /\ UNCHANGED active
    /\ request' = [request EXCEPT ![r] = Idle]
    /\ UNCHANGED <<operator, tenant, token, link, acts>>

-----------------------------------------------------------------------------
(* The scripts. *)

\* create_user.py: the flag and the role are set whether the user was there or not.
Script(p, t, to, flag) ==
    /\ Acts
    /\ Overlap \/ \A r \in Request : request[r].pc \in {"idle", "asked"}
    /\ user' = user \cup {p}
    /\ operator' = IF flag THEN operator \cup {p} ELSE operator \ {p}
    /\ member' = [member EXCEPT ![t][p] = to]
    /\ UNCHANGED <<tenant, active, token, link, request>>

\* marketing-cli create-superuser: an operator without a tenant.
CreateSuperuser(p) ==
    /\ Acts
    /\ p \notin user
    /\ user' = user \cup {p} /\ operator' = operator \cup {p}
    /\ UNCHANGED <<tenant, active, member, token, link, request>>

-----------------------------------------------------------------------------
Serve(r) == Decide(r) \/ Wipe(r) \/ Write(r) \/ Redeem(r)

Next == \/ \E p \in Person : Login(p) \/ CreateSuperuser(p) \/ \E l \in Link : AskLink(p, l)
        \/ \E p \in Person, t \in Tenant : Register(p, t)
        \/ \E k \in token : TokenExpires(k)
        \/ \E l \in Link : LinkExpires(l)
        \/ \E r \in Request :
              \/ Serve(r)
              \/ \E l \in Link : OpenLink(r, l)
              \/ \E k \in token, op \in Op, p \in Person, to \in Role : Enter(r, k, op, p, to)
        \/ \E p \in Person, t \in tenant, to \in Role, flag \in Flag : Script(p, t, to, flag)

Spec == Init /\ [][Next]_vars

-----------------------------------------------------------------------------
TypeOK ==
    /\ user \subseteq Person /\ operator \subseteq Person
    /\ tenant \subseteq Tenant /\ active \subseteq tenant
    /\ member \in [Tenant -> [Person -> Role \cup {None}]]
    /\ token \subseteq Token
    /\ link \in [Link -> LinkRow]
    /\ request \in [Request -> Work \cup {Idle}]
    /\ acts \in Nat

\* The system is never left without an operator, whoever deletes whom on the
\* strength of an older context (UserService.remove_from_tenant).
OperatorRemains == Operators # {}

\* What a tenant's people do takes nobody out of another tenant
\* (remove_from_tenant deletes the user only with its last membership).
RemovalIsLocal ==
    [][\A t \in Tenant, p \in Person :
          member[t][p] # None /\ member'[t][p] = None =>
              \E r \in Request : request[r].pc \in {"sure", "wipe"} /\ request'[r] = Idle
                                 /\ request[r].tenant = t]_vars

\* A magic link opens one session (MagicLinkService, "un solo uso").
LinkOnce == \A l \in Link : link[l].spent <= 1

\* Some operator can sign in to a tenant that is active, so that what was switched
\* off can be switched on ("nunca dejar el sistema sin platform_operator").
OperatorCanSignIn == \E p \in Operators : Homes(p) \cap active # {}
=============================================================================
