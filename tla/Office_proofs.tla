---------------------------- MODULE Office_proofs ----------------------------
(***************************************************************************)
(* Proofs about the five parts of the back office, for any people,         *)
(* tenants, requests and bounds: who may use it (its types always, and who *)
(* is left when no request decides while another has decided and not       *)
(* committed), and, for requests that overlap and die, the payment QR, the *)
(* links of a service, the catalogue and the inbox; then about the whole.  *)
(* The names are those of MCOffice: Qr, Lnk, Cat and Chat are PaymentQr,   *)
(* ServiceLinks, Catalogue and Attention.                                  *)
(***************************************************************************)
EXTENDS MCOffice, FiniteSetTheorems, SequenceTheorems, WellFoundedInduction, TLAPS

(***************************************************************************)
(* The people.                                                             *)
(***************************************************************************)
Requests == [Request -> Work \cup {Idle}]

\* What is known of a request by its point.
LEMMA WorkIs ==
    ASSUME NEW q \in Work \cup {Idle}
    PROVE  /\ q.pc \in {"asked", "sure", "wipe"} =>
                q \in [pc : {"asked", "sure", "wipe"}, op : Op, who : Person, tenant : Tenant,
                       role : Role, operator : BOOLEAN, target : Person, to : Role]
           /\ q.pc = "redeem" => q \in [pc : {"redeem"}, link : Link, token : Token]
BY DEF Work, Idle

LEMMA IdleIs == Idle \in Work \cup {Idle} /\ Idle.pc = "idle"
BY DEF Idle


-----------------------------------------------------------------------------
(* Types. *)

\* A link that may be opened is somebody's.
LinksOfPeople == \A l \in Link : Usable(l) => link[l].who \in Person

\* A request works in a tenant that is there.
InTenants == \A r \in Request :
    request[r].pc \in {"asked", "sure", "wipe"} => request[r].tenant \in tenant

Typed == TypeOK /\ LinksOfPeople /\ InTenants

LEMMA TypedInit == Init => Typed
BY SomebodyIsFirst
   DEF Init, Idle, Typed, TypeOK, LinksOfPeople, InTenants, Usable, Role, NoLink,
       LinkRow

LEMMA SessionsAreTokens == ASSUME TypeOK, NEW p \in Person PROVE Sessions(p) \subseteq Token
BY DEF TypeOK, Sessions, Homes, Token

LEMMA TypedLogin == ASSUME Typed, NEW p \in Person, Login(p) PROVE Typed'
BY SessionsAreTokens DEF Typed, TypeOK, LinksOfPeople, InTenants, Usable, Login, Acts, rows

LEMMA TypedRegister ==
    ASSUME Typed, NEW p \in Person, NEW t \in Tenant, Register(p, t) PROVE Typed'
<1>1. member' \in [Tenant -> [Person -> Role \cup {None}]]
  BY DEF Typed, TypeOK, Register, Role
<1>2. token' \subseteq Token
  BY DEF Typed, TypeOK, Register, Role, Token
<1> QED
  BY <1>1, <1>2 DEF Typed, TypeOK, LinksOfPeople, InTenants, Usable, Register, Acts

LEMMA TypedTokenExpires == ASSUME Typed, NEW k, TokenExpires(k) PROVE Typed'
BY DEF Typed, TypeOK, LinksOfPeople, InTenants, Usable, TokenExpires, Acts, rows

LEMMA TypedAskLink ==
    ASSUME Typed, NEW p \in Person, NEW l \in Link, AskLink(p, l) PROVE Typed'
<1> DEFINE k == [NoLink EXCEPT !.who = p, !.state = "fresh"]
<1>1. k \in LinkRow /\ k.who = p
  BY DEF NoLink, LinkRow
<1>2. link' = [link EXCEPT ![l] = k]
  BY DEF AskLink
<1> HIDE DEF k
<1> QED
  BY <1>1, <1>2 DEF Typed, TypeOK, LinksOfPeople, InTenants, Usable, AskLink, Acts, rows

LEMMA TypedLinkExpires == ASSUME Typed, NEW l \in Link, LinkExpires(l) PROVE Typed'
<1> DEFINE k == [link[l] EXCEPT !.state = "expired"]
<1>1. k \in LinkRow /\ k.state = "expired"
  BY DEF Typed, TypeOK, LinkRow
<1>2. link' = [link EXCEPT ![l] = k]
  BY DEF LinkExpires
<1> HIDE DEF k
<1> QED
  BY <1>1, <1>2 DEF Typed, TypeOK, LinksOfPeople, InTenants, Usable, LinkExpires, Acts, rows

LEMMA TypedOpenLink ==
    ASSUME Typed, NEW r \in Request, NEW l \in Link, OpenLink(r, l) PROVE Typed'
<1>1. PICK k \in Sessions(link[l].who) :
        request' = [request EXCEPT ![r] = [pc |-> "redeem", link |-> l, token |-> k]]
  BY DEF OpenLink
<1>2. k \in Token
  BY <1>1, SessionsAreTokens DEF OpenLink, Typed, LinksOfPeople
<1>3. [pc |-> "redeem", link |-> l, token |-> k] \in Work
  BY <1>2 DEF Work
<1> QED
  BY <1>1, <1>3 DEF Typed, TypeOK, LinksOfPeople, InTenants, Usable, OpenLink, Acts, rows

LEMMA TypedRedeem == ASSUME Typed, NEW r \in Request, Redeem(r) PROVE Typed'
<1> DEFINE q == request[r]
           k == [link[q.link] EXCEPT !.state = "used", !.spent = @ + 1]
<1>1. q.link \in Link /\ q.token \in Token
  BY WorkIs DEF Redeem, Typed, TypeOK
<1>0. link[q.link] \in LinkRow
  BY <1>1 DEF Typed, TypeOK
<1>2. k \in LinkRow /\ k.state = "used"
  <2> DEFINE n == link[q.link].spent + 1
             j == [link[q.link] EXCEPT !.state = "used"]
  <2>1. n \in Nat /\ j \in LinkRow /\ j.state = "used"
    BY <1>0 DEF LinkRow
  <2>2. k = [j EXCEPT !.spent = n]
    BY <1>0 DEF LinkRow
  <2> HIDE DEF j, n
  <2> QED
    BY <2>1, <2>2 DEF LinkRow
<1>3. request' \in [Request -> Work \cup {Idle}]
  BY DEF Redeem, Typed, TypeOK
<1>4. \/ UNCHANGED <<link, token>>
      \/ link' = [link EXCEPT ![q.link] = k] /\ token' = token \cup {q.token}
  BY DEF Redeem
<1> HIDE DEF k
<1> QED
  BY <1>1, <1>2, <1>3, <1>4, IdleIs
     DEF Typed, TypeOK, LinksOfPeople, InTenants, Usable, Redeem, rows

LEMMA TypedEnter ==
    ASSUME Typed, NEW r \in Request, NEW k \in token, NEW op \in Op, NEW p \in Person,
           NEW to \in Role, Enter(r, k, op, p, to)
    PROVE  Typed'
<1> DEFINE q == [pc |-> "asked", op |-> op, who |-> k.who, tenant |-> k.tenant,
                 role |-> k.role, operator |-> RunsPlatform(k), target |-> p, to |-> to]
<1>1. k \in Token /\ k.tenant \in tenant
  BY DEF Typed, TypeOK, Enter, InContext
<1>2. q \in Work /\ q.tenant = k.tenant
  BY <1>1 DEF Work, Token, RunsPlatform
<1>3. request' = [request EXCEPT ![r] = q]
  BY DEF Enter
<1> HIDE DEF q
<1> QED
  BY <1>1, <1>2, <1>3 DEF Typed, TypeOK, LinksOfPeople, InTenants, Usable, Enter, Acts, rows

LEMMA TypedDecide == ASSUME Typed, NEW r \in Request, Decide(r) PROVE Typed'
<1> DEFINE q == request[r]
           w(pc) == [q EXCEPT !.pc = pc]
<1>1. \A pc \in {"sure", "wipe"} : w(pc) \in Work
  BY WorkIs DEF Decide, Typed, TypeOK, Work
<1>2. \E j \in {Idle, w("sure"), w("wipe")} : request' = [request EXCEPT ![r] = j]
  BY DEF Decide
<1>3. \A pc \in {"sure", "wipe"} : w(pc).tenant = q.tenant
  BY WorkIs DEF Decide, Typed, TypeOK, Work
<1> HIDE DEF w
<1> QED
  BY <1>1, <1>2, <1>3, IdleIs
     DEF Typed, TypeOK, LinksOfPeople, InTenants, Usable, Decide, rows

LEMMA TypedWipe == ASSUME Typed, NEW r \in Request, Wipe(r) PROVE Typed'
<1> DEFINE p == request[r].target
<1>1. member' \in [Tenant -> [Person -> Role \cup {None}]]
  BY DEF Wipe, Typed, TypeOK
<1>2. NoLink \in LinkRow /\ NoLink.state = "none"
  BY DEF NoLink, LinkRow
<1>3. link' \in [Link -> LinkRow]
  BY <1>2 DEF Wipe, Typed, TypeOK
<1>4. LinksOfPeople'
  BY <1>2 DEF Wipe, Typed, TypeOK, LinksOfPeople, InTenants, Usable
<1> QED
  BY <1>1, <1>3, <1>4, IdleIs DEF Wipe, Typed, TypeOK, InTenants

LEMMA TypedWrite == ASSUME Typed, NEW r \in Request, Write(r) PROVE Typed'
<1> DEFINE q == request[r]
<1>1. q.target \in Person /\ q.to \in Role /\ q.tenant \in Tenant
  BY WorkIs DEF Write, Typed, TypeOK
<1>2. \A role \in Role \cup {None} : Becomes(q, role) \in Role \cup {None}
  BY <1>1 DEF Becomes
<1>3. member' \in [Tenant -> [Person -> Role \cup {None}]]
  BY <1>1, <1>2 DEF Write, Typed, TypeOK
<1>4. user' \subseteq Person
  BY <1>1 DEF Write, Typed, TypeOK
<1>5. active' \subseteq tenant'
  BY DEF Write, Switched, Typed, TypeOK, InTenants
<1> QED
  BY <1>3, <1>4, <1>5, IdleIs DEF Write, Typed, TypeOK, LinksOfPeople, InTenants, Usable

LEMMA TypedScript ==
    ASSUME Typed, NEW p \in Person, NEW t \in tenant, NEW to \in Role, NEW flag \in Flag,
           Script(p, t, to, flag)
    PROVE  Typed'
<1>1. member' \in [Tenant -> [Person -> Role \cup {None}]]
  BY DEF Script, Typed, TypeOK
<1> QED
  BY <1>1 DEF Script, Acts, Typed, TypeOK, LinksOfPeople, InTenants, Usable

LEMMA TypedCreateSuperuser ==
    ASSUME Typed, NEW p \in Person, CreateSuperuser(p) PROVE Typed'
BY DEF CreateSuperuser, Acts, Typed, TypeOK, LinksOfPeople, InTenants, Usable

LEMMA TypedStutter == ASSUME Typed, UNCHANGED vars PROVE Typed'
BY DEF vars, rows, Typed, TypeOK, LinksOfPeople, InTenants, Usable

LEMMA TypedNext == ASSUME Typed, [Next]_vars PROVE Typed'
BY TypedLogin, TypedCreateSuperuser, TypedAskLink, TypedRegister, TypedTokenExpires,
   TypedLinkExpires, TypedDecide, TypedWipe, TypedWrite, TypedRedeem, TypedOpenLink,
   TypedEnter, TypedScript, TypedStutter
   DEF Next, Serve, Typed, TypeOK

\* Every row, token, link and request keeps to its type, and requests overlap as they like.
THEOREM TypeCorrect == Spec => []TypeOK
<1>1. Typed /\ [Next]_vars => Typed'
  BY TypedNext
<1>2. Typed => TypeOK
  BY DEF Typed
<1> QED
  BY <1>1, <1>2, TypedInit, PTL DEF Spec

-----------------------------------------------------------------------------
(* One request at a time decides and commits.                                *)

Decided(r) == request[r].pc \in {"sure", "wipe", "redeem"}

OneDecides == \A r, q \in Request : Decided(r) /\ Decided(q) => r = q

\* A person is deleted by its only tenant.
OnlyHere == \A r \in Request : request[r].pc = "wipe" =>
               request[r].target \in user /\ Homes(request[r].target) \subseteq {request[r].tenant}

\* Neither a fresh link nor one that is being redeemed has been spent.
SpentOnce ==
    /\ \A l \in Link : link[l].state = "fresh" => link[l].spent = 0
    /\ \A r \in Request : request[r].pc = "redeem" => link[request[r].link].spent = 0

LEMMA OneAtMost ==
    ASSUME NEW S, IsFiniteSet(S), Cardinality(S) <= 1, NEW x \in S PROVE S = {x}
<1>1. Cardinality({x}) = 1 /\ {x} \subseteq S
  BY FS_Singleton
<1>2. Cardinality(S) \in Nat /\ Cardinality({x}) <= Cardinality(S)
  BY <1>1, FS_CardinalityType, FS_Subset
<1> QED
  BY <1>1, <1>2, FS_Subset

Serial == Typed /\ OneDecides /\ OnlyHere /\ SpentOnce /\ LinkOnce

LEMMA SerialInit == Init => Serial
BY TypedInit
   DEF Init, Serial, OneDecides, Decided, OnlyHere, SpentOnce, LinkOnce, Idle, NoLink

LEMMA SerialLogin ==
    ASSUME Serial, ~Overlap, NEW p \in Person,
           Login(p)
    PROVE  Serial'
<1>1. Typed'
  BY TypedLogin DEF Serial
<1> QED
  BY <1>1
     DEF Serial, Typed, TypeOK, LinkRow, OneDecides, Decided, OnlyHere, Homes,
         SpentOnce, LinkOnce, Idle, rows, Login, Acts

LEMMA SerialRegister ==
    ASSUME Serial, ~Overlap, NEW p \in Person, NEW t \in Tenant,
           Register(p, t)
    PROVE  Serial'
<1>1. Typed'
  BY TypedRegister DEF Serial
<1> QED
  BY <1>1
     DEF Serial, Typed, TypeOK, LinkRow, OneDecides, Decided, OnlyHere, Homes,
         SpentOnce, LinkOnce, Idle, rows, Register, Acts

LEMMA SerialTokenExpires ==
    ASSUME Serial, ~Overlap, NEW k,
           TokenExpires(k)
    PROVE  Serial'
<1>1. Typed'
  BY TypedTokenExpires DEF Serial
<1> QED
  BY <1>1
     DEF Serial, Typed, TypeOK, LinkRow, OneDecides, Decided, OnlyHere, Homes,
         SpentOnce, LinkOnce, Idle, rows, TokenExpires, Acts

LEMMA SerialAskLink ==
    ASSUME Serial, ~Overlap, NEW p \in Person, NEW l \in Link,
           AskLink(p, l)
    PROVE  Serial'
<1>1. Typed'
  BY TypedAskLink DEF Serial
<1> QED
  BY <1>1
     DEF Serial, Typed, TypeOK, LinkRow, OneDecides, Decided, OnlyHere, Homes,
         SpentOnce, LinkOnce, Idle, rows, AskLink, Acts, NoLink

LEMMA SerialLinkExpires ==
    ASSUME Serial, ~Overlap, NEW l \in Link,
           LinkExpires(l)
    PROVE  Serial'
<1>1. Typed'
  BY TypedLinkExpires DEF Serial
<1> QED
  BY <1>1
     DEF Serial, Typed, TypeOK, LinkRow, OneDecides, Decided, OnlyHere, Homes,
         SpentOnce, LinkOnce, Idle, rows, LinkExpires, Acts

LEMMA SerialOpenLink ==
    ASSUME Serial, ~Overlap, NEW r \in Request, NEW l \in Link,
           OpenLink(r, l)
    PROVE  Serial'
<1>1. Typed'
  BY TypedOpenLink DEF Serial
<1> QED
  BY <1>1
     DEF Serial, Typed, TypeOK, LinkRow, OneDecides, Decided, OnlyHere, Homes,
         SpentOnce, LinkOnce, Idle, rows, OpenLink, Acts, Alone, Usable

LEMMA SerialRedeem ==
    ASSUME Serial, ~Overlap, NEW r \in Request,
           Redeem(r)
    PROVE  Serial'
<1>1. Typed'
  BY TypedRedeem DEF Serial
<1> QED
  BY <1>1
     DEF Serial, Typed, TypeOK, LinkRow, OneDecides, Decided, OnlyHere, Homes,
         SpentOnce, LinkOnce, Idle, rows, Redeem

LEMMA SerialEnter ==
    ASSUME Serial, ~Overlap, NEW r \in Request, NEW k \in token, NEW op \in Op,
           NEW p \in Person, NEW to \in Role, Enter(r, k, op, p, to)
    PROVE  Serial'
<1>1. Typed'
  BY TypedEnter DEF Serial
<1> QED
  BY <1>1
     DEF Serial, Typed, TypeOK, LinkRow, OneDecides, Decided, OnlyHere, Homes,
         SpentOnce, LinkOnce, Idle, rows, Enter, Acts

LEMMA SerialDecide ==
    ASSUME Serial, ~Overlap, NEW r \in Request,
           Decide(r)
    PROVE  Serial'
<1>1. Typed'
  BY TypedDecide DEF Serial
<1>2. OneDecides'
  BY DEF Serial, Typed, TypeOK, OneDecides, Decided, Idle, Decide, Alone, rows
<1>3. OnlyHere'
  <2> DEFINE q == request[r]
  <2>1. q.target \in Person /\ q.tenant \in Tenant
    BY WorkIs DEF Decide, Serial, Typed, TypeOK
  <2>2. ASSUME Allowed(q), q.op = "delete_user", OnlyHome(q.target)
        PROVE  q.target \in user /\ Homes(q.target) \subseteq {q.tenant}
    <3> DEFINE S == Homes(q.target)
    <3>1. q.target \in user /\ q.tenant \in S
      BY <2>1, <2>2 DEF Allowed, MayDelete, Theirs, Homes
    <3>2. IsFiniteSet(S) /\ Cardinality(S) <= 1
      BY <2>2, FinitelyMany, FS_Subset DEF Homes, OnlyHome
    <3> HIDE DEF S
    <3>3. S = {q.tenant}
      BY <3>1, <3>2, OneAtMost
    <3> QED
      BY <3>1, <3>3 DEF S
  <2>3. \A d \in Request \ {r} : request'[d] = request[d]
    BY DEF Decide, Serial, Typed, TypeOK
  <2>4. request'[r].pc = "wipe" =>
           /\ Allowed(q) /\ q.op = "delete_user" /\ OnlyHome(q.target)
           /\ request'[r].target = q.target /\ request'[r].tenant = q.tenant
    BY WorkIs DEF Decide, Serial, Typed, TypeOK, Work, Idle
  <2> QED
    BY <2>2, <2>3, <2>4 DEF Serial, OnlyHere, Homes, Decide, rows
<1>4. SpentOnce'
  BY
     DEF Serial, Typed, TypeOK, OneDecides, Decided, SpentOnce, Idle, LinkRow, Decide,
         Alone, rows
<1>5. LinkOnce'
  BY
     DEF Serial, Typed, TypeOK, OneDecides, SpentOnce, LinkOnce, LinkRow, Decide, Alone,
         rows
<1> QED
  BY <1>1, <1>2, <1>3, <1>4, <1>5 DEF Serial

LEMMA SerialWipe ==
    ASSUME Serial, ~Overlap, NEW r \in Request,
           Wipe(r)
    PROVE  Serial'
<1>1. Typed'
  BY TypedWipe DEF Serial
<1> QED
  BY <1>1
     DEF Serial, Typed, TypeOK, LinkRow, OneDecides, Decided, OnlyHere, Homes,
         SpentOnce, LinkOnce, Idle, rows, Wipe, NoLink

LEMMA SerialWrite ==
    ASSUME Serial, ~Overlap, NEW r \in Request,
           Write(r)
    PROVE  Serial'
<1>1. Typed'
  BY TypedWrite DEF Serial
<1> QED
  BY <1>1
     DEF Serial, Typed, TypeOK, LinkRow, OneDecides, Decided, OnlyHere, Homes,
         SpentOnce, LinkOnce, Idle, rows, Write

LEMMA SerialScript ==
    ASSUME Serial, ~Overlap, NEW p \in Person, NEW t \in tenant, NEW to \in Role,
           NEW flag \in Flag, Script(p, t, to, flag)
    PROVE  Serial'
<1>1. Typed'
  BY TypedScript DEF Serial
<1> QED
  BY <1>1
     DEF Serial, Typed, TypeOK, LinkRow, OneDecides, Decided, OnlyHere, Homes,
         SpentOnce, LinkOnce, Idle, rows, Script

LEMMA SerialCreateSuperuser ==
    ASSUME Serial, ~Overlap, NEW p \in Person,
           CreateSuperuser(p)
    PROVE  Serial'
<1>1. Typed'
  BY TypedCreateSuperuser DEF Serial
<1> QED
  BY <1>1
     DEF Serial, Typed, TypeOK, LinkRow, OneDecides, Decided, OnlyHere, Homes,
         SpentOnce, LinkOnce, Idle, rows, CreateSuperuser

LEMMA SerialNext == ASSUME Serial, ~Overlap, [Next]_vars PROVE Serial'
<1>1. CASE UNCHANGED vars
  BY <1>1, TypedStutter
     DEF vars, rows, Serial, OneDecides, Decided, OnlyHere, Homes, SpentOnce, LinkOnce
<1>2. CASE Next
  BY <1>2, SerialLogin, SerialCreateSuperuser, SerialAskLink, SerialRegister,
     SerialTokenExpires, SerialLinkExpires, SerialDecide, SerialWipe, SerialWrite,
     SerialRedeem, SerialOpenLink, SerialEnter, SerialScript
     DEF Next, Serve, Serial, Typed, TypeOK
<1> QED
  BY <1>1, <1>2

LEMMA SerialAlways == ASSUME ~Overlap PROVE Spec => []Serial
<1>1. Serial /\ [Next]_vars => Serial'
  BY SerialNext
<1> QED
  BY <1>1, SerialInit, PTL DEF Spec

\* If requests do not overlap, a magic link opens one session: that they do is the only way it
\* opens two (MagicLinkService.consume).
THEOREM OneSessionPerLink == ASSUME ~Overlap PROVE Spec => []LinkOnce
<1>1. Serial => LinkOnce
  BY DEF Serial
<1> QED
  BY <1>1, SerialAlways, PTL

\* If requests do not overlap, what a tenant's people do takes nobody out of another tenant,
\* though a removal may delete the user with all its memberships (remove_from_tenant).
THEOREM RemovesFromItsTenant == ASSUME ~Overlap PROVE Spec => RemovalIsLocal
<1> DEFINE Local(t, p) ==
      member[t][p] # None /\ member'[t][p] = None =>
         \E r \in Request : request[r].pc \in {"sure", "wipe"} /\ request'[r] = Idle
                            /\ request[r].tenant = t
<1>1. ASSUME Serial, [Next]_vars, NEW t \in Tenant, NEW p \in Person PROVE Local(t, p)
  <2> SUFFICES ASSUME member[t][p] # None, member'[t][p] = None PROVE Local(t, p)
    OBVIOUS
  <2>1. ASSUME NEW r \in Request, Wipe(r) PROVE Local(t, p)
    BY <1>1, <2>1 DEF Wipe, Serial, Typed, TypeOK, OnlyHere, Homes
  <2>2. ASSUME NEW r \in Request, Write(r) PROVE Local(t, p)
    <3>1. request[r].tenant = t \/ member'[t][p] = member[t][p]
      BY <1>1, <2>2 DEF Write, Serial, Typed, TypeOK
    <3> QED
      BY <1>1, <2>2, <3>1 DEF Write, Serial, Typed, TypeOK
  <2>3. ASSUME NEW q \in Person, NEW s \in tenant, NEW to \in Role, NEW flag, Script(q, s, to, flag)
        PROVE  FALSE
    BY <1>1, <2>3, NoneIsNoRole DEF Script, Serial, Typed, TypeOK
  <2>4. ASSUME NEW q \in Person, NEW s \in Tenant, Register(q, s) PROVE FALSE
    BY <1>1, <2>4, NoneIsNoRole DEF Register, Serial, Typed, TypeOK, Role
  <2>5. ASSUME UNCHANGED member PROVE FALSE
    BY <2>5
  <2> QED
    BY <1>1, <2>1, <2>2, <2>3, <2>4, <2>5
       DEF Next, Serve, vars, rows, Login, CreateSuperuser, AskLink, TokenExpires,
           LinkExpires, Decide, Redeem, OpenLink, Enter, Serial, Typed, TypeOK
<1>2. Serial /\ [Next]_vars => [\A t \in Tenant, p \in Person : Local(t, p)]_vars
  BY <1>1
<1> QED
  BY <1>2, SerialAlways, PTL DEF Spec, RemovalIsLocal

-----------------------------------------------------------------------------
(* Who is left.                                                              *)

\* A request that is about to delete an operator leaves another.
OthersRemain == \A r \in Request : request[r].pc = "wipe" => Operators \ {request[r].target} # {}

Remain == OperatorRemains /\ OthersRemain

LEMMA MoreThanOne ==
    ASSUME NEW S, IsFiniteSet(S), ~(Cardinality(S) <= 1), NEW x PROVE S \ {x} # {}
<1>1. CASE S = {}
  BY <1>1, FS_EmptySet
<1>2. CASE S = {x}
  BY <1>2, FS_Singleton
<1> QED
  BY <1>1, <1>2

LEMMA RemainNext ==
    ASSUME Serial, Remain, ~Overlap, Flag \subseteq {TRUE}, [Next]_vars PROVE Remain'
<1> USE DEF Remain, OperatorRemains, OthersRemain, Operators
<1>1. ASSUME UNCHANGED request, user \subseteq user', operator \subseteq operator' PROVE Remain'
  BY <1>1
<1>2. ASSUME NEW r \in Request, Decide(r) PROVE Remain'
  <2> DEFINE q == request[r]
  <2>1. ASSUME Allowed(q), q.op = "delete_user" PROVE Operators \ {q.target} # {}
    <3>1. IsFiniteSet(Operators)
      BY FinitelyMany, FS_Subset DEF Serial, Typed, TypeOK
    <3>2. ~LastOperator(q.target)
      BY <2>1 DEF Allowed, MayDelete
    <3>3. CASE q.target \in operator
      BY <3>1, <3>2, <3>3, MoreThanOne DEF LastOperator
    <3>4. CASE q.target \notin operator
      BY <3>4
    <3> QED
      BY <3>3, <3>4
  <2>2. \A d \in Request \ {r} : request'[d] = request[d]
    BY <1>2 DEF Decide, Serial, Typed, TypeOK
  <2>3. request'[r].pc = "wipe" =>
           Allowed(q) /\ q.op = "delete_user" /\ request'[r].target = q.target
    BY <1>2, WorkIs DEF Decide, Serial, Typed, TypeOK, Work, Idle
  <2> QED
    BY <1>2, <2>1, <2>2, <2>3 DEF Decide, rows
<1>3. ASSUME NEW r \in Request, Wipe(r) PROVE Remain'
  BY <1>3 DEF Wipe, Serial, Typed, TypeOK, OneDecides, Decided, Idle
<1>4. ASSUME NEW r \in Request, Write(r) \/ Redeem(r) PROVE Remain'
  BY <1>4 DEF Write, Redeem, Serial, Typed, TypeOK, Idle, rows
<1>5. ASSUME NEW r \in Request, NEW l \in Link, OpenLink(r, l) PROVE Remain'
  BY <1>5 DEF OpenLink, Serial, Typed, TypeOK, rows
<1>6. ASSUME NEW r \in Request, NEW k \in token, NEW op \in Op, NEW p \in Person, NEW to \in Role,
             Enter(r, k, op, p, to)
      PROVE  Remain'
  BY <1>6 DEF Enter, Serial, Typed, TypeOK, rows
<1>7. ASSUME NEW p \in Person, NEW t \in tenant, NEW to \in Role, NEW flag \in Flag,
             Script(p, t, to, flag)
      PROVE  Remain'
  BY <1>1, <1>7 DEF Script
<1>8. CASE UNCHANGED vars
  BY <1>1, <1>8 DEF vars, rows
<1> QED
  BY <1>1, <1>2, <1>3, <1>4, <1>5, <1>6, <1>7, <1>8
     DEF Next, Serve, Login, CreateSuperuser, AskLink, Register, TokenExpires,
         LinkExpires, rows

\* If requests do not overlap and create_user.py is only given --superuser, the system always
\* has an operator, whoever deletes whom (UserService.remove_from_tenant).
THEOREM SomebodyRuns ==
    ASSUME ~Overlap, Flag \subseteq {TRUE} PROVE Spec => []OperatorRemains
<1>1. Init => Remain
  BY SomebodyIsFirst DEF Init, Remain, OperatorRemains, OthersRemain, Operators, Idle
<1>2. Serial /\ Remain /\ [Next]_vars => Remain'
  BY RemainNext
<1>3. Remain => OperatorRemains
  BY DEF Remain
<1> QED
  BY <1>1, <1>2, <1>3, SerialAlways, PTL DEF Spec

(***************************************************************************)
(* The payment QR.                                                         *)
(***************************************************************************)
QrRequests == {Qr!Idle} \cup [pc : {"stored"}, file : Image]
                 \cup [pc : {"save"}, inserts : BOOLEAN, old : Qr!Row, new : Qr!Row,
                       stale : Image \cup {None}]
                 \cup [pc : {"delete"}, stale : Image \cup {None}]

QrTyped == /\ row \in Qr!Row \cup {Qr!NoRow}
           /\ image \subseteq named /\ named \subseteq Image
           /\ saving \in [Request -> QrRequests]

\* The file the row refers to, the one a request has stored and not yet put in the row,
\* and the one it means to delete.
Ref == Qr!Loaded.ref
Own(r) ==
    CASE saving[r].pc = "stored" -> {saving[r].file}
      [] saving[r].pc = "save"   -> {saving[r].new.ref} \ {saving[r].old.ref, None}
      [] OTHER                   -> {}
Doomed(r) == IF saving[r].pc \in {"save", "delete"} THEN {saving[r].stale} \ {None} ELSE {}

\* What is known of a request by its point.
LEMMA QrRequestIs ==
    ASSUME NEW q \in QrRequests
    PROVE  /\ q.pc \in {"idle", "stored", "save", "delete"}
           /\ q.pc = "idle" <=> q = Qr!Idle
           /\ q.pc = "stored" => q.file \in Image
           /\ q.pc = "save" => /\ q.inserts \in BOOLEAN
                               /\ q.old \in Qr!Row /\ q.new \in Qr!Row
                               /\ q.stale \in Image \cup {None}
           /\ q.pc = "delete" => q.stale \in Image \cup {None}
BY DEF QrRequests, Qr!Idle

LEMMA LoadedIs ==
    ASSUME row \in Qr!Row \cup {Qr!NoRow}
    PROVE  /\ Qr!Loaded \in Qr!Row
           /\ Ref \in Image \cup {None}
           /\ row = Qr!NoRow => Ref = None
           /\ row # Qr!NoRow => Qr!Loaded = row
BY DEF Qr!Loaded, Qr!Row, Qr!Blank, Ref

LEMMA RowIsNoRow == ASSUME NEW q \in Qr!Row PROVE q # Qr!NoRow
BY MarksAreNoNames DEF Qr!Row, Qr!NoRow

LEMMA QrTypedInit == Qr!Init => QrTyped
BY DEF Qr!Init, QrTyped, QrRequests

LEMMA SavingIs ==
    ASSUME QrTyped, NEW new \in Qr!Row, NEW stale \in Image \cup {None}
    PROVE  /\ Qr!Saving(new, stale) \in QrRequests
           /\ Qr!Saving(new, stale).pc = "save"
           /\ Qr!Saving(new, stale).inserts = (row = Qr!NoRow)
           /\ Qr!Saving(new, stale).old = Qr!Loaded
           /\ Qr!Saving(new, stale).new = new
           /\ Qr!Saving(new, stale).stale = stale
<1>1. Qr!Loaded \in Qr!Row BY LoadedIs DEF QrTyped
<1>2. (row = Qr!NoRow) \in BOOLEAN OBVIOUS
<1> DEFINE b == row = Qr!NoRow
<1> HIDE DEF b
<1>3. b \in BOOLEAN BY <1>2 DEF b
<1>4. Qr!Saving(new, stale) = [pc |-> "save", inserts |-> b, old |-> Qr!Loaded, new |-> new,
                               stale |-> stale]
  BY DEF Qr!Saving, b
<1>5. Qr!Saving(new, stale) \in QrRequests
  BY <1>1, <1>3, <1>4 DEF QrRequests
<1>6. b = (row = Qr!NoRow) BY DEF b
<1> QED BY <1>4, <1>5, <1>6

-----------------------------------------------------------------------------
(* What each step does to the requests. *)

\* An action: the others are as they were.
Others(r) == \A x \in Request \ {r} : saving'[x] = saving[x]

LEMMA OwnKept ==
    ASSUME NEW x \in Request, saving'[x] = saving[x]
    PROVE  Own(x)' = Own(x) /\ Doomed(x)' = Doomed(x)
BY DEF Own, Doomed

LEMMA StoreDoes ==
    ASSUME QrTyped, NEW r \in Request, NEW f \in Image, Qr!Store(r, f)
    PROVE  /\ QrTyped' /\ Others(r) /\ row' = row
           /\ saving[r] = Qr!Idle /\ saving'[r].pc = "stored"
           /\ f \notin named /\ named' = named \cup {f} /\ image' = image \cup {f}
           /\ Own(r)' = {f} /\ Doomed(r)' = {}
<1> DEFINE q == [pc |-> "stored", file |-> f]
<1>1. q \in QrRequests BY DEF QrRequests
<1>2. q.pc = "stored" /\ q.file = f OBVIOUS
<1>3. saving[r] = Qr!Idle /\ saving' = [saving EXCEPT ![r] = q] /\ row' = row
      /\ f \notin named /\ named' = named \cup {f} /\ image' = image \cup {f}
  BY DEF Qr!Store, Qr!Enter
<1> HIDE DEF q
<1>4. QrTyped' /\ Others(r) /\ saving'[r] = q
  BY <1>1, <1>3 DEF QrTyped, Others
<1> QED BY <1>2, <1>3, <1>4 DEF Own, Doomed

\* A request that has read the row: its own file is a new one, if any.
LEMMA SavingDoes ==
    ASSUME QrTyped, NEW r \in Request, NEW new \in Qr!Row, NEW stale \in Image \cup {None},
           saving' = [saving EXCEPT ![r] = Qr!Saving(new, stale)],
           row' = row, image' = image, named' = named
    PROVE  /\ QrTyped' /\ Others(r)
           /\ saving'[r].pc = "save" /\ saving'[r].new = new /\ saving'[r].stale = stale
           /\ saving'[r].old = Qr!Loaded /\ saving'[r].inserts = (row = Qr!NoRow)
           /\ Own(r)' = {new.ref} \ {Ref, None} /\ Doomed(r)' = {stale} \ {None}
<1> DEFINE q == Qr!Saving(new, stale)
<1>1. /\ q \in QrRequests /\ q.pc = "save" /\ q.old = Qr!Loaded /\ q.new = new
      /\ q.stale = stale /\ q.inserts = (row = Qr!NoRow)
  BY SavingIs
<1>2. saving' = [saving EXCEPT ![r] = q] OBVIOUS
<1> HIDE DEF q
<1>3. QrTyped' /\ Others(r) /\ saving'[r] = q
  BY <1>1, <1>2 DEF QrTyped, Others
<1>4. Own(r)' = {new.ref} \ {Ref, None} /\ Doomed(r)' = {stale} \ {None}
  BY <1>1, <1>3 DEF Own, Doomed, Ref
<1> QED BY <1>1, <1>3, <1>4

LEMMA SetImageDoes ==
    ASSUME QrTyped, NEW r \in Request, Qr!SetImage(r), Ref \notin Own(r)
    PROVE  /\ QrTyped' /\ Others(r) /\ row' = row /\ image' = image /\ named' = named
           /\ saving[r].pc = "stored" /\ saving'[r].pc = "save"
           /\ saving'[r].new.ref # Ref /\ saving'[r].stale = Ref
           /\ saving'[r].old = Qr!Loaded /\ saving'[r].inserts = (row = Qr!NoRow)
           /\ Own(r)' = Own(r) /\ Doomed(r)' = {Ref} \ {None}
<1>1. PICK f \in Image : saving[r].pc = "stored" /\ saving[r].file = f
  BY QrRequestIs DEF QrTyped, Qr!SetImage
<1>2. PICK new \in Qr!Row : new = [url |-> f, ref |-> f]
  BY DEF Qr!Row
<1>3. Own(r) = {f} /\ f # None
  BY <1>1, MarksAreNoNames DEF Own
<1>4. PICK stale \in Image \cup {None} : stale = Ref
  BY LoadedIs DEF QrTyped
<1>5. saving' = [saving EXCEPT ![r] = Qr!Saving(new, stale)]
      /\ row' = row /\ image' = image /\ named' = named
  BY <1>1, <1>2, <1>4 DEF Qr!SetImage, Ref
<1>6. /\ QrTyped' /\ Others(r)
      /\ saving'[r].pc = "save" /\ saving'[r].new = new /\ saving'[r].stale = stale
      /\ saving'[r].old = Qr!Loaded /\ saving'[r].inserts = (row = Qr!NoRow)
      /\ Own(r)' = {new.ref} \ {Ref, None} /\ Doomed(r)' = {stale} \ {None}
  BY ONLY QrTyped, r \in Request, new \in Qr!Row, stale \in Image \cup {None}, <1>5, SavingDoes
<1> QED BY <1>1, <1>2, <1>3, <1>4, <1>5, <1>6

LEMMA UpdateDoes ==
    ASSUME QrTyped, NEW r \in Request, NEW url \in Image \cup {External, None},
           Qr!Update(r, url)
    PROVE  /\ QrTyped' /\ Others(r) /\ row' = row /\ image' = image /\ named' = named
           /\ saving[r] = Qr!Idle /\ saving'[r].pc = "save"
           /\ saving'[r].new.ref \in {Ref, None}
           /\ saving'[r].stale = IF saving'[r].new.ref = Ref THEN None ELSE Ref
           /\ saving'[r].old = Qr!Loaded /\ saving'[r].inserts = (row = Qr!NoRow)
           /\ Own(r)' = {} /\ Doomed(r)' \subseteq {Ref} \ {None}
<1>1. Ref \in Image \cup {None}
  BY LoadedIs DEF QrTyped
<1>2. PICK stale \in Image \cup {None} : stale = Qr!Stale(url) /\ stale \in {Ref, None}
  BY <1>1 DEF Qr!Stale, Ref
<1>3. PICK new \in Qr!Row : new = [url |-> url, ref |-> IF stale = None THEN Ref ELSE None]
  <2>1. (IF stale = None THEN Ref ELSE None) \in Image \cup {None}
    BY <1>1
  <2>2. \A x \in Image \cup {None} : [url |-> url, ref |-> x] \in Qr!Row
    BY DEF Qr!Row
  <2> QED BY <2>1, <2>2
<1>4. saving[r] = Qr!Idle /\ saving' = [saving EXCEPT ![r] = Qr!Saving(new, stale)]
      /\ row' = row /\ image' = image /\ named' = named
  BY <1>2, <1>3 DEF Qr!Update, Qr!Enter, Ref
<1>5. /\ QrTyped' /\ Others(r)
      /\ saving'[r].pc = "save" /\ saving'[r].new = new /\ saving'[r].stale = stale
      /\ saving'[r].old = Qr!Loaded /\ saving'[r].inserts = (row = Qr!NoRow)
      /\ Own(r)' = {new.ref} \ {Ref, None} /\ Doomed(r)' = {stale} \ {None}
  BY <1>4, SavingDoes
<1> QED BY <1>2, <1>3, <1>4, <1>5

LEMMA ClearDoes ==
    ASSUME QrTyped, NEW r \in Request, Qr!Clear(r)
    PROVE  /\ QrTyped' /\ Others(r) /\ row' = row /\ image' = image /\ named' = named
           /\ saving[r] = Qr!Idle /\ saving'[r].pc = "save"
           /\ saving'[r].new.ref = None /\ saving'[r].stale = Ref
           /\ saving'[r].old = Qr!Loaded /\ saving'[r].inserts = (row = Qr!NoRow)
           /\ Own(r)' = {} /\ Doomed(r)' = {Ref} \ {None}
<1>1. PICK stale \in Image \cup {None} : stale = Ref
  BY LoadedIs DEF QrTyped
<1>2. PICK new \in Qr!Row : new = Qr!Blank /\ new.ref = None
  <2>1. Qr!Blank \in Qr!Row /\ Qr!Blank.ref = None
    BY DEF Qr!Row, Qr!Blank
  <2> QED BY <2>1
<1>3. saving[r] = Qr!Idle /\ saving' = [saving EXCEPT ![r] = Qr!Saving(new, stale)]
      /\ row' = row /\ image' = image /\ named' = named
  BY <1>1, <1>2 DEF Qr!Clear, Qr!Enter, Ref, Qr!Loaded
<1>4. /\ QrTyped' /\ Others(r)
      /\ saving'[r].pc = "save" /\ saving'[r].new = new /\ saving'[r].stale = stale
      /\ saving'[r].old = Qr!Loaded /\ saving'[r].inserts = (row = Qr!NoRow)
      /\ Own(r)' = {new.ref} \ {Ref, None} /\ Doomed(r)' = {stale} \ {None}
  BY <1>3, SavingDoes
<1> QED BY <1>1, <1>2, <1>3, <1>4

\* A request that has done its work, or died.
LEMMA QrIdles ==
    ASSUME QrTyped, NEW r \in Request, saving' = [saving EXCEPT ![r] = Qr!Idle],
           row' \in Qr!Row \cup {Qr!NoRow}, image' \subseteq image, named' = named
    PROVE  QrTyped' /\ Others(r) /\ saving'[r] = Qr!Idle /\ Own(r)' = {} /\ Doomed(r)' = {}
<1>1. Qr!Idle \in QrRequests /\ Qr!Idle.pc = "idle"
  BY DEF QrRequests, Qr!Idle
<1>2. QrTyped' /\ Others(r) /\ saving'[r] = Qr!Idle
  BY <1>1 DEF QrTyped, Others
<1> QED BY <1>1, <1>2 DEF Own, Doomed

\* An UPDATE or an INSERT: of the columns it sends, this is what becomes of the reference.
LEMMA SaveDoes ==
    ASSUME QrTyped, NEW r \in Request, Qr!Save(r),
           saving[r].inserts \/ row # Qr!NoRow
    PROVE  /\ QrTyped' /\ Others(r) /\ image' = image /\ named' = named
           /\ saving[r].pc = "save" /\ row' # Qr!NoRow
           /\ LET q       == saving[r]
                  refused == q.inserts /\ row # Qr!NoRow
              IN  /\ Ref' = IF q.inserts THEN (IF refused THEN Ref ELSE q.new.ref)
                            ELSE IF q.new.ref = q.old.ref THEN Ref ELSE q.new.ref
                  /\ Own(r)' = {}
                  /\ Doomed(r)' = IF refused THEN {} ELSE {q.stale} \ {None}
                  /\ \/ saving'[r].pc = "delete" /\ saving'[r].stale = q.stale /\ q.stale # None
                     \/ saving'[r] = Qr!Idle /\ (refused \/ q.stale = None)
<1>1. PICK q \in QrRequests : q = saving[r]
  BY DEF QrTyped
<1>2. /\ q.pc = "save" /\ q.inserts \in BOOLEAN /\ q.old \in Qr!Row /\ q.new \in Qr!Row
      /\ q.stale \in Image \cup {None}
  BY <1>1, QrRequestIs DEF Qr!Save
<1>3. PICK refused \in BOOLEAN : refused = (q.inserts /\ row # Qr!NoRow)
  BY <1>2
<1>4. /\ row' = IF q.inserts THEN (IF refused THEN row ELSE q.new)
                 ELSE [url |-> IF q.new.url = q.old.url THEN row.url ELSE q.new.url,
                       ref |-> IF q.new.ref = q.old.ref THEN row.ref ELSE q.new.ref]
      /\ saving' = [saving EXCEPT ![r] =
                      IF refused \/ q.stale = None THEN Qr!Idle
                      ELSE [pc |-> "delete", stale |-> q.stale]]
      /\ image' = image /\ named' = named
  BY <1>1, <1>3 DEF Qr!Save
<1>5. /\ row' \in Qr!Row
      /\ row'.ref = IF q.inserts THEN (IF refused THEN Ref ELSE q.new.ref)
                    ELSE IF q.new.ref = q.old.ref THEN Ref ELSE q.new.ref
  <2>1. CASE q.inserts /\ refused
    BY <1>1, <1>2, <1>3, <1>4, <2>1 DEF QrTyped, Ref, Qr!Loaded
  <2>2. CASE q.inserts /\ ~refused
    BY <1>2, <1>4, <2>2
  <2>3. CASE ~q.inserts
    <3>1. row # Qr!NoRow /\ row \in Qr!Row /\ Ref = row.ref
      BY <1>1, <2>3 DEF QrTyped, Ref, Qr!Loaded
    <3>2. /\ (IF q.new.url = q.old.url THEN row.url ELSE q.new.url) \in Image \cup {External, None}
          /\ (IF q.new.ref = q.old.ref THEN row.ref ELSE q.new.ref) \in Image \cup {None}
      BY <1>2, <3>1 DEF Qr!Row
    <3>3. \A u \in Image \cup {External, None}, x \in Image \cup {None} :
              [url |-> u, ref |-> x] \in Qr!Row
      BY DEF Qr!Row
    <3> QED BY <1>4, <2>3, <3>1, <3>2, <3>3
  <2> QED BY <2>1, <2>2, <2>3
<1>6. row' # Qr!NoRow /\ Ref' = row'.ref
  BY <1>5, RowIsNoRow DEF Ref, Qr!Loaded
<1>7. CASE refused \/ q.stale = None
  <2>1. saving' = [saving EXCEPT ![r] = Qr!Idle]
    BY <1>4, <1>7
  <2>2. QrTyped' /\ Others(r) /\ saving'[r] = Qr!Idle /\ Own(r)' = {} /\ Doomed(r)' = {}
    BY <1>4, <1>5, <2>1, QrIdles
  <2> QED BY <1>1, <1>2, <1>3, <1>4, <1>5, <1>6, <1>7, <2>2
<1>8. CASE ~refused /\ q.stale # None
  <2>1. PICK d \in QrRequests : d = [pc |-> "delete", stale |-> q.stale]
    BY <1>2 DEF QrRequests
  <2>2. saving' = [saving EXCEPT ![r] = d]
    BY <1>4, <1>8, <2>1
  <2>3. d.pc = "delete" /\ d.stale = q.stale
    BY <2>1
  <2>4. QrTyped' /\ Others(r) /\ saving'[r] = d
    BY <1>4, <1>5, <2>2 DEF QrTyped, Others
  <2>5. Own(r)' = {} /\ Doomed(r)' = {q.stale} \ {None}
    BY <2>3, <2>4 DEF Own, Doomed
  <2> QED BY <1>1, <1>2, <1>3, <1>4, <1>5, <1>6, <1>8, <2>3, <2>4, <2>5
<1> QED BY <1>7, <1>8

LEMMA DeleteFileDoes ==
    ASSUME QrTyped, NEW r \in Request, Qr!DeleteFile(r)
    PROVE  /\ QrTyped' /\ Others(r) /\ row' = row /\ named' = named
           /\ saving[r].pc = "delete" /\ saving'[r] = Qr!Idle
           /\ image' = image \ {saving[r].stale}
           /\ Own(r)' = {} /\ Doomed(r)' = {}
<1>1. /\ saving' = [saving EXCEPT ![r] = Qr!Idle] /\ row' = row /\ named' = named
      /\ saving[r].pc = "delete" /\ image' = image \ {saving[r].stale}
  BY DEF Qr!DeleteFile
<1>2. row' \in Qr!Row \cup {Qr!NoRow} /\ image' \subseteq image
  BY <1>1 DEF QrTyped
<1> QED BY <1>1, <1>2, QrIdles

LEMMA QrCrashDoes ==
    ASSUME QrTyped, NEW r \in Request, Qr!Crash(r)
    PROVE  /\ QrTyped' /\ Others(r) /\ row' = row /\ image' = image /\ named' = named
           /\ saving'[r] = Qr!Idle /\ Own(r)' = {} /\ Doomed(r)' = {}
<1>1. /\ saving' = [saving EXCEPT ![r] = Qr!Idle]
      /\ row' = row /\ image' = image /\ named' = named
  BY DEF Qr!Crash
<1>2. row' \in Qr!Row \cup {Qr!NoRow} /\ image' \subseteq image
  BY <1>1 DEF QrTyped
<1> QED BY <1>1, <1>2, QrIdles

-----------------------------------------------------------------------------
(* The row's file is there, whatever overlaps or dies. *)

\* A file that was stored and is not yet in the row is on disk, its request's alone, and
\* not among those that are to be deleted.
OwnIsFresh ==
    /\ \A r \in Request : Own(r) \subseteq image /\ Ref \notin Own(r)
    /\ \A r, x \in Request : r # x => Own(r) \cap Own(x) = {}
    /\ \A r, x \in Request : Own(r) \cap Doomed(x) = {}

\* A file is deleted once the row has let go of it, and no name comes back.
LetGo == \A r \in Request : saving[r].pc = "delete" => saving[r].stale \notin {Ref, None}

\* A request lets go of the file it read, or of none.
Plans(q) == /\ q.stale = IF q.new.ref = q.old.ref THEN None ELSE q.old.ref
            /\ q.inserts => q.old.ref = None
            /\ ~q.inserts => row # Qr!NoRow
AllPlan == \A r \in Request : saving[r].pc = "save" => Plans(saving[r])

RefIsThere == Ref # None => Ref \in image
Known      == Ref \in named \cup {None} /\ \A r \in Request : Doomed(r) \subseteq named

QrSafe == QrTyped /\ OwnIsFresh /\ LetGo /\ AllPlan /\ RefIsThere /\ Known

LEMMA QrSafeInit == Qr!Init => QrSafe
<1> SUFFICES ASSUME Qr!Init PROVE QrSafe
  OBVIOUS
<1>1. Ref = None
  BY LoadedIs, QrTypedInit DEF Qr!Init, QrTyped
<1>2. \A r \in Request : saving[r].pc = "idle"
  BY DEF Qr!Init, Qr!Idle
<1>3. \A r \in Request : Own(r) = {} /\ Doomed(r) = {}
  BY <1>2 DEF Own, Doomed
<1> QED
  BY <1>1, <1>2, <1>3, QrTypedInit
     DEF QrSafe, OwnIsFresh, LetGo, AllPlan, RefIsThere, Known

\* What a step keeps when it leaves the row alone.
LEMMA RefKept == ASSUME row' = row PROVE Ref' = Ref /\ Qr!Loaded' = Qr!Loaded
BY DEF Ref, Qr!Loaded

LEMMA QrSafeStore ==
    ASSUME QrSafe, NEW r \in Request, NEW f \in Image, Qr!Store(r, f)
    PROVE  QrSafe'
<1>1. /\ QrTyped' /\ Others(r) /\ row' = row /\ saving'[r].pc = "stored"
      /\ f \notin named /\ named' = named \cup {f} /\ image' = image \cup {f}
      /\ Own(r)' = {f} /\ Doomed(r)' = {}
  BY StoreDoes DEF QrSafe
<1>2. Ref' = Ref
  BY <1>1, RefKept
<1>3. \A x \in Request \ {r} : Own(x)' = Own(x) /\ Doomed(x)' = Doomed(x)
  BY <1>1, OwnKept DEF Others
<1>4. f # None /\ f \notin image
  BY <1>1, MarksAreNoNames DEF QrSafe, QrTyped
<1>5. f # Ref /\ \A x \in Request : f \notin Doomed(x) /\ f \notin Own(x)
  BY <1>1, <1>4 DEF QrSafe, Known, OwnIsFresh
<1>6. OwnIsFresh'
  BY <1>1, <1>2, <1>3, <1>5 DEF QrSafe, OwnIsFresh
<1>7. LetGo' /\ AllPlan'
  BY <1>1, <1>2 DEF QrSafe, LetGo, AllPlan, Plans, Others
<1>8. RefIsThere' /\ Known'
  BY <1>1, <1>2, <1>3 DEF QrSafe, RefIsThere, Known
<1> QED BY <1>1, <1>6, <1>7, <1>8 DEF QrSafe

\* A request that makes its plan: of what it owned it keeps some, and it means to delete
\* what the row refers to, or nothing.
LEMMA QrSafePlan ==
    ASSUME QrSafe, NEW r \in Request,
           QrTyped', Others(r), row' = row, image' = image, named' = named,
           saving'[r].pc = "save", Plans(saving[r])', Own(r)' \subseteq Own(r),
           Doomed(r)' \subseteq {Ref} \ {None}
    PROVE  QrSafe'
<1>1. Ref' = Ref
  BY RefKept
<1>2. \A x \in Request \ {r} : Own(x)' = Own(x) /\ Doomed(x)' = Doomed(x)
  BY OwnKept DEF Others
<1>3. OwnIsFresh'
  BY <1>1, <1>2 DEF QrSafe, OwnIsFresh
<1>4. LetGo'
  BY <1>1 DEF QrSafe, LetGo, Others
<1>5. AllPlan'
  BY DEF QrSafe, AllPlan, Plans, Others
<1>6. RefIsThere' /\ Known'
  BY <1>1, <1>2 DEF QrSafe, RefIsThere, Known
<1> QED BY <1>3, <1>4, <1>5, <1>6 DEF QrSafe

LEMMA QrSafeSetImage ==
    ASSUME QrSafe, NEW r \in Request, Qr!SetImage(r) PROVE QrSafe'
<1>1. Ref \notin Own(r)
  BY DEF QrSafe, OwnIsFresh
<1>2. /\ QrTyped' /\ Others(r) /\ row' = row /\ image' = image /\ named' = named
      /\ saving'[r].pc = "save"
      /\ saving'[r].new.ref # Ref /\ saving'[r].stale = Ref
      /\ saving'[r].old = Qr!Loaded /\ saving'[r].inserts = (row = Qr!NoRow)
      /\ Own(r)' = Own(r) /\ Doomed(r)' = {Ref} \ {None}
  BY <1>1, SetImageDoes DEF QrSafe
<1>3. Plans(saving[r])'
  BY <1>2, LoadedIs DEF Plans, QrSafe, QrTyped, Ref
<1> QED BY <1>2, <1>3, QrSafePlan

LEMMA QrSafeUpdate ==
    ASSUME QrSafe, NEW r \in Request, NEW url \in Image \cup {External, None},
           Qr!Update(r, url)
    PROVE  QrSafe'
<1>1. /\ QrTyped' /\ Others(r) /\ row' = row /\ image' = image /\ named' = named
      /\ saving'[r].pc = "save"
      /\ saving'[r].stale = IF saving'[r].new.ref = Ref THEN None ELSE Ref
      /\ saving'[r].old = Qr!Loaded /\ saving'[r].inserts = (row = Qr!NoRow)
      /\ Own(r)' = {} /\ Doomed(r)' \subseteq {Ref} \ {None}
  BY UpdateDoes DEF QrSafe
<1>2. Plans(saving[r])'
  BY <1>1, LoadedIs DEF Plans, QrSafe, QrTyped, Ref
<1> QED BY <1>1, <1>2, QrSafePlan

LEMMA QrSafeClear ==
    ASSUME QrSafe, NEW r \in Request, Qr!Clear(r) PROVE QrSafe'
<1>1. /\ QrTyped' /\ Others(r) /\ row' = row /\ image' = image /\ named' = named
      /\ saving'[r].pc = "save"
      /\ saving'[r].new.ref = None /\ saving'[r].stale = Ref
      /\ saving'[r].old = Qr!Loaded /\ saving'[r].inserts = (row = Qr!NoRow)
      /\ Own(r)' = {} /\ Doomed(r)' = {Ref} \ {None}
  BY ClearDoes DEF QrSafe
<1>2. Plans(saving[r])'
  BY <1>1, LoadedIs DEF Plans, QrSafe, QrTyped, Ref
<1> QED BY <1>1, <1>2, QrSafePlan

LEMMA QrSafeDeleteFile ==
    ASSUME QrSafe, NEW r \in Request, Qr!DeleteFile(r) PROVE QrSafe'
<1>1. /\ QrTyped' /\ Others(r) /\ row' = row /\ named' = named
      /\ saving[r].pc = "delete" /\ saving'[r].pc = "idle"
      /\ image' = image \ {saving[r].stale}
      /\ Own(r)' = {} /\ Doomed(r)' = {}
  BY DeleteFileDoes DEF QrSafe, Qr!Idle
<1>2. Ref' = Ref
  BY <1>1, RefKept
<1>3. \A x \in Request \ {r} : Own(x)' = Own(x) /\ Doomed(x)' = Doomed(x)
  BY <1>1, OwnKept DEF Others
<1>4. saving[r].stale # Ref /\ saving[r].stale \in Doomed(r)
  BY <1>1 DEF QrSafe, LetGo, Doomed
<1>5. OwnIsFresh'
  BY <1>1, <1>2, <1>3, <1>4 DEF QrSafe, OwnIsFresh
<1>6. LetGo' /\ AllPlan'
  BY <1>1, <1>2 DEF QrSafe, LetGo, AllPlan, Plans, Others
<1>7. RefIsThere' /\ Known'
  BY <1>1, <1>2, <1>3, <1>4 DEF QrSafe, RefIsThere, Known
<1> QED BY <1>1, <1>5, <1>6, <1>7 DEF QrSafe

LEMMA QrSafeCrash ==
    ASSUME QrSafe, NEW r \in Request, Qr!Crash(r) PROVE QrSafe'
<1>1. /\ QrTyped' /\ Others(r) /\ row' = row /\ image' = image /\ named' = named
      /\ saving'[r].pc = "idle" /\ Own(r)' = {} /\ Doomed(r)' = {}
  BY QrCrashDoes DEF QrSafe, Qr!Idle
<1>2. Ref' = Ref
  BY <1>1, RefKept
<1>3. \A x \in Request \ {r} : Own(x)' = Own(x) /\ Doomed(x)' = Doomed(x)
  BY <1>1, OwnKept DEF Others
<1>4. OwnIsFresh'
  BY <1>1, <1>2, <1>3 DEF QrSafe, OwnIsFresh
<1>5. LetGo' /\ AllPlan'
  BY <1>1, <1>2 DEF QrSafe, LetGo, AllPlan, Plans, Others
<1>6. RefIsThere' /\ Known'
  BY <1>1, <1>2, <1>3 DEF QrSafe, RefIsThere, Known
<1> QED BY <1>1, <1>4, <1>5, <1>6 DEF QrSafe

\* The row takes the file of the request, lets go of the one that it read, or stays.
LEMMA QrSafeSave ==
    ASSUME QrSafe, NEW r \in Request, Qr!Save(r) PROVE QrSafe'
<1>1. PICK q \in QrRequests : q = saving[r]
  BY DEF QrSafe, QrTyped
<1>2. q.pc = "save" /\ Plans(q)
  BY <1>1 DEF Qr!Save, QrSafe, AllPlan
<1>3. saving[r].inserts \/ row # Qr!NoRow
  BY <1>1, <1>2 DEF Plans
<1>4. /\ QrTyped' /\ Others(r) /\ image' = image /\ named' = named /\ row' # Qr!NoRow
      /\ Ref' = IF q.inserts THEN (IF row # Qr!NoRow THEN Ref ELSE q.new.ref)
                ELSE IF q.new.ref = q.old.ref THEN Ref ELSE q.new.ref
      /\ Own(r)' = {} /\ Doomed(r)' \subseteq {q.stale} \ {None}
      /\ \/ saving'[r].pc = "delete" /\ saving'[r].stale = q.stale /\ q.stale # None
         \/ saving'[r].pc = "idle"
  <2>1. QrTyped
    BY DEF QrSafe
  <2>2. Qr!Idle.pc = "idle"
    BY DEF Qr!Idle
  <2> QED BY <1>1, <1>3, <2>1, <2>2, SaveDoes
<1>5. \A x \in Request \ {r} : Own(x)' = Own(x) /\ Doomed(x)' = Doomed(x)
  BY <1>4, OwnKept DEF Others
<1>6. Own(r) = {q.new.ref} \ {q.old.ref, None} /\ Doomed(r) = {q.stale} \ {None}
  BY <1>1, <1>2 DEF Own, Doomed
<1>7. Ref' = Ref \/ Ref' = None \/ Ref' \in Own(r)
  BY <1>2, <1>4, <1>6, LoadedIs DEF Plans, QrSafe, QrTyped
<1>8. Ref' # None => Ref' \in image
  BY <1>7 DEF QrSafe, RefIsThere, OwnIsFresh
<1>9. OwnIsFresh'
  <2>1. \A x \in Request : Own(x)' \subseteq Own(x) /\ Doomed(x)' \subseteq Doomed(x)
    BY <1>4, <1>5, <1>6
  <2>2. \A x \in Request : None \notin Own(x)
    BY MarksAreNoNames DEF QrSafe, QrTyped, OwnIsFresh
  <2>3. \A x \in Request : Ref' \notin Own(x)'
    BY <1>4, <1>5, <1>7, <2>2 DEF QrSafe, OwnIsFresh
  <2> QED BY <1>4, <2>1, <2>3 DEF QrSafe, OwnIsFresh
<1>10. \A x \in Request \ {r} : saving[x].pc = "delete" => saving[x].stale \notin {Ref', None}
  BY <1>7 DEF QrSafe, LetGo, OwnIsFresh, Doomed
<1>11. LetGo'
  <2>1. saving'[r].pc = "delete" => saving'[r].stale \notin {Ref', None}
    BY <1>2, <1>4 DEF Plans
  <2> QED BY <1>4, <1>10, <2>1 DEF LetGo, Others
<1>12. AllPlan'
  BY <1>4 DEF QrSafe, AllPlan, Plans, Others
<1>13. RefIsThere' /\ Known'
  BY <1>4, <1>5, <1>6, <1>7, <1>8 DEF QrSafe, RefIsThere, Known, OwnIsFresh, QrTyped
<1> QED BY <1>4, <1>9, <1>11, <1>12, <1>13 DEF QrSafe

LEMMA QrSafeStutter == ASSUME QrSafe, UNCHANGED Qr!vars PROVE QrSafe'
BY DEF Qr!vars, QrSafe, QrTyped, OwnIsFresh, LetGo, AllPlan, Plans, RefIsThere, Known, Own,
       Doomed, Ref, Qr!Loaded

LEMMA QrSafeNext == ASSUME QrSafe, [Qr!Next]_(Qr!vars) PROVE QrSafe'
<1>1. named \subseteq Image
  BY DEF QrSafe, QrTyped
<1> QED
  BY <1>1, QrSafeStore, QrSafeUpdate, QrSafeSetImage, QrSafeClear, QrSafeSave,
     QrSafeDeleteFile, QrSafeCrash, QrSafeStutter
     DEF Qr!Next

-----------------------------------------------------------------------------
(* Where nothing has overlapped or died, the file of the row is the only one. *)

Working(r) == saving[r] # Qr!Idle

\* One request at a time; what it read is so; and every file is the row's, or the request
\* has stored it or means to delete it.
Tidy == /\ \A r, x \in Request : Working(r) /\ Working(x) => r = x
        /\ \A r \in Request : saving[r].pc = "save" =>
              saving[r].old = Qr!Loaded /\ (saving[r].inserts <=> row = Qr!NoRow)
        /\ \A f \in image : f = Ref \/ \E r \in Request : f \in Own(r) \cup Doomed(r)

QrInv == QrSafe /\ (~clouded => Tidy)

LEMMA QrInvInit == Qr!Init => QrInv
<1> SUFFICES ASSUME Qr!Init PROVE Tidy
  BY QrSafeInit DEF QrInv
<1>1. image = {} /\ \A r \in Request : saving[r].pc = "idle" /\ ~Working(r)
  BY DEF Qr!Init, Qr!Idle, Working
<1> QED BY <1>1 DEF Tidy

\* A request that starts where none is.
LEMMA EnterClean ==
    ASSUME NEW r \in Request, NEW q, Qr!Enter(r, q), ~clouded'
    PROVE  ~clouded /\ \A x \in Request : ~Working(x)
BY DEF Qr!Enter, Qr!InUse, Working

LEMMA NobodyWorks ==
    ASSUME Tidy, \A x \in Request : ~Working(x)
    PROVE  /\ \A f \in image : f = Ref
           /\ \A x \in Request : saving[x].pc = "idle" /\ Own(x) = {} /\ Doomed(x) = {}
<1>1. \A x \in Request : saving[x].pc = "idle"
  BY DEF Working, Qr!Idle
<1>2. \A x \in Request : Own(x) = {} /\ Doomed(x) = {}
  BY <1>1 DEF Own, Doomed
<1> QED BY <1>1, <1>2 DEF Tidy

\* The one that starts is the one there is.
LEMMA TidyStart ==
    ASSUME Tidy, \A x \in Request : ~Working(x), NEW r \in Request, Others(r), row' = row,
           saving'[r].pc = "save" => saving'[r].old = Qr!Loaded
                                     /\ (saving'[r].inserts <=> row = Qr!NoRow),
           image' \subseteq image \cup Own(r)'
    PROVE  Tidy'
<1>1. Ref' = Ref /\ Qr!Loaded' = Qr!Loaded
  BY RefKept
<1>2. \A x \in Request \ {r} : ~Working(x)' /\ saving'[x].pc = "idle"
  BY NobodyWorks DEF Others, Working
<1>3. \A f \in image' : f = Ref \/ f \in Own(r)'
  BY NobodyWorks
<1> QED BY <1>1, <1>2, <1>3 DEF Tidy

LEMMA TidyStore ==
    ASSUME QrInv, NEW r \in Request, NEW f \in Image, Qr!Store(r, f), ~clouded'
    PROVE  Tidy'
<1>1. ~clouded /\ \A x \in Request : ~Working(x)
  BY EnterClean DEF Qr!Store
<1>2. /\ Others(r) /\ row' = row /\ saving'[r].pc = "stored"
      /\ image' = image \cup {f} /\ Own(r)' = {f}
  BY StoreDoes DEF QrInv, QrSafe
<1> QED BY <1>1, <1>2, TidyStart DEF QrInv

LEMMA TidyUpdate ==
    ASSUME QrInv, NEW r \in Request, NEW url \in Image \cup {External, None},
           Qr!Update(r, url), ~clouded'
    PROVE  Tidy'
<1>1. ~clouded /\ \A x \in Request : ~Working(x)
  BY EnterClean DEF Qr!Update
<1>2. /\ Others(r) /\ row' = row /\ image' = image
      /\ saving'[r].old = Qr!Loaded /\ saving'[r].inserts = (row = Qr!NoRow)
  BY UpdateDoes DEF QrInv, QrSafe
<1> QED BY <1>1, <1>2, TidyStart DEF QrInv

LEMMA TidyClear ==
    ASSUME QrInv, NEW r \in Request, Qr!Clear(r), ~clouded'
    PROVE  Tidy'
<1>1. ~clouded /\ \A x \in Request : ~Working(x)
  BY EnterClean DEF Qr!Clear
<1>2. /\ Others(r) /\ row' = row /\ image' = image
      /\ saving'[r].old = Qr!Loaded /\ saving'[r].inserts = (row = Qr!NoRow)
  BY ClearDoes DEF QrInv, QrSafe
<1> QED BY <1>1, <1>2, TidyStart DEF QrInv

\* The one that works goes on.
LEMMA TidySetImage ==
    ASSUME QrInv, NEW r \in Request, Qr!SetImage(r), ~clouded'
    PROVE  Tidy'
<1>1. Ref \notin Own(r) /\ QrTyped
  BY DEF QrInv, QrSafe, OwnIsFresh
<1>2. /\ Others(r) /\ row' = row /\ image' = image
      /\ saving[r].pc = "stored" /\ saving'[r].pc = "save"
      /\ saving'[r].old = Qr!Loaded /\ saving'[r].inserts = (row = Qr!NoRow)
      /\ Own(r)' = Own(r)
  BY <1>1, SetImageDoes
<1>3. Tidy
  BY DEF QrInv, Qr!SetImage
<1>4. Working(r) /\ Ref' = Ref /\ Qr!Loaded' = Qr!Loaded /\ Doomed(r) = {}
  BY <1>2, RefKept DEF Working, Qr!Idle, Doomed
<1>5. \A x \in Request \ {r} :
          /\ saving'[x] = saving[x] /\ ~Working(x)' /\ saving'[x].pc = "idle"
          /\ Own(x)' = Own(x) /\ Doomed(x)' = Doomed(x)
  BY <1>2, <1>3, <1>4, OwnKept DEF Tidy, Others, Working, Qr!Idle
<1>6. \A x \in Request : Own(x) \cup Doomed(x) \subseteq Own(x)' \cup Doomed(x)'
  BY <1>2, <1>4, <1>5
<1>7. \A f \in image' : f = Ref' \/ \E x \in Request : f \in Own(x)' \cup Doomed(x)'
  BY <1>2, <1>3, <1>4, <1>6 DEF Tidy
<1>8. \A x, y \in Request : Working(x)' /\ Working(y)' => x = y
  BY <1>5
<1> QED BY <1>2, <1>4, <1>5, <1>7, <1>8 DEF Tidy

LEMMA TidySave ==
    ASSUME QrInv, NEW r \in Request, Qr!Save(r), ~clouded'
    PROVE  Tidy'
<1>1. PICK q \in QrRequests : q = saving[r]
  BY DEF QrInv, QrSafe, QrTyped
<1>2. Tidy
  BY DEF QrInv, Qr!Save
<1>3. q.pc = "save" /\ Plans(q) /\ q.old.ref = Ref /\ (q.inserts <=> row = Qr!NoRow)
  BY <1>1, <1>2 DEF Qr!Save, QrInv, QrSafe, AllPlan, Tidy, Ref
<1>4. /\ Others(r) /\ image' = image /\ row' # Qr!NoRow
      /\ Ref' = IF q.inserts THEN (IF row # Qr!NoRow THEN Ref ELSE q.new.ref)
                ELSE IF q.new.ref = q.old.ref THEN Ref ELSE q.new.ref
      /\ Doomed(r)' = IF q.inserts /\ row # Qr!NoRow THEN {} ELSE {q.stale} \ {None}
      /\ saving'[r].pc # "save"
  <2>1. saving[r].inserts \/ row # Qr!NoRow
    BY <1>1, <1>3
  <2>2. QrTyped /\ Qr!Idle.pc = "idle"
    BY DEF QrInv, QrSafe, Qr!Idle
  <2> QED BY <1>1, <2>1, <2>2, SaveDoes
<1>5. Ref' = q.new.ref /\ Doomed(r)' = {q.stale} \ {None}
  BY <1>3, <1>4
<1>6. Working(r) /\ Own(r) = {q.new.ref} \ {q.old.ref, None} /\ Doomed(r) = {q.stale} \ {None}
  BY <1>1, <1>3 DEF Working, Qr!Idle, Own, Doomed
<1>7. \A x \in Request \ {r} :
          /\ ~Working(x)' /\ saving'[x].pc = "idle" /\ Own(x) = {} /\ Doomed(x) = {}
  <2>1. \A x \in Request \ {r} : ~Working(x) /\ saving'[x] = saving[x]
    BY <1>2, <1>4, <1>6 DEF Tidy, Others
  <2>2. \A x \in Request \ {r} : saving[x].pc = "idle" /\ ~Working(x)'
    BY <2>1 DEF Working, Qr!Idle
  <2> QED BY <2>1, <2>2 DEF Own, Doomed
<1>8. ASSUME NEW f \in image PROVE f = Ref' \/ f \in Doomed(r)'
  <2>1. f = Ref \/ f \in Own(r) \/ f \in Doomed(r)
    BY <1>2, <1>7 DEF Tidy
  <2>2. f # None
    BY MarksAreNoNames DEF QrInv, QrSafe, QrTyped
  <2> QED BY <1>3, <1>5, <1>6, <2>1, <2>2 DEF Plans
<1> QED BY <1>4, <1>7, <1>8 DEF Tidy

LEMMA TidyDeleteFile ==
    ASSUME QrInv, NEW r \in Request, Qr!DeleteFile(r), ~clouded'
    PROVE  Tidy'
<1>1. /\ Others(r) /\ row' = row /\ saving[r].pc = "delete" /\ saving'[r] = Qr!Idle
      /\ image' = image \ {saving[r].stale}
  BY DeleteFileDoes DEF QrInv, QrSafe
<1>2. Tidy
  BY DEF QrInv, Qr!DeleteFile
<1>3. Working(r) /\ Own(r) = {} /\ Doomed(r) \subseteq {saving[r].stale} /\ Ref' = Ref
  BY <1>1, RefKept DEF Working, Qr!Idle, Own, Doomed
<1>4. \A x \in Request \ {r} : ~Working(x) /\ saving'[x] = saving[x]
  BY <1>1, <1>2, <1>3 DEF Tidy, Others
<1>5. \A x \in Request : ~Working(x)'
  BY <1>1, <1>4 DEF Working
<1>6. \A x \in Request \ {r} : Own(x) = {} /\ Doomed(x) = {}
  BY <1>4 DEF Working, Own, Doomed, Qr!Idle
<1>7. \A f \in image' : f = Ref
  BY <1>1, <1>2, <1>3, <1>6 DEF Tidy
<1>8. \A x \in Request : saving'[x].pc = "idle"
  BY <1>5 DEF Working, Qr!Idle
<1> QED BY <1>3, <1>5, <1>7, <1>8 DEF Tidy

LEMMA QrInvNext == ASSUME QrInv, [Qr!Next]_(Qr!vars) PROVE QrInv'
<1>1. QrSafe'
  BY QrSafeNext DEF QrInv
<1>2. ASSUME ~clouded' PROVE Tidy'
  <2>1. CASE UNCHANGED Qr!vars
    BY <1>2, <2>1 DEF Qr!vars, QrInv, Tidy, Working, Own, Doomed, Ref, Qr!Loaded
  <2>2. ASSUME NEW r \in Request, Qr!Crash(r) PROVE FALSE
    BY <1>2, <2>2 DEF Qr!Crash
  <2>3. named \subseteq Image
    BY DEF QrInv, QrSafe, QrTyped
  <2> QED
    BY <1>2, <2>1, <2>2, <2>3, TidyStore, TidyUpdate, TidyClear, TidySetImage, TidySave,
       TidyDeleteFile
       DEF Qr!Next
<1> QED BY <1>1, <1>2 DEF QrInv

\* The file that the row of the payment QR refers to is there, whatever requests overlap or die
\* between their commit and their unlink; and where none has, no other file is left
\* (PaymentSettingsService deletes what it lets go of after the commit).
THEOREM OneImageIsKept == Qr!Spec => []OneImage
<1>1. QrInv /\ [Qr!Next]_(Qr!vars) => QrInv'
  BY QrInvNext
<1>2. QrInv => OneImage
  <2> SUFFICES ASSUME QrInv PROVE OneImage
    OBVIOUS
  <2>1. Ref # None => Ref \in image
    BY DEF QrInv, QrSafe, RefIsThere
  <2>2. ASSUME ~clouded, ~Qr!InUse PROVE image \subseteq {Ref}
    <3>1. \A x \in Request : ~Working(x)
      BY <2>2 DEF Qr!InUse, Working
    <3> QED BY <2>2, <3>1, NobodyWorks DEF QrInv
  <2> QED BY <2>1, <2>2 DEF OneImage, Qr!OneImage, Ref
<1> QED
  BY <1>1, <1>2, QrInvInit, PTL DEF Qr!Spec

(***************************************************************************)
(* The links of a service.                                                 *)
(***************************************************************************)
LinkRows == [service : Service, orden : Lnk!Orden, at : Nat]
LinkOps  == {Lnk!Idle} \cup [pc : {"create"}, service : Service, orden : Lnk!Orden, at : Nat]
               \cup [pc : {"update"}, link : ServiceLink, orden : Lnk!Orden]
               \cup [pc : {"delete"}, link : ServiceLink, orden : {0}]

LinksTyped == /\ slink \in [ServiceLink -> LinkRows \cup {Lnk!NoLink}]
              /\ writing \in [Request -> LinkOps]
              /\ touches \in Nat

\* A creation that has counted has its place: there is room for it, but for those that counted
\* with it.
Room(s) == Cardinality(Lnk!LinksOf(s)) + Cardinality(Lnk!Creating(s))
Roomy   == \A s \in Service : /\ s \notin crowded => Room(s) <= MaxLinks
                              /\ Room(s) <= MaxLinks + Cardinality(Request) - 1

LinksInv == LinksTyped /\ Roomy

LEMMA LinkOpIs ==
    ASSUME NEW q \in LinkOps
    PROVE  /\ q.pc = "create" => q.service \in Service /\ q.orden \in Lnk!Orden /\ q.at \in Nat
           /\ q.pc \in {"update", "delete"} => q.link \in ServiceLink
           /\ q.pc = "update" => q.orden \in Lnk!Orden
           /\ q = Lnk!Idle => q.pc = "idle"
BY DEF LinkOps, Lnk!Idle

LEMMA LinkRowIs ==
    ASSUME NEW k \in LinkRows \cup {Lnk!NoLink}, k # Lnk!NoLink, NEW o \in Lnk!Orden
    PROVE  /\ [k EXCEPT !.orden = o] \in LinkRows
           /\ [k EXCEPT !.orden = o].service = k.service
BY DEF LinkRows

LEMMA LinkRowIsRow == ASSUME NEW k \in LinkRows PROVE k # Lnk!NoLink
BY DEF LinkRows, Lnk!NoLink, Lnk!Orden

\* An instance has its own name for what its module extends.
LEMMA SameCount == ASSUME NEW S PROVE Lnk!Cardinality(S) = Cardinality(S)
BY DEF Lnk!Cardinality, Cardinality

LEMMA FewSets ==
    ASSUME NEW s
    PROVE  /\ IsFiniteSet(Lnk!LinksOf(s)) /\ IsFiniteSet(Lnk!Creating(s))
           /\ Cardinality(Lnk!LinksOf(s)) \in Nat /\ Cardinality(Lnk!Creating(s)) \in Nat
           /\ Cardinality(Lnk!Creating(s)) <= Cardinality(Request)
           /\ Cardinality(Request) \in Nat
<1>1. Lnk!LinksOf(s) \subseteq ServiceLink /\ Lnk!Creating(s) \subseteq Request
  BY DEF Lnk!LinksOf, Lnk!Creating
<1> QED BY <1>1, FinitelyManyMore, FS_Subset, FS_CardinalityType

LEMMA LinksInvInit == Lnk!Init => LinksInv
<1> SUFFICES ASSUME Lnk!Init PROVE LinksInv
  OBVIOUS
<1>1. LinksTyped
  BY DEF Lnk!Init, LinksTyped, LinkOps
<1>2. \A s \in Service : Lnk!LinksOf(s) = {} /\ Lnk!Creating(s) = {}
  BY DEF Lnk!Init, Lnk!LinksOf, Lnk!Creating, Lnk!Alive, Lnk!Idle
<1>3. \A s \in Service : Room(s) = 0
  BY <1>2, FS_EmptySet DEF Room
<1>4. Cardinality(Request) \in Nat
  BY FinitelyManyMore, FS_CardinalityType
<1> QED BY <1>1, <1>3, <1>4, LinksAreAllowed DEF LinksInv, Roomy

\* A step that takes links or requests away, or none.
LEMMA RoomyShrinks ==
    ASSUME Roomy, crowded' = crowded,
           \A s \in Service : Lnk!LinksOf(s)' \subseteq Lnk!LinksOf(s)
                              /\ Lnk!Creating(s)' \subseteq Lnk!Creating(s)
    PROVE  Roomy'
<1> SUFFICES ASSUME NEW s \in Service
             PROVE  /\ s \notin crowded' => Room(s)' <= MaxLinks
                    /\ Room(s)' <= MaxLinks + Cardinality(Request) - 1
  BY DEF Roomy
<1>1. PICK a, b, c, d \in Nat : /\ a = Cardinality(Lnk!LinksOf(s))
                                /\ b = Cardinality(Lnk!Creating(s))
                                /\ c = Cardinality(Lnk!LinksOf(s))'
                                /\ d = Cardinality(Lnk!Creating(s))'
                                /\ c <= a /\ d <= b
  <2>1. /\ Cardinality(Lnk!LinksOf(s)) \in Nat /\ Cardinality(Lnk!LinksOf(s))' \in Nat
        /\ Cardinality(Lnk!Creating(s)) \in Nat /\ Cardinality(Lnk!Creating(s))' \in Nat
        /\ Cardinality(Lnk!LinksOf(s))' <= Cardinality(Lnk!LinksOf(s))
        /\ Cardinality(Lnk!Creating(s))' <= Cardinality(Lnk!Creating(s))
    BY FewSets, FS_Subset, FS_CardinalityType
  <2> QED BY <2>1
<1>2. Room(s) = a + b /\ Room(s)' = c + d
  BY <1>1 DEF Room
<1>3. Cardinality(Request) \in Nat /\ MaxLinks \in Nat
  BY FewSets, LinksAreAllowed
<1>4. (s \notin crowded => a + b <= MaxLinks) /\ a + b <= MaxLinks + Cardinality(Request) - 1
  BY <1>2 DEF Roomy
<1>5. (s \notin crowded => c + d <= MaxLinks) /\ c + d <= MaxLinks + Cardinality(Request) - 1
  BY <1>1, <1>3, <1>4
<1> QED BY <1>2, <1>5

LEMMA LinksCount ==
    ASSUME LinksInv, NEW r \in Request, NEW s \in Service, NEW o \in Lnk!Orden,
           Lnk!CountLinks(r, s, o)
    PROVE  LinksInv'
<1>1. PICK q \in LinkOps : q = [pc |-> "create", service |-> s, orden |-> o, at |-> touches]
  BY DEF LinkOps, LinksInv, LinksTyped
<1>2. /\ writing[r] = Lnk!Idle /\ writing' = [writing EXCEPT ![r] = q] /\ touches' = touches + 1
      /\ slink' = slink /\ Cardinality(Lnk!LinksOf(s)) < MaxLinks
      /\ crowded' = IF Lnk!Creating(s) = {} THEN crowded ELSE crowded \cup {s}
  <2>1. slink' = slink /\ Cardinality(Lnk!LinksOf(s)) < MaxLinks
    BY SameCount DEF Lnk!CountLinks, Lnk!RoomFor
  <2>2. crowded' = IF Lnk!Creating(s) = {} THEN crowded ELSE crowded \cup {s}
    BY DEF Lnk!CountLinks
  <2>3. writing[r] = Lnk!Idle /\ writing' = [writing EXCEPT ![r] = q] /\ touches' = touches + 1
    BY <1>1 DEF Lnk!CountLinks, Lnk!Enter
  <2> QED BY <2>1, <2>2, <2>3
<1>3. q.pc = "create" /\ q.service = s /\ writing[r].pc = "idle"
  BY <1>1, <1>2 DEF Lnk!Idle
<1>4. LinksTyped'
  BY <1>2 DEF LinksInv, LinksTyped
<1>5. \A x \in Service : Lnk!LinksOf(x)' = Lnk!LinksOf(x)
  BY <1>2 DEF Lnk!LinksOf, Lnk!Alive
<1>6. r \notin Lnk!Creating(s) /\ Lnk!Creating(s)' = Lnk!Creating(s) \cup {r}
      /\ \A x \in Service \ {s} : Lnk!Creating(x)' = Lnk!Creating(x)
  BY <1>2, <1>3 DEF Lnk!Creating, LinksInv, LinksTyped
<1>7. PICK a, b, c, d \in Nat :
          /\ a = Cardinality(Lnk!LinksOf(s)) /\ b = Cardinality(Lnk!Creating(s))
          /\ c = Cardinality(Lnk!Creating(s))' /\ c = b + 1
          /\ d = Cardinality(Request) /\ c <= d
  <2>1. Cardinality(Lnk!Creating(s) \cup {r}) = Cardinality(Lnk!Creating(s)) + 1
    BY <1>6, FewSets, FS_AddElement
  <2>2. Lnk!Creating(s)' \subseteq Request
    BY DEF Lnk!Creating
  <2>3. Cardinality(Lnk!Creating(s)') <= Cardinality(Request)
    BY <2>2, FinitelyManyMore, FS_Subset
  <2>4. Cardinality(Lnk!Creating(s))' = Cardinality(Lnk!Creating(s)) + 1
    BY <1>6, <2>1
  <2> QED BY <2>3, <2>4, FewSets
<1>8. ASSUME NEW x \in Service
      PROVE  /\ x \notin crowded' => Room(x)' <= MaxLinks
             /\ Room(x)' <= MaxLinks + Cardinality(Request) - 1
  <2>1. CASE x # s
    <3>1. Room(x)' = Room(x)
      BY <1>5, <1>6, <2>1 DEF Room
    <3>2. x \notin crowded' => x \notin crowded
      BY <1>2
    <3> QED BY <3>1, <3>2 DEF LinksInv, Roomy
  <2>2. CASE x = s
    <3>1. Room(s)' = a + c /\ a < MaxLinks
      BY <1>2, <1>5, <1>7 DEF Room
    <3>2. s \notin crowded' => b = 0
      BY <1>2, <1>7, FS_EmptySet
    <3>3. (s \notin crowded' => a + c <= MaxLinks) /\ a + c <= MaxLinks + d - 1
      BY <1>7, <3>1, <3>2, LinksAreAllowed
    <3> QED BY <1>7, <2>2, <3>1, <3>3
  <2> QED BY <2>1, <2>2
<1> QED BY <1>4, <1>8 DEF LinksInv, Roomy

LEMMA LinksAdd ==
    ASSUME LinksInv, NEW r \in Request, NEW l \in ServiceLink, Lnk!Add(r, l)
    PROVE  LinksInv'
<1>1. PICK q \in LinkOps : q = writing[r]
  BY DEF LinksInv, LinksTyped
<1>2. q.pc = "create" /\ q.service \in Service /\ q.orden \in Lnk!Orden /\ q.at \in Nat
  BY <1>1, LinkOpIs DEF Lnk!Add
<1>3. PICK k \in LinkRows : k = [service |-> q.service, orden |-> q.orden, at |-> q.at]
  BY <1>2 DEF LinkRows
<1>4. /\ slink[l] = Lnk!NoLink /\ slink' = [slink EXCEPT ![l] = k]
      /\ writing' = [writing EXCEPT ![r] = Lnk!Idle]
      /\ crowded' = crowded /\ touches' = touches
  BY <1>1, <1>3 DEF Lnk!Add, Lnk!Alive
<1>5. PICK s \in Service : s = q.service /\ k.service = s
  BY <1>2, <1>3
<1>6. k # Lnk!NoLink /\ Lnk!Idle \in LinkOps /\ Lnk!Idle.pc = "idle"
  BY LinkRowIsRow DEF LinkOps, Lnk!Idle
<1>7. LinksTyped'
  BY <1>4, <1>6 DEF LinksInv, LinksTyped
<1>8. /\ l \notin Lnk!LinksOf(s) /\ Lnk!LinksOf(s)' = Lnk!LinksOf(s) \cup {l}
      /\ \A x \in Service \ {s} : Lnk!LinksOf(x)' = Lnk!LinksOf(x)
  BY <1>4, <1>5, <1>6 DEF Lnk!LinksOf, Lnk!Alive, LinksInv, LinksTyped
<1>9. /\ r \in Lnk!Creating(s) /\ Lnk!Creating(s)' = Lnk!Creating(s) \ {r}
      /\ \A x \in Service \ {s} : Lnk!Creating(x)' = Lnk!Creating(x)
  BY <1>1, <1>2, <1>4, <1>5, <1>6 DEF Lnk!Creating, LinksInv, LinksTyped
<1>10. Room(s)' = Room(s)
  <2>1. Cardinality(Lnk!LinksOf(s) \cup {l}) = Cardinality(Lnk!LinksOf(s)) + 1
    BY <1>8, FewSets, FS_AddElement
  <2>2. Cardinality(Lnk!Creating(s) \ {r}) = Cardinality(Lnk!Creating(s)) - 1
    BY <1>9, FewSets, FS_RemoveElement
  <2>3. /\ Cardinality(Lnk!LinksOf(s))' = Cardinality(Lnk!LinksOf(s)) + 1
        /\ Cardinality(Lnk!Creating(s))' = Cardinality(Lnk!Creating(s)) - 1
    BY <1>8, <1>9, <2>1, <2>2
  <2> QED BY <2>3, FewSets DEF Room
<1>11. \A x \in Service : Room(x)' = Room(x)
  BY <1>8, <1>9, <1>10 DEF Room
<1> QED BY <1>4, <1>7, <1>11 DEF LinksInv, Roomy

LEMMA LinksLoad ==
    ASSUME LinksInv, NEW r \in Request, NEW l \in ServiceLink, NEW pc \in {"update", "delete"},
           NEW o \in Nat, IF pc = "delete" THEN o = 0 ELSE o \in Lnk!Orden,
           Lnk!LoadLink(r, l, pc, o)
    PROVE  LinksInv'
<1>1. PICK q \in LinkOps : q = [pc |-> pc, link |-> l, orden |-> o] /\ q.pc = pc
  <2>1. [pc |-> pc, link |-> l, orden |-> o] \in LinkOps
    BY DEF LinkOps
  <2> QED BY <2>1
<1>2. /\ writing[r] = Lnk!Idle /\ writing' = [writing EXCEPT ![r] = q] /\ touches' = touches + 1
      /\ slink' = slink /\ crowded' = crowded
  BY <1>1 DEF Lnk!LoadLink, Lnk!Enter
<1>3. LinksTyped'
  BY <1>2 DEF LinksInv, LinksTyped
<1>4. \A x \in Service : Lnk!LinksOf(x)' \subseteq Lnk!LinksOf(x)
  BY <1>2 DEF Lnk!LinksOf, Lnk!Alive
<1>5. \A x \in Service : Lnk!Creating(x)' \subseteq Lnk!Creating(x)
  BY <1>1, <1>2 DEF Lnk!Creating, LinksInv, LinksTyped
<1> QED BY <1>2, <1>3, <1>4, <1>5, RoomyShrinks DEF LinksInv

LEMMA LinksUpdate ==
    ASSUME LinksInv, NEW r \in Request, Lnk!UpdateLink(r)
    PROVE  LinksInv'
<1>1. PICK q \in LinkOps : q = writing[r]
  BY DEF LinksInv, LinksTyped
<1>2. PICK l \in ServiceLink, o \in Lnk!Orden : l = q.link /\ o = q.orden
  BY <1>1, LinkOpIs DEF Lnk!UpdateLink
<1>3. PICK k : k = [slink[l] EXCEPT !.orden = o]
  OBVIOUS
<1>4. /\ slink' = IF slink[l] # Lnk!NoLink THEN [slink EXCEPT ![l] = k] ELSE slink
      /\ writing' = [writing EXCEPT ![r] = Lnk!Idle] /\ crowded' = crowded /\ touches' = touches
  <2>1. [slink EXCEPT ![l].orden = o] = [slink EXCEPT ![l] = k]
    BY <1>3
  <2> QED BY <1>1, <1>2, <2>1 DEF Lnk!UpdateLink, Lnk!Alive
<1>5. slink[l] # Lnk!NoLink => k \in LinkRows /\ k.service = slink[l].service
  BY <1>3, LinkRowIs DEF LinksInv, LinksTyped
<1>6. Lnk!Idle \in LinkOps /\ Lnk!Idle.pc = "idle"
  BY DEF LinkOps, Lnk!Idle
<1>7. LinksTyped'
  BY <1>4, <1>5, <1>6 DEF LinksInv, LinksTyped
<1>8. \A x \in Service : Lnk!LinksOf(x)' \subseteq Lnk!LinksOf(x)
  BY <1>4, <1>5 DEF Lnk!LinksOf, Lnk!Alive, LinksInv, LinksTyped
<1>9. \A x \in Service : Lnk!Creating(x)' \subseteq Lnk!Creating(x)
  BY <1>4, <1>6 DEF Lnk!Creating, LinksInv, LinksTyped
<1> QED BY <1>4, <1>7, <1>8, <1>9, RoomyShrinks DEF LinksInv

LEMMA LinksDelete ==
    ASSUME LinksInv, NEW r \in Request, Lnk!DeleteLink(r)
    PROVE  LinksInv'
<1>1. writing[r].pc = "delete" /\ writing[r] \in LinkOps
  BY DEF Lnk!DeleteLink, LinksInv, LinksTyped
<1>2. PICK l \in ServiceLink : l = writing[r].link
  BY <1>1, LinkOpIs
<1>3. /\ slink' = [slink EXCEPT ![l] = Lnk!NoLink]
      /\ writing' = [writing EXCEPT ![r] = Lnk!Idle] /\ crowded' = crowded /\ touches' = touches
  BY <1>2 DEF Lnk!DeleteLink
<1>4. Lnk!Idle \in LinkOps /\ Lnk!Idle.pc = "idle"
  BY DEF LinkOps, Lnk!Idle
<1>5. LinksTyped'
  BY <1>3, <1>4 DEF LinksInv, LinksTyped
<1>6. \A x \in Service : Lnk!LinksOf(x)' \subseteq Lnk!LinksOf(x)
  BY <1>3 DEF Lnk!LinksOf, Lnk!Alive, LinksInv, LinksTyped
<1>7. \A x \in Service : Lnk!Creating(x)' \subseteq Lnk!Creating(x)
  BY <1>3, <1>4 DEF Lnk!Creating, LinksInv, LinksTyped
<1> QED BY <1>3, <1>5, <1>6, <1>7, RoomyShrinks DEF LinksInv

LEMMA LinksNext == ASSUME LinksInv, [Lnk!Next]_(Lnk!vars) PROVE LinksInv'
<1>1. ASSUME UNCHANGED <<slink, writing, crowded>>, touches' \in Nat PROVE LinksInv'
  <2>1. \A x \in Service : Lnk!LinksOf(x)' = Lnk!LinksOf(x) /\ Lnk!Creating(x)' = Lnk!Creating(x)
    BY <1>1 DEF Lnk!LinksOf, Lnk!Alive, Lnk!Creating
  <2>2. LinksTyped'
    BY <1>1 DEF LinksInv, LinksTyped
  <2> QED BY <1>1, <2>1, <2>2, RoomyShrinks DEF LinksInv
<1>2. ASSUME NEW s \in Service, Lnk!DeleteService(s) PROVE LinksInv'
  BY <1>1, <1>2 DEF Lnk!DeleteService, LinksInv, LinksTyped
<1>3. ASSUME UNCHANGED Lnk!vars PROVE LinksInv'
  BY <1>1, <1>3 DEF Lnk!vars, LinksInv, LinksTyped
<1>4. ASSUME NEW r \in Request, NEW l \in ServiceLink, Lnk!LoadLink(r, l, "delete", 0)
      PROVE  LinksInv'
  <2>1. 0 \in Nat /\ "delete" \in {"update", "delete"}
    OBVIOUS
  <2> QED BY <1>4, <2>1, LinksLoad
<1>5. ASSUME NEW r \in Request, NEW l \in ServiceLink, NEW o \in Lnk!Orden,
             Lnk!LoadLink(r, l, "update", o)
      PROVE  LinksInv'
  <2>1. o \in Nat
    BY DEF Lnk!Orden
  <2> QED BY <1>5, <2>1, LinksLoad
<1> QED
  BY <1>2, <1>3, <1>4, <1>5, LinksCount, LinksAdd, LinksUpdate, LinksDelete DEF Lnk!Next

\* A service holds no more links than are allowed unless creations of it counted at once, and
\* then no more than by the other requests there can be, whatever is edited and deleted
\* meanwhile (ServiceLinkService counts and then inserts, with no lock between).
THEOREM LinksStayWithinReach == Lnk!Spec => []LinksWithinReach
<1>1. LinksInv /\ [Lnk!Next]_(Lnk!vars) => LinksInv'
  BY LinksNext
<1>2. LinksInv => LinksWithinReach
  <2> SUFFICES ASSUME LinksInv, NEW s \in Service
               PROVE  /\ s \notin crowded => Room(s) <= MaxLinks
                      /\ Cardinality(Lnk!LinksOf(s)) <= MaxLinks + Cardinality(Request) - 1
    BY SameCount DEF LinksWithinReach, Lnk!LinksWithinReach, Room
  <2>1. /\ s \notin crowded => Room(s) <= MaxLinks
        /\ Room(s) <= MaxLinks + Cardinality(Request) - 1
    BY DEF LinksInv, Roomy
  <2>2. PICK a, b \in Nat : a = Cardinality(Lnk!LinksOf(s)) /\ b = Cardinality(Lnk!Creating(s))
    BY FewSets
  <2>3. Room(s) = a + b
    BY <2>2 DEF Room
  <2>4. MaxLinks \in Nat /\ Cardinality(Request) \in Nat
    BY FewSets, LinksAreAllowed
  <2> QED BY <2>1, <2>2, <2>3, <2>4
<1> QED
  BY <1>1, <1>2, LinksInvInit, PTL DEF Lnk!Spec

(***************************************************************************)
(* The catalogue and its snapshot.                                         *)
(***************************************************************************)
CatRequests ==
    {Cat!Idle} \cup [pc : {"upload"}, asset : Asset, alone : BOOLEAN]
       \cup [pc : {"changed", "read"}, held : SUBSET Cat!Config, drop : SUBSET Asset,
             alone : BOOLEAN]
       \cup [pc : {"write"}, old : Cat!Config, new : Cat!Config, sync : BOOLEAN,
             drop : SUBSET Asset, alone : BOOLEAN]
       \cup [pc : {"unlink"}, drop : SUBSET Asset, alone : BOOLEAN]

\* An event that takes people is one of a service; a request that projects has read the agent.
RowsTyped  == /\ service \in [Service -> Cat!Services]
              /\ category \subseteq Category
              /\ asset \in [Asset -> Cat!Assets]
              /\ event \in [Event -> Cat!Events]
              /\ \A v \in Event : event[v].state = "none" \/ event[v].service \in Service
EditsTyped == /\ edit \in [Request -> CatRequests]
              /\ \A e \in Request : edit[e].pc = "read" => edit[e].held # {}
CatTyped   == RowsTyped /\ EditsTyped /\ config \in Cat!Config

Busy(e)    == edit[e] # Cat!Idle
ByItself(e) == Busy(e) /\ edit[e].alone
Uploads(e) == IF edit[e].pc = "upload" THEN {edit[e].asset} ELSE {}
Drop(e)    == IF edit[e].pc \in {"changed", "read", "write", "unlink"} THEN edit[e].drop ELSE {}

LEMMA CatRequestIs ==
    ASSUME NEW q \in CatRequests
    PROVE  /\ q.pc \in {"idle", "upload", "changed", "read", "write", "unlink"}
           /\ q.pc = "idle" <=> q = Cat!Idle
           /\ q.pc # "idle" => q.alone \in BOOLEAN
           /\ q.pc = "upload" => q.asset \in Asset
           /\ q.pc \in {"changed", "read", "write", "unlink"} => q.drop \in SUBSET Asset
           /\ q.pc \in {"changed", "read"} => q.held \in SUBSET Cat!Config
           /\ q.pc = "write" => q.old \in Cat!Config /\ q.new \in Cat!Config /\ q.sync \in BOOLEAN
BY DEF CatRequests, Cat!Idle

\* The same request, alone no more.
LEMMA MetIs ==
    ASSUME NEW q \in CatRequests, q # Cat!Idle
    PROVE  LET m == [q EXCEPT !.alone = FALSE]
           IN  /\ m \in CatRequests /\ m # Cat!Idle /\ m.pc = q.pc /\ m.alone = FALSE
               /\ m.pc = "upload" => m.asset = q.asset
               /\ m.pc \in {"changed", "read", "write", "unlink"} => m.drop = q.drop
               /\ m.pc \in {"changed", "read"} => m.held = q.held
               /\ m.pc = "write" => m.old = q.old /\ m.new = q.new /\ m.sync = q.sync
<1> DEFINE m == [q EXCEPT !.alone = FALSE]
<1>1. CASE q \in [pc : {"upload"}, asset : Asset, alone : BOOLEAN]
  <2>1. m \in [pc : {"upload"}, asset : Asset, alone : BOOLEAN]
    BY <1>1
  <2> QED BY <1>1, <2>1 DEF CatRequests, Cat!Idle
<1>2. CASE q \in [pc : {"changed", "read"}, held : SUBSET Cat!Config, drop : SUBSET Asset,
                  alone : BOOLEAN]
  <2>1. m \in [pc : {"changed", "read"}, held : SUBSET Cat!Config, drop : SUBSET Asset,
               alone : BOOLEAN]
    BY <1>2
  <2> QED BY <1>2, <2>1 DEF CatRequests, Cat!Idle
<1>3. CASE q \in [pc : {"write"}, old : Cat!Config, new : Cat!Config, sync : BOOLEAN,
                  drop : SUBSET Asset, alone : BOOLEAN]
  <2>1. m \in [pc : {"write"}, old : Cat!Config, new : Cat!Config, sync : BOOLEAN,
               drop : SUBSET Asset, alone : BOOLEAN]
    BY <1>3
  <2> QED BY <1>3, <2>1 DEF CatRequests, Cat!Idle
<1>4. CASE q \in [pc : {"unlink"}, drop : SUBSET Asset, alone : BOOLEAN]
  <2>1. m \in [pc : {"unlink"}, drop : SUBSET Asset, alone : BOOLEAN]
    BY <1>4
  <2> QED BY <1>4, <2>1 DEF CatRequests, Cat!Idle
<1> QED BY <1>1, <1>2, <1>3, <1>4 DEF CatRequests

-----------------------------------------------------------------------------
(* What each step does to the requests. *)

\* An action: the others are as they were, or only alone no more.
OtherEdits(e) == \A x \in Request \ {e} : edit'[x] = edit[x]
Met(e) == \A x \in Request \ {e} : /\ Busy(x)' <=> Busy(x)
                                   /\ ~ByItself(x)' /\ edit'[x].pc = edit[x].pc
                                   /\ Drop(x)' = Drop(x) /\ Uploads(x)' = Uploads(x)

LEMMA EnterDoes ==
    ASSUME CatTyped, NEW e \in Request, NEW q \in CatRequests, Cat!Enter(e, q)
    PROVE  /\ edit'[e] = q /\ ~Busy(e)
           /\ Met(e)
           /\ q.pc # "read" => EditsTyped'
           /\ ~blurred' => ~blurred /\ \A x \in Request : ~Busy(x)
<1> DEFINE m(x) == [edit[x] EXCEPT !.alone = FALSE]
<1>1. /\ ~Busy(e)
      /\ edit' = [x \in Request |-> IF x = e THEN q
                                    ELSE IF edit[x] = Cat!Idle THEN Cat!Idle ELSE m(x)]
      /\ ~blurred' => ~blurred /\ \A x \in Request : ~Busy(x)
  BY DEF Cat!Enter, Cat!InUse, Busy
<1>2. edit \in [Request -> CatRequests] /\ Cat!Idle \in CatRequests /\ Cat!Idle.pc = "idle"
  BY DEF CatTyped, EditsTyped, CatRequests, Cat!Idle
<1>3. ASSUME NEW x \in Request, Busy(x)
      PROVE  /\ m(x) \in CatRequests /\ m(x) # Cat!Idle /\ m(x).pc = edit[x].pc /\ ~m(x).alone
             /\ m(x).pc = "upload" => m(x).asset = edit[x].asset
             /\ m(x).pc \in {"changed", "read", "write", "unlink"} => m(x).drop = edit[x].drop
             /\ m(x).pc \in {"changed", "read"} => m(x).held = edit[x].held
  BY <1>2, <1>3, MetIs DEF Busy
<1> HIDE DEF m
<1>4. edit' \in [Request -> CatRequests] /\ edit'[e] = q
  BY <1>1, <1>2, <1>3 DEF Busy
<1>5. ASSUME NEW x \in Request \ {e}
      PROVE  /\ ~Busy(x) => edit'[x] = edit[x]
             /\ Busy(x) => edit'[x] = m(x)
  BY <1>1, <1>5 DEF Busy
<1>6. ASSUME NEW x \in Request \ {e}
      PROVE  /\ Busy(x)' <=> Busy(x)
             /\ ~ByItself(x)' /\ edit'[x].pc = edit[x].pc
             /\ Drop(x)' = Drop(x) /\ Uploads(x)' = Uploads(x)
             /\ edit'[x].pc = "read" => edit'[x].held # {}
  <2>1. CASE Busy(x)
    BY <1>3, <1>5, <2>1 DEF CatTyped, EditsTyped, Busy, ByItself, Drop, Uploads
  <2>2. CASE ~Busy(x)
    BY <1>2, <1>5, <2>2 DEF CatTyped, EditsTyped, Busy, ByItself, Drop, Uploads
  <2> QED BY <2>1, <2>2
<1>7. q.pc # "read" => EditsTyped'
  BY <1>4, <1>6 DEF EditsTyped
<1> QED BY <1>1, <1>4, <1>6, <1>7 DEF Met

\* A request that has changed rows and committed them.
LEMMA ChangedIs ==
    ASSUME NEW held \in SUBSET Cat!Config, NEW drop \in SUBSET Asset
    PROVE  LET q == Cat!Changed(held, drop)
           IN  /\ q \in CatRequests /\ q.pc = "changed" /\ q.held = held /\ q.drop = drop
               /\ q.alone <=> ~Cat!InUse
<1>1. PICK b \in BOOLEAN : b = ~Cat!InUse
  OBVIOUS
<1>2. Cat!Changed(held, drop) = [pc |-> "changed", held |-> held, drop |-> drop, alone |-> b]
  BY <1>1 DEF Cat!Changed
<1>3. [pc |-> "changed", held |-> held, drop |-> drop, alone |-> b] \in CatRequests
  BY DEF CatRequests
<1>4. b <=> ~Cat!InUse
  BY <1>1
<1>5. \A q : q = [pc |-> "changed", held |-> held, drop |-> drop, alone |-> b] =>
                q.pc = "changed" /\ q.held = held /\ q.drop = drop /\ (q.alone = b)
  OBVIOUS
<1> HIDE <1>1
<1> QED BY <1>2, <1>3, <1>4, <1>5

\* An edit of rows: what it has read, what it will delete, and what it leaves alone.
EditOf(e, held, drop) == /\ Cat!Enter(e, Cat!Changed(held, drop))
                         /\ file' = file /\ config' = config

LEMMA EditDoes ==
    ASSUME CatTyped, NEW e \in Request, NEW held \in SUBSET Cat!Config, NEW drop \in SUBSET Asset,
           EditOf(e, held, drop), RowsTyped'
    PROVE  /\ CatTyped' /\ Met(e) /\ ~Busy(e) /\ Drop(e)' = drop /\ Uploads(e)' = {}
           /\ Uploads(e) = {} /\ Drop(e) = {}
           /\ edit'[e].pc = "changed" /\ edit'[e].held = held
           /\ ~blurred' => ~blurred /\ \A x \in Request : ~Busy(x)
           /\ ByItself(e)' <=> \A x \in Request : ~Busy(x)
<1>1. PICK q \in CatRequests : /\ q = Cat!Changed(held, drop) /\ q.pc = "changed"
                               /\ q.held = held /\ q.drop = drop
                               /\ q.alone <=> ~Cat!InUse
  BY ChangedIs
<1>2. Cat!Enter(e, q)
  BY <1>1 DEF EditOf
<1>3. /\ EditsTyped' /\ edit'[e] = q /\ ~Busy(e) /\ Met(e)
      /\ ~blurred' => ~blurred /\ \A x \in Request : ~Busy(x)
  BY <1>1, <1>2, EnterDoes
<1>4. ByItself(e)' <=> \A x \in Request : ~Busy(x)
  <2>1. Busy(e)'
    BY <1>1, <1>3, CatRequestIs DEF Busy
  <2> QED BY <1>1, <1>3, <2>1 DEF ByItself, Cat!InUse, Busy
<1>5. Drop(e)' = drop /\ Uploads(e)' = {} /\ Uploads(e) = {} /\ Drop(e) = {}
  BY <1>1, <1>3 DEF Drop, Uploads, Busy, Cat!Idle
<1>6. CatTyped'
  BY <1>3 DEF CatTyped, EditOf
<1> QED BY <1>1, <1>3, <1>4, <1>5, <1>6

-----------------------------------------------------------------------------
(* Every edit of rows, one after another: the types, and what becomes of the materials. *)

\* Materials that are let go of are the ones the request will delete.
LetsGo(drop) == /\ \A a \in Asset : asset'[a] # "none" => asset[a] # "none"
                /\ \A a \in drop : asset[a] # "none" /\ asset'[a] = "none"

IsEdit(e) == \E drop \in SUBSET Asset, held \in {{}, {config}} :
                EditOf(e, held, drop) /\ RowsTyped' /\ LetsGo(drop)

LEMMA ServiceRowIs ==
    ASSUME NEW k \in Cat!Services
    PROVE  /\ [k EXCEPT !.state = "deleted"] \in Cat!Services
           /\ [k EXCEPT !.category = None] \in Cat!Services
BY DEF Cat!Services

LEMMA EditOfServices ==
    ASSUME CatTyped, NEW e \in Request, NEW s \in Service,
           \/ \E c \in Category \cup {None} :
                 \/ Cat!CreateService(e, s, c)
                 \/ \E x \in {"active", "off"} : Cat!UpdateService(e, s, c, x)
           \/ Cat!DeleteService(e, s)
    PROVE  IsEdit(e)
<1>1. asset' = asset /\ category' = category /\ event' = event
  BY DEF Cat!CreateService, Cat!UpdateService, Cat!DeleteService
<1>2. \E held \in {{}, {config}} : EditOf(e, held, {})
  BY DEF Cat!CreateService, Cat!UpdateService, Cat!DeleteService, EditOf
<1>3. service' \in [Service -> Cat!Services]
  <2>1. CASE \E c \in Category \cup {None} :
                 \/ Cat!CreateService(e, s, c)
                 \/ \E x \in {"active", "off"} : Cat!UpdateService(e, s, c, x)
    <3>1. PICK c \in Category \cup {None}, x \in {"active", "off"} :
              service' = [service EXCEPT ![s] = [state |-> x, category |-> c]]
      BY <2>1 DEF Cat!CreateService, Cat!UpdateService
    <3>2. [state |-> x, category |-> c] \in Cat!Services
      BY DEF Cat!Services
    <3> QED BY <3>1, <3>2 DEF CatTyped, RowsTyped
  <2>2. CASE Cat!DeleteService(e, s)
    <3>1. PICK k : k = [service[s] EXCEPT !.state = "deleted"]
      OBVIOUS
    <3>2. service' = [service EXCEPT ![s] = k]
      BY <2>2, <3>1 DEF Cat!DeleteService
    <3>3. k \in Cat!Services
      BY <3>1, ServiceRowIs DEF CatTyped, RowsTyped
    <3> QED BY <3>2, <3>3 DEF CatTyped, RowsTyped
  <2> QED BY <2>1, <2>2
<1>4. RowsTyped'
  BY <1>1, <1>3 DEF CatTyped, RowsTyped
<1>5. LetsGo({})
  BY <1>1 DEF LetsGo
<1> QED BY <1>2, <1>4, <1>5 DEF IsEdit

LEMMA EditOfEvents ==
    ASSUME CatTyped, NEW e \in Request, NEW v \in Event,
           \/ \E s \in Service : Cat!CreateEvent(e, v, s)
           \/ \E x \in {"open", "closed"}, p \in BOOLEAN : Cat!UpdateEvent(e, v, x, p)
           \/ Cat!DeleteEvent(e, v)
    PROVE  IsEdit(e)
<1>1. asset' = asset /\ category' = category /\ service' = service
  BY DEF Cat!CreateEvent, Cat!UpdateEvent, Cat!DeleteEvent
<1>2. EditOf(e, {}, {})
  BY DEF Cat!CreateEvent, Cat!UpdateEvent, Cat!DeleteEvent, EditOf
<1>3. PICK k : /\ event' = [event EXCEPT ![v] = k] /\ k \in Cat!Events
               /\ k.state = "none" \/ k.service \in Service
  <2>1. CASE \E s \in Service : Cat!CreateEvent(e, v, s)
    <3>1. PICK s \in Service :
              event' = [event EXCEPT ![v] = [state |-> "open", service |-> s, past |-> FALSE]]
      BY <2>1 DEF Cat!CreateEvent
    <3>2. PICK k \in Cat!Events :
              k = [state |-> "open", service |-> s, past |-> FALSE] /\ k.service = s
      <4> DEFINE k == [state |-> "open", service |-> s, past |-> FALSE]
      <4>1. k \in Cat!Events
        BY DEF Cat!Events
      <4>2. k.service = s
        OBVIOUS
      <4> QED BY <4>1, <4>2
    <3> QED BY <3>1, <3>2
  <2>2. CASE \E x \in {"open", "closed"}, p \in BOOLEAN : Cat!UpdateEvent(e, v, x, p)
    <3>1. PICK x \in {"open", "closed"}, p \in BOOLEAN :
              /\ event[v].state # "none"
              /\ event' = [event EXCEPT ![v] = [@ EXCEPT !.state = x, !.past = p]]
      BY <2>2 DEF Cat!UpdateEvent
    <3>2. event[v] \in Cat!Events /\ event[v].service \in Service
      BY <3>1 DEF CatTyped, RowsTyped
    <3>3. PICK k : k = [event[v] EXCEPT !.state = x, !.past = p]
      OBVIOUS
    <3>4. event' = [event EXCEPT ![v] = k]
      BY <3>1, <3>3
    <3>5. k \in Cat!Events /\ k.service \in Service
      BY <3>2, <3>3 DEF Cat!Events
    <3> QED BY <3>4, <3>5
  <2>3. CASE Cat!DeleteEvent(e, v)
    <3>1. Cat!NoEvent \in Cat!Events /\ Cat!NoEvent.state = "none"
      BY DEF Cat!NoEvent, Cat!Events
    <3>2. event' = [event EXCEPT ![v] = Cat!NoEvent]
      BY <2>3 DEF Cat!DeleteEvent
    <3> QED BY <3>1, <3>2
  <2> QED BY <2>1, <2>2, <2>3
<1>4. RowsTyped'
  BY <1>1, <1>3 DEF CatTyped, RowsTyped
<1>5. LetsGo({})
  BY <1>1 DEF LetsGo
<1> QED BY <1>2, <1>4, <1>5 DEF IsEdit

LEMMA EditOfCategories ==
    ASSUME CatTyped, NEW e \in Request, NEW c \in Category,
           \/ \E A \in SUBSET Asset : Cat!SaveCategory(e, c, A)
           \/ Cat!DeleteCategory(e, c)
    PROVE  IsEdit(e)
<1>1. CASE \E A \in SUBSET Asset : Cat!SaveCategory(e, c, A)
  <2>1. PICK A \in SUBSET Asset : Cat!SaveCategory(e, c, A)
    BY <1>1
  <2>2. /\ service' = service /\ event' = event /\ category' = category \cup {c}
        /\ asset' = [a \in Asset |-> IF a \in A THEN c
                                     ELSE IF asset[a] = c THEN "unfiled" ELSE asset[a]]
        /\ \A a \in A : asset[a] # "none"
        /\ EditOf(e, {}, {})
    BY <2>1 DEF Cat!SaveCategory, Cat!SetMaterials, EditOf
  <2>3. RowsTyped'
    BY <2>2 DEF CatTyped, RowsTyped, Cat!Assets
  <2>4. LetsGo({})
    BY <2>2, MarksAreNoNames DEF LetsGo
  <2> QED BY <2>2, <2>3, <2>4 DEF IsEdit
<1>2. CASE Cat!DeleteCategory(e, c)
  <2>1. /\ event' = event /\ category' = category \ {c}
        /\ asset' = [a \in Asset |-> IF asset[a] = c THEN "none" ELSE asset[a]]
        /\ service' = [s \in Service |-> IF service[s].category = c
                                         THEN [service[s] EXCEPT !.category = None] ELSE service[s]]
        /\ EditOf(e, {}, Cat!Filed(c))
    BY <1>2 DEF Cat!DeleteCategory, EditOf
  <2>2. service' \in [Service -> Cat!Services]
    <3>1. \A s \in Service : [service[s] EXCEPT !.category = None] \in Cat!Services
                             /\ service[s] \in Cat!Services
      BY ServiceRowIs DEF CatTyped, RowsTyped
    <3> QED BY <2>1, <3>1
  <2>3. RowsTyped'
    BY <2>1, <2>2 DEF CatTyped, RowsTyped, Cat!Assets
  <2>4. LetsGo(Cat!Filed(c)) /\ Cat!Filed(c) \in SUBSET Asset
    BY <2>1, MarksAreNoNames DEF LetsGo, Cat!Filed
  <2> QED BY <2>1, <2>3, <2>4 DEF IsEdit
<1> QED BY <1>1, <1>2

LEMMA EditOfMaterials ==
    ASSUME CatTyped, NEW e \in Request, NEW a \in Asset, Cat!DeleteMaterial(e, a)
    PROVE  IsEdit(e)
<1>1. /\ service' = service /\ event' = event /\ category' = category
      /\ asset[a] # "none" /\ asset' = [asset EXCEPT ![a] = "none"] /\ EditOf(e, {}, {a})
  BY DEF Cat!DeleteMaterial, EditOf
<1>2. RowsTyped'
  BY <1>1 DEF CatTyped, RowsTyped, Cat!Assets
<1>3. LetsGo({a}) /\ {a} \in SUBSET Asset
  BY <1>1 DEF LetsGo, CatTyped, RowsTyped
<1> QED BY <1>1, <1>2, <1>3 DEF IsEdit

-----------------------------------------------------------------------------
(* A material that has a row has its file. *)

\* What is to be deleted has no row and is nobody else's; nor has what is being uploaded.
Filing ==
    /\ \A a \in Asset : asset[a] # "none" => a \in file /\ \A e \in Request : a \notin Drop(e)
    /\ \A e \in Request : Drop(e) \subseteq file
    /\ \A e, x \in Request : e # x => /\ Drop(e) \cap Drop(x) = {}
                                      /\ Uploads(e) \cap Uploads(x) = {}
    /\ \A e \in Request : \A a \in Uploads(e) :
          a \in file /\ asset[a] = "none" /\ \A x \in Request : a \notin Drop(x)

LEMMA CatSame ==
    ASSUME NEW x \in Request, edit'[x] = edit[x]
    PROVE  /\ Drop(x)' = Drop(x) /\ Uploads(x)' = Uploads(x)
           /\ Busy(x)' = Busy(x) /\ ByItself(x)' = ByItself(x)
BY DEF Drop, Uploads, Busy, ByItself

LEMMA DropsAreAssets ==
    ASSUME CatTyped, NEW x \in Request
    PROVE  Drop(x) \subseteq Asset /\ Uploads(x) \subseteq Asset
BY CatRequestIs DEF CatTyped, EditsTyped, Drop, Uploads

\* Files stay; a request starts with what it lets go of, if anything.
LEMMA FilingStarts ==
    ASSUME CatTyped, Filing, NEW e \in Request, NEW drop \in SUBSET Asset, LetsGo(drop), Met(e),
           file' = file, Drop(e)' = drop, Uploads(e)' = {}
    PROVE  Filing'
<1>1. \A x \in Request \ {e} : Drop(x)' = Drop(x) /\ Uploads(x)' = Uploads(x)
  BY DEF Met
<1>2. \A x \in Request : Uploads(x)' \subseteq Uploads(x) /\ Uploads(x) \subseteq Asset
  BY <1>1, DropsAreAssets
<1>3. \A a \in Asset : asset'[a] # "none" => a \in file' /\ \A x \in Request : a \notin Drop(x)'
  BY <1>1 DEF Filing, LetsGo
<1>4. \A x \in Request : Drop(x)' \subseteq file'
  BY <1>1 DEF Filing, LetsGo
<1>5. \A x, y \in Request : x # y => Drop(x)' \cap Drop(y)' = {}
  BY <1>1 DEF Filing, LetsGo
<1>6. \A x, y \in Request : x # y => Uploads(x)' \cap Uploads(y)' = {}
  BY <1>2 DEF Filing
<1>7. ASSUME NEW x \in Request, NEW a \in Uploads(x)'
      PROVE  a \in file' /\ asset'[a] = "none" /\ \A y \in Request : a \notin Drop(y)'
  <2>1. a \in Uploads(x) /\ a \in Asset
    BY <1>2, <1>7
  <2>2. a \in file /\ asset[a] = "none" /\ \A y \in Request : a \notin Drop(y)
    BY <2>1 DEF Filing
  <2> QED BY <1>1, <2>1, <2>2 DEF LetsGo
<1> QED BY <1>3, <1>4, <1>5, <1>6, <1>7 DEF Filing

\* A request goes on, ends or dies: it means to delete no more than before.
LEMMA FilingGoes ==
    ASSUME Filing, NEW e \in Request, OtherEdits(e), asset' = asset, file' = file,
           Drop(e)' \subseteq Drop(e), Uploads(e)' \subseteq Uploads(e)
    PROVE  Filing'
<1>1. \A x \in Request : Drop(x)' \subseteq Drop(x) /\ Uploads(x)' \subseteq Uploads(x)
  BY CatSame DEF OtherEdits
<1>2. \A x, y \in Request :
         x # y => Drop(x)' \cap Drop(y)' = {} /\ Uploads(x)' \cap Uploads(y)' = {}
  BY <1>1 DEF Filing
<1>3. \A x \in Request : \A a \in Uploads(x)' :
          a \in file' /\ asset'[a] = "none" /\ \A y \in Request : a \notin Drop(y)'
  BY <1>1 DEF Filing
<1> QED BY <1>1, <1>2, <1>3 DEF Filing

-----------------------------------------------------------------------------
(* The other steps: the types, and what becomes of the requests. *)

LEMMA EditsTypedOther ==
    ASSUME EditsTyped, NEW e \in Request, NEW q \in CatRequests, q.pc = "read" => q.held # {},
           edit' = [edit EXCEPT ![e] = q]
    PROVE  EditsTyped' /\ OtherEdits(e) /\ edit'[e] = q
BY DEF EditsTyped, OtherEdits

LEMMA UploadDoes ==
    ASSUME CatTyped, NEW e \in Request, NEW a \in Asset, Cat!Upload(e, a)
    PROVE  /\ CatTyped' /\ Met(e) /\ ~Busy(e) /\ edit'[e].pc = "upload"
           /\ Uploads(e)' = {a} /\ Drop(e)' = {} /\ file' = file \cup {a} /\ asset' = asset
           /\ ~blurred' => ~blurred /\ \A x \in Request : ~Busy(x)
           /\ ByItself(e)' <=> \A x \in Request : ~Busy(x)
<1>1. PICK b \in BOOLEAN : b = ~Cat!InUse
  OBVIOUS
<1>2. PICK q \in CatRequests : /\ q = [pc |-> "upload", asset |-> a, alone |-> b]
                               /\ q.pc = "upload" /\ q.asset = a /\ (q.alone <=> b)
  <2> DEFINE q == [pc |-> "upload", asset |-> a, alone |-> b]
  <2>1. q \in CatRequests
    BY DEF CatRequests
  <2>2. q.pc = "upload" /\ q.asset = a /\ (q.alone <=> b)
    OBVIOUS
  <2> QED BY <2>1, <2>2
<1>3. Cat!Enter(e, q) /\ file' = file \cup {a} /\ config' = config
      /\ service' = service /\ category' = category /\ asset' = asset /\ event' = event
  BY <1>1, <1>2 DEF Cat!Upload, Cat!rows
<1>4. /\ EditsTyped' /\ edit'[e] = q /\ ~Busy(e) /\ Met(e)
      /\ ~blurred' => ~blurred /\ \A x \in Request : ~Busy(x)
  BY <1>2, <1>3, EnterDoes
<1>5. q.alone <=> \A x \in Request : ~Busy(x)
  BY <1>1, <1>2 DEF Cat!InUse, Busy
<1>6. Uploads(e)' = {a} /\ Drop(e)' = {} /\ (ByItself(e)' <=> q.alone)
  <2>1. Busy(e)'
    BY <1>2, <1>4, CatRequestIs DEF Busy
  <2> QED BY <1>2, <1>4, <2>1 DEF Uploads, Drop, ByItself
<1>7. CatTyped'
  BY <1>3, <1>4 DEF CatTyped, RowsTyped
<1> QED BY <1>2, <1>3, <1>4, <1>5, <1>6, <1>7

LEMMA KeptIs ==
    ASSUME config \in Cat!Config, NEW f \in Form
    PROVE  Cat!Kept(config, f) \in Cat!Config /\ Cat!Kept(config, f).shown = config.shown
BY DEF Cat!Kept, Cat!Config

LEMMA SubmitFormDoes ==
    ASSUME CatTyped, NEW e \in Request, NEW f \in Form, Cat!SubmitForm(e, f)
    PROVE  /\ CatTyped' /\ Met(e) /\ ~Busy(e)
           /\ Uploads(e)' = {} /\ Drop(e)' = {}
           /\ file' = file /\ config' = config
           /\ service' = service /\ category' = category /\ asset' = asset /\ event' = event
           /\ edit'[e].pc = "write" /\ edit'[e].old = config /\ ~edit'[e].sync
           /\ edit'[e].new.shown = config.shown
           /\ ~blurred' => ~blurred /\ \A x \in Request : ~Busy(x)
           /\ ByItself(e)' <=> \A x \in Request : ~Busy(x)
<1>1. PICK b \in BOOLEAN : b = ~Cat!InUse
  OBVIOUS
<1>2. PICK c, d \in Cat!Config : c = config /\ d = Cat!Kept(config, f) /\ d.shown = config.shown
  BY KeptIs DEF CatTyped
<1>3. PICK q \in CatRequests :
          /\ q = [pc |-> "write", old |-> c, new |-> d, sync |-> FALSE, drop |-> {}, alone |-> b]
          /\ q.pc = "write" /\ q.old = c /\ q.new = d /\ ~q.sync /\ q.drop = {}
          /\ q.alone <=> b
  <2> DEFINE q == [pc |-> "write", old |-> c, new |-> d, sync |-> FALSE, drop |-> {},
                   alone |-> b]
  <2>1. q \in CatRequests
    BY DEF CatRequests
  <2>2. q.pc = "write" /\ q.old = c /\ q.new = d /\ ~q.sync /\ q.drop = {} /\ (q.alone <=> b)
    OBVIOUS
  <2> QED BY <2>1, <2>2
<1>4. Cat!Enter(e, q) /\ file' = file /\ config' = config
      /\ service' = service /\ category' = category /\ asset' = asset /\ event' = event
  BY <1>1, <1>2, <1>3 DEF Cat!SubmitForm, Cat!rows
<1>5. /\ EditsTyped' /\ edit'[e] = q /\ ~Busy(e) /\ Met(e)
      /\ ~blurred' => ~blurred /\ \A x \in Request : ~Busy(x)
  BY <1>3, <1>4, EnterDoes
<1>6. q.alone <=> \A x \in Request : ~Busy(x)
  BY <1>1, <1>3 DEF Cat!InUse, Busy
<1>7. Uploads(e)' = {} /\ Drop(e)' = {} /\ (ByItself(e)' <=> q.alone)
  <2>1. Busy(e)'
    BY <1>3, <1>5, CatRequestIs DEF Busy
  <2> QED BY <1>3, <1>5, <2>1 DEF Uploads, Drop, ByItself
<1>8. CatTyped'
  BY <1>4, <1>5 DEF CatTyped, RowsTyped
<1> QED BY <1>2, <1>3, <1>4, <1>5, <1>6, <1>7, <1>8

LEMMA CatIdles ==
    ASSUME CatTyped, NEW e \in Request, edit' = [edit EXCEPT ![e] = Cat!Idle]
    PROVE  EditsTyped' /\ OtherEdits(e) /\ ~Busy(e)' /\ Drop(e)' = {} /\ Uploads(e)' = {}
<1>1. Cat!Idle \in CatRequests /\ Cat!Idle.pc = "idle"
  BY DEF CatRequests, Cat!Idle
<1>2. EditsTyped' /\ OtherEdits(e) /\ edit'[e] = Cat!Idle
  BY <1>1, EditsTypedOther DEF CatTyped
<1> QED BY <1>1, <1>2 DEF Busy, Drop, Uploads

LEMMA KeepUploadDoes ==
    ASSUME CatTyped, NEW e \in Request, Cat!KeepUpload(e)
    PROVE  /\ CatTyped' /\ OtherEdits(e) /\ edit[e].pc = "upload" /\ Busy(e) /\ ~Busy(e)'
           /\ Drop(e)' = {} /\ Uploads(e)' = {}
           /\ \E a \in Uploads(e) : asset' = [asset EXCEPT ![a] = "unfiled"]
           /\ service' = service /\ category' = category /\ event' = event
           /\ file' = file /\ config' = config /\ blurred' = blurred
<1>1. /\ edit[e].pc = "upload" /\ edit' = [edit EXCEPT ![e] = Cat!Idle]
      /\ service' = service /\ category' = category /\ event' = event
      /\ file' = file /\ config' = config /\ blurred' = blurred
  BY DEF Cat!KeepUpload
<1>2. EditsTyped' /\ OtherEdits(e) /\ ~Busy(e)' /\ Drop(e)' = {} /\ Uploads(e)' = {}
  BY <1>1, CatIdles
<1>3. PICK a : a = edit[e].asset
  OBVIOUS
<1>4. a \in Uploads(e) /\ asset' = [asset EXCEPT ![a] = "unfiled"] /\ Busy(e)
  BY <1>1, <1>3 DEF Uploads, Cat!KeepUpload, Busy, Cat!Idle
<1>5. CatTyped'
  BY <1>1, <1>2, <1>4 DEF CatTyped, RowsTyped, Cat!Assets
<1> QED BY <1>1, <1>2, <1>4, <1>5

LEMMA ReadIs ==
    ASSUME NEW q \in CatRequests, q.pc = "changed", NEW held \in SUBSET Cat!Config
    PROVE  LET m == [q EXCEPT !.pc = "read", !.held = held]
           IN  /\ m \in CatRequests /\ m.pc = "read" /\ m.held = held /\ m.drop = q.drop
               /\ m.alone = q.alone
<1> DEFINE m == [q EXCEPT !.pc = "read", !.held = held]
<1>1. q \in [pc : {"changed", "read"}, held : SUBSET Cat!Config, drop : SUBSET Asset,
             alone : BOOLEAN]
  BY DEF CatRequests, Cat!Idle
<1>2. m \in [pc : {"changed", "read"}, held : SUBSET Cat!Config, drop : SUBSET Asset,
             alone : BOOLEAN]
  BY <1>1
<1>3. m.pc = "read" /\ m.held = held /\ m.drop = q.drop /\ m.alone = q.alone
  BY <1>1
<1> QED BY <1>2, <1>3 DEF CatRequests

LEMMA ReadAgentDoes ==
    ASSUME CatTyped, NEW e \in Request, Cat!ReadAgent(e)
    PROVE  /\ CatTyped' /\ OtherEdits(e) /\ edit[e].pc = "changed" /\ edit'[e].pc = "read"
           /\ edit'[e].held = (IF edit[e].held = {} THEN {config} ELSE edit[e].held)
           /\ Drop(e)' = Drop(e) /\ Uploads(e)' = Uploads(e)
           /\ Busy(e) /\ (ByItself(e)' <=> ByItself(e))
           /\ service' = service /\ category' = category /\ asset' = asset /\ event' = event
           /\ file' = file /\ config' = config /\ blurred' = blurred
<1>1. PICK q \in CatRequests : q = edit[e]
  BY DEF CatTyped, EditsTyped
<1>2. q.pc = "changed" /\ q.held \in SUBSET Cat!Config
  BY <1>1, CatRequestIs DEF Cat!ReadAgent
<1>3. PICK held \in SUBSET Cat!Config : held = IF q.held = {} THEN {config} ELSE q.held
  BY <1>2 DEF CatTyped
<1>4. PICK m \in CatRequests :
          /\ m = [q EXCEPT !.pc = "read", !.held = held]
          /\ m.pc = "read" /\ m.held = held /\ m.drop = q.drop /\ m.alone = q.alone
  BY <1>2, ReadIs
<1>5. /\ edit' = [edit EXCEPT ![e] = m]
      /\ service' = service /\ category' = category /\ asset' = asset /\ event' = event
      /\ file' = file /\ config' = config /\ blurred' = blurred
  <2>1. edit' = [edit EXCEPT ![e] = [edit[e] EXCEPT !.pc = "read", !.held = held]]
    BY <1>1, <1>3 DEF Cat!ReadAgent
  <2>2. /\ service' = service /\ category' = category /\ asset' = asset /\ event' = event
        /\ file' = file /\ config' = config /\ blurred' = blurred
    BY DEF Cat!ReadAgent, Cat!rows
  <2> QED BY <1>1, <1>4, <2>1, <2>2
<1>6. held # {} /\ (m.pc = "read" => m.held # {})
  BY <1>3, <1>4
<1>7. EditsTyped' /\ OtherEdits(e) /\ edit'[e] = m
  BY <1>5, <1>6, EditsTypedOther DEF CatTyped
<1>8. CatTyped'
  BY <1>5, <1>7 DEF CatTyped, RowsTyped
<1>9. Drop(e)' = Drop(e) /\ Uploads(e)' = Uploads(e)
  BY <1>1, <1>2, <1>4, <1>7 DEF Drop, Uploads
<1>10. Busy(e) /\ Busy(e)'
  BY <1>1, <1>2, <1>4, <1>7, CatRequestIs DEF Busy
<1>11. ByItself(e)' <=> ByItself(e)
  BY <1>1, <1>4, <1>7, <1>10 DEF ByItself
<1> QED BY <1>1, <1>2, <1>3, <1>4, <1>5, <1>7, <1>8, <1>9, <1>10, <1>11

\* What the bot reads is what there is.
Reflects(shown) ==
    /\ \A s \in Service, c \in Category \cup {None} :
          <<s, c>> \in shown.services <=> service[s] = [state |-> "active", category |-> c]
    /\ \A c \in Category, A \in SUBSET Asset :
          <<c, A>> \in shown.categories <=> c \in category /\ A = Cat!Filed(c)
    /\ \A v \in Event, s \in Service : ~event[v].past =>
          (<<v, s>> \in shown.events <=> event[v].state = "open" /\ event[v].service = s)

LEMMA ProjectionIs ==
    ASSUME RowsTyped
    PROVE  Cat!Projection \in Cat!Snapshot /\ Reflects(Cat!Projection)
<1> DEFINE P == Cat!Projection
<1>1. /\ P.services = {<<s, service[s].category>> :
                          s \in {x \in Service : service[x].state = "active"}}
      /\ P.categories = {<<c, Cat!Filed(c)>> : c \in category}
      /\ P.events = {<<v, event[v].service>> :
                        v \in {x \in Event : event[x].state = "open" /\ ~event[x].past}}
      /\ P = [services |-> P.services, categories |-> P.categories, events |-> P.events]
  BY DEF Cat!Projection
<1> HIDE DEF P
<1>2. P.services \in SUBSET (Service \X (Category \cup {None}))
  BY <1>1 DEF RowsTyped, Cat!Services
<1>3. P.categories \in SUBSET (Category \X SUBSET Asset)
  BY <1>1 DEF RowsTyped, Cat!Filed
<1>4. P.events \in SUBSET (Event \X Service)
  BY <1>1 DEF RowsTyped
<1>5. P \in Cat!Snapshot
  BY <1>1, <1>2, <1>3, <1>4 DEF Cat!Snapshot
<1>6. ASSUME NEW s \in Service, NEW c \in Category \cup {None}
      PROVE  <<s, c>> \in P.services <=> service[s] = [state |-> "active", category |-> c]
  <2>1. service[s] \in Cat!Services
    BY DEF RowsTyped
  <2>2. service[s] = [state |-> "active", category |-> c]
           <=> service[s].state = "active" /\ service[s].category = c
    BY <2>1 DEF Cat!Services
  <2> QED BY <1>1, <2>2
<1>7. ASSUME NEW c \in Category, NEW A \in SUBSET Asset
      PROVE  <<c, A>> \in P.categories <=> c \in category /\ A = Cat!Filed(c)
  BY <1>1
<1>8. ASSUME NEW v \in Event, NEW s \in Service, ~event[v].past
      PROVE  <<v, s>> \in P.events <=> event[v].state = "open" /\ event[v].service = s
  BY <1>1, <1>8
<1> QED BY <1>5, <1>6, <1>7, <1>8 DEF Reflects, P

LEMMA ShowIs ==
    ASSUME NEW old \in Cat!Config, NEW shown \in Cat!Snapshot
    PROVE  [old EXCEPT !.shown = shown] \in Cat!Config /\ [old EXCEPT !.shown = shown].shown = shown
BY DEF Cat!Config

LEMMA ProjectDoes ==
    ASSUME CatTyped, NEW e \in Request, Cat!Project(e)
    PROVE  /\ CatTyped' /\ OtherEdits(e) /\ edit[e].pc = "read" /\ edit'[e].pc = "write"
           /\ edit'[e].old \in edit[e].held /\ edit'[e].sync
           /\ Reflects(edit'[e].new.shown)
           /\ Drop(e)' = Drop(e) /\ Uploads(e)' = Uploads(e)
           /\ Busy(e) /\ (ByItself(e)' <=> ByItself(e))
           /\ service' = service /\ category' = category /\ asset' = asset /\ event' = event
           /\ file' = file /\ config' = config /\ blurred' = blurred
<1>1. PICK q \in CatRequests : q = edit[e]
  BY DEF CatTyped, EditsTyped
<1>2. q.pc = "read" /\ q.held \in SUBSET Cat!Config /\ q.held # {}
      /\ q.drop \in SUBSET Asset /\ q.alone \in BOOLEAN
  BY <1>1, CatRequestIs DEF Cat!Project, CatTyped, EditsTyped
<1>3. PICK old \in q.held : old = CHOOSE c \in q.held : TRUE
  BY <1>2
<1>4. PICK shown \in Cat!Snapshot : shown = Cat!Projection /\ Reflects(shown)
  BY ProjectionIs DEF CatTyped
<1>5. PICK new \in Cat!Config : new = [old EXCEPT !.shown = shown] /\ new.shown = shown
  BY <1>2, ShowIs
<1>6. PICK m \in CatRequests :
          /\ m = [pc |-> "write", old |-> old, new |-> new, sync |-> TRUE, drop |-> q.drop,
                  alone |-> q.alone]
          /\ m.pc = "write" /\ m.old = old /\ m.new = new /\ m.sync
          /\ m.drop = q.drop /\ m.alone = q.alone
  <2> DEFINE m == [pc |-> "write", old |-> old, new |-> new, sync |-> TRUE, drop |-> q.drop,
                   alone |-> q.alone]
  <2>1. m \in CatRequests
    BY <1>2 DEF CatRequests
  <2>2. /\ m.pc = "write" /\ m.old = old /\ m.new = new /\ m.sync
        /\ m.drop = q.drop /\ m.alone = q.alone
    OBVIOUS
  <2> QED BY <2>1, <2>2
<1>7. /\ edit' = [edit EXCEPT ![e] = m]
      /\ service' = service /\ category' = category /\ asset' = asset /\ event' = event
      /\ file' = file /\ config' = config /\ blurred' = blurred
  BY <1>1, <1>3, <1>4, <1>5, <1>6 DEF Cat!Project, Cat!rows
<1>8. EditsTyped' /\ OtherEdits(e) /\ edit'[e] = m
  BY <1>6, <1>7, EditsTypedOther DEF CatTyped
<1>9. CatTyped'
  BY <1>7, <1>8 DEF CatTyped, RowsTyped
<1>10. Busy(e) /\ Busy(e)' /\ Drop(e)' = Drop(e) /\ Uploads(e)' = Uploads(e)
  BY <1>1, <1>2, <1>6, <1>8 DEF Busy, Drop, Uploads, Cat!Idle
<1>11. ByItself(e)' <=> ByItself(e)
  BY <1>1, <1>6, <1>8, <1>10 DEF ByItself
<1> QED BY <1>1, <1>2, <1>3, <1>4, <1>5, <1>6, <1>7, <1>8, <1>9, <1>10, <1>11

LEMMA WriteDoes ==
    ASSUME CatTyped, NEW e \in Request, Cat!Write(e)
    PROVE  /\ CatTyped' /\ OtherEdits(e) /\ edit[e].pc = "write" /\ Busy(e)
           /\ config' = IF edit[e].new = edit[e].old THEN config ELSE edit[e].new
           /\ Drop(e)' = Drop(e) /\ Uploads(e)' = {} /\ Uploads(e) = {}
           /\ edit'[e].pc \in {"idle", "unlink"} /\ (ByItself(e)' => ByItself(e))
           /\ Busy(e)' => (ByItself(e)' <=> ByItself(e))
           /\ blurred' = (blurred /\ ~(edit[e].sync /\ edit[e].alone))
           /\ service' = service /\ category' = category /\ asset' = asset /\ event' = event
           /\ file' = file
<1>1. PICK q \in CatRequests : q = edit[e]
  BY DEF CatTyped, EditsTyped
<1>2. q.pc = "write" /\ q.new \in Cat!Config /\ q.drop \in SUBSET Asset /\ q.alone \in BOOLEAN
  BY <1>1, CatRequestIs DEF Cat!Write
<1>3. PICK m \in CatRequests :
          /\ m = IF q.drop = {} THEN Cat!Idle
                 ELSE [pc |-> "unlink", drop |-> q.drop, alone |-> q.alone]
          /\ m.pc = IF q.drop = {} THEN "idle" ELSE "unlink"
          /\ m.pc = "unlink" => m.drop = q.drop /\ m.alone = q.alone
  <2> DEFINE u == [pc |-> "unlink", drop |-> q.drop, alone |-> q.alone]
  <2>1. u \in CatRequests
    BY <1>2 DEF CatRequests
  <2>2. u.pc = "unlink" /\ u.drop = q.drop /\ u.alone = q.alone
    OBVIOUS
  <2>3. Cat!Idle \in CatRequests /\ Cat!Idle.pc = "idle"
    BY DEF CatRequests, Cat!Idle
  <2> QED BY <2>1, <2>2, <2>3
<1>4. /\ edit' = [edit EXCEPT ![e] = m]
      /\ config' = IF q.new = q.old THEN config ELSE q.new
      /\ blurred' = (blurred /\ ~(q.sync /\ q.alone))
      /\ service' = service /\ category' = category /\ asset' = asset /\ event' = event
      /\ file' = file
  BY <1>1, <1>3 DEF Cat!Write, Cat!rows
<1>5. EditsTyped' /\ OtherEdits(e) /\ edit'[e] = m
  BY <1>3, <1>4, EditsTypedOther DEF CatTyped
<1>6. CatTyped'
  BY <1>2, <1>4, <1>5 DEF CatTyped, RowsTyped
<1>7. Busy(e) /\ (Busy(e)' <=> m.pc = "unlink")
  BY <1>1, <1>2, <1>3, <1>5, CatRequestIs DEF Busy
<1>8. Drop(e)' = Drop(e) /\ Uploads(e)' = {} /\ Uploads(e) = {}
  BY <1>1, <1>2, <1>3, <1>5 DEF Drop, Uploads
<1>9. (Busy(e)' => (ByItself(e)' <=> ByItself(e))) /\ (ByItself(e)' => ByItself(e))
  BY <1>1, <1>3, <1>5, <1>7 DEF ByItself
<1>10. edit'[e].pc \in {"idle", "unlink"}
  BY <1>3, <1>5
<1> QED BY <1>1, <1>2, <1>4, <1>5, <1>6, <1>7, <1>8, <1>9, <1>10

LEMMA UnlinkIs ==
    ASSUME NEW q \in CatRequests, q.pc = "unlink", NEW a
    PROVE  LET m == [q EXCEPT !.drop = q.drop \ {a}]
           IN  /\ m \in CatRequests /\ m.pc = "unlink" /\ m.drop = q.drop \ {a}
               /\ m.alone = q.alone
<1> DEFINE m == [q EXCEPT !.drop = q.drop \ {a}]
<1>1. q \in [pc : {"unlink"}, drop : SUBSET Asset, alone : BOOLEAN]
  BY DEF CatRequests, Cat!Idle
<1>2. m \in [pc : {"unlink"}, drop : SUBSET Asset, alone : BOOLEAN]
  BY <1>1
<1>3. m.pc = "unlink" /\ m.drop = q.drop \ {a} /\ m.alone = q.alone
  BY <1>1
<1> QED BY <1>2, <1>3 DEF CatRequests

LEMMA UnlinkDoes ==
    ASSUME CatTyped, NEW e \in Request, Cat!Unlink(e)
    PROVE  /\ CatTyped' /\ OtherEdits(e) /\ edit[e].pc = "unlink" /\ Busy(e)
           /\ \E a \in Drop(e) : file' = file \ {a} /\ Drop(e)' = Drop(e) \ {a}
           /\ Uploads(e)' = {} /\ Uploads(e) = {}
           /\ edit'[e].pc \in {"idle", "unlink"} /\ (ByItself(e)' => ByItself(e))
           /\ Busy(e)' => (ByItself(e)' <=> ByItself(e))
           /\ service' = service /\ category' = category /\ asset' = asset /\ event' = event
           /\ config' = config /\ blurred' = blurred
<1>1. PICK q \in CatRequests : q = edit[e]
  BY DEF CatTyped, EditsTyped
<1>2. q.pc = "unlink"
  BY <1>1 DEF Cat!Unlink
<1>3. PICK a \in q.drop :
          /\ file' = file \ {a}
          /\ edit' = [edit EXCEPT ![e] = IF q.drop = {a} THEN Cat!Idle
                                         ELSE [q EXCEPT !.drop = @ \ {a}]]
  BY <1>1 DEF Cat!Unlink
<1>4. /\ service' = service /\ category' = category /\ asset' = asset /\ event' = event
      /\ config' = config /\ blurred' = blurred
  BY DEF Cat!Unlink, Cat!rows
<1>5. PICK u \in CatRequests :
          /\ u = [q EXCEPT !.drop = q.drop \ {a}]
          /\ u.pc = "unlink" /\ u.drop = q.drop \ {a} /\ u.alone = q.alone
  BY <1>2, UnlinkIs
<1>6. PICK m \in CatRequests :
          /\ m = IF q.drop = {a} THEN Cat!Idle ELSE u
          /\ m.pc = IF q.drop = {a} THEN "idle" ELSE "unlink"
          /\ m.pc = "unlink" => m.drop = q.drop \ {a} /\ m.alone = q.alone
  <2>1. Cat!Idle \in CatRequests /\ Cat!Idle.pc = "idle"
    BY DEF CatRequests, Cat!Idle
  <2> QED BY <1>5, <2>1
<1>7. edit' = [edit EXCEPT ![e] = m]
  BY <1>3, <1>5, <1>6
<1>8. EditsTyped' /\ OtherEdits(e) /\ edit'[e] = m
  BY <1>6, <1>7, EditsTypedOther DEF CatTyped
<1>9. CatTyped'
  BY <1>4, <1>8 DEF CatTyped, RowsTyped
<1>10. Busy(e) /\ (Busy(e)' <=> m.pc = "unlink")
  BY <1>1, <1>2, <1>6, <1>8, CatRequestIs DEF Busy
<1>11. Drop(e) = q.drop /\ Drop(e)' = q.drop \ {a} /\ Uploads(e)' = {} /\ Uploads(e) = {}
  BY <1>1, <1>2, <1>6, <1>8 DEF Drop, Uploads
<1>12. (Busy(e)' => (ByItself(e)' <=> ByItself(e))) /\ (ByItself(e)' => ByItself(e))
  BY <1>1, <1>6, <1>8, <1>10 DEF ByItself
<1>13. edit'[e].pc \in {"idle", "unlink"}
  BY <1>6, <1>8
<1> QED BY <1>1, <1>2, <1>3, <1>4, <1>8, <1>9, <1>10, <1>11, <1>12, <1>13

LEMMA CatCrashDoes ==
    ASSUME CatTyped, NEW e \in Request, Cat!Crash(e)
    PROVE  /\ CatTyped' /\ OtherEdits(e) /\ ~Busy(e)' /\ Drop(e)' = {} /\ Uploads(e)' = {}
           /\ ~blurred' => ~blurred /\ edit[e].pc \notin {"changed", "read", "write"}
           /\ service' = service /\ category' = category /\ asset' = asset /\ event' = event
           /\ file' = file /\ config' = config
<1>1. /\ edit' = [edit EXCEPT ![e] = Cat!Idle]
      /\ ~blurred' => ~blurred /\ edit[e].pc \notin {"changed", "read", "write"}
      /\ service' = service /\ category' = category /\ asset' = asset /\ event' = event
      /\ file' = file /\ config' = config
  BY DEF Cat!Crash, Cat!rows
<1>2. EditsTyped' /\ OtherEdits(e) /\ ~Busy(e)' /\ Drop(e)' = {} /\ Uploads(e)' = {}
  BY <1>1, CatIdles
<1>3. CatTyped'
  BY <1>1, <1>2 DEF CatTyped, RowsTyped
<1> QED BY <1>1, <1>2, <1>3

LEMMA EventPassesDoes ==
    ASSUME CatTyped, NEW v \in Event, Cat!EventPasses(v)
    PROVE  /\ CatTyped' /\ edit' = edit /\ blurred' = blurred
           /\ service' = service /\ category' = category /\ asset' = asset
           /\ file' = file /\ config' = config
           /\ \A x \in Event : event'[x] = event[x] \/ event'[x].past
<1>1. PICK k : k = [event[v] EXCEPT !.past = TRUE]
  OBVIOUS
<1>2. /\ event' = [event EXCEPT ![v] = k] /\ edit' = edit /\ blurred' = blurred
      /\ service' = service /\ category' = category /\ asset' = asset
      /\ file' = file /\ config' = config
  <2>1. [event EXCEPT ![v].past = TRUE] = [event EXCEPT ![v] = k]
    BY <1>1
  <2> QED BY <2>1 DEF Cat!EventPasses
<1>3. /\ k \in Cat!Events /\ k.past /\ k.state = event[v].state /\ k.service = event[v].service
  BY <1>1 DEF CatTyped, RowsTyped, Cat!Events
<1>4. RowsTyped'
  BY <1>2, <1>3 DEF CatTyped, RowsTyped
<1>5. CatTyped'
  BY <1>2, <1>4 DEF CatTyped, EditsTyped
<1>6. \A x \in Event : event'[x] = event[x] \/ event'[x].past
  BY <1>2, <1>3 DEF CatTyped, RowsTyped
<1> QED BY <1>2, <1>5, <1>6

-----------------------------------------------------------------------------
(* What is shown is what there is, unless requests have overlapped or died. *)

OneAlone == /\ \A e, x \in Request : ByItself(e) /\ x # e => ~Busy(x)
            /\ ~blurred => \A e \in Request : Busy(e) => ByItself(e)

\* Who is alone writes over what it read, and its projection is of the rows there are.
Stands(e) == /\ edit[e].pc = "changed" => edit[e].held \in {{}, {config}}
             /\ edit[e].pc = "read" => edit[e].held = {config}
             /\ edit[e].pc = "write" =>
                   /\ edit[e].old = config
                   /\ edit[e].sync => Reflects(edit[e].new.shown)
                   /\ ~edit[e].sync => edit[e].new.shown = config.shown
AllStand == \A e \in Request : ByItself(e) => Stands(e)

\* A request that has changed rows and has not yet written what the bot reads of them.
Behind(e) == edit[e].pc \in {"changed", "read"} \/ (edit[e].pc = "write" /\ edit[e].sync)
Shown     == ~blurred /\ (\A e \in Request : ~Behind(e)) => Reflects(config.shown)

Served == ~blurred => \A c \in config.shown.categories : c[2] \subseteq file

CatInv == CatTyped /\ Filing /\ OneAlone /\ AllStand /\ Shown /\ Served

\* The rows are the same, but for events that have passed.
LEMMA ReflectsKept ==
    ASSUME NEW shown, Reflects(shown), service' = service, category' = category,
           \A c \in Category : Cat!Filed(c)' = Cat!Filed(c),
           \A v \in Event : event'[v] = event[v] \/ event'[v].past
    PROVE  Reflects(shown)'
BY DEF Reflects

\* What is shown of the materials has its files.
LEMMA ReflectsServed ==
    ASSUME CatTyped, Filing, Reflects(config.shown)
    PROVE  Served
<1> SUFFICES ASSUME NEW c \in config.shown.categories PROVE c[2] \subseteq file
  BY DEF Served
<1>1. PICK k \in Category, A \in SUBSET Asset : c = <<k, A>>
  BY DEF CatTyped, Cat!Config, Cat!Snapshot
<1>2. A = Cat!Filed(k)
  BY <1>1 DEF Reflects
<1>3. \A a \in Cat!Filed(k) : asset[a] # "none"
  BY MarksAreNoNames DEF Cat!Filed
<1> QED BY <1>1, <1>2, <1>3 DEF Filing, Cat!Filed

LEMMA ReflectsServedNext == CatTyped' /\ Filing' /\ Reflects(config.shown)' => Served'
<1>1. CatTyped /\ Filing /\ Reflects(config.shown) => Served
  BY ReflectsServed
<1> QED
  BY <1>1, PTL

\* A step in which nobody starts, the rows stay and so does what is shown.
LEMMA GoesOn ==
    ASSUME CatInv, CatTyped', Filing', NEW e \in Request, OtherEdits(e), Busy(e),
           service' = service, category' = category, event' = event,
           \A c \in Category : Cat!Filed(c)' = Cat!Filed(c),
           config' = config,
           ~blurred' => ~blurred,
           ByItself(e)' => ByItself(e), ~blurred' => (Busy(e)' => ByItself(e)'),
           ByItself(e)' => Stands(e)',
           ~blurred' => (Behind(e) => Behind(e)'),
           file \subseteq file' \/ (~blurred' => ~Behind(e))
    PROVE  CatInv'
<1>1. \A x \in Request \ {e} : /\ edit'[x] = edit[x]
                               /\ Busy(x)' = Busy(x) /\ ByItself(x)' = ByItself(x)
                               /\ Behind(x)' = Behind(x)
  BY CatSame DEF OtherEdits, Behind
<1>2. \A x \in Request \ {e} : ~ByItself(x)
  BY DEF CatInv, OneAlone
<1>3. OneAlone'
  BY <1>1, <1>2 DEF CatInv, OneAlone
<1>4. AllStand'
  BY <1>1, <1>2 DEF AllStand
<1>5. ASSUME ~blurred', \A x \in Request : ~Behind(x) PROVE Reflects(config.shown)'
  <2>1. Reflects(config.shown)
    BY <1>5 DEF CatInv, Shown
  <2>2. PICK s : s = config.shown
    OBVIOUS
  <2>3. Reflects(s)'
    BY <2>1, <2>2, ReflectsKept
  <2> QED BY <2>2, <2>3 DEF Reflects
<1>6. Shown'
  BY <1>1, <1>5 DEF Shown
<1>7. Served'
  <2>1. CASE file \subseteq file'
    BY <2>1 DEF CatInv, Served
  <2>2. CASE blurred'
    BY <2>2 DEF Served
  <2>3. CASE ~blurred' /\ ~Behind(e)
    <3>1. ByItself(e)
      BY <2>3 DEF CatInv, OneAlone
    <3>2. \A x \in Request \ {e} : ~Busy(x)
      BY <3>1 DEF CatInv, OneAlone
    <3>3. \A x \in Request : ~Behind(x)
      BY <2>3, <3>2 DEF Behind, Busy, Cat!Idle
    <3> QED BY <1>5, <2>3, <3>3, ReflectsServedNext
  <2> QED BY <2>1, <2>2, <2>3
<1> QED BY <1>3, <1>4, <1>6, <1>7 DEF CatInv

LEMMA CatInvInit == Cat!Init => CatInv
<1> SUFFICES ASSUME Cat!Init PROVE CatInv
  OBVIOUS
<1>1. RowsTyped
  BY DEF Cat!Init, RowsTyped, Cat!Services, Cat!NoService, Cat!Assets, Cat!Events, Cat!NoEvent
<1>2. \A e \in Request : edit[e] = Cat!Idle /\ edit[e].pc = "idle" /\ ~Busy(e)
  BY DEF Cat!Init, Busy, Cat!Idle
<1>3. EditsTyped
  BY <1>2 DEF Cat!Init, EditsTyped, CatRequests
<1>4. PICK f \in Form : config = [form |-> f, shown |-> Cat!Empty]
  BY DEF Cat!Init
<1>5. config \in Cat!Config /\ config.shown = Cat!Empty
  BY <1>4 DEF Cat!Config, Cat!Empty, Cat!Snapshot
<1>6. \A e \in Request : Drop(e) = {} /\ Uploads(e) = {} /\ ~ByItself(e)
  BY <1>2 DEF Drop, Uploads, ByItself
<1>7. Filing
  BY <1>6 DEF Filing, Cat!Init
<1>8. OneAlone /\ AllStand
  BY <1>2, <1>6 DEF OneAlone, AllStand
<1>9. Reflects(config.shown)
  BY <1>5 DEF Reflects, Cat!Init, Cat!Empty, Cat!NoService, Cat!NoEvent
<1>10. Served
  BY <1>5 DEF Served, Cat!Empty
<1> QED BY <1>1, <1>3, <1>5, <1>7, <1>8, <1>9, <1>10 DEF CatInv, CatTyped, Shown

\* Somebody starts.
LEMMA Starts ==
    ASSUME CatInv, CatTyped', Filing', NEW e \in Request, Met(e), ~Busy(e),
           config' = config, file \subseteq file',
           ~blurred' => ~blurred /\ \A x \in Request : ~Busy(x),
           ByItself(e)' <=> \A x \in Request : ~Busy(x),
           ByItself(e)' => Stands(e)',
           ~blurred' => Behind(e)' \/ (Reflects(config.shown) => Reflects(config.shown)')
    PROVE  CatInv'
<1>1. OneAlone'
  BY DEF OneAlone, Met
<1>2. AllStand'
  BY DEF AllStand, Met
<1>3. ASSUME ~blurred', \A x \in Request : ~Behind(x)' PROVE Reflects(config.shown)'
  <2>1. \A x \in Request : ~Behind(x)
    BY <1>3 DEF Busy, Behind, Cat!Idle
  <2>2. Reflects(config.shown)
    BY <1>3, <2>1 DEF CatInv, Shown
  <2> QED BY <1>3, <2>2
<1>4. Shown'
  BY <1>3 DEF Shown
<1>5. Served'
  BY DEF CatInv, Served
<1> QED BY <1>1, <1>2, <1>4, <1>5 DEF CatInv

LEMMA CatInvEdit == ASSUME CatInv, NEW e \in Request, IsEdit(e) PROVE CatInv'
<1>1. PICK drop \in SUBSET Asset, held \in {{}, {config}} :
          EditOf(e, held, drop) /\ RowsTyped' /\ LetsGo(drop)
  BY DEF IsEdit
<1>2. held \in SUBSET Cat!Config /\ CatTyped
  BY DEF CatInv, CatTyped
<1>3. /\ CatTyped' /\ Met(e) /\ ~Busy(e) /\ Drop(e)' = drop /\ Uploads(e)' = {}
      /\ edit'[e].pc = "changed" /\ edit'[e].held = held
      /\ ~blurred' => ~blurred /\ \A x \in Request : ~Busy(x)
      /\ ByItself(e)' <=> \A x \in Request : ~Busy(x)
  BY <1>1, <1>2, EditDoes
<1>4. file' = file /\ config' = config
  BY <1>1 DEF EditOf
<1>5. Filing'
  BY <1>1, <1>2, <1>3, <1>4, FilingStarts DEF CatInv
<1>6. Behind(e)' /\ Stands(e)'
  BY <1>3, <1>4 DEF Behind, Stands
<1> QED BY <1>3, <1>4, <1>5, <1>6, Starts DEF CatInv

LEMMA CatInvUpload ==
    ASSUME CatInv, NEW e \in Request, NEW a \in Asset, Cat!Upload(e, a)
    PROVE  CatInv'
<1>1. /\ CatTyped' /\ Met(e) /\ ~Busy(e) /\ edit'[e].pc = "upload"
      /\ Uploads(e)' = {a} /\ Drop(e)' = {} /\ file' = file \cup {a} /\ asset' = asset
      /\ ~blurred' => ~blurred /\ \A x \in Request : ~Busy(x)
      /\ ByItself(e)' <=> \A x \in Request : ~Busy(x)
  BY UploadDoes DEF CatInv
<1>2. /\ asset[a] = "none" /\ a \notin file
      /\ \A x \in Request : edit[x].pc = "upload" => edit[x].asset # a
      /\ service' = service /\ category' = category /\ event' = event /\ config' = config
  BY DEF Cat!Upload, Cat!rows
<1>3. \A x \in Request \ {e} : Drop(x)' = Drop(x) /\ Uploads(x)' = Uploads(x)
  BY <1>1 DEF Met
<1>4. \A x \in Request : a \notin Uploads(x) /\ a \notin Drop(x)
  BY <1>2 DEF Uploads, CatInv, Filing
<1>5. Filing'
  <2>1. \A b \in Asset : asset'[b] # "none" => b \in file' /\ \A x \in Request : b \notin Drop(x)'
    BY <1>1, <1>3 DEF CatInv, Filing
  <2>2. \A x \in Request : Drop(x)' \subseteq file'
    BY <1>1, <1>3 DEF CatInv, Filing
  <2>3. \A x, y \in Request : x # y => Drop(x)' \cap Drop(y)' = {}
    BY <1>1, <1>3 DEF CatInv, Filing
  <2>4. \A x, y \in Request : x # y => Uploads(x)' \cap Uploads(y)' = {}
    BY <1>1, <1>3, <1>4 DEF CatInv, Filing
  <2>5. \A x \in Request : \A b \in Uploads(x)' :
            b \in file' /\ asset'[b] = "none" /\ \A y \in Request : b \notin Drop(y)'
    BY <1>1, <1>2, <1>3, <1>4 DEF CatInv, Filing
  <2> QED BY <2>1, <2>2, <2>3, <2>4, <2>5 DEF Filing
<1>6. Stands(e)'
  BY <1>1 DEF Stands
<1>7. Reflects(config.shown) => Reflects(config.shown)'
  BY <1>1, <1>2 DEF Reflects, Cat!Filed
<1> QED BY <1>1, <1>2, <1>5, <1>6, <1>7, Starts

LEMMA CatInvSubmitForm ==
    ASSUME CatInv, NEW e \in Request, NEW f \in Form, Cat!SubmitForm(e, f)
    PROVE  CatInv'
<1>1. /\ CatTyped' /\ Met(e) /\ ~Busy(e)
      /\ Uploads(e)' = {} /\ Drop(e)' = {}
      /\ file' = file /\ config' = config
      /\ service' = service /\ category' = category /\ asset' = asset /\ event' = event
      /\ edit'[e].pc = "write" /\ edit'[e].old = config /\ ~edit'[e].sync
      /\ edit'[e].new.shown = config.shown
      /\ ~blurred' => ~blurred /\ \A x \in Request : ~Busy(x)
      /\ ByItself(e)' <=> \A x \in Request : ~Busy(x)
  BY SubmitFormDoes DEF CatInv
<1>2. LetsGo({})
  BY <1>1 DEF LetsGo
<1>3. Filing'
  BY <1>1, <1>2, FilingStarts DEF CatInv
<1>4. Stands(e)'
  BY <1>1 DEF Stands
<1>5. Reflects(config.shown) => Reflects(config.shown)'
  BY <1>1 DEF Reflects, Cat!Filed
<1> QED BY <1>1, <1>3, <1>4, <1>5, Starts

LEMMA CatInvKeepUpload == ASSUME CatInv, NEW e \in Request, Cat!KeepUpload(e) PROVE CatInv'
<1>1. /\ CatTyped' /\ OtherEdits(e) /\ edit[e].pc = "upload" /\ Busy(e) /\ ~Busy(e)'
      /\ Drop(e)' = {} /\ Uploads(e)' = {}
      /\ service' = service /\ category' = category /\ event' = event
      /\ file' = file /\ config' = config /\ blurred' = blurred
  BY KeepUploadDoes DEF CatInv
<1>2. PICK a \in Uploads(e) : asset' = [asset EXCEPT ![a] = "unfiled"]
  BY KeepUploadDoes DEF CatInv
<1>3. \A x \in Request \ {e} : Drop(x)' = Drop(x) /\ Uploads(x)' = Uploads(x)
  BY <1>1, CatSame DEF OtherEdits
<1>4. /\ a \in Asset /\ a \in file /\ asset[a] = "none"
      /\ \A x \in Request : a \notin Drop(x)
      /\ \A x \in Request \ {e} : a \notin Uploads(x)
  BY <1>2, DropsAreAssets DEF CatInv, Filing
<1>5. asset \in [Asset -> Cat!Assets]
  BY DEF CatInv, CatTyped, RowsTyped
<1>6. Filing'
  <2>1. \A b \in Asset : asset'[b] # "none" => b \in file' /\ \A x \in Request : b \notin Drop(x)'
    BY <1>1, <1>2, <1>3, <1>4, <1>5 DEF CatInv, Filing
  <2>2. \A x \in Request : Drop(x)' \subseteq file'
    BY <1>1, <1>3 DEF CatInv, Filing
  <2>3. \A x, y \in Request : x # y => /\ Drop(x)' \cap Drop(y)' = {}
                                       /\ Uploads(x)' \cap Uploads(y)' = {}
    BY <1>1, <1>3 DEF CatInv, Filing
  <2>4. \A x \in Request : \A b \in Uploads(x)' :
            b \in file' /\ asset'[b] = "none" /\ \A y \in Request : b \notin Drop(y)'
    BY <1>1, <1>2, <1>3, <1>4, <1>5 DEF CatInv, Filing
  <2> QED BY <2>1, <2>2, <2>3, <2>4 DEF Filing
<1>7. \A c \in Category : Cat!Filed(c)' = Cat!Filed(c)
  BY <1>2, <1>4, <1>5, MarksAreNoNames DEF Cat!Filed
<1>8. ~Behind(e) /\ ~ByItself(e)'
  BY <1>1 DEF Behind, ByItself
<1> QED BY <1>1, <1>6, <1>7, <1>8, GoesOn

LEMMA CatInvReadAgent == ASSUME CatInv, NEW e \in Request, Cat!ReadAgent(e) PROVE CatInv'
<1>1. /\ CatTyped' /\ OtherEdits(e) /\ edit[e].pc = "changed" /\ edit'[e].pc = "read"
      /\ edit'[e].held = (IF edit[e].held = {} THEN {config} ELSE edit[e].held)
      /\ Drop(e)' = Drop(e) /\ Uploads(e)' = Uploads(e)
      /\ Busy(e) /\ (ByItself(e)' <=> ByItself(e))
      /\ service' = service /\ category' = category /\ asset' = asset /\ event' = event
      /\ file' = file /\ config' = config /\ blurred' = blurred
  BY ReadAgentDoes DEF CatInv
<1>2. Filing'
  BY <1>1, FilingGoes DEF CatInv
<1>3. \A c \in Category : Cat!Filed(c)' = Cat!Filed(c)
  BY <1>1 DEF Cat!Filed
<1>4. ByItself(e)' => Stands(e)'
  BY <1>1 DEF CatInv, AllStand, Stands
<1>5. ~blurred => ByItself(e)
  BY <1>1 DEF CatInv, OneAlone
<1>6. Behind(e)'
  BY <1>1 DEF Behind
<1> QED BY <1>1, <1>2, <1>3, <1>4, <1>5, <1>6, GoesOn

LEMMA CatInvProject == ASSUME CatInv, NEW e \in Request, Cat!Project(e) PROVE CatInv'
<1>1. /\ CatTyped' /\ OtherEdits(e) /\ edit[e].pc = "read" /\ edit'[e].pc = "write"
      /\ edit'[e].old \in edit[e].held /\ edit'[e].sync
      /\ Reflects(edit'[e].new.shown)
      /\ Drop(e)' = Drop(e) /\ Uploads(e)' = Uploads(e)
      /\ Busy(e) /\ (ByItself(e)' <=> ByItself(e))
      /\ service' = service /\ category' = category /\ asset' = asset /\ event' = event
      /\ file' = file /\ config' = config /\ blurred' = blurred
  BY ProjectDoes DEF CatInv
<1>2. Filing'
  BY <1>1, FilingGoes DEF CatInv
<1>3. \A c \in Category : Cat!Filed(c)' = Cat!Filed(c)
  BY <1>1 DEF Cat!Filed
<1>4. ByItself(e)' => edit'[e].old = config
  BY <1>1 DEF CatInv, AllStand, Stands
<1>5. Reflects(edit[e].new.shown)'
  <2>1. PICK s : s = edit'[e].new.shown
    OBVIOUS
  <2>2. Reflects(s)'
    BY <1>1, <1>3, <2>1, ReflectsKept
  <2> QED BY <2>1, <2>2 DEF Reflects
<1>6. ByItself(e)' => Stands(e)'
  BY <1>1, <1>4, <1>5 DEF Stands
<1>7. ~blurred => ByItself(e)
  BY <1>1 DEF CatInv, OneAlone
<1>8. Behind(e)'
  BY <1>1 DEF Behind
<1> QED BY <1>1, <1>2, <1>3, <1>6, <1>7, <1>8, GoesOn

LEMMA CatInvWrite == ASSUME CatInv, NEW e \in Request, Cat!Write(e) PROVE CatInv'
<1>1. /\ CatTyped' /\ OtherEdits(e) /\ edit[e].pc = "write" /\ Busy(e)
      /\ config' = IF edit[e].new = edit[e].old THEN config ELSE edit[e].new
      /\ Drop(e)' = Drop(e) /\ Uploads(e)' = {} /\ Uploads(e) = {}
      /\ edit'[e].pc \in {"idle", "unlink"} /\ (ByItself(e)' => ByItself(e))
      /\ Busy(e)' => (ByItself(e)' <=> ByItself(e))
      /\ blurred' = (blurred /\ ~(edit[e].sync /\ edit[e].alone))
      /\ service' = service /\ category' = category /\ asset' = asset /\ event' = event
      /\ file' = file
  BY WriteDoes DEF CatInv
<1>2. Filing'
  BY <1>1, FilingGoes DEF CatInv
<1>3. \A x \in Request \ {e} : /\ edit'[x] = edit[x]
                               /\ Busy(x)' = Busy(x) /\ ByItself(x)' = ByItself(x)
  BY <1>1, CatSame DEF OtherEdits
<1>4. \A x \in Request \ {e} : ~ByItself(x)
  BY <1>1 DEF CatInv, OneAlone
<1>5. ~blurred' => ByItself(e)
  <2>1. CASE blurred
    BY <1>1, <2>1 DEF ByItself
  <2>2. CASE ~blurred
    BY <1>1, <2>2 DEF CatInv, OneAlone
  <2> QED BY <2>1, <2>2
<1>6. ByItself(e) => \A x \in Request \ {e} : ~Busy(x)
  BY DEF CatInv, OneAlone
<1>7. OneAlone'
  BY <1>1, <1>3, <1>4, <1>5, <1>6 DEF OneAlone
<1>8. AllStand'
  BY <1>1, <1>3, <1>4 DEF AllStand, Stands
<1>9. ASSUME ~blurred' PROVE Reflects(config.shown)'
  <2>1. ByItself(e) /\ config' = edit[e].new
    BY <1>1, <1>5, <1>9 DEF CatInv, AllStand, Stands
  <2>2. Reflects(edit[e].new.shown)
    <3>1. CASE edit[e].sync
      BY <1>1, <2>1, <3>1 DEF CatInv, AllStand, Stands
    <3>2. CASE ~edit[e].sync
      <4>1. \A x \in Request : ~Behind(x)
        BY <1>1, <1>6, <2>1, <3>2 DEF Behind, Busy, Cat!Idle
      <4>2. Reflects(config.shown)
        BY <1>1, <1>9, <3>2, <4>1 DEF CatInv, Shown
      <4> QED BY <1>1, <2>1, <3>2, <4>2 DEF CatInv, AllStand, Stands
    <3> QED BY <3>1, <3>2
  <2>3. PICK s : s = edit[e].new.shown
    OBVIOUS
  <2>4. \A c \in Category : Cat!Filed(c)' = Cat!Filed(c)
    BY <1>1 DEF Cat!Filed
  <2>5. Reflects(s)'
    BY <1>1, <2>2, <2>3, <2>4, ReflectsKept
  <2> QED BY <2>1, <2>3, <2>5 DEF Reflects
<1>10. Shown'
  BY <1>9 DEF Shown
<1>11. Served'
  <2>1. CASE blurred'
    BY <2>1 DEF Served
  <2>2. CASE ~blurred'
    BY <1>1, <1>2, <1>9, <2>2, ReflectsServedNext
  <2> QED BY <2>1, <2>2
<1> QED BY <1>1, <1>2, <1>7, <1>8, <1>10, <1>11 DEF CatInv

LEMMA CatInvUnlink == ASSUME CatInv, NEW e \in Request, Cat!Unlink(e) PROVE CatInv'
<1>1. /\ CatTyped' /\ OtherEdits(e) /\ edit[e].pc = "unlink" /\ Busy(e)
      /\ Uploads(e)' = {} /\ Uploads(e) = {}
      /\ edit'[e].pc \in {"idle", "unlink"} /\ (ByItself(e)' => ByItself(e))
      /\ Busy(e)' => (ByItself(e)' <=> ByItself(e))
      /\ service' = service /\ category' = category /\ asset' = asset /\ event' = event
      /\ config' = config /\ blurred' = blurred
  BY UnlinkDoes DEF CatInv
<1>2. PICK a \in Drop(e) : file' = file \ {a} /\ Drop(e)' = Drop(e) \ {a}
  BY UnlinkDoes DEF CatInv
<1>3. \A x \in Request \ {e} : /\ Drop(x)' = Drop(x) /\ Uploads(x)' = Uploads(x)
                               /\ a \notin Drop(x)
  BY <1>1, CatSame DEF OtherEdits, CatInv, Filing
<1>4. (\A b \in Asset : asset[b] # "none" => b # a) /\ \A x \in Request : a \notin Uploads(x)
  BY DEF CatInv, Filing
<1>5. Filing'
  <2>1. \A b \in Asset : asset'[b] # "none" => b \in file' /\ \A x \in Request : b \notin Drop(x)'
    BY <1>1, <1>2, <1>3, <1>4 DEF CatInv, Filing
  <2>2. \A x \in Request : Drop(x)' \subseteq file'
    BY <1>2, <1>3 DEF CatInv, Filing
  <2>3. \A x, y \in Request : x # y => /\ Drop(x)' \cap Drop(y)' = {}
                                       /\ Uploads(x)' \cap Uploads(y)' = {}
    BY <1>1, <1>2, <1>3 DEF CatInv, Filing
  <2>4. \A x \in Request : \A b \in Uploads(x)' :
            b \in file' /\ asset'[b] = "none" /\ \A y \in Request : b \notin Drop(y)'
    BY <1>1, <1>2, <1>3, <1>4 DEF CatInv, Filing
  <2> QED BY <2>1, <2>2, <2>3, <2>4 DEF Filing
<1>6. \A c \in Category : Cat!Filed(c)' = Cat!Filed(c)
  BY <1>1 DEF Cat!Filed
<1>7. ~Behind(e) /\ Stands(e)' /\ (~blurred => ByItself(e))
  BY <1>1 DEF Behind, Stands, CatInv, OneAlone
<1> QED BY <1>1, <1>5, <1>6, <1>7, GoesOn

LEMMA CatInvCrash == ASSUME CatInv, NEW e \in Request, Cat!Crash(e) PROVE CatInv'
<1>1. /\ CatTyped' /\ OtherEdits(e) /\ ~Busy(e)' /\ Drop(e)' = {} /\ Uploads(e)' = {}
      /\ ~blurred' => ~blurred /\ edit[e].pc \notin {"changed", "read", "write"}
      /\ service' = service /\ category' = category /\ asset' = asset /\ event' = event
      /\ file' = file /\ config' = config
  BY CatCrashDoes DEF CatInv
<1>2. Filing'
  BY <1>1, FilingGoes DEF CatInv
<1>3. \A c \in Category : Cat!Filed(c)' = Cat!Filed(c)
  BY <1>1 DEF Cat!Filed
<1>4. Busy(e) /\ ~ByItself(e)' /\ (~blurred' => ~Behind(e))
  BY <1>1 DEF Busy, ByItself, Behind, Cat!Crash
<1> QED BY <1>1, <1>2, <1>3, <1>4, GoesOn

LEMMA CatInvEventPasses == ASSUME CatInv, NEW v \in Event, Cat!EventPasses(v) PROVE CatInv'
<1>1. /\ CatTyped' /\ edit' = edit /\ blurred' = blurred
      /\ service' = service /\ category' = category /\ asset' = asset
      /\ file' = file /\ config' = config
      /\ \A x \in Event : event'[x] = event[x] \/ event'[x].past
  BY EventPassesDoes DEF CatInv
<1>2. \A x \in Request : /\ Drop(x)' = Drop(x) /\ Uploads(x)' = Uploads(x)
                         /\ Busy(x)' = Busy(x) /\ ByItself(x)' = ByItself(x)
                         /\ Behind(x)' = Behind(x)
  BY <1>1, CatSame DEF Behind
<1>3. \A c \in Category : Cat!Filed(c)' = Cat!Filed(c)
  BY <1>1 DEF Cat!Filed
<1>4. \A s : Reflects(s) => Reflects(s)'
  BY <1>1, <1>3, ReflectsKept
<1>5. Filing'
  BY <1>1, <1>2 DEF CatInv, Filing
<1>6. OneAlone' /\ Served'
  BY <1>1, <1>2 DEF CatInv, OneAlone, Served
<1>7. Reflects(config.shown) => Reflects(config.shown)'
  <2>1. PICK s : s = config.shown
    OBVIOUS
  <2> QED BY <1>1, <1>4, <2>1 DEF Reflects
<1>8. Shown'
  BY <1>1, <1>2, <1>7 DEF CatInv, Shown
<1>9. ASSUME NEW e \in Request, ByItself(e) PROVE Stands(e)'
  <2>1. PICK s : s = edit[e].new.shown
    OBVIOUS
  <2>2. Reflects(edit[e].new.shown) => Reflects(edit[e].new.shown)'
    BY <1>1, <1>4, <2>1 DEF Reflects
  <2> QED BY <1>1, <1>9, <2>2 DEF CatInv, AllStand, Stands
<1>10. AllStand'
  BY <1>2, <1>9 DEF AllStand
<1> QED BY <1>1, <1>5, <1>6, <1>8, <1>10 DEF CatInv

LEMMA CatInvStutter == ASSUME CatInv, UNCHANGED Cat!vars PROVE CatInv'
<1>1. /\ edit' = edit /\ blurred' = blurred /\ event' = event
      /\ service' = service /\ category' = category /\ asset' = asset
      /\ file' = file /\ config' = config
  BY DEF Cat!vars
<1>2. CatTyped'
  BY <1>1 DEF CatInv, CatTyped, RowsTyped, EditsTyped
<1>3. Filing' /\ OneAlone' /\ Served'
  BY <1>1 DEF CatInv, Filing, OneAlone, Served, Drop, Uploads, Busy, ByItself
<1>4. Shown'
  BY <1>1 DEF CatInv, Shown, Reflects, Cat!Filed, Behind
<1>5. AllStand'
  BY <1>1 DEF CatInv, AllStand, Stands, Reflects, Cat!Filed, ByItself, Busy
<1> QED BY <1>2, <1>3, <1>4, <1>5 DEF CatInv

LEMMA CatInvNext == ASSUME CatInv, [Cat!Next]_(Cat!vars) PROVE CatInv'
<1>1. CatTyped
  BY DEF CatInv
<1>2. ASSUME NEW e \in Request, Cat!Sync(e) PROVE CatInv'
  BY <1>2, CatInvReadAgent, CatInvProject, CatInvWrite, CatInvUnlink, CatInvKeepUpload
     DEF Cat!Sync
<1>3. ASSUME NEW e \in Request, NEW s \in Service,
             \/ Cat!DeleteService(e, s)
             \/ \E c \in Category \cup {None} :
                   \/ Cat!CreateService(e, s, c)
                   \/ \E x \in {"active", "off"} : Cat!UpdateService(e, s, c, x)
      PROVE  CatInv'
  <2>1. IsEdit(e)
    BY <1>1, <1>3, EditOfServices
  <2> QED BY <2>1, CatInvEdit
<1>4. ASSUME NEW e \in Request, NEW c \in Category,
             \/ Cat!DeleteCategory(e, c)
             \/ \E A \in SUBSET Asset : Cat!SaveCategory(e, c, A)
      PROVE  CatInv'
  BY <1>1, <1>4, EditOfCategories, CatInvEdit
<1>5. ASSUME NEW e \in Request, NEW a \in Asset, Cat!DeleteMaterial(e, a) PROVE CatInv'
  BY <1>1, <1>5, EditOfMaterials, CatInvEdit
<1>6. ASSUME NEW e \in Request, NEW v \in Event,
             \/ Cat!DeleteEvent(e, v)
             \/ \E s \in Service : Cat!CreateEvent(e, v, s)
             \/ \E x \in {"open", "closed"}, p \in BOOLEAN : Cat!UpdateEvent(e, v, x, p)
      PROVE  CatInv'
  <2>1. IsEdit(e)
    BY <1>1, <1>6, EditOfEvents
  <2> QED BY <2>1, CatInvEdit
<1> QED
  BY <1>2, <1>3, <1>4, <1>5, <1>6, CatInvUpload, CatInvSubmitForm, CatInvCrash,
     CatInvEventPasses, CatInvStutter
     DEF Cat!Next

LEMMA CatInvAlways == Cat!Spec => []CatInv
<1>1. CatInv /\ [Cat!Next]_(Cat!vars) => CatInv'
  BY CatInvNext
<1> QED
  BY <1>1, CatInvInit, PTL DEF Cat!Spec

\* What the bot reads is the catalogue and the agenda whenever no request is in progress, unless
\* requests have overlapped or died and none has synchronised alone since; the form of the agent,
\* which writes the same column, takes nothing from it (CatalogSnapshotService.sync,
\* AgentConfigService).
THEOREM SnapshotStaysCurrent == Cat!Spec => []SnapshotIsCurrent
<1>1. CatInv => SnapshotIsCurrent
  <2> SUFFICES ASSUME CatInv, ~Cat!InUse, ~blurred PROVE Reflects(config.shown)
    BY DEF SnapshotIsCurrent, Cat!SnapshotIsCurrent, Reflects
  <2>1. \A e \in Request : ~Behind(e)
    BY DEF Cat!InUse, Behind, Cat!Idle
  <2> QED BY <2>1 DEF CatInv, Shown
<1> QED
  BY <1>1, CatInvAlways, PTL

\* A material that has a row has its file, whatever requests overlap or die; and so has what the
\* bot may send, unless they did (delete_category and delete_material unlink last, and an upload
\* writes its file first).
THEOREM MaterialsStayServed == Cat!Spec => []MaterialsServed
<1>1. CatInv => MaterialsServed
  BY DEF CatInv, Filing, Served, MaterialsServed, Cat!MaterialsServed
<1> QED
  BY <1>1, CatInvAlways, PTL

(***************************************************************************)
(* The inbox.                                                              *)
(***************************************************************************)
Opportunity == [born : Nat, closed : BOOLEAN, ai : BOOLEAN, attended : Nat, mark : Nat]
Said        == [opp : Chat!Opps, role : {"user", "assistant", "system"}, at : Nat \ {0}]
Turns       == [opp : Chat!Opps, at : Nat \ {0}, read : (SUBSET Nat) \ {{}}]
Replies     == {Chat!Idle}
                 \cup [pc : {"send", "mirror"}, opp : Chat!Opps, at : Nat, read : SUBSET Nat]

ChatTyped == /\ now \in Nat
             /\ opp \in Seq(Opportunity)
             /\ said \subseteq Said
             /\ app \subseteq [opp : Chat!Opps, at : Nat]
             /\ inbound # None => inbound \in [opp : 1 .. Len(opp) + 1, at : Nat \ {0}]
             /\ turn # None => turn \in Turns
             /\ reply \in [Request -> Replies]

\* Whatever the board compares happened, and at the moment of an open inbound nothing else did.
Before(t) == t <= now /\ (inbound # None => t # inbound.at)
Dated == /\ \A m \in said : Before(m.at)
         /\ \A h \in app : Before(h.at)
         /\ \A c \in Chat!Opps : Before(opp[c].attended)
         /\ turn # None => Before(turn.at) /\ \A t \in turn.read : t <= now
         /\ \A r \in Request : reply[r] # Chat!Idle => Before(reply[r].at)
         /\ inbound # None => inbound.at <= now

\* A message of the lead that nobody had before them when they answered, and that met no race,
\* is later than all that the board counts as an answer in its opportunity, and than whatever
\* the turn or a reply in flight that does not have it will write there.
Unheard(m) == m \in said /\ m.role = "user" /\ m.at \notin dealt \cup raced
Later(m) ==
    /\ \A a \in said : a.opp = m.opp /\ a.role = "assistant" => a.at < m.at
    /\ \A h \in app : h.at < m.at
    /\ opp[m.opp].attended < m.at
    /\ turn # None /\ turn.opp = m.opp /\ m.at \notin turn.read => turn.at < m.at
    /\ \A r \in Request : reply[r] # Chat!Idle /\ reply[r].opp = m.opp /\ m.at \notin reply[r].read
                             => reply[r].at < m.at
HeardLater == \A m \in said : Unheard(m) => Later(m)

ChatInv == ChatTyped /\ Dated /\ HeardLater

\* A set of times has a last one (Max of FiniteSetsExt).
LEMMA LatestIs ==
    ASSUME NEW n \in Nat, NEW T, T \subseteq 0 .. n, T # {}
    PROVE  Chat!Max(T) \in T /\ \A y \in T : Chat!Max(T) >= y
<1> DEFINE R == StrictSubsetOrdering(Nat)
           F == {0 .. (n - x) : x \in T}
<1>1. IsWellFoundedOn(R, FiniteSubsetsOf(Nat))
  BY FS_StrictSubsetOrderingWellFounded
<1>2. F \subseteq FiniteSubsetsOf(Nat) /\ F # {}
  <2>1. ASSUME NEW x \in T PROVE 0 .. (n - x) \in FiniteSubsetsOf(Nat)
    <3>1. IsFiniteSet(0 .. (n - x))
      BY FS_Interval
    <3> QED
      BY <3>1 DEF FiniteSubsetsOf
  <2> QED
    BY <2>1
<1>3. PICK d \in F : \A e \in F : ~(<<e, d>> \in R)
  <2> HIDE DEF R, F
  <2> QED
    BY <1>1, <1>2, WFMin
<1>4. PICK x \in T : d = 0 .. (n - x)
  OBVIOUS
<1>5. ASSUME NEW y \in T, x < y PROVE FALSE
  <2>1. /\ 0 .. (n - y) \subseteq 0 .. (n - x) /\ 0 .. (n - x) \subseteq Nat
        /\ n - x \in 0 .. (n - x) /\ n - x \notin 0 .. (n - y)
    BY <1>5
  <2>2. 0 .. (n - y) \in F
    OBVIOUS
  <2>3. <<0 .. (n - y), d>> \in R
    BY <1>4, <2>1 DEF StrictSubsetOrdering
  <2> QED
    BY <1>3, <2>2, <2>3
<1>6. \A y \in T : x >= y
  BY <1>5
<1> QED
  BY <1>6 DEF Chat!Max

LEMMA ReplyIs ==
    ASSUME NEW q \in Replies
    PROVE  q # Chat!Idle => /\ q.pc \in {"send", "mirror"} /\ q.opp \in Chat!Opps
                            /\ q.at \in Nat /\ q.read \subseteq Nat
BY DEF Replies, Chat!Idle

LEMMA ChatInvInit == Chat!Init => ChatInv
<1> SUFFICES ASSUME Chat!Init PROVE ChatInv
  OBVIOUS
<1>1. opp = <<>> /\ said = {} /\ app = {} /\ inbound = None /\ turn = None /\ now = 0
      /\ \A r \in Request : reply[r] = Chat!Idle
  BY DEF Chat!Init
<1>2. ChatTyped
  BY <1>1 DEF ChatTyped, Replies, Chat!Init
<1>3. Dated /\ HeardLater
  <2>1. Chat!Opps = {}
    BY <1>1 DEF Chat!Opps
  <2> QED BY <1>1, <2>1 DEF Dated, HeardLater
<1> QED BY <1>2, <1>3 DEF ChatInv

\* One opportunity is written, with the rest of the sequence left alone.
LEMMA OneOpportunity ==
    ASSUME NEW c \in Chat!Opps, NEW q \in Opportunity, opp \in Seq(Opportunity),
           opp' = [opp EXCEPT ![c] = q]
    PROVE  /\ opp' \in Seq(Opportunity) /\ Len(opp') = Len(opp) /\ Chat!Opps' = Chat!Opps
           /\ opp'[c] = q /\ \A d \in Chat!Opps : d # c => opp'[d] = opp[d]
<1>1. c \in 1 .. Len(opp)
  BY DEF Chat!Opps
<1>2. opp' \in Seq(Opportunity) /\ Len(opp') = Len(opp)
      /\ \A d \in 1 .. Len(opp) : opp'[d] = IF d = c THEN q ELSE opp[d]
  BY <1>1, ExceptSeq
<1> QED
  BY <1>1, <1>2 DEF Chat!Opps

\* The fields of what has a type.
LEMMA ChatFields ==
    ASSUME ChatTyped
    PROVE  /\ \A c \in Chat!Opps : opp[c] \in Opportunity /\ opp[c].attended \in Nat
           /\ \A m \in said : m.opp \in Chat!Opps /\ m.at \in Nat \ {0}
           /\ \A h \in app : h.at \in Nat
           /\ inbound # None => inbound.opp \in 1 .. Len(opp) + 1 /\ inbound.at \in Nat \ {0}
           /\ turn # None => turn.opp \in Chat!Opps /\ turn.at \in Nat \ {0}
                             /\ turn.read \subseteq Nat /\ turn.read # {}
           /\ \A r \in Request : reply[r] # Chat!Idle =>
                 reply[r].pc \in {"send", "mirror"} /\ reply[r].opp \in Chat!Opps
                 /\ reply[r].at \in Nat /\ reply[r].read \subseteq Nat
<1>1. \A c \in Chat!Opps : opp[c] \in Opportunity
  BY ElementOfSeq DEF ChatTyped, Chat!Opps
<1>2. \A m \in said : m.opp \in Chat!Opps /\ m.at \in Nat \ {0}
  BY DEF ChatTyped, Said
<1>3. turn # None => turn.opp \in Chat!Opps /\ turn.at \in Nat \ {0}
                     /\ turn.read \subseteq Nat /\ turn.read # {}
  BY DEF ChatTyped, Turns
<1>4. \A r \in Request : reply[r] \in Replies
  BY DEF ChatTyped
<1>5. \A h \in app : h.at \in Nat
  BY DEF ChatTyped
<1>6. inbound # None => inbound.opp \in 1 .. Len(opp) + 1 /\ inbound.at \in Nat \ {0}
  BY DEF ChatTyped
<1> QED
  BY <1>1, <1>2, <1>3, <1>4, <1>5, <1>6, ReplyIs DEF Opportunity

-----------------------------------------------------------------------------
(* The webhook. *)

LEMMA ChatInboundBegins == ASSUME ChatInv, Chat!InboundBegins PROVE ChatInv'
<1> USE DEF ChatInv
<1>1. inbound = None /\ now' = now + 1 /\ inbound' = [opp |-> Chat!Target, at |-> now + 1]
      /\ now \in Nat
  BY DEF Chat!InboundBegins, Chat!Tick, ChatTyped
<1>2. UNCHANGED <<opp, said, app, sent, turn, reply, dealt, raced>>
  BY DEF Chat!InboundBegins
<1>3. Chat!Opps' = Chat!Opps
  BY <1>2 DEF Chat!Opps
<1>4. ChatTyped'
  <2>1. Chat!Target \in 1 .. Len(opp) + 1
    <3>1. Len(opp) \in Nat /\ (opp # <<>> => Len(opp) > 0)
      BY EmptySeq, LenProperties DEF ChatTyped
    <3> QED BY <3>1 DEF Chat!Target
  <2>2. inbound' \in [opp : 1 .. Len(opp) + 1, at : Nat \ {0}]
    BY <1>1, <2>1
  <2> QED BY <1>1, <1>2, <1>3, <2>2 DEF ChatTyped, Said, Turns, Replies
<1>5. Dated'
  <2>1. \A t \in Nat : Before(t) => Before(t)'
    BY <1>1 DEF Before
  <2> QED BY <1>1, <1>2, <1>3, <2>1, ChatFields DEF Dated
<1>6. HeardLater'
  BY <1>2 DEF HeardLater, Unheard, Later
<1> QED BY <1>4, <1>5, <1>6

\* What begins later is after all that the board compares.
LEMMA ChatInboundCommits == ASSUME ChatInv, Chat!InboundCommits PROVE ChatInv'
<1> USE DEF ChatInv
<1>1. PICK c, t : c = inbound.opp /\ t = inbound.at
  OBVIOUS
<1>2. /\ inbound # None /\ inbound' = None
      /\ opp' = IF c > Len(opp) THEN Append(opp, Chat!Opened(t)) ELSE opp
      /\ said' = said \cup {Chat!Row(c, "user", t)}
      /\ raced' = IF now > t THEN raced \cup {t} ELSE raced
      /\ UNCHANGED <<app, sent, turn, reply, dealt, now>>
  BY <1>1 DEF Chat!InboundCommits
<1>3. c \in 1 .. Len(opp) + 1 /\ t \in Nat \ {0} /\ t <= now /\ now \in Nat /\ Len(opp) \in Nat
  BY <1>1, <1>2, ChatFields, LenProperties DEF ChatTyped, Dated
<1>4. /\ opp' \in Seq(Opportunity) /\ Chat!Opps \subseteq Chat!Opps' /\ c \in Chat!Opps'
      /\ \A d \in Chat!Opps : opp'[d] = opp[d]
      /\ \A d \in Chat!Opps' : d \in Chat!Opps \/ (d = c /\ opp'[d].attended = 0)
  <2>1. CASE c > Len(opp)
    <3>1. PICK q : q = Chat!Opened(t)
      OBVIOUS
    <3>2. q \in Opportunity /\ q.attended = 0
      BY <1>3, <3>1 DEF Opportunity, Chat!Opened
    <3>3. /\ Append(opp, q) \in Seq(Opportunity) /\ Len(Append(opp, q)) = Len(opp) + 1
          /\ \A i \in 1 .. Len(opp) : Append(opp, q)[i] = opp[i]
          /\ Append(opp, q)[Len(opp) + 1] = q
      BY <3>2, AppendProperties DEF ChatTyped
    <3> QED BY <1>2, <1>3, <2>1, <3>1, <3>2, <3>3 DEF Chat!Opps
  <2>2. CASE ~(c > Len(opp))
    BY <1>2, <1>3, <2>2 DEF Chat!Opps, ChatTyped
  <2> QED BY <2>1, <2>2
<1>5. ChatTyped'
  <2>1. Chat!Row(c, "user", t) \in Said'
    BY <1>3, <1>4 DEF Said, Chat!Row
  <2>2. said' \subseteq Said' /\ app' \subseteq [opp : Chat!Opps', at : Nat]
    BY <1>2, <1>4, <2>1 DEF Said, ChatTyped
  <2>3. turn' # None => turn' \in Turns'
    BY <1>2, <1>4 DEF Turns, ChatTyped
  <2>4. Replies \subseteq Replies'
    BY <1>4 DEF Replies
  <2>5. reply' \in [Request -> Replies']
    BY <1>2, <2>4 DEF ChatTyped
  <2> QED BY <1>2, <1>4, <2>2, <2>3, <2>5, <1>3 DEF ChatTyped
<1>6. Dated'
  <2>1. \A x \in Nat : Before(x) => Before(x)'
    BY <1>2 DEF Before
  <2>2. Before(t)' /\ Before(0)'
    BY <1>2, <1>3 DEF Before
  <2>3. \A m \in said' : m \in said \/ m.at = t
    BY <1>2 DEF Chat!Row
  <2> QED BY <1>2, <1>4, <2>1, <2>2, <2>3, ChatFields DEF Dated
<1>7. HeardLater'
  <2> SUFFICES ASSUME NEW m \in said', Unheard(m)' PROVE Later(m)'
    BY DEF HeardLater
  <2>1. \A a \in said' : a.role = "assistant" => a \in said
    BY <1>2 DEF Chat!Row
  <2>2. CASE m \in said
    <3>1. Unheard(m) /\ m.opp \in Chat!Opps
      BY <1>2, <2>2, ChatFields DEF Unheard
    <3>2. Later(m)
      BY <2>2, <3>1 DEF HeardLater
    <3> QED BY <1>2, <1>4, <2>1, <3>1, <3>2 DEF Later
  <2>3. CASE m = Chat!Row(c, "user", t)
    <3>1. m.opp = c /\ m.at = t
      BY <2>3 DEF Chat!Row
    <3>2. t = now
      BY <1>2, <1>3, <3>1 DEF Unheard
    <3>3. \A x \in Nat : Before(x) => x < t
      BY <1>1, <1>2, <1>3, <3>2 DEF Before
    <3>4. opp'[c].attended < t
      BY <1>3, <1>4, <3>3, ChatFields DEF Dated
    <3> QED BY <1>2, <2>1, <3>1, <3>3, <3>4, ChatFields DEF Later, Dated
  <2> QED BY <1>2, <2>2, <2>3
<1> QED BY <1>5, <1>6, <1>7

LEMMA ChatInboundFails == ASSUME ChatInv, Chat!InboundFails PROVE ChatInv'
<1> USE DEF ChatInv
<1>1. inbound' = None /\ UNCHANGED <<opp, said, app, sent, turn, reply, dealt, raced, now>>
  BY DEF Chat!InboundFails
<1>2. Chat!Opps' = Chat!Opps
  BY <1>1 DEF Chat!Opps
<1>3. ChatTyped'
  BY <1>1, <1>2 DEF ChatTyped, Said, Turns, Replies
<1>4. Dated'
  BY <1>1, <1>2 DEF Dated, Before
<1>5. HeardLater'
  BY <1>1 DEF HeardLater, Unheard, Later
<1> QED BY <1>3, <1>4, <1>5

-----------------------------------------------------------------------------
(* The agent. *)

\* A later moment leaves what was dated as it was.
LEMMA MomentPasses ==
    ASSUME ChatTyped, Dated, NEW k \in Nat, now' = now + k, inbound' = inbound
    PROVE  /\ \A t \in Nat : Before(t) => Before(t)'
           /\ \A t \in now + 1 .. now + k : Before(t)'
           /\ now' \in Nat /\ (inbound' # None => inbound'.at <= now')
<1>1. now \in Nat /\ (inbound # None => inbound.at \in Nat /\ inbound.at <= now)
  BY ChatFields DEF ChatTyped, Dated
<1> QED BY <1>1 DEF Before

LEMMA ChatLoad == ASSUME ChatInv, NEW c \in Chat!Opps, Chat!Load(c) PROVE ChatInv'
<1> USE DEF ChatInv
<1>1. /\ opp[c].ai /\ Chat!LastSaid(c, "user") > opp[c].mark /\ now' = now + 1
      /\ UNCHANGED <<opp, said, app, sent, inbound, reply, dealt, raced>>
  BY DEF Chat!Load, Chat!Tick
<1>2. PICK k : k = [opp |-> c, at |-> now + 1, read |-> Chat!FromLead(c)]
  OBVIOUS
<1>3. turn' = k /\ k.opp = c /\ k.at = now + 1 /\ k.read = Chat!FromLead(c)
  BY <1>1, <1>2 DEF Chat!Load, Chat!Tick
<1>4. Chat!FromLead(c) \subseteq Nat
  BY ChatFields DEF Chat!FromLead, Chat!Thread
<1>5. Chat!FromLead(c) # {}
  <2> SUFFICES ASSUME Chat!FromLead(c) = {} PROVE FALSE
    OBVIOUS
  <2>1. Chat!LastSaid(c, "user") = Chat!Max({0})
    <3>1. {m.at : m \in {r \in Chat!Thread(c) : r.role = "user"}} \cup {0} = {0}
      BY DEF Chat!FromLead
    <3> QED BY <3>1 DEF Chat!LastSaid, Chat!LastOf
  <2>2. Chat!Max({0}) \in {0}
    <3>1. 0 \in Nat /\ {0} \subseteq 0 .. 0 /\ {0} # {}
      OBVIOUS
    <3> QED BY <3>1, LatestIs
  <2>3. opp[c].mark \in Nat
    BY ChatFields DEF Opportunity
  <2> QED BY <1>1, <2>1, <2>2, <2>3
<1>6. Chat!Opps' = Chat!Opps
  BY <1>1 DEF Chat!Opps
<1>7. /\ \A t \in Nat : Before(t) => Before(t)'
      /\ \A t \in now + 1 .. now + 1 : Before(t)'
      /\ now' \in Nat /\ (inbound' # None => inbound'.at <= now')
  BY <1>1, MomentPasses
<1>8. ChatTyped'
  <2>1. k \in Turns
    <3>1. now + 1 \in Nat \ {0}
      BY DEF ChatTyped
    <3> QED BY <1>2, <1>4, <1>5, <3>1 DEF Turns
  <2> QED BY <1>1, <1>3, <1>6, <1>7, <2>1 DEF ChatTyped, Said, Turns, Replies
<1>9. Dated'
  <2>1. \A t \in Chat!FromLead(c) : t <= now'
    <3>1. now' = now + 1 /\ now \in Nat /\ \A m \in said : m.at \in Nat /\ m.at <= now
      BY <1>1, ChatFields DEF Dated, Before, ChatTyped
    <3> QED BY <3>1 DEF Chat!FromLead, Chat!Thread
  <2>2. k.at \in now + 1 .. now + 1
    BY <1>3 DEF ChatTyped
  <2>3. Before(turn.at)'
    BY <1>3, <1>7, <2>2
  <2> QED BY <1>1, <1>3, <1>6, <1>7, <2>1, <2>3, ChatFields DEF Dated
<1>10. HeardLater'
  <2> SUFFICES ASSUME NEW m \in said, Unheard(m) PROVE Later(m)'
    BY <1>1 DEF HeardLater, Unheard
  <2>1. Later(m)
    BY DEF HeardLater
  <2>2. m.opp = c => m.at \in k.read
    BY <1>3 DEF Unheard, Chat!FromLead, Chat!Thread
  <2> QED BY <1>1, <1>3, <2>1, <2>2 DEF Later
<1> QED BY <1>8, <1>9, <1>10

\* save_turn keeps all but the switch and the mark.
LEMMA SavedKeeps ==
    ASSUME ChatInv, turn # None, NEW on \in BOOLEAN, opp' = Chat!Saved(on)
    PROVE  /\ opp' \in Seq(Opportunity) /\ Len(opp') = Len(opp) /\ Chat!Opps' = Chat!Opps
           /\ \A d \in Chat!Opps : opp'[d].attended = opp[d].attended
<1>1. /\ turn.opp \in Chat!Opps /\ turn.read \subseteq Nat /\ turn.read # {}
      /\ opp \in Seq(Opportunity) /\ opp[turn.opp] \in Opportunity
  BY ChatFields DEF ChatInv, ChatTyped
<1>2. Chat!Max(turn.read) \in Nat
  <2>1. turn.read \subseteq 0 .. now /\ now \in Nat
    BY <1>1 DEF ChatInv, Dated, ChatTyped
  <2> QED BY <1>1, <2>1, LatestIs
<1>3. PICK q : q = [opp[turn.opp] EXCEPT !.ai = on, !.mark = Chat!Max(turn.read)]
  OBVIOUS
<1>4. q \in Opportunity /\ q.attended = opp[turn.opp].attended
  BY <1>1, <1>2, <1>3 DEF Opportunity
<1>5. opp' = [opp EXCEPT ![turn.opp] = q]
  BY <1>3 DEF Chat!Saved
<1> QED BY <1>1, <1>4, <1>5, OneOpportunity

LEMMA ChatSaveTurn == ASSUME ChatInv, Chat!SaveTurn PROVE ChatInv'
<1> USE DEF ChatInv
<1>1. PICK on \in BOOLEAN, speaks \in BOOLEAN :
         /\ opp' = Chat!Saved(on)
         /\ said' = IF speaks THEN said \cup {Chat!Row(turn.opp, "assistant", turn.at)} ELSE said
         /\ dealt' = IF speaks THEN dealt \cup turn.read ELSE dealt
  BY DEF Chat!SaveTurn
<1>2. turn # None /\ turn' = None /\ UNCHANGED <<app, sent, inbound, reply, raced, now>>
  BY DEF Chat!SaveTurn
<1>3. /\ opp' \in Seq(Opportunity) /\ Len(opp') = Len(opp) /\ Chat!Opps' = Chat!Opps
      /\ \A d \in Chat!Opps : opp'[d].attended = opp[d].attended
  BY <1>1, <1>2, SavedKeeps
<1>4. PICK n : n = Chat!Row(turn.opp, "assistant", turn.at)
  OBVIOUS
<1>5. n.opp = turn.opp /\ n.role = "assistant" /\ n.at = turn.at /\ turn.opp \in Chat!Opps
      /\ turn.at \in Nat /\ turn.at # 0 /\ Before(turn.at)
  BY <1>2, <1>4, ChatFields DEF Chat!Row, Dated
<1>6. ChatTyped'
  <2>1. n \in Said
    BY <1>4, <1>5 DEF Said, Chat!Row
  <2> QED BY <1>1, <1>2, <1>3, <1>4, <2>1 DEF ChatTyped, Said, Turns, Replies
<1>7. Dated'
  <2>1. \A m \in said' : Before(m.at)
    BY <1>1, <1>4, <1>5 DEF Dated
  <2> QED BY <1>2, <1>3, <2>1 DEF Dated, Before
<1>8. HeardLater'
  <2> SUFFICES ASSUME NEW m \in said', Unheard(m)' PROVE Later(m)'
    BY DEF HeardLater
  <2>1. m \in said /\ Unheard(m) /\ Later(m) /\ m.opp \in Chat!Opps
    BY <1>1, <1>2, <1>4, <1>5, ChatFields DEF Unheard, HeardLater
  <2>2. CASE speaks
    <3>1. m.opp = turn.opp => turn.at < m.at
      BY <1>1, <1>2, <2>1, <2>2 DEF Unheard, Later
    <3>2. \A a \in said' : a.opp = m.opp /\ a.role = "assistant" => a.at < m.at
      BY <1>1, <1>4, <1>5, <2>1, <2>2, <3>1 DEF Later
    <3> QED BY <1>2, <1>3, <2>1, <3>2 DEF Later
  <2>3. CASE ~speaks
    BY <1>1, <1>2, <1>3, <2>1, <2>3 DEF Later
  <2> QED BY <2>2, <2>3
<1> QED BY <1>6, <1>7, <1>8

LEMMA ChatModelFails == ASSUME ChatInv, Chat!ModelFails PROVE ChatInv'
<1> USE DEF ChatInv
<1>1. /\ turn # None /\ turn' = None /\ now' = now + 2
      /\ opp' = Chat!Saved(FALSE)
      /\ dealt' = dealt \cup turn.read
      /\ raced' = raced \cup (Chat!Unread(turn.opp) \ turn.read)
      /\ UNCHANGED <<app, sent, inbound, reply>>
  BY DEF Chat!ModelFails
<1>2. PICK e, n : e = Chat!Row(turn.opp, "system", now + 1)
                  /\ n = Chat!Row(turn.opp, "assistant", now + 2)
  OBVIOUS
<1>3. said' = said \cup {e, n}
  BY <1>2 DEF Chat!ModelFails
<1>4. /\ e.opp = turn.opp /\ e.role = "system" /\ e.at = now + 1
      /\ n.opp = turn.opp /\ n.role = "assistant" /\ n.at = now + 2
      /\ turn.opp \in Chat!Opps /\ now \in Nat
  BY <1>1, <1>2, ChatFields DEF Chat!Row, ChatTyped
<1>5. /\ opp' \in Seq(Opportunity) /\ Len(opp') = Len(opp) /\ Chat!Opps' = Chat!Opps
      /\ \A d \in Chat!Opps : opp'[d].attended = opp[d].attended
  BY <1>1, SavedKeeps
<1>6. /\ \A t \in Nat : Before(t) => Before(t)'
      /\ \A t \in now + 1 .. now + 2 : Before(t)'
      /\ now' \in Nat /\ (inbound' # None => inbound'.at <= now')
  BY <1>1, MomentPasses
<1>7. ChatTyped'
  <2>1. e \in Said /\ n \in Said
    <3>1. now + 1 \in Nat \ {0} /\ now + 2 \in Nat \ {0}
      BY <1>4
    <3> QED BY <1>2, <1>4, <3>1 DEF Said, Chat!Row
  <2> QED BY <1>1, <1>3, <1>5, <1>6, <2>1 DEF ChatTyped, Said, Turns, Replies
<1>8. Dated'
  <2>1. \A m \in said' : Before(m.at)'
    <3>1. e.at \in now + 1 .. now + 2 /\ n.at \in now + 1 .. now + 2
      BY <1>4
    <3> QED BY <1>3, <1>6, <3>1, ChatFields DEF Dated
  <2>2. \A c \in Chat!Opps' : Before(opp[c].attended)'
    BY <1>5, <1>6, ChatFields DEF Dated
  <2> QED BY <1>1, <1>6, <2>1, <2>2, ChatFields DEF Dated
<1>9. HeardLater'
  <2> SUFFICES ASSUME NEW m \in said', Unheard(m)' PROVE Later(m)'
    BY DEF HeardLater
  <2>1. m \in said /\ Unheard(m) /\ Later(m) /\ m.opp \in Chat!Opps
    BY <1>1, <1>3, <1>4, ChatFields DEF Unheard, HeardLater
  <2>2. m.opp # turn.opp
    <3> SUFFICES ASSUME m.opp = turn.opp PROVE FALSE
      OBVIOUS
    <3>1. m.at \in Chat!Unread(turn.opp)
      BY <2>1 DEF Unheard, Chat!Unread, Chat!FromLead, Chat!Thread
    <3> QED BY <1>1, <3>1 DEF Unheard
  <2>3. \A a \in said' : a.opp = m.opp => a \in said
    BY <1>3, <1>4, <2>2
  <2> QED BY <1>1, <1>5, <2>1, <2>3 DEF Later
<1> QED BY <1>7, <1>8, <1>9

LEMMA ChatTurnFails == ASSUME ChatInv, Chat!TurnFails PROVE ChatInv'
<1> USE DEF ChatInv
<1>1. /\ turn # None /\ turn' = None /\ now' = now + 1
      /\ UNCHANGED <<opp, app, sent, inbound, reply, dealt, raced>>
  BY DEF Chat!TurnFails, Chat!Tick
<1>2. PICK e : e = Chat!Row(turn.opp, "system", now + 1)
  OBVIOUS
<1>3. said' = said \cup {e}
  BY <1>1, <1>2 DEF Chat!TurnFails
<1>4. /\ e.opp = turn.opp /\ e.role = "system" /\ e.at = now + 1
      /\ turn.opp \in Chat!Opps /\ now \in Nat
  BY <1>1, <1>2, ChatFields DEF Chat!Row, ChatTyped
<1>5. Chat!Opps' = Chat!Opps
  BY <1>1 DEF Chat!Opps
<1>6. /\ \A t \in Nat : Before(t) => Before(t)'
      /\ \A t \in now + 1 .. now + 1 : Before(t)'
      /\ now' \in Nat /\ (inbound' # None => inbound'.at <= now')
  BY <1>1, MomentPasses
<1>7. ChatTyped'
  <2>1. e \in Said
    <3>1. now + 1 \in Nat \ {0}
      BY <1>4
    <3> QED BY <1>2, <1>4, <3>1 DEF Said, Chat!Row
  <2> QED BY <1>1, <1>3, <1>5, <1>6, <2>1 DEF ChatTyped, Said, Turns, Replies
<1>8. Dated'
  <2>1. \A m \in said' : Before(m.at)'
    <3>1. e.at \in now + 1 .. now + 1
      BY <1>4
    <3> QED BY <1>3, <1>6, <3>1, ChatFields DEF Dated
  <2> QED BY <1>1, <1>5, <1>6, <2>1, ChatFields DEF Dated
<1>9. HeardLater'
  BY <1>1, <1>3, <1>4 DEF HeardLater, Unheard, Later
<1> QED BY <1>7, <1>8, <1>9

-----------------------------------------------------------------------------
(* A person. *)

\* Letting a reply go, or writing no more of it than its point, disturbs nothing.
LEMMA ReplyLetsGo ==
    ASSUME ChatInv, NEW r \in Request, NEW q \in Replies, reply' = [reply EXCEPT ![r] = q],
           q = Chat!Idle \/ (reply[r] # Chat!Idle /\ q.opp = reply[r].opp
                              /\ q.at = reply[r].at /\ q.read = reply[r].read),
           UNCHANGED <<opp, said, app, inbound, turn, dealt, raced, now>>
    PROVE  ChatInv'
<1> USE DEF ChatInv
<1>1. Chat!Opps' = Chat!Opps
  BY DEF Chat!Opps
<1>2. /\ reply \in [Request -> Replies] /\ reply'[r] = q
      /\ \A x \in Request \ {r} : reply'[x] = reply[x]
  BY DEF ChatTyped
<1>3. ChatTyped'
  BY <1>1, <1>2 DEF ChatTyped, Said, Turns, Replies
<1>4. \A x \in Request : reply'[x] # Chat!Idle =>
         /\ reply[x] # Chat!Idle /\ reply'[x].opp = reply[x].opp
         /\ reply'[x].at = reply[x].at /\ reply'[x].read = reply[x].read
  BY <1>2
<1>5. Dated'
  BY <1>1, <1>4 DEF Dated, Before
<1>6. HeardLater'
  <2> SUFFICES ASSUME NEW m \in said, Unheard(m) PROVE Later(m)'
    BY DEF HeardLater, Unheard
  <2>1. Later(m)
    BY DEF HeardLater
  <2> QED BY <1>4, <2>1 DEF Later
<1> QED BY <1>3, <1>5, <1>6

LEMMA ChatSend == ASSUME ChatInv, NEW r \in Request, Chat!Send(r) PROVE ChatInv'
<1>1. reply[r].pc = "send" /\ UNCHANGED <<opp, said, app, inbound, turn, dealt, raced, now>>
  BY DEF Chat!Send
<1>2. CASE reply' = [reply EXCEPT ![r] = [@ EXCEPT !.pc = "mirror"]]
  <2>1. PICK q : q = [reply[r] EXCEPT !.pc = "mirror"]
    OBVIOUS
  <2>2. reply[r] \in Replies
    BY DEF ChatInv, ChatTyped
  <2>3. reply[r] # Chat!Idle
    BY <1>1 DEF Chat!Idle
  <2>4. q \in Replies /\ q.opp = reply[r].opp /\ q.at = reply[r].at /\ q.read = reply[r].read
    BY <2>1, <2>2, <2>3 DEF Replies
  <2>5. reply' = [reply EXCEPT ![r] = q]
    BY <1>2, <2>1
  <2> QED BY <1>1, <2>3, <2>4, <2>5, ReplyLetsGo
<1>3. CASE reply' = [reply EXCEPT ![r] = Chat!Idle]
  <2>1. Chat!Idle \in Replies
    BY DEF Replies
  <2> QED BY <1>1, <1>3, <2>1, ReplyLetsGo
<1> QED BY <1>2, <1>3 DEF Chat!Send

LEMMA ChatDies == ASSUME ChatInv, NEW r \in Request, Chat!Dies(r) PROVE ChatInv'
<1>1. Chat!Idle \in Replies
  BY DEF Replies
<1>2. reply' = [reply EXCEPT ![r] = Chat!Idle]
      /\ UNCHANGED <<opp, said, app, inbound, turn, dealt, raced, now>>
  BY DEF Chat!Dies
<1> QED BY <1>1, <1>2, ReplyLetsGo

LEMMA ChatBeginReply ==
    ASSUME ChatInv, NEW r \in Request, NEW c \in Chat!Opps, Chat!BeginReply(r, c) PROVE ChatInv'
<1> USE DEF ChatInv
<1>1. now' = now + 1 /\ UNCHANGED <<opp, said, app, sent, inbound, turn, dealt, raced>>
  BY DEF Chat!BeginReply, Chat!Tick
<1>2. PICK q : q = [pc |-> "send", opp |-> c, at |-> now + 1, read |-> Chat!FromLead(c)]
  OBVIOUS
<1>3. q.opp = c /\ q.at = now + 1 /\ q.read = Chat!FromLead(c)
  BY <1>2
<1>4. reply' = [reply EXCEPT ![r] = q]
  BY <1>1, <1>2 DEF Chat!BeginReply, Chat!Enter
<1>5. q \in Replies
  <2>1. Chat!FromLead(c) \subseteq Nat /\ now + 1 \in Nat
    BY ChatFields DEF Chat!FromLead, Chat!Thread, ChatTyped
  <2> QED BY <1>2, <2>1 DEF Replies
<1>6. Chat!Opps' = Chat!Opps
  BY <1>1 DEF Chat!Opps
<1>7. reply'[r] = q /\ \A x \in Request \ {r} : reply'[x] = reply[x]
  BY <1>4 DEF ChatTyped
<1>8. /\ \A t \in Nat : Before(t) => Before(t)'
      /\ \A t \in now + 1 .. now + 1 : Before(t)'
      /\ now' \in Nat /\ (inbound' # None => inbound'.at <= now')
  BY <1>1, MomentPasses
<1>9. ChatTyped'
  BY <1>1, <1>4, <1>5, <1>6, <1>8 DEF ChatTyped, Said, Turns, Replies
<1>10. Dated'
  <2>1. q.at \in now + 1 .. now + 1
    BY <1>3 DEF ChatTyped
  <2>2. \A x \in Request : reply'[x] # Chat!Idle => Before(reply[x].at)'
    BY <1>7, <1>8, <2>1, ChatFields DEF Dated
  <2>3. turn' # None => \A t \in turn'.read : t <= now'
    BY <1>1, ChatFields DEF Dated, ChatTyped
  <2> QED BY <1>1, <1>6, <1>8, <2>2, <2>3, ChatFields DEF Dated
<1>11. HeardLater'
  <2> SUFFICES ASSUME NEW m \in said, Unheard(m) PROVE Later(m)'
    BY <1>1 DEF HeardLater, Unheard
  <2>1. Later(m)
    BY DEF HeardLater
  <2>2. m.opp = c => m.at \in q.read
    BY <1>3 DEF Unheard, Chat!FromLead, Chat!Thread
  <2> QED BY <1>1, <1>3, <1>7, <2>1, <2>2 DEF Later
<1> QED BY <1>9, <1>10, <1>11

LEMMA ChatMirror == ASSUME ChatInv, NEW r \in Request, Chat!Mirror(r) PROVE ChatInv'
<1> USE DEF ChatInv
<1>1. /\ reply[r].pc = "mirror"
      /\ dealt' = dealt \cup reply[r].read
      /\ raced' = raced \cup Chat!Elsewhere(reply[r].opp)
      /\ reply' = [reply EXCEPT ![r] = Chat!Idle]
      /\ UNCHANGED <<opp, said, sent, inbound, turn, now>>
  BY DEF Chat!Mirror
<1>2. PICK h : h = Chat!Written(r, reply[r].at)
  OBVIOUS
<1>3. app' = app \cup {h}
  BY <1>2 DEF Chat!Mirror
<1>4. reply[r] # Chat!Idle
  BY <1>1 DEF Chat!Idle
<1>5. /\ h.opp = reply[r].opp /\ h.at = reply[r].at /\ h.at \in Nat /\ h.opp \in Chat!Opps
      /\ Before(h.at)
  BY <1>2, <1>4, ChatFields DEF Chat!Written, Dated
<1>6. Chat!Opps' = Chat!Opps
  BY <1>1 DEF Chat!Opps
<1>7. reply'[r] = Chat!Idle /\ \A x \in Request \ {r} : reply'[x] = reply[x]
  BY <1>1 DEF ChatTyped
<1>8. ChatTyped'
  <2>1. h \in [opp : Chat!Opps, at : Nat]
    BY <1>2, <1>5 DEF Chat!Written
  <2> QED BY <1>1, <1>3, <1>6, <2>1 DEF ChatTyped, Said, Turns, Replies
<1>9. Dated'
  <2>1. \A x \in app' : Before(x.at)
    BY <1>3, <1>5 DEF Dated
  <2>2. \A x \in Request : reply'[x] # Chat!Idle => Before(reply'[x].at)
    BY <1>7 DEF Dated
  <2> QED BY <1>1, <1>6, <2>1, <2>2 DEF Dated, Before
<1>10. HeardLater'
  <2> SUFFICES ASSUME NEW m \in said, Unheard(m)' PROVE Later(m)'
    BY <1>1 DEF HeardLater, Unheard
  <2>1. Unheard(m) /\ Later(m) /\ m.opp \in Chat!Opps
    BY <1>1, ChatFields DEF Unheard, HeardLater
  <2>2. m.opp = reply[r].opp
    <3> SUFFICES ASSUME m.opp # reply[r].opp PROVE FALSE
      OBVIOUS
    <3>1. m.at \in Chat!Unread(m.opp)
      BY <2>1 DEF Unheard, Chat!Unread, Chat!FromLead, Chat!Thread
    <3>2. m.at \in Chat!Elsewhere(reply[r].opp)
      BY <2>1, <3>1 DEF Chat!Elsewhere
    <3> QED BY <1>1, <3>2 DEF Unheard
  <2>3. m.at \notin reply[r].read
    BY <1>1 DEF Unheard
  <2>4. h.at < m.at
    BY <1>4, <1>5, <2>1, <2>2, <2>3 DEF Later
  <2> QED BY <1>1, <1>3, <1>7, <2>1, <2>4 DEF Later
<1> QED BY <1>8, <1>9, <1>10

LEMMA ChatMarkAttended == ASSUME ChatInv, NEW c \in Chat!Opps, Chat!MarkAttended(c) PROVE ChatInv'
<1> USE DEF ChatInv
<1>1. /\ now' = now + 1 /\ dealt' = dealt \cup Chat!FromLead(c)
      /\ UNCHANGED <<said, app, sent, inbound, turn, reply, raced>>
  BY DEF Chat!MarkAttended, Chat!Tick
<1>2. PICK q : q = [opp[c] EXCEPT !.attended = now + 1]
  OBVIOUS
<1>3. q \in Opportunity /\ q.attended = now + 1 /\ now \in Nat
  <2>1. opp[c] \in Opportunity /\ now + 1 \in Nat /\ now \in Nat
    BY ChatFields DEF ChatTyped
  <2> QED BY <1>2, <2>1 DEF Opportunity
<1>4. opp' = [opp EXCEPT ![c] = q]
  BY <1>1, <1>2 DEF Chat!MarkAttended
<1>5. /\ opp' \in Seq(Opportunity) /\ Len(opp') = Len(opp) /\ Chat!Opps' = Chat!Opps
      /\ opp'[c] = q /\ \A d \in Chat!Opps : d # c => opp'[d] = opp[d]
  BY <1>3, <1>4, OneOpportunity DEF ChatTyped
<1>6. /\ \A t \in Nat : Before(t) => Before(t)'
      /\ \A t \in now + 1 .. now + 1 : Before(t)'
      /\ now' \in Nat /\ (inbound' # None => inbound'.at <= now')
  BY <1>1, MomentPasses
<1>7. ChatTyped'
  BY <1>1, <1>5, <1>6 DEF ChatTyped, Said, Turns, Replies
<1>8. Dated'
  <2>1. q.attended \in now + 1 .. now + 1
    BY <1>3
  <2>2. \A d \in Chat!Opps' : Before(opp[d].attended)'
    BY <1>5, <1>6, <2>1, ChatFields DEF Dated
  <2>3. turn' # None => \A t \in turn'.read : t <= now'
    BY <1>1, ChatFields DEF Dated, ChatTyped
  <2> QED BY <1>1, <1>6, <2>2, <2>3, ChatFields DEF Dated
<1>9. HeardLater'
  <2> SUFFICES ASSUME NEW m \in said, Unheard(m)' PROVE Later(m)'
    BY <1>1 DEF HeardLater, Unheard
  <2>1. Unheard(m) /\ Later(m) /\ m.opp \in Chat!Opps
    BY <1>1, ChatFields DEF Unheard, HeardLater
  <2>2. m.opp # c
    BY <1>1, <2>1 DEF Unheard, Chat!FromLead, Chat!Thread
  <2> QED BY <1>1, <1>5, <2>1, <2>2 DEF Later
<1> QED BY <1>7, <1>8, <1>9

LEMMA ChatToggle ==
    ASSUME ChatInv, NEW c \in Chat!Opps, Chat!SetAiActive(c) \/ Chat!Drag(c) PROVE ChatInv'
<1> USE DEF ChatInv
<1>1. UNCHANGED <<said, app, sent, inbound, turn, reply, dealt, raced, now>>
  BY DEF Chat!SetAiActive, Chat!Drag
<1>2. PICK q : /\ q = [opp[c] EXCEPT !.ai = ~@] \/ q = [opp[c] EXCEPT !.closed = ~@]
               /\ opp' = [opp EXCEPT ![c] = q]
  <2>1. CASE Chat!SetAiActive(c)
    <3>1. PICK q : q = [opp[c] EXCEPT !.ai = ~opp[c].ai]
      OBVIOUS
    <3>2. opp' = [opp EXCEPT ![c] = [opp[c] EXCEPT !.ai = ~opp[c].ai]]
      BY ONLY <2>1, Zenon DEF Chat!SetAiActive
    <3>3. opp' = [opp EXCEPT ![c] = q]
      BY ONLY <3>1, <3>2, Zenon
    <3> QED BY <3>1, <3>3
  <2>2. CASE Chat!Drag(c)
    <3>1. PICK q : q = [opp[c] EXCEPT !.closed = ~opp[c].closed]
      OBVIOUS
    <3>2. opp' = [opp EXCEPT ![c] = [opp[c] EXCEPT !.closed = ~opp[c].closed]]
      BY ONLY <2>2, Zenon DEF Chat!Drag
    <3>3. opp' = [opp EXCEPT ![c] = q]
      BY ONLY <3>1, <3>2, Zenon
    <3> QED BY <3>1, <3>3
  <2> QED BY <2>1, <2>2
<1>3. q \in Opportunity /\ q.attended = opp[c].attended
  <2>1. opp[c] \in Opportunity
    BY ChatFields
  <2> QED BY <1>2, <2>1 DEF Opportunity
<1>4. /\ opp' \in Seq(Opportunity) /\ Len(opp') = Len(opp) /\ Chat!Opps' = Chat!Opps
      /\ \A d \in Chat!Opps : opp'[d].attended = opp[d].attended
  BY <1>2, <1>3, OneOpportunity DEF ChatTyped
<1>5. ChatTyped'
  BY <1>1, <1>4 DEF ChatTyped, Said, Turns, Replies
<1>6. Dated'
  BY <1>1, <1>4 DEF Dated, Before
<1>7. HeardLater'
  <2> SUFFICES ASSUME NEW m \in said, Unheard(m) PROVE Later(m)'
    BY <1>1 DEF HeardLater, Unheard
  <2>1. Later(m) /\ m.opp \in Chat!Opps
    BY ChatFields DEF HeardLater
  <2> QED BY <1>1, <1>4, <2>1 DEF Later
<1> QED BY <1>5, <1>6, <1>7

-----------------------------------------------------------------------------
(* The badge. *)

LEMMA ChatInvNext == ASSUME ChatInv, [Chat!Next]_(Chat!vars) PROVE ChatInv'
<1>1. CASE UNCHANGED Chat!vars
  <2>1. UNCHANGED <<opp, said, app, inbound, turn, reply, dealt, raced, now>>
    BY <1>1 DEF Chat!vars
  <2>2. Chat!Opps' = Chat!Opps
    BY <2>1 DEF Chat!Opps
  <2> QED BY <2>1, <2>2 DEF ChatInv, ChatTyped, Said, Turns, Replies, Dated, Before,
                            HeardLater, Unheard, Later
<1>2. CASE Chat!Next
  BY <1>2, ChatInboundBegins, ChatInboundCommits, ChatInboundFails, ChatLoad, ChatSaveTurn,
     ChatModelFails, ChatTurnFails, ChatBeginReply, ChatSend, ChatMirror, ChatDies,
     ChatMarkAttended, ChatToggle
     DEF Chat!Next
<1> QED BY <1>1, <1>2

LEMMA ChatInvAlways == Chat!Spec => []ChatInv
<1>1. ChatInv /\ [Chat!Next]_(Chat!vars) => ChatInv'
  BY ChatInvNext
<1> QED
  BY <1>1, ChatInvInit, PTL DEF Chat!Spec

\* The last of some times, and 0 when there are none.
LEMMA LastIs ==
    ASSUME NEW n \in Nat, NEW T, T \subseteq 0 .. n
    PROVE  /\ Chat!LastOf(T) \in T \cup {0} /\ Chat!LastOf(T) \in Nat
           /\ \A t \in T : Chat!LastOf(T) >= t
<1>1. T \cup {0} \subseteq 0 .. n /\ T \cup {0} # {}
  OBVIOUS
<1>2. Chat!Max(T \cup {0}) \in T \cup {0} /\ \A y \in T \cup {0} : Chat!Max(T \cup {0}) >= y
  BY <1>1, LatestIs
<1>3. PICK x : x = Chat!LastOf(T)
  OBVIOUS
<1>4. x = Chat!Max(T \cup {0})
  BY <1>3 DEF Chat!LastOf
<1>5. x \in T \cup {0} /\ \A y \in T \cup {0} : x >= y
  BY <1>2, <1>4
<1>6. x \in Nat
  BY <1>5
<1> QED BY <1>3, <1>5, <1>6

\* While nobody is answering an open opportunity by itself, the board says that its lead waits
\* as long as there is a message that nobody had before them when they answered, for any replies,
\* turns, failures and marks that overlap, but for the three races that the actions name
\* (attention.is_awaiting).
THEOREM WhoWaitsIsShown == Chat!Spec => []WaitersAreShown
<1>1. ChatInv => WaitersAreShown
  <2> SUFFICES ASSUME ChatInv, NEW c \in Chat!Opps, ~opp[c].ai, ~opp[c].closed,
                      NEW t \in Chat!Unread(c) \ raced
               PROVE  Chat!Awaiting(c)
    BY DEF WaitersAreShown, Chat!WaitersAreShown, Chat!Board
  <2>1. PICK m \in said : m.opp = c /\ m.role = "user" /\ m.at = t /\ t \notin dealt
    BY DEF Chat!Unread, Chat!FromLead, Chat!Thread
  <2>2. Later(m) /\ t \in Nat \ {0} /\ now \in Nat
    BY <2>1, ChatFields DEF ChatInv, ChatTyped, HeardLater, Unheard
  <2> DEFINE Of(who) == {x.at : x \in {r \in Chat!Thread(c) : r.role = who}}
             Human   == {h.at : h \in app}
  <2>3. \A who \in {"user", "assistant"} : Of(who) \subseteq 0 .. now
    BY ChatFields DEF ChatInv, ChatTyped, Dated, Before, Chat!Thread
  <2>4. Human \subseteq 0 .. now
    BY ChatFields DEF ChatInv, ChatTyped, Dated, Before
  <2>5. Chat!LastOf(Of("user")) \in Nat /\ Chat!LastOf(Of("user")) >= t
    <3>1. t \in Of("user")
      BY <2>1 DEF Chat!Thread
    <3>2. Of("user") \subseteq 0 .. now
      BY <2>3
    <3> HIDE DEF Of
    <3> QED BY <2>2, <3>1, <3>2, LastIs
  <2>6. Chat!LastOf(Of("assistant")) \in Nat /\ Chat!LastOf(Of("assistant")) < t
    <3>1. \A x \in Of("assistant") : x < t
      BY <2>1, <2>2 DEF Later, Chat!Thread
    <3>2. Of("assistant") \subseteq 0 .. now
      BY <2>3
    <3> HIDE DEF Of
    <3>3. Chat!LastOf(Of("assistant")) \in Of("assistant") \cup {0}
          /\ Chat!LastOf(Of("assistant")) \in Nat
      BY <2>2, <3>2, LastIs
    <3> QED BY <2>2, <3>1, <3>3
  <2>7. Chat!LastOf(Human) \in Nat /\ Chat!LastOf(Human) < t
    <3>1. \A x \in Human : x < t
      BY <2>1, <2>2 DEF Later
    <3> HIDE DEF Human
    <3>2. Chat!LastOf(Human) \in Human \cup {0} /\ Chat!LastOf(Human) \in Nat
      BY <2>2, <2>4, LastIs
    <3> QED BY <2>2, <3>1, <3>2
  <2>8. opp[c].attended \in Nat /\ opp[c].attended < t
    BY <2>1, <2>2, ChatFields DEF ChatInv, Later
  <2>9. PICK a : a = Chat!Activity(c)
    OBVIOUS
  <2>10. a.user = Chat!LastOf(Of("user")) /\ a.agent = Chat!LastOf(Of("assistant"))
         /\ a.human = Chat!LastOf(Human)
    BY <2>9 DEF Chat!Activity, Chat!LastSaid, Chat!LastReply
  <2>11. a.user > Chat!Max({a.agent, a.human, opp[c].attended})
    <3> HIDE DEF Of, Human
    <3>1. /\ a.agent \in 0 .. t /\ a.human \in 0 .. t /\ opp[c].attended \in 0 .. t
          /\ a.agent < t /\ a.human < t /\ a.user >= t /\ a.user \in Nat
      BY <2>2, <2>5, <2>6, <2>7, <2>8, <2>10
    <3>2. Chat!Max({a.agent, a.human, opp[c].attended}) \in {a.agent, a.human, opp[c].attended}
      <4>1. {a.agent, a.human, opp[c].attended} \subseteq 0 .. t
            /\ {a.agent, a.human, opp[c].attended} # {} /\ t \in Nat
        BY <2>2, <3>1
      <4> QED BY <4>1, LatestIs
    <3> QED BY <2>2, <2>8, <3>1, <3>2
  <2> QED BY <2>9, <2>11 DEF Chat!Awaiting
<1> QED
  BY <1>1, ChatInvAlways, PTL


-----------------------------------------------------------------------------
(* The thread of a card. *)

\* A moment is taken once: no two rows carry the same one, and those that the turn and the
\* replies in flight hold for what they will write are in no row yet, nor shared.
Taken(t) == (\E m \in said : m.at = t) \/ (\E h \in app : h.at = t)
OnceEach ==
    /\ \A m, n \in said : m.at = n.at => m = n
    /\ \A h, k \in app : h.at = k.at => h = k
    /\ \A m \in said, h \in app : m.at # h.at
    /\ turn # None => ~Taken(turn.at)
    /\ \A r \in Request : reply[r] # Chat!Idle =>
          /\ ~Taken(reply[r].at)
          /\ turn # None => reply[r].at # turn.at
          /\ \A s \in Request \ {r} : reply[s] # Chat!Idle => reply[s].at # reply[r].at

LEMMA OnceEachInit == Chat!Init => OnceEach
BY DEF Chat!Init, OnceEach, Taken

\* Rows of fresh moments join those of the agent and the leads.
LEMMA RowsJoin ==
    ASSUME OnceEach, NEW R, said' = said \cup R, UNCHANGED <<app, reply>>,
           \A m, n \in R : m.at = n.at => m = n,
           \A m \in R : ~Taken(m.at),
           \A r \in Request, m \in R : reply[r] # Chat!Idle => reply[r].at # m.at,
           turn' = None \/ (turn' = turn /\ \A m \in R : turn # None => turn.at # m.at)
    PROVE  OnceEach'
<1>1. \A m \in said' : m \in said \/ m \in R
  OBVIOUS
<1>2. \A m, n \in said' : m.at = n.at => m = n
  BY <1>1 DEF OnceEach, Taken
<1>3. \A m \in said', h \in app : m.at # h.at
  BY <1>1 DEF OnceEach, Taken
<1>4. turn' # None => ~Taken(turn.at)'
  BY <1>1 DEF OnceEach, Taken
<1>5. \A r \in Request : reply[r] # Chat!Idle => ~Taken(reply[r].at)'
  BY <1>1 DEF OnceEach, Taken
<1> QED BY <1>2, <1>3, <1>4, <1>5 DEF OnceEach

\* A moment that is still to come is in no row, turn or reply.
LEMMA StillToCome ==
    ASSUME ChatInv, NEW t, t \in Nat, t > now
    PROVE  /\ ~Taken(t)
           /\ turn # None => turn.at # t
           /\ \A r \in Request : reply[r] # Chat!Idle => reply[r].at # t
<1>1. now \in Nat /\ \A x \in Nat : Before(x) => x # t
  BY DEF ChatInv, ChatTyped, Before
<1>2. /\ \A m \in said : m.at \in Nat /\ Before(m.at)
      /\ \A h \in app : h.at \in Nat /\ Before(h.at)
      /\ turn # None => turn.at \in Nat /\ Before(turn.at)
      /\ \A r \in Request : reply[r] # Chat!Idle => reply[r].at \in Nat /\ Before(reply[r].at)
  BY ChatFields DEF ChatInv, Dated
<1> QED BY <1>1, <1>2 DEF Taken

LEMMA OnceEachInbound ==
    ASSUME ChatInv, OnceEach, Chat!InboundBegins \/ Chat!InboundCommits \/ Chat!InboundFails
    PROVE  OnceEach'
<1>1. CASE Chat!InboundBegins \/ Chat!InboundFails
  <2>1. UNCHANGED <<said, app, turn, reply>>
    BY <1>1 DEF Chat!InboundBegins, Chat!InboundFails
  <2> QED BY <2>1 DEF OnceEach, Taken
<1>2. CASE Chat!InboundCommits
  <2>1. PICK m : m = Chat!Row(inbound.opp, "user", inbound.at)
    OBVIOUS
  <2>2. /\ inbound # None /\ said' = said \cup {m} /\ m.at = inbound.at
        /\ UNCHANGED <<app, turn, reply>>
    BY <1>2, <2>1 DEF Chat!InboundCommits, Chat!Row
  <2>3. /\ ~Taken(m.at)
        /\ turn # None => turn.at # m.at
        /\ \A r \in Request : reply[r] # Chat!Idle => reply[r].at # m.at
    BY <2>2 DEF ChatInv, Dated, Before, Taken
  <2>4. PICK R : R = {m}
    OBVIOUS
  <2>5. said' = said \cup R /\ \A x \in R : x = m
    BY <2>2, <2>4
  <2> QED BY <2>2, <2>3, <2>5, RowsJoin
<1> QED BY <1>1, <1>2

LEMMA OnceEachTurn ==
    ASSUME ChatInv, OnceEach, Chat!SaveTurn \/ Chat!ModelFails \/ Chat!TurnFails
    PROVE  OnceEach'
<1>1. turn # None /\ turn' = None /\ UNCHANGED <<app, reply>>
  BY DEF Chat!SaveTurn, Chat!ModelFails, Chat!TurnFails
<1>2. now \in Nat /\ now + 1 \in Nat /\ now + 2 \in Nat /\ now + 1 > now /\ now + 2 > now
      /\ now + 1 # now + 2
  BY DEF ChatInv, ChatTyped
<1>3. CASE Chat!SaveTurn
  <2>1. PICK m : m = Chat!Row(turn.opp, "assistant", turn.at)
    OBVIOUS
  <2>2. m.at = turn.at /\ (said' = said \/ said' = said \cup {m})
    BY <1>3, <2>1 DEF Chat!SaveTurn, Chat!Row
  <2>3. /\ ~Taken(m.at)
        /\ \A r \in Request : reply[r] # Chat!Idle => reply[r].at # m.at
    BY <1>1, <2>2 DEF OnceEach
  <2>4. CASE said' = said
    BY <1>1, <2>4 DEF OnceEach, Taken
  <2>5. CASE said' = said \cup {m}
    <3>1. PICK R : R = {m}
      OBVIOUS
    <3>2. said' = said \cup R /\ \A x \in R : x = m
      BY <2>5, <3>1
    <3> QED BY <1>1, <2>3, <3>2, RowsJoin
  <2> QED BY <2>2, <2>4, <2>5
<1>4. CASE Chat!ModelFails
  <2>1. PICK m, n : /\ m = Chat!Row(turn.opp, "system", now + 1)
                    /\ n = Chat!Row(turn.opp, "assistant", now + 2)
    OBVIOUS
  <2>2. m.at = now + 1 /\ n.at = now + 2 /\ said' = said \cup {m, n}
    BY <1>4, <2>1 DEF Chat!ModelFails, Chat!Row
  <2>3. /\ ~Taken(m.at) /\ ~Taken(n.at)
        /\ \A r \in Request : reply[r] # Chat!Idle => reply[r].at # m.at /\ reply[r].at # n.at
    BY <1>2, <2>2, StillToCome
  <2>4. PICK R : R = {m, n}
    OBVIOUS
  <2>5. said' = said \cup R /\ \A x \in R : x = m \/ x = n
    BY <2>2, <2>4
  <2> QED BY <1>1, <1>2, <2>2, <2>3, <2>5, RowsJoin
<1>5. CASE Chat!TurnFails
  <2>1. PICK m : m = Chat!Row(turn.opp, "system", now + 1)
    OBVIOUS
  <2>2. m.at = now + 1 /\ said' = said \cup {m}
    BY <1>5, <2>1 DEF Chat!TurnFails, Chat!Tick, Chat!Row
  <2>3. /\ ~Taken(m.at)
        /\ \A r \in Request : reply[r] # Chat!Idle => reply[r].at # m.at
    BY <1>2, <2>2, StillToCome
  <2>4. PICK R : R = {m}
    OBVIOUS
  <2>5. said' = said \cup R /\ \A x \in R : x = m
    BY <2>2, <2>4
  <2> QED BY <1>1, <2>2, <2>3, <2>5, RowsJoin
<1> QED BY <1>3, <1>4, <1>5

LEMMA OnceEachLoad ==
    ASSUME ChatInv, OnceEach, NEW c \in Chat!Opps, Chat!Load(c) PROVE OnceEach'
<1>1. turn'.at = now + 1 /\ UNCHANGED <<said, app, reply>>
  BY DEF Chat!Load, Chat!Tick
<1>2. now + 1 \in Nat /\ now + 1 > now
  BY DEF ChatInv, ChatTyped
<1>3. /\ ~Taken(turn'.at)
      /\ \A r \in Request : reply[r] # Chat!Idle => reply[r].at # turn'.at
  BY <1>1, <1>2, StillToCome
<1> QED BY <1>1, <1>3 DEF OnceEach, Taken

\* A reply that is let go, or that moves on, keeps its moment.
LEMMA OnceEachReplyStays ==
    ASSUME ChatInv, OnceEach, NEW r \in Request, UNCHANGED <<said, app, turn>>,
           \A x \in Request : reply'[x] # Chat!Idle =>
              reply[x] # Chat!Idle /\ reply'[x].at = reply[x].at
    PROVE  OnceEach'
<1>1. \A t : Taken(t)' <=> Taken(t)
  BY DEF Taken
<1> QED BY <1>1 DEF OnceEach

LEMMA OnceEachReply ==
    ASSUME ChatInv, OnceEach, NEW r \in Request,
           Chat!Send(r) \/ Chat!Mirror(r) \/ Chat!Dies(r)
    PROVE  OnceEach'
<1>1. reply \in [Request -> Replies] /\ reply[r] \in Replies
  BY DEF ChatInv, ChatTyped
<1>2. CASE reply' = [reply EXCEPT ![r] = Chat!Idle] /\ UNCHANGED <<said, app, turn>>
  <2>1. \A x \in Request : reply'[x] # Chat!Idle => reply[x] # Chat!Idle /\ reply'[x] = reply[x]
    BY <1>1, <1>2
  <2> QED BY <1>2, <2>1, OnceEachReplyStays
<1>3. CASE Chat!Send(r) /\ reply' = [reply EXCEPT ![r] = [@ EXCEPT !.pc = "mirror"]]
  <2>1. reply[r] # Chat!Idle /\ UNCHANGED <<said, app, turn>>
    BY <1>3 DEF Chat!Send, Chat!Idle
  <2>2. PICK q : q = [reply[r] EXCEPT !.pc = "mirror"]
    OBVIOUS
  <2>3. q.at = reply[r].at
    BY <1>1, <2>1, <2>2 DEF Replies
  <2>4. \A x \in Request : reply'[x].at = reply[x].at /\ (x # r => reply'[x] = reply[x])
    BY <1>1, <1>3, <2>2, <2>3
  <2> QED BY <2>1, <2>4, OnceEachReplyStays
<1>4. CASE Chat!Mirror(r)
  <2>1. PICK h : h = Chat!Written(r, reply[r].at)
    OBVIOUS
  <2>2. /\ reply[r] # Chat!Idle /\ app' = app \cup {h} /\ h.at = reply[r].at
        /\ UNCHANGED <<said, turn>>
    BY <1>4, <2>1 DEF Chat!Mirror, Chat!Idle, Chat!Written
  <2>3. \A x \in Request : reply'[x] # Chat!Idle =>
           x # r /\ reply[x] # Chat!Idle /\ reply'[x] = reply[x]
    BY <1>1, <1>4 DEF Chat!Mirror
  <2>4. ~Taken(h.at) /\ (turn # None => turn.at # h.at)
        /\ \A x \in Request \ {r} : reply[x] # Chat!Idle => reply[x].at # h.at
    BY <2>2 DEF OnceEach
  <2>5. \A t : Taken(t)' => Taken(t) \/ t = h.at
    BY <2>2 DEF Taken
  <2>6. /\ \A x, k \in app' : x.at = k.at => x = k
        /\ \A m \in said, x \in app' : m.at # x.at
    BY <2>2, <2>4 DEF OnceEach, Taken
  <2>7. turn' # None => ~Taken(turn.at)'
    BY <2>2, <2>4, <2>5 DEF OnceEach
  <2>8. \A x \in Request : reply'[x] # Chat!Idle => ~Taken(reply[x].at)'
    BY <2>3, <2>4, <2>5 DEF OnceEach
  <2> QED BY <2>2, <2>3, <2>6, <2>7, <2>8 DEF OnceEach
<1> QED BY <1>2, <1>3, <1>4 DEF Chat!Send, Chat!Dies

LEMMA OnceEachBeginReply ==
    ASSUME ChatInv, OnceEach, NEW r \in Request, NEW c \in Chat!Opps, Chat!BeginReply(r, c)
    PROVE  OnceEach'
<1>1. PICK q : q = [pc |-> "send", opp |-> c, at |-> now + 1, read |-> Chat!FromLead(c)]
  OBVIOUS
<1>2. reply' = [reply EXCEPT ![r] = q] /\ q.at = now + 1 /\ UNCHANGED <<said, app, turn>>
  BY <1>1 DEF Chat!BeginReply, Chat!Enter, Chat!Tick
<1>3. reply'[r] = q /\ \A x \in Request \ {r} : reply'[x] = reply[x]
  BY <1>2 DEF ChatInv, ChatTyped
<1>4. now + 1 \in Nat /\ now + 1 > now
  BY DEF ChatInv, ChatTyped
<1>5. /\ ~Taken(q.at)
      /\ turn # None => turn.at # q.at
      /\ \A x \in Request : reply[x] # Chat!Idle => reply[x].at # q.at
  BY <1>2, <1>4, StillToCome
<1>6. \A t : Taken(t)' <=> Taken(t)
  BY <1>2 DEF Taken
<1> QED BY <1>2, <1>3, <1>5, <1>6 DEF OnceEach

LEMMA OnceEachNext == ASSUME ChatInv, OnceEach, [Chat!Next]_(Chat!vars) PROVE OnceEach'
<1>1. CASE UNCHANGED <<said, app, turn, reply>>
  BY <1>1 DEF OnceEach, Taken
<1>2. CASE Chat!Next
  <2>1. ASSUME NEW c \in Chat!Opps, Chat!MarkAttended(c) \/ Chat!SetAiActive(c) \/ Chat!Drag(c)
        PROVE  UNCHANGED <<said, app, turn, reply>>
    BY <2>1 DEF Chat!MarkAttended, Chat!SetAiActive, Chat!Drag
  <2> QED
    BY <1>1, <1>2, <2>1, OnceEachInbound, OnceEachTurn, OnceEachLoad, OnceEachReply,
       OnceEachBeginReply DEF Chat!Next
<1> QED BY <1>1, <1>2 DEF Chat!vars

LEMMA OnceEachAlways == Chat!Spec => []OnceEach
<1>1. ChatInv /\ OnceEach /\ [Chat!Next]_(Chat!vars) => OnceEach'
  BY OnceEachNext
<1> QED
  BY <1>1, OnceEachInit, ChatInvAlways, PTL DEF Chat!Spec


\* Rows whose moments differ have each a place of their own among them, in their order.
Place(S, m) == Cardinality({n \in S : n.at < m.at}) + 1

LEMMA PlacesInOrder ==
    ASSUME NEW S, IsFiniteSet(S), \A m \in S : m.at \in Nat,
           \A m, n \in S : m.at = n.at => m = n
    PROVE  /\ \A m \in S : Place(S, m) \in 1 .. Cardinality(S)
           /\ \A m, n \in S : m.at < n.at => Place(S, m) < Place(S, n)
           /\ \A i \in 1 .. Cardinality(S) : \E m \in S : Place(S, m) = i
<1> DEFINE Earlier(m) == {n \in S : n.at < m.at}
<1>1. Cardinality(S) \in Nat
  BY FS_CardinalityType
<1>2. ASSUME NEW m \in S PROVE IsFiniteSet(Earlier(m)) /\ Cardinality(Earlier(m)) \in Nat
  <2>1. Earlier(m) \in SUBSET S
    OBVIOUS
  <2> QED BY <2>1, FS_Subset, FS_CardinalityType
<1>3. ASSUME NEW m \in S PROVE Place(S, m) \in 1 .. Cardinality(S)
  <2>1. IsFiniteSet(S \ {m}) /\ Cardinality(S \ {m}) = Cardinality(S) - 1
    BY FS_RemoveElement
  <2>2. Earlier(m) \in SUBSET (S \ {m})
    OBVIOUS
  <2>3. Cardinality(Earlier(m)) <= Cardinality(S) - 1
    BY <2>1, <2>2, FS_Subset
  <2> HIDE DEF Earlier
  <2>4. Place(S, m) = Cardinality(Earlier(m)) + 1
    BY DEF Earlier, Place
  <2> QED BY <1>1, <1>2, <2>3, <2>4
<1>4. ASSUME NEW m \in S, NEW n \in S, m.at < n.at PROVE Place(S, m) < Place(S, n)
  <2>1. Earlier(m) \cup {m} \in SUBSET Earlier(n) /\ m \notin Earlier(m)
    BY <1>4
  <2>2. Cardinality(Earlier(m) \cup {m}) = Cardinality(Earlier(m)) + 1
    BY <1>2, <2>1, FS_AddElement
  <2>3. Cardinality(Earlier(m) \cup {m}) <= Cardinality(Earlier(n))
    BY <1>2, <2>1, FS_Subset
  <2> HIDE DEF Earlier
  <2>4. Place(S, m) = Cardinality(Earlier(m)) + 1 /\ Place(S, n) = Cardinality(Earlier(n)) + 1
    BY DEF Earlier, Place
  <2> QED BY <1>2, <2>2, <2>3, <2>4
<1>5. PICK f : f = [m \in S |-> Place(S, m)]
  OBVIOUS
<1>6. f \in Injection(S, 1 .. Cardinality(S))
  <2>1. \A m, n \in S : f[m] = f[n] => m = n
    <3> SUFFICES ASSUME NEW m \in S, NEW n \in S, Place(S, m) = Place(S, n), m.at # n.at
                 PROVE  FALSE
      BY <1>5
    <3>1. m.at < n.at \/ n.at < m.at
      OBVIOUS
    <3>2. Place(S, m) \in Nat /\ Place(S, n) \in Nat
      BY <1>3
    <3> QED BY <1>4, <3>1, <3>2
  <2>2. f \in [S -> 1 .. Cardinality(S)]
    BY <1>3, <1>5
  <2> QED BY <2>1, <2>2 DEF Injection, IsInjective
<1>7. f \in Surjection(S, 1 .. Cardinality(S))
  <2>1. IsFiniteSet(1 .. Cardinality(S)) /\ Cardinality(1 .. Cardinality(S)) = Cardinality(S)
    BY <1>1, FS_Interval
  <2> QED BY <1>6, <2>1, FS_Injection
<1>8. \A i \in 1 .. Cardinality(S) : \E m \in S : f[m] = i
  BY <1>7 DEF Surjection
<1> QED
  BY <1>3, <1>4, <1>5, <1>8


\* The rows of the thread of a card, which BuildThread puts in their places.
RowsOf(c) == {Chat!AiToMessage(m) : m \in Chat!Thread(c)}
               \cup {Chat!AppToMessage(h) : h \in Chat!People(c)}

\* Each row of a thread is one of a person, or of the table of the agent in its opportunity.
LEMMA RowOfThread ==
    ASSUME NEW c, NEW x \in RowsOf(c)
    PROVE  \/ \E m \in said : /\ m.opp = c /\ x = Chat!AiToMessage(m) /\ x.at = m.at
                              /\ x.sender = "lead" <=> m.role = "user"
                              /\ x.sender = "system" <=> m.role = "system"
           \/ \E h \in app : x = Chat!AppToMessage(h) /\ x.at = h.at
<1>1. CASE \E m \in Chat!Thread(c) : x = Chat!AiToMessage(m)
  <2>1. PICK m \in Chat!Thread(c) : x = Chat!AiToMessage(m)
    BY <1>1
  <2>2. m \in said /\ m.opp = c
    BY DEF Chat!Thread
  <2>3. /\ x.at = m.at
        /\ x.sender = "lead" <=> m.role = "user"
        /\ x.sender = "system" <=> m.role = "system"
    BY <2>1 DEF Chat!AiToMessage
  <2> QED BY <2>1, <2>2, <2>3
<1>2. CASE \E h \in Chat!People(c) : x = Chat!AppToMessage(h)
  <2>1. PICK h \in Chat!People(c) : x = Chat!AppToMessage(h)
    BY <1>2
  <2>2. h \in app /\ x.at = h.at
    BY <2>1 DEF Chat!People, Chat!AppToMessage
  <2> QED BY <2>1, <2>2
<1> QED BY <1>1, <1>2 DEF RowsOf

\* The rows of a thread have moments of their own, so that each has its place.
LEMMA RowsHavePlaces ==
    ASSUME ChatInv, OnceEach, NEW c \in Chat!Opps
    PROVE  /\ IsFiniteSet(RowsOf(c))
           /\ \A x \in RowsOf(c) : x.at \in Nat
           /\ \A x, y \in RowsOf(c) : x.at = y.at => x = y
<1>1. now \in Nat /\ \A m \in said : m.at \in Nat /\ m.at <= now
  BY ChatFields DEF ChatInv, ChatTyped, Dated, Before
<1>2. \A h \in app : h.at \in Nat /\ h.at <= now
  BY ChatFields DEF ChatInv, Dated, Before
<1>3. \A x \in RowsOf(c) : x.at \in 0 .. now
  BY <1>1, <1>2, RowOfThread
<1>4. ASSUME NEW x \in RowsOf(c), NEW y \in RowsOf(c), x.at = y.at PROVE x = y
  BY <1>4, RowOfThread DEF OnceEach
<1>5. PICK f : f = [x \in RowsOf(c) |-> x.at]
  OBVIOUS
<1>6. f \in Injection(RowsOf(c), 0 .. now)
  BY <1>3, <1>4, <1>5 DEF Injection, IsInjective
<1>7. IsFiniteSet(0 .. now)
  BY <1>1, FS_Interval
<1>8. IsFiniteSet(RowsOf(c))
  BY <1>6, <1>7, FS_Injection
<1> QED BY <1>3, <1>4, <1>8

LEMMA ChatCounts == ASSUME NEW S PROVE Chat!Cardinality(S) = Cardinality(S)
BY DEF Chat!Cardinality, Cardinality

\* The row in each position of the thread of a card is the one whose place it is.
LEMMA ThreadInPlace ==
    ASSUME ChatInv, OnceEach, NEW c \in Chat!Opps, NEW t, t = Chat!CardDetail(c).thread
    PROVE  /\ DOMAIN t = 1 .. Cardinality(RowsOf(c))
           /\ \A i \in DOMAIN t : t[i] \in RowsOf(c) /\ Place(RowsOf(c), t[i]) = i
<1>1. PICK S : S = RowsOf(c)
  OBVIOUS
<1>2. /\ IsFiniteSet(S) /\ \A x \in S : x.at \in Nat
      /\ \A x, y \in S : x.at = y.at => x = y
  BY <1>1, RowsHavePlaces
<1>3. \A i \in 1 .. Cardinality(S) : \E m \in S : Place(S, m) = i
  BY <1>2, PlacesInOrder
<1>4. t = [i \in 1 .. Chat!Cardinality(S) |->
             CHOOSE m \in S : Chat!Cardinality({n \in S : n.at < m.at}) = i - 1]
  <2>1. Chat!BuildThread(Chat!Thread(c), Chat!People(c)) =
           [i \in 1 .. Chat!Cardinality(RowsOf(c)) |->
              CHOOSE m \in RowsOf(c) : Chat!Cardinality({n \in RowsOf(c) : n.at < m.at}) = i - 1]
    BY Zenon DEF Chat!BuildThread, RowsOf
  <2>2. t = Chat!BuildThread(Chat!Thread(c), Chat!People(c))
    BY DEF Chat!CardDetail
  <2> QED BY <1>1, <2>1, <2>2, Zenon
<1>5. \A m \in S : /\ Cardinality({n \in S : n.at < m.at}) \in Nat
                   /\ Chat!Cardinality({n \in S : n.at < m.at}) = Cardinality({n \in S : n.at < m.at})
  <2> TAKE m \in S
  <2>1. {n \in S : n.at < m.at} \in SUBSET S
    OBVIOUS
  <2> QED BY <1>2, <2>1, FS_Subset, FS_CardinalityType, ChatCounts
<1>6. Cardinality(S) \in Nat /\ Chat!Cardinality(S) = Cardinality(S)
  BY <1>2, FS_CardinalityType, ChatCounts
<1>7. ASSUME NEW i \in 1 .. Cardinality(S) PROVE t[i] \in S /\ Place(S, t[i]) = i
  <2>1. t[i] = CHOOSE m \in S : Chat!Cardinality({n \in S : n.at < m.at}) = i - 1
    BY <1>4, <1>6
  <2>2. \E m \in S : Chat!Cardinality({n \in S : n.at < m.at}) = i - 1
    <3>1. PICK m \in S : Place(S, m) = i
      BY <1>3
    <3>2. PICK k \in Nat : k = Chat!Cardinality({n \in S : n.at < m.at})
                           /\ k = Cardinality({n \in S : n.at < m.at})
      BY <1>5
    <3>3. k + 1 = i
      BY <3>1, <3>2 DEF Place
    <3>4. k = i - 1
      BY <1>6, <3>3
    <3>5. Chat!Cardinality({n \in S : n.at < m.at}) = i - 1
      BY <3>2, <3>4
    <3> QED BY <3>5, Zenon
  <2>3. t[i] \in S /\ Cardinality({n \in S : n.at < t[i].at}) = i - 1
    BY <1>5, <2>1, <2>2
  <2> QED BY <1>6, <2>3 DEF Place
<1> QED BY <1>1, <1>4, <1>6, <1>7


\* While a card waits, the last message of its lead is the last activity of the card, and later
\* than all that the agent and people have written.
LEMMA LeadWasLast ==
    ASSUME ChatInv, NEW c \in Chat!Opps, Chat!Awaiting(c)
    PROVE  \E m \in said : /\ m.opp = c /\ m.role = "user" /\ m.at = Chat!LastActivity(c)
                           /\ \A n \in said : n.opp = c /\ n.role = "user" => n.at <= m.at
                           /\ \A n \in said : n.opp = c /\ n.role = "assistant" => n.at < m.at
                           /\ \A h \in app : h.at < m.at
<1> DEFINE Of(who) == {x.at : x \in {r \in Chat!Thread(c) : r.role = who}}
           Human   == {h.at : h \in app}
<1>1. now \in Nat /\ Of("user") \subseteq 0 .. now /\ Of("assistant") \subseteq 0 .. now
      /\ Human \subseteq 0 .. now
  BY ChatFields DEF ChatInv, ChatTyped, Dated, Before, Chat!Thread
<1>2. opp[c].attended \in 0 .. now
  BY ChatFields DEF ChatInv, ChatTyped, Dated, Before
<1>3. PICK u, g, p, d : /\ u = Chat!LastOf(Of("user")) /\ g = Chat!LastOf(Of("assistant"))
                        /\ p = Chat!LastOf(Human) /\ d = opp[c].attended
  OBVIOUS
<1>4. u > Chat!Max({g, p, d}) /\ Chat!LastActivity(c) = Chat!Max({u, g, p})
  BY <1>3 DEF Chat!Awaiting, Chat!LastActivity, Chat!Activity, Chat!LastSaid, Chat!LastReply
<1>5. u \in Of("user") \cup {0} /\ u \in 0 .. now /\ \A t \in Of("user") : t <= u
  <2> HIDE DEF Of
  <2> QED BY <1>1, <1>3, LastIs
<1>6. g \in 0 .. now /\ \A t \in Of("assistant") : t <= g
  <2> HIDE DEF Of
  <2> QED BY <1>1, <1>3, LastIs
<1>7. p \in 0 .. now /\ \A t \in Human : t <= p
  <2> HIDE DEF Of, Human
  <2>1. \A T : T \subseteq 0 .. now => /\ Chat!LastOf(T) \in T \cup {0} /\ Chat!LastOf(T) \in Nat
                                      /\ \A y \in T : Chat!LastOf(T) >= y
    BY <1>1, LastIs
  <2>2. p \in Human \cup {0} /\ \A y \in Human : p >= y
    BY <1>1, <1>3, <2>1
  <2> QED BY <1>1, <2>2
<1>8. g < u /\ p < u /\ 0 < u
  <2>1. {g, p, d} \subseteq 0 .. now /\ {g, p, d} # {}
    BY <1>2, <1>3, <1>6, <1>7
  <2>2. Chat!Max({g, p, d}) \in {g, p, d} /\ \A y \in {g, p, d} : Chat!Max({g, p, d}) >= y
    BY <1>1, <2>1, LatestIs
  <2>3. PICK x : x = Chat!Max({g, p, d})
    OBVIOUS
  <2>4. x \in 0 .. now /\ x >= g /\ x >= p /\ u > x
    BY <1>4, <2>1, <2>2, <2>3
  <2> QED BY <1>5, <1>6, <1>7, <2>4
<1>9. Chat!LastActivity(c) = u
  <2>1. {u, g, p} \subseteq 0 .. now /\ {u, g, p} # {}
    BY <1>5, <1>6, <1>7
  <2>2. Chat!Max({u, g, p}) \in {u, g, p} /\ \A y \in {u, g, p} : Chat!Max({u, g, p}) >= y
    BY <1>1, <2>1, LatestIs
  <2>3. PICK x : x = Chat!Max({u, g, p})
    OBVIOUS
  <2>4. x \in {u, g, p} /\ x >= u
    BY <2>2, <2>3
  <2> QED BY <1>4, <1>5, <1>6, <1>7, <1>8, <2>3, <2>4
<1>10. PICK m \in Chat!Thread(c) : m.role = "user" /\ m.at = u
  BY <1>5, <1>8
<1>11. m \in said /\ m.opp = c
  BY DEF Chat!Thread
<1>12. \A n \in said : n.opp = c /\ n.role = "user" => n.at <= u
  BY <1>5 DEF Chat!Thread
<1>13. \A n \in said : n.opp = c /\ n.role = "assistant" => n.at < u
  <2>1. \A n \in said : n.opp = c /\ n.role = "assistant" => n.at \in Of("assistant")
    BY DEF Chat!Thread
  <2>2. \A t \in Of("assistant") : t \in 0 .. now /\ t <= g
    BY <1>1, <1>6
  <2> HIDE DEF Of
  <2>3. \A t \in Of("assistant") : t < u
    BY <1>5, <1>6, <1>8, <2>2
  <2> QED BY <2>1, <2>3
<1>14. \A h \in app : h.at < u
  <2>1. \A h \in app : h.at \in 0 .. now /\ h.at <= p
    BY <1>1, <1>7
  <2> QED BY <1>5, <1>7, <1>8, <2>1
<1> QED BY <1>9, <1>10, <1>11, <1>12, <1>13, <1>14

\* Who waits is shown, and a card that the board says to wait shows a thread whose last word is
\* the lead's, although the badge takes the replies of people by phone and the thread since the
\* opportunity was opened: no moment is taken twice, so the order of the thread is that of the
\* times that the badge compares (attention.is_awaiting, BoardService.get_board and
\* get_card_detail, build_thread).
THEOREM BadgeStaysRight == Chat!Spec => []BadgeIsRight
<1>1. ASSUME ChatInv, OnceEach, NEW c \in Chat!Opps, Chat!Awaiting(c),
             NEW t, t = Chat!CardDetail(c).thread
      PROVE  \E i \in DOMAIN t : /\ t[i].sender = "lead" /\ t[i].at = Chat!LastActivity(c)
                                 /\ \A j \in DOMAIN t : j > i => t[j].sender = "system"
  <2>1. PICK m \in said : /\ m.opp = c /\ m.role = "user" /\ m.at = Chat!LastActivity(c)
                          /\ \A n \in said : n.opp = c /\ n.role = "user" => n.at <= m.at
                          /\ \A n \in said : n.opp = c /\ n.role = "assistant" => n.at < m.at
                          /\ \A h \in app : h.at < m.at
    BY <1>1, LeadWasLast
  <2>2. PICK x : x = Chat!AiToMessage(m)
    OBVIOUS
  <2>3. x.sender = "lead" /\ x.at = m.at
    BY <2>1, <2>2 DEF Chat!AiToMessage
  <2>4. PICK S : S = RowsOf(c)
    OBVIOUS
  <2>5. x \in S
    BY <2>1, <2>2, <2>4 DEF RowsOf, Chat!Thread
  <2>6. /\ IsFiniteSet(S) /\ \A y \in S : y.at \in Nat
        /\ \A y, z \in S : y.at = z.at => y = z
    BY <1>1, <2>4, RowsHavePlaces
  <2>7. /\ DOMAIN t = 1 .. Cardinality(S)
        /\ \A i \in DOMAIN t : t[i] \in S /\ Place(S, t[i]) = i
    BY <1>1, <2>4, ThreadInPlace
  <2>8. /\ \A y \in S : Place(S, y) \in 1 .. Cardinality(S)
        /\ \A y, z \in S : y.at < z.at => Place(S, y) < Place(S, z)
    BY <2>6, PlacesInOrder
  <2>9. PICK i \in DOMAIN t : i = Place(S, x)
    BY <2>5, <2>7, <2>8
  <2>10. \A y, z \in S : Place(S, y) = Place(S, z) => y = z
    <3> SUFFICES ASSUME NEW y \in S, NEW z \in S, Place(S, y) = Place(S, z), y.at # z.at
                 PROVE  FALSE
      BY <2>6
    <3>1. y.at < z.at \/ z.at < y.at
      BY <2>6
    <3>2. Place(S, y) \in Int /\ Place(S, z) \in Int
      BY <2>8
    <3> QED BY <2>8, <3>1, <3>2
  <2>11. t[i] = x
    BY <2>5, <2>7, <2>9, <2>10
  <2>12. ASSUME NEW j \in DOMAIN t, j > i PROVE t[j].sender = "system"
    <3>1. PICK y \in S : y = t[j] /\ Place(S, y) = j
      BY <2>7
    <3>2. y.at \in Nat /\ x.at \in Nat /\ i \in Int /\ j \in Int
      BY <2>5, <2>6, <2>7, <3>1
    <3>3. ~(y.at < x.at) /\ y.at # x.at
      BY <2>5, <2>6, <2>8, <2>9, <2>12, <3>1, <3>2
    <3>4. y.at > m.at
      BY <2>3, <3>2, <3>3
    <3>5. PICK n \in said : /\ n.opp = c /\ y.at = n.at
                            /\ y.sender = "system" <=> n.role = "system"
      BY <2>1, <2>3, <2>4, <3>2, <3>4, RowOfThread
    <3>6. n.role \in {"user", "assistant", "system"}
      BY <1>1 DEF ChatInv, ChatTyped, Said
    <3>7. n.role # "user" /\ n.role # "assistant"
      BY <2>1, <2>3, <3>2, <3>4, <3>5
    <3> QED BY <3>1, <3>5, <3>6, <3>7
  <2> QED BY <2>1, <2>3, <2>11, <2>12
<1>2. ChatInv /\ OnceEach /\ WaitersAreShown => BadgeIsRight
  BY <1>1 DEF BadgeIsRight, Chat!BadgeIsRight, WaitersAreShown, Chat!Board
<1> QED
  BY <1>2, ChatInvAlways, OnceEachAlways, WhoWaitsIsShown, PTL


(***************************************************************************)
(* The office.                                                             *)
(***************************************************************************)

\* The parts share no state: a step of the office is a step of one of them and leaves the others
\* alone.
LEMMA OneStepOfOnePart ==
    ASSUME [OfficeNext]_<<part, people, catalogue, links, qr, inbox>>
    PROVE  /\ [Next]_vars
           /\ [Cat!Next]_(Cat!vars)
           /\ [Lnk!Next]_(Lnk!vars)
           /\ [Qr!Next]_(Qr!vars)
           /\ [Chat!Next]_(Chat!vars)
<1>1. /\ UNCHANGED people => UNCHANGED vars
      /\ UNCHANGED catalogue => UNCHANGED Cat!vars
      /\ UNCHANGED links => UNCHANGED Lnk!vars
      /\ UNCHANGED qr => UNCHANGED Qr!vars
      /\ UNCHANGED inbox => UNCHANGED Chat!vars
  BY DEF people, catalogue, links, qr, inbox, Cat!vars, Lnk!vars, Qr!vars, Chat!vars
<1>2. CASE UNCHANGED <<part, people, catalogue, links, qr, inbox>>
  BY <1>1, <1>2
<1>3. CASE OfficeNext
  BY <1>1, <1>3 DEF OfficeNext
<1> QED BY <1>2, <1>3

\* Every behaviour of the office is one of each of its parts, so that what is proved of a part
\* holds of the whole that TLC checks.
THEOREM OfficeIsItsParts ==
    OfficeSpec => Spec /\ Cat!Spec /\ Lnk!Spec /\ Qr!Spec /\ Chat!Spec
<1>1. OfficeInit => Init /\ Cat!Init /\ Lnk!Init /\ Qr!Init /\ Chat!Init
  BY DEF OfficeInit
<1>2. [OfficeNext]_<<part, people, catalogue, links, qr, inbox>> =>
         /\ [Next]_vars
         /\ [Cat!Next]_(Cat!vars)
         /\ [Lnk!Next]_(Lnk!vars)
         /\ [Qr!Next]_(Qr!vars)
         /\ [Chat!Next]_(Chat!vars)
  BY OneStepOfOnePart
<1> QED
  BY <1>1, <1>2, PTL DEF OfficeSpec, Spec, Cat!Spec, Lnk!Spec, Qr!Spec, Chat!Spec

\* What the run MCOffice checks of the catalogue, the links, the payment QR and the inbox, of
\* the whole office.
THEOREM OfficeStaysRight ==
    OfficeSpec => [](SnapshotIsCurrent /\ MaterialsServed /\ LinksWithinReach /\ OneImage
                       /\ BadgeIsRight)
BY OfficeIsItsParts, SnapshotStaysCurrent, MaterialsStayServed, LinksStayWithinReach, OneImageIsKept,
   BadgeStaysRight, PTL


\* And of its people, with one request deciding at a time and the flag of operator only given.
THEOREM OfficeKeepsItsPeople ==
    ASSUME ~Overlap, Flag \subseteq {TRUE} PROVE OfficeSpec => []OperatorRemains /\ RemovalIsLocal
BY OfficeIsItsParts, SomebodyRuns, RemovesFromItsTenant, PTL
=============================================================================
