---------------------------- MODULE ServiceLinks ----------------------------
(***************************************************************************)
(* The links a paid service delivers.  A creation counts the links of the  *)
(* service and then inserts; an edit and a deletion load their row first.  *)
(* Requests overlap.                                                       *)
(***************************************************************************)
EXTENDS Integers, FiniteSets

CONSTANTS Service, Link, Request,
          MaxLinks,         \* MAX_LINKS_PER_SERVICE
          MaxOrden,         \* bound: values of orden
          MaxActs           \* bound: requests and deletions of a service

VARIABLES link,             \* rows of service_link
          deleted,          \* services with deleted_at
          op,               \* what each request is about to write
          crowded,          \* ghost: services two creations counted at once
          acts              \* bound, and the clock

vars == <<link, deleted, op, crowded, acts>>

Orden == 0 .. MaxOrden
NoLink == [orden |-> -1]
Idle   == [pc |-> "idle"]
Rows   == [service : Service, orden : Orden, at : 0 .. MaxActs]

Init == /\ link = [l \in Link |-> NoLink]
        /\ deleted = {}
        /\ op = [r \in Request |-> Idle]
        /\ crowded = {} /\ acts = 0

Alive(l)    == link[l] # NoLink
LinksOf(s)  == {l \in Link : Alive(l) /\ link[l].service = s}
Creating(s) == {r \in Request : op[r].pc = "create" /\ op[r].service = s}

Enter(r, q) == /\ op[r] = Idle /\ acts < MaxActs
               /\ acts' = acts + 1
               /\ op' = [op EXCEPT ![r] = q]

\* Mutant of RoomFor: one too many.
RoomForOneMore(s) == Cardinality(LinksOf(s)) <= MaxLinks

RoomFor(s) == Cardinality(LinksOf(s)) < MaxLinks

\* create_link, as far as the count; created_at is the time its transaction began.
CountLinks(r, s, o) ==
    /\ s \notin deleted /\ RoomFor(s)
    /\ Enter(r, [pc |-> "create", service |-> s, orden |-> o, at |-> acts])
    /\ crowded' = IF Creating(s) = {} THEN crowded ELSE crowded \cup {s}
    /\ UNCHANGED <<link, deleted>>

\* The insert and its commit.
Add(r, l) ==
    /\ op[r].pc = "create" /\ ~Alive(l)
    /\ link' = [link EXCEPT ![l] = [service |-> op[r].service, orden |-> op[r].orden, at |-> op[r].at]]
    /\ op' = [op EXCEPT ![r] = Idle]
    /\ UNCHANGED <<deleted, crowded, acts>>

\* update_link and delete_link load the row; the deleted service is not asked about.
LoadLink(r, l, pc, o) ==
    /\ Alive(l)
    /\ Enter(r, [pc |-> pc, link |-> l, orden |-> o])
    /\ UNCHANGED <<link, deleted, crowded>>

\* An UPDATE that finds no row fails the request.
UpdateLink(r) ==
    /\ op[r].pc = "update"
    /\ LET l == op[r].link
       IN link' = IF Alive(l) THEN [link EXCEPT ![l].orden = op[r].orden] ELSE link
    /\ op' = [op EXCEPT ![r] = Idle]
    /\ UNCHANGED <<deleted, crowded, acts>>

\* A DELETE that finds no row is content.
DeleteLink(r) ==
    /\ op[r].pc = "delete"
    /\ link' = [link EXCEPT ![op[r].link] = NoLink]
    /\ op' = [op EXCEPT ![r] = Idle]
    /\ UNCHANGED <<deleted, crowded, acts>>

\* ServiceRepository.delete keeps the row, and so its links.
DeleteService(s) ==
    /\ s \notin deleted /\ acts < MaxActs
    /\ deleted' = deleted \cup {s} /\ acts' = acts + 1
    /\ UNCHANGED <<link, op, crowded>>

Next == \/ \E s \in Service : DeleteService(s)
        \/ \E r \in Request :
              \/ UpdateLink(r) \/ DeleteLink(r)
              \/ \E s \in Service, o \in Orden : CountLinks(r, s, o)
              \/ \E l \in Link : \/ Add(r, l) \/ LoadLink(r, l, "delete", 0)
                                 \/ \E o \in Orden : LoadLink(r, l, "update", o)

Spec == Init /\ [][Next]_vars

-----------------------------------------------------------------------------
(* How a service is listed in the panel, and how it is delivered. *)

\* list_for_service: by orden, then by created_at.
ListedBefore(k, l) == \/ link[k].orden < link[l].orden
                      \/ link[k].orden = link[l].orden /\ link[k].at < link[l].at

\* Service.links: by orden only; of two alike the database chooses.
MayPrecede(k, l) == link[k].orden <= link[l].orden

-----------------------------------------------------------------------------
TypeOK == /\ \A l \in Link : Alive(l) => link[l] \in Rows
          /\ deleted \subseteq Service /\ crowded \subseteq Service
          /\ acts \in 0 .. MaxActs

\* A service holds as many links as a message of WhatsApp should carry, whatever is edited
\* and deleted meanwhile: only creations that count at once bring it past the limit, and
\* by no more than their number (service_link_service.py:21).
LinksWithinReach ==
    \A s \in Service :
        /\ s \notin crowded => Cardinality(LinksOf(s)) + Cardinality(Creating(s)) <= MaxLinks
        /\ Cardinality(LinksOf(s)) <= MaxLinks + Cardinality(Request) - 1

\* The limit is never passed.
LinksLimited == \A s \in Service : Cardinality(LinksOf(s)) <= MaxLinks

\* The lead gets the links in the order the operator sees (delivery.py:188).
DeliveredInOrder ==
    \A s \in Service : \A k, l \in LinksOf(s) : k # l /\ ListedBefore(k, l) => ~MayPrecede(l, k)
=============================================================================
