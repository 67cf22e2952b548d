----------------------------- MODULE DeliveryPlan -----------------------------
(***************************************************************************)
(* What is sent for a paid service: the entry, the links, or nothing with  *)
(* an aviso for a human.  Pure functions of the service, its links and its *)
(* event; a message is the sequence of the links it lists.                 *)
(***************************************************************************)
EXTENDS Naturals, Sequences, SequencesExt

CONSTANT Nothing    \* no link, no event, no modality, no text

ASSUME NothingIsNoFlag == Nothing \notin {"missing_link", "no_modality", "ambiguous_service"}

AccessKinds       == <<"whatsapp_group", "meeting">>
DeliveryKindOrder == AccessKinds \o <<"other">>

\* Those of the links that are wanted, in their order: kept[n] is what the first n leave.
Those(links, wanted) ==
    LET kept[n \in 0 .. Len(links)] ==
            IF n = 0 THEN <<>>
            ELSE IF links[n] \in wanted THEN Append(kept[n - 1], links[n]) ELSE kept[n - 1]
    IN kept[Len(links)]

\* A link whose url is blank was never filled in.
OfKind(links, kind) == Those(links, {l \in ToSet(links) : l.kind = kind /\ l.url # Nothing})

FirstOf(links, kind) == IF OfKind(links, kind) = <<>> THEN Nothing ELSE OfKind(links, kind)[1]

HasAccessLink(links) == \E kind \in ToSet(AccessKinds) : OfKind(links, kind) # <<>>

\* Mutant of DeliveryLines: one link of each kind.
FirstLines(links) ==
    SelectSeq([i \in DOMAIN DeliveryKindOrder |-> FirstOf(links, DeliveryKindOrder[i])],
              LAMBDA l : l # Nothing)

\* Grouped by kind, and within a kind as the operator ordered them.
DeliveryLines(links) ==
    FlattenSeq([i \in DOMAIN DeliveryKindOrder |-> OfKind(links, DeliveryKindOrder[i])])

Plan(entry, lines, place, warnings) ==
    [entry |-> entry, lines |-> lines, place |-> place, warnings |-> warnings,
     blocked_by |-> Nothing]

Blocked(flag) == [Plan(FALSE, <<>>, Nothing, {}) EXCEPT !.blocked_by = flag]

MissingUnless(there) == IF there THEN {} ELSE {"missing_link"}

\* The entry is the delivery; where it is held is a complement.
PlanPresencial(links) ==
    LET maps == FirstOf(links, "maps")
    IN Plan(TRUE, <<>>, maps, MissingUnless(maps # Nothing))

\* Mutant of PlanVirtual: any link will do.
PlanVirtualAnyLink(links) ==
    IF DeliveryLines(links) = <<>> THEN Blocked("missing_link")
    ELSE Plan(FALSE, DeliveryLines(links), Nothing, {})

\* Nothing that opens the course is nothing to deliver.
PlanVirtual(links) ==
    IF ~HasAccessLink(links) THEN Blocked("missing_link")
    ELSE Plan(FALSE, DeliveryLines(links), Nothing, {})

\* The entry and the links together; what is missing becomes an aviso.
PlanHybrid(links) ==
    LET maps == FirstOf(links, "maps")
    IN Plan(TRUE, DeliveryLines(links), maps,
            MissingUnless(maps # Nothing) \cup MissingUnless(HasAccessLink(links)))

PlanDelivery(modality, links) ==
    CASE modality = "presencial" -> PlanPresencial(links)
      [] modality = "virtual"    -> PlanVirtual(links)
      [] modality = "hibrido"    -> PlanHybrid(links)
      [] OTHER                   -> Blocked("no_modality")

\* The place of the event takes the place of the service's.
WithPlaceOf(links, event) ==
    IF event = Nothing THEN links
    ELSE IF event.maps_url = Nothing THEN links
    ELSE Append(Those(links, {l \in ToSet(links) : l.kind # "maps"}),
                [kind |-> "maps", url |-> event.maps_url])

\* Mutant of PlanFor: the gate is asked for an entry that exists too.
PlanThroughGate(services, issued, event, gate) ==
    IF Len(services) # 1 THEN Blocked("no_modality")
    ELSE IF gate # Nothing THEN Blocked(gate)
    ELSE PlanDelivery(services[1].modality, WithPlaceOf(services[1].links, event))

\* plan_for: no service or several tell nothing.  The gate of the event is only
\* asked for an entry that is not issued yet.
PlanFor(services, issued, event, gate) ==
    LET service == services[1]
    IN CASE services = <<>> -> Blocked("no_modality")
         [] Len(services) > 1 -> Blocked("ambiguous_service")
         [] Len(services) = 1 /\ service.modality \notin {"presencial", "hibrido"} ->
              PlanDelivery(service.modality, service.links)
         [] OTHER ->
              IF ~issued /\ gate # Nothing THEN Blocked(gate)
              ELSE PlanDelivery(service.modality, WithPlaceOf(service.links, event))
=============================================================================
