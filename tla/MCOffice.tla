------------------------------ MODULE MCOffice ------------------------------
(***************************************************************************)
(* The back office: who may use it (Access), the catalogue with the form   *)
(* of the agent (Catalogue), the links of a service (ServiceLinks), the    *)
(* payment QR (PaymentQr), and the inbox over the chat of a phone          *)
(* (Attention).  They share no state, so each behaviour of this module is  *)
(* one of a single part.                                                   *)
(***************************************************************************)
EXTENDS Access, TLC

CONSTANTS Service, Category, Asset, Event, Form, Image, External, ServiceLink,
          MaxLinks,                                 \* MAX_LINKS_PER_SERVICE
          MaxEdits, MaxOrden, MaxTouches, MaxSaves, MaxOpps, MaxTime  \* bounds

ASSUME FinitelyManyMore == IsFiniteSet(Request) /\ IsFiniteSet(ServiceLink)
ASSUME LinksAreAllowed  == MaxLinks \in Nat \ {0}
ASSUME MarksAreNoNames  == /\ {None, "unset"} \cap Image = {} /\ None # "unset"
                           /\ {"none", "unfiled"} \cap Category = {}

VARIABLES part,
          service, category, asset, file, event, config, edit, blurred, edits,
          slink, deleted, writing, crowded, touches,
          row, image, named, saving, clouded, saves,
          opp, said, app, sent, inbound, turn, reply, dealt, raced, now

people    == vars
catalogue == <<service, category, asset, file, event, config, edit, blurred, edits>>
links     == <<slink, deleted, writing, crowded, touches>>
qr        == <<row, image, named, saving, clouded, saves>>
inbox     == <<opp, said, app, sent, inbound, turn, reply, dealt, raced, now>>

Cat == INSTANCE Catalogue WITH Edit <- Request, Overlap <- TRUE
Lnk == INSTANCE ServiceLinks WITH Link <- ServiceLink, MaxActs <- MaxTouches,
                                  link <- slink, op <- writing, acts <- touches
Qr  == INSTANCE PaymentQr WITH File <- Image, MaxActs <- MaxSaves, file <- image,
                               request <- saving, blurred <- clouded, acts <- saves
Chat == INSTANCE Attention

\* The first operators belong to the same tenants; when the people are not the part that
\* moves, to all of them.
OfficeInit == /\ part \in {"people", "catalogue", "links", "qr", "inbox"}
              /\ Init /\ Cat!Init /\ Lnk!Init /\ Qr!Init /\ Chat!Init
              /\ \A p, q \in First : Homes(p) = Homes(q)
              /\ part # "people" => \A p \in First : Homes(p) = Tenant

OfficeNext == \/ part = "people" /\ Next /\ UNCHANGED <<part, catalogue, links, qr, inbox>>
              \/ part = "catalogue" /\ Cat!Next /\ UNCHANGED <<part, people, links, qr, inbox>>
              \/ part = "links" /\ Lnk!Next /\ UNCHANGED <<part, people, catalogue, qr, inbox>>
              \/ part = "qr" /\ Qr!Next /\ UNCHANGED <<part, people, catalogue, links, inbox>>
              \/ part = "inbox" /\ Chat!Next /\ UNCHANGED <<part, people, catalogue, links, qr>>

OfficeSpec == OfficeInit /\ [][OfficeNext]_<<part, people, catalogue, links, qr, inbox>>

\* The catalogue that the bot reads: see Catalogue.
SnapshotIsCurrent == Cat!SnapshotIsCurrent

\* The files of the catalogue: see Catalogue.
MaterialsServed == Cat!MaterialsServed

\* The links of a service: see ServiceLinks.
LinksWithinReach == Lnk!LinksWithinReach

\* The image of the payment QR: see PaymentQr.
OneImage == Qr!OneImage

\* The badge of a lead that waits: see Attention.
WaitersAreShown == Chat!WaitersAreShown
BadgeIsRight    == Chat!BadgeIsRight

\* What the code does not keep: see Catalogue, ServiceLinks, PaymentQr and Attention.
FormIsKept          == Cat!FormIsKept
NoPastEventOffered  == Cat!NoPastEventOffered
OffersAreOfServices == Cat!OffersAreOfServices
LinksLimited        == Lnk!LinksLimited
DeliveredInOrder    == Lnk!DeliveredInOrder
LeadGetsAnImage     == Qr!LeadGetsAnImage
WaitingIsSeen       == Chat!WaitingIsSeen
ThreadIsItsOwn      == Chat!ThreadIsItsOwn
SentIsMirrored      == Chat!SentIsMirrored
OnlyToSilenced      == Chat!OnlyToSilenced
AllTyped            == TypeOK /\ Cat!TypeOK /\ Lnk!TypeOK /\ Qr!TypeOK /\ Chat!TypeOK

\* The parts share no identities, so one exchange of pairs serves them all.
Exchange == [x \in Tenant \cup Category \cup Asset \cup Form |->
                CASE x \in Tenant   -> CHOOSE y \in Tenant : y # x
                  [] x \in Category -> CHOOSE y \in Category : y # x
                  [] x \in Asset    -> CHOOSE y \in Asset : y # x
                  [] OTHER          -> CHOOSE y \in Form : y # x]
Perms == Permutations(Request) \cup {Exchange}
=============================================================================
