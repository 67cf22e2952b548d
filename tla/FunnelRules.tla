----------------------------- MODULE FunnelRules -----------------------------
(***************************************************************************)
(* What a turn of the agent decides: the flow of the message, the tools    *)
(* the model calls, the stage of the funnel they reach, the answer, and    *)
(* the stage of the board that shows it.  The model proposes and the code  *)
(* validates.  Pure functions.                                             *)
(***************************************************************************)
EXTENDS Naturals, Sequences, SequencesExt

CONSTANTS Service,      \* the services of the published catalogue
          None          \* no stage, no reason, nothing to say

ASSUME SilenceIsNoAnswer == None \notin {"greeting", "handoff", "error", "received", "ask_proof"}

-----------------------------------------------------------------------------
(* The funnel (funnel_fsm.py). *)

FunnelStage == {"new", "engaging", "qualifying", "qualified", "handed_off", "disqualified"}

Ends == {"handed_off", "disqualified"}

AllowedTransitions ==
    [s \in FunnelStage |->
        CASE s = "new"        -> {"engaging"} \cup Ends
          [] s = "engaging"   -> {"qualifying"} \cup Ends
          [] s = "qualifying" -> {"qualified"} \cup Ends
          [] s = "qualified"  -> Ends
          [] OTHER            -> {}]

\* Mutant of ValidTransition: the terminal stages are stages like the others.
AnyTransition(current, target) == TRUE

\* validate_transition: staying is always allowed.
ValidTransition(current, target) ==
    current = target \/ target \in AllowedTransitions[current]

IsTerminal(stage) == AllowedTransitions[stage] = {}

\* _advance: the stage is kept if the funnel rejects the target.
Advance(current, target) == IF ValidTransition(current, target) THEN target ELSE current

\* Code opens a terminal stage again, never the model.
Reopen(current, fresh) ==
    IF IsTerminal(current) THEN (IF fresh THEN "new" ELSE "engaging") ELSE current

-----------------------------------------------------------------------------
(* The tools (agent_tools.py).  A call has a name and one argument; what a  *)
(* turn has gathered so far is the record the calls are folded into.        *)

HandoffReasons == {"explicit_request", "payment_validation", "agent_error", "unknown_service"}

Call(tool, arg) == [tool |-> tool, arg |-> arg]

Gathered(stage) == [stage |-> stage, reason |-> None, slugs |-> {}, qr |-> FALSE, name |-> FALSE]

\* Mutant of TowardQualified: a buying signal is one hop.
OneHop(stage) == Advance(stage, "qualified")

\* A buying signal walks up to qualified, one valid hop at a time.
TowardQualified(stage) == Advance(Advance(stage, "qualifying"), "qualified")

FijarServicio(got, slug) ==
    IF slug \in Service
    THEN [got EXCEPT !.slugs = @ \cup {slug}, !.stage = TowardQualified(@)] ELSE got

EnviarQrPago(got) == [got EXCEPT !.qr = TRUE, !.stage = TowardQualified(@)]

GuardarNombre(got, name) == [got EXCEPT !.name = @ \/ name # ""]

SetLeadStage(got, target) ==
    IF target \in FunnelStage THEN [got EXCEPT !.stage = Advance(@, target)] ELSE got

HandoffToHuman(got, reason) ==
    IF reason \in HandoffReasons /\ ValidTransition(got.stage, "handed_off")
    THEN [got EXCEPT !.stage = "handed_off", !.reason = reason] ELSE got

OutOfScope(got) == [got EXCEPT !.stage = Advance(@, "disqualified")]

\* A call of a tool that does not exist, or that only reads, changes nothing.
RunTool(got, use) ==
    CASE use.tool = "fijar_servicio"   -> FijarServicio(got, use.arg)
      [] use.tool = "enviar_qr_pago"   -> EnviarQrPago(got)
      [] use.tool = "guardar_nombre"   -> GuardarNombre(got, use.arg)
      [] use.tool = "set_lead_stage"   -> SetLeadStage(got, use.arg)
      [] use.tool = "handoff_to_human" -> HandoffToHuman(got, use.arg)
      [] use.tool = "out_of_scope"     -> OutOfScope(got)
      [] OTHER                         -> got

\* One answer of the model may call several tools, and all of them run.
RunTools(got, uses) == FoldLeft(RunTool, got, uses)

\* The loop stops after the answer that hands the lead over.
RunBatches(got, batches) ==
    FoldLeft(LAMBDA g, uses : IF g.reason = None THEN RunTools(g, uses) ELSE g, got, batches)

-----------------------------------------------------------------------------
(* The turn (agent_service.py).  reply is the kind of the answer: the text  *)
(* of the model, one of the fixed ones, or None.                            *)

MaxIterations == 6

Outcome(reply, stage, reason) ==
    [reply |-> reply, stage |-> stage, ai |-> reason = None, reason |-> reason,
     slugs |-> {}, qr |-> FALSE, name |-> FALSE]

Greet(stage)      == Outcome("greeting", Advance(stage, "engaging"), None)
AskedHuman(stage) == Outcome("handoff", Advance(stage, "handed_off"), "explicit_request")
ModelFailed(stage) == Outcome("error", Advance(stage, "handed_off"), "agent_error")

\* Mutant of HandoffReply: silence stands for every reason.
HandoffReplySilent(reason, text, isMedia) == text

\* The receipt that came is acknowledged; otherwise a silent model gets a fixed
\* text, unless the service is unknown.
HandoffReply(reason, text, isMedia) ==
    IF reason = "payment_validation" /\ isMedia THEN "received"
    ELSE IF text # None THEN text
    ELSE CASE reason = "unknown_service"    -> None
           [] reason = "payment_validation" -> "ask_proof"
           [] OTHER                         -> "handoff"

\* Mutant of Images: the QR goes out with the goodbye.
ImagesAnyway(got) == got.qr

\* A turn that hands the lead over sends no QR.
Images(got) == got.qr /\ got.reason = None

\* _generate: what the model answers without tools, after some answers with them.
\* again is what it says when it is asked once more for a message.
Generate(stage, batches, text, again, isMedia) ==
    LET got == RunBatches(Gathered(Advance(stage, "engaging")), batches)
        said == IF got.reason = None THEN text ELSE None
    IN IF got.reason = None /\ Len(batches) = MaxIterations
       THEN Outcome("error", Advance(got.stage, "handed_off"), "agent_error")
       ELSE [Outcome(IF got.reason # None THEN HandoffReply(got.reason, said, isMedia)
                     ELSE IF said # None THEN said ELSE again,
                     got.stage, got.reason)
             EXCEPT !.slugs = got.slugs, !.qr = Images(got), !.name = got.name]

-----------------------------------------------------------------------------
(* The router (router.py).  words are the tables the text hits.            *)

\* A bare greeting or no word at all is a greeting on the first turn.
Rules(words, isFirst) ==
    IF "handoff" \in words THEN "handoff"
    ELSE IF words \cap {"qualify", "service", "faq"} # {} THEN "generate"
    ELSE IF isFirst \/ "greeting" \in words THEN "greeting"
    ELSE None

\* Mutant of DemoteStaleGreeting: the lead that comes back is greeted again.
GreetAgain(flow, isFirst) == flow

\* A greeting in the middle of a conversation continues it.
DemoteStaleGreeting(flow, isFirst) ==
    IF flow = "greeting" /\ ~isFirst THEN "generate" ELSE flow

\* route: what the rules do not know is asked to the model.
Route(words, isFirst, classified) ==
    LET flow == Rules(words, isFirst)
    IN DemoteStaleGreeting(IF flow = None THEN classified ELSE flow, isFirst)

\* A funnel at its first stage and an agent that has not spoken yet.
IsFirstTurn(stage, spoke) == stage = "new" /\ ~spoke

\* _handle
Handle(flow, stage, batches, text, again, isMedia) ==
    CASE flow = "greeting" -> Greet(stage)
      [] flow = "handoff"  -> AskedHuman(stage)
      [] OTHER             -> Generate(stage, batches, text, again, isMedia)

-----------------------------------------------------------------------------
(* What the board shows of it. *)

\* lead_rating.py
RatingForStage(stage, accepted) ==
    IF stage = "qualified" \/ (accepted /\ stage \in {"qualifying", "handed_off"}) THEN "hot"
    ELSE IF stage \in {"engaging", "qualifying", "handed_off"} THEN "medium"
    ELSE "cold"

\* attention.py: times are numbers, 0 is never.
IsAwaiting(lead, answers, ai, closed) ==
    ~ai /\ ~closed /\ lead > 0 /\ \A t \in answers : lead > t

IaStages    == <<"Nuevo", "Enganchando", "Calificando", "Calificado", "Descalificado">>
HumanStages == <<"Por atender", "Por validar pago", "Pago validado", "Entregado", "Cerrado",
                 "Perdido">>

\* card_service.py: the mirror of each stage of the funnel.
IaStageByFunnel(stage) ==
    CASE stage = "new"        -> "Nuevo"
      [] stage = "engaging"   -> "Enganchando"
      [] stage = "qualifying" -> "Calificando"
      [] stage = "qualified"  -> "Calificado"
      [] OTHER                -> "Descalificado"

\* A payment to validate has a tray of its own; every other reason, or none, is
\* for whoever attends.
HumanStageByReason(reason) ==
    IF reason = "payment_validation" THEN "Por validar pago" ELSE "Por atender"

TargetStage(stage, ai, reason) ==
    IF ~ai \/ stage = "handed_off" THEN HumanStageByReason(reason) ELSE IaStageByFunnel(stage)
=============================================================================
