----------------------------- MODULE Catalogue -----------------------------
(***************************************************************************)
(* The catalogue of a tenant and the snapshot of it that the agent reads.  *)
(* An edit changes rows and commits, then re-projects everything into the  *)
(* config of the agent and commits again, then deletes files; the form of  *)
(* the agent writes the same config whole.  Edits may overlap and die.     *)
(***************************************************************************)
EXTENDS Integers, FiniteSets

CONSTANTS Service, Category, Asset, Event, Form, Edit,
          Overlap,          \* whether two requests may be served at once
          None,
          MaxEdits          \* bound: edits, forms, uploads, crashes and events that pass

VARIABLES service,          \* rows: the state of each and its category
          category,         \* rows
          asset,            \* rows: the category a material is filed under
          file,             \* the files under media_root/catalogo
          event,            \* rows: the state of each, its service, whether it has passed
          config,           \* agent.config: what the form holds, and the snapshot
          edit,             \* the requests in progress
          blurred,          \* ghost: an edit overlapped or died since the last clean one
          edits             \* bound

vars == <<service, category, asset, file, event, config, edit, blurred, edits>>
rows == <<service, category, asset, event>>

NoService == [state |-> "none", category |-> None]
NoEvent   == [state |-> "none", service |-> None, past |-> FALSE]
Idle      == [pc |-> "idle"]

\* deleted_at and is_active make one state; an asset is None, unfiled or filed.
Services == [state : {"none", "active", "off", "deleted"}, category : Category \cup {None}]
Assets   == {"none", "unfiled"} \cup Category
Events   == [state : {"none", "open", "closed"}, service : Service \cup {None}, past : BOOLEAN]
Snapshot == [services : SUBSET (Service \X (Category \cup {None})),
             categories : SUBSET (Category \X SUBSET Asset),
             events : SUBSET (Event \X Service)]
Config   == [form : Form, shown : Snapshot]

Empty == [services |-> {}, categories |-> {}, events |-> {}]

Filed(c)  == {a \in Asset : asset[a] = c}
Listed(s) == service[s].state \in {"active", "off"}
InUse     == \E e \in Edit : edit[e] # Idle

Init == /\ service = [s \in Service |-> NoService]
        /\ category = {}
        /\ asset = [a \in Asset |-> "none"]
        /\ file = {}
        /\ event = [v \in Event |-> NoEvent]
        /\ \E f \in Form : config = [form |-> f, shown |-> Empty]
        /\ edit = [e \in Edit |-> Idle]
        /\ blurred = FALSE
        /\ edits = 0

Counts == edits < MaxEdits /\ edits' = edits + 1

\* A request starts, and says whether it is alone; those it meets are alone no more.
Enter(e, q) ==
    /\ edit[e] = Idle /\ (InUse => Overlap)
    /\ Counts
    /\ blurred' = (blurred \/ InUse)
    /\ edit' = [x \in Edit |->
          IF x = e THEN q
          ELSE IF edit[x] = Idle THEN Idle ELSE [edit[x] EXCEPT !.alone = FALSE]]

\* An edit that has committed its rows: the config it holds already, and the files it
\* will delete.
Changed(held, drop) == [pc |-> "changed", held |-> held, drop |-> drop, alone |-> ~InUse]

-----------------------------------------------------------------------------
(* The edits, as far as their first commit. *)

\* create_service_for_tenant has loaded the agent, and the session keeps that row.
CreateService(e, s, c) ==
    /\ service[s].state = "none" /\ c \in category \cup {None}
    /\ service' = [service EXCEPT ![s] = [state |-> "active", category |-> c]]
    /\ Enter(e, Changed({config}, {}))
    /\ UNCHANGED <<category, asset, file, event, config>>

UpdateService(e, s, c, state) ==
    /\ Listed(s) /\ c \in category \cup {None}
    /\ service' = [service EXCEPT ![s] = [state |-> state, category |-> c]]
    /\ Enter(e, Changed({}, {}))
    /\ UNCHANGED <<category, asset, file, event, config>>

\* deleted_at: the row and its category stay.
DeleteService(e, s) ==
    /\ Listed(s)
    /\ service' = [service EXCEPT ![s].state = "deleted"]
    /\ Enter(e, Changed({}, {}))
    /\ UNCHANGED <<category, asset, file, event, config>>

\* _set_materials: what the payload names is filed, what it leaves out is not.
SetMaterials(c, chosen) ==
    [a \in Asset |-> IF a \in chosen THEN c ELSE IF asset[a] = c THEN "unfiled" ELSE asset[a]]

SaveCategory(e, c, chosen) ==
    /\ \A a \in chosen : asset[a] # "none"
    /\ category' = category \cup {c}
    /\ asset' = SetMaterials(c, chosen)
    /\ Enter(e, Changed({}, {}))
    /\ UNCHANGED <<service, file, event, config>>

DeleteCategory(e, c) ==
    /\ c \in category
    /\ category' = category \ {c}
    /\ asset' = [a \in Asset |-> IF asset[a] = c THEN "none" ELSE asset[a]]
    /\ service' = [s \in Service |-> IF service[s].category = c
                                     THEN [service[s] EXCEPT !.category = None] ELSE service[s]]
    /\ Enter(e, Changed({}, Filed(c)))
    /\ UNCHANGED <<file, event, config>>

\* Mutant of DeleteMaterial: the file goes with the row.
DeleteMaterialAtOnce(e, a) ==
    /\ asset[a] # "none"
    /\ asset' = [asset EXCEPT ![a] = "none"]
    /\ file' = file \ {a}
    /\ Enter(e, Changed({}, {}))
    /\ UNCHANGED <<service, category, event, config>>

DeleteMaterial(e, a) ==
    /\ asset[a] # "none"
    /\ asset' = [asset EXCEPT ![a] = "none"]
    /\ Enter(e, Changed({}, {a}))
    /\ UNCHANGED <<service, category, file, event, config>>

CreateEvent(e, v, s) ==
    /\ event[v].state = "none" /\ Listed(s)
    /\ event' = [event EXCEPT ![v] = [state |-> "open", service |-> s, past |-> FALSE]]
    /\ Enter(e, Changed({}, {}))
    /\ UNCHANGED <<service, category, asset, file, config>>

\* update_event: its status, and its date.
UpdateEvent(e, v, state, past) ==
    /\ event[v].state # "none"
    /\ event' = [event EXCEPT ![v] = [@ EXCEPT !.state = state, !.past = past]]
    /\ Enter(e, Changed({}, {}))
    /\ UNCHANGED <<service, category, asset, file, config>>

DeleteEvent(e, v) ==
    /\ event[v].state # "none"
    /\ event' = [event EXCEPT ![v] = NoEvent]
    /\ Enter(e, Changed({}, {}))
    /\ UNCHANGED <<service, category, asset, file, config>>

\* upload_material writes the file under a new name, and then its row.
Upload(e, a) ==
    /\ asset[a] = "none" /\ a \notin file
    /\ \A x \in Edit : edit[x].pc = "upload" => edit[x].asset # a
    /\ file' = file \cup {a}
    /\ Enter(e, [pc |-> "upload", asset |-> a, alone |-> ~InUse])
    /\ UNCHANGED <<rows, config>>

KeepUpload(e) ==
    /\ edit[e].pc = "upload"
    /\ asset' = [asset EXCEPT ![edit[e].asset] = "unfiled"]
    /\ edit' = [edit EXCEPT ![e] = Idle]
    /\ UNCHANGED <<service, category, file, event, config, blurred, edits>>

-----------------------------------------------------------------------------
(* CatalogSnapshotService.sync *)

\* The agent is read first, unless the session holds it.
ReadAgent(e) ==
    /\ edit[e].pc = "changed"
    /\ LET held == IF edit[e].held = {} THEN {config} ELSE edit[e].held
       IN edit' = [edit EXCEPT ![e] = [edit[e] EXCEPT !.pc = "read", !.held = held]]
    /\ UNCHANGED <<rows, file, config, blurred, edits>>

\* Mutant of Projection: the agenda is left as it was.
ProjectionOfCatalogue ==
    [services |-> {<<s, service[s].category>> : s \in {x \in Service : service[x].state = "active"}},
     categories |-> {<<c, Filed(c)>> : c \in category},
     events |-> config.shown.events]

Projection ==
    [services |-> {<<s, service[s].category>> : s \in {x \in Service : service[x].state = "active"}},
     categories |-> {<<c, Filed(c)>> : c \in category},
     events |-> {<<v, event[v].service>> :
                    v \in {x \in Event : event[x].state = "open" /\ ~event[x].past}}]

Project(e) ==
    /\ edit[e].pc = "read"
    /\ LET old == CHOOSE c \in edit[e].held : TRUE
       IN edit' = [edit EXCEPT ![e] = [pc |-> "write", old |-> old,
                                       new |-> [old EXCEPT !.shown = Projection],
                                       sync |-> TRUE, drop |-> edit[e].drop,
                                       alone |-> edit[e].alone]]
    /\ UNCHANGED <<rows, file, config, blurred, edits>>

\* Mutant of Kept: the form's copy of what the catalogue owns is saved with it.
KeptOfForm(old, f) == [form |-> f, shown |-> Empty]

\* AgentConfigService._merge_config
Kept(old, f) == [old EXCEPT !.form = f]

\* update_agent reads the config and works out the one it will write.
SubmitForm(e, f) ==
    /\ Enter(e, [pc |-> "write", old |-> config, new |-> Kept(config, f),
                sync |-> FALSE, drop |-> {}, alone |-> ~InUse])
    /\ UNCHANGED <<rows, file, config>>

\* An UPDATE writes the column whole, and none is sent if nothing changed.
Write(e) ==
    /\ edit[e].pc = "write"
    /\ LET q == edit[e]
       IN /\ config' = IF q.new = q.old THEN config ELSE q.new
          /\ edit' = [edit EXCEPT ![e] = IF q.drop = {} THEN Idle
                                         ELSE [pc |-> "unlink", drop |-> q.drop, alone |-> q.alone]]
          /\ blurred' = (blurred /\ ~(q.sync /\ q.alone))
    /\ UNCHANGED <<rows, file, edits>>

\* missing_ok
Unlink(e) ==
    /\ edit[e].pc = "unlink"
    /\ \E a \in edit[e].drop :
          /\ file' = file \ {a}
          /\ edit' = [edit EXCEPT ![e] = IF edit[e].drop = {a} THEN Idle
                                         ELSE [edit[e] EXCEPT !.drop = @ \ {a}]]
    /\ UNCHANGED <<rows, config, blurred, edits>>

-----------------------------------------------------------------------------
Crash(e) ==
    /\ edit[e] # Idle /\ Counts
    /\ edit' = [edit EXCEPT ![e] = Idle]
    /\ blurred' = (blurred \/ edit[e].pc \in {"changed", "read", "write"})
    /\ UNCHANGED <<rows, file, config>>

\* Time: an event that was to come has been.
EventPasses(v) ==
    /\ event[v].state = "open" /\ ~event[v].past /\ Counts
    /\ event' = [event EXCEPT ![v].past = TRUE]
    /\ UNCHANGED <<service, category, asset, file, config, edit, blurred>>

-----------------------------------------------------------------------------
Sync(e) == ReadAgent(e) \/ Project(e) \/ Write(e) \/ Unlink(e) \/ KeepUpload(e)

Next == \/ \E e \in Edit :
              \/ Sync(e) \/ Crash(e)
              \/ \E s \in Service : \/ DeleteService(e, s)
                                    \/ \E c \in Category \cup {None} :
                                          \/ CreateService(e, s, c)
                                          \/ \E x \in {"active", "off"} : UpdateService(e, s, c, x)
              \/ \E c \in Category : \/ DeleteCategory(e, c)
                                     \/ \E A \in SUBSET Asset : SaveCategory(e, c, A)
              \/ \E a \in Asset : Upload(e, a) \/ DeleteMaterial(e, a)
              \/ \E v \in Event : \/ DeleteEvent(e, v)
                                  \/ \E s \in Service : CreateEvent(e, v, s)
                                  \/ \E x \in {"open", "closed"}, p \in BOOLEAN : UpdateEvent(e, v, x, p)
              \/ \E f \in Form : SubmitForm(e, f)
        \/ \E v \in Event : EventPasses(v)

Spec == Init /\ [][Next]_vars

-----------------------------------------------------------------------------
TypeOK ==
    /\ service \in [Service -> Services] /\ category \subseteq Category
    /\ asset \in [Asset -> Assets] /\ file \subseteq Asset
    /\ event \in [Event -> Events]
    /\ config \in Config
    /\ \A e \in Edit : edit[e].pc \in {"idle", "upload", "changed", "read", "write", "unlink"}
    /\ blurred \in BOOLEAN /\ edits \in Nat

\* What the bot reads is the catalogue and the agenda, whatever the form of the agent
\* saved: and one edit that meets no other repairs what overlaps and crashes have left
\* (catalog_snapshot_service, agent_config_service on the keys owned by the server).
SnapshotIsCurrent ==
    ~InUse /\ ~blurred =>
        /\ \A s \in Service, c \in Category \cup {None} :
              <<s, c>> \in config.shown.services <=> service[s] = [state |-> "active", category |-> c]
        /\ \A c \in Category, A \in SUBSET Asset :
              <<c, A>> \in config.shown.categories <=> c \in category /\ A = Filed(c)
        /\ \A v \in Event, s \in Service : ~event[v].past =>
              (<<v, s>> \in config.shown.events <=> event[v].state = "open" /\ event[v].service = s)

\* A material that has a row has its file, always; and so has one the bot may send,
\* unless edits overlapped (delete_category and delete_material delete files last).
MaterialsServed ==
    /\ \A a \in Asset : asset[a] # "none" => a \in file
    /\ ~blurred => \A c \in config.shown.categories : c[2] \subseteq file

\* Only the form of the agent changes what the form holds.
FormIsKept ==
    [][config'.form # config.form =>
          \E e \in Edit : edit[e].pc = "write" /\ ~edit[e].sync /\ edit'[e] = Idle]_vars

\* The bot offers no date that has passed, nor one of a service it does not offer
\* ("uno cerrado o ya pasado ... solo sirve para que el bot ofrezca una fecha que no
\* existe").
NoPastEventOffered  == \A o \in config.shown.events : ~event[o[1]].past
OffersAreOfServices == \A o \in config.shown.events : \E s \in config.shown.services : s[1] = o[2]
=============================================================================
