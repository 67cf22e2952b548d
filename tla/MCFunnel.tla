------------------------------ MODULE MCFunnel ------------------------------
(* One service, the calls that change what the properties tell apart. *)
EXTENDS Funnel

MCTools == {Call("fijar_servicio", s) : s \in Service}
           \cup {Call("handoff_to_human", "payment_validation"), Call("out_of_scope", ""),
                 Call("guardar_nombre", "Ana")}

MCToolsAll == MCTools \cup {Call("set_lead_stage", "handed_off")}
=============================================================================
