--------------------------- MODULE FxConnections ---------------------------
(***************************************************************************)
(* What OPC UA FX promises a client about one connection name: the states  *)
(* its ConnectionEndpoint shows, and how they relate to the data plane     *)
(* behind it. FxEngine.tla implements this specification.                  *)
(*                                                                         *)
(* A name is absent, or broken (its nodes were left half-made, for ever),  *)
(* or shows one of the endpoint states Initial, PreOperational and         *)
(* Operational. Its link is the writer group or the reader that serves it; *)
(* a subscriber's link has been fed once a message was applied.            *)
(***************************************************************************)
CONSTANT Names

VARIABLES shown, link, fed

connectionVars == <<shown, link, fed>>

Shown == {"absent", "broken", "Initial", "PreOperational", "Operational"}
Links == {"none", "publisher", "subscriber"}

ConnectionsInit ==
    /\ shown = [n \in Names |-> "absent"]
    /\ link = [n \in Names |-> "none"]
    /\ fed = {}

\* The data plane comes first, while the name shows nothing or Initial.
Open(n, role) ==
    /\ shown[n] \in {"absent", "Initial"}
    /\ link[n] = "none"
    /\ link' = [link EXCEPT ![n] = role]
    /\ UNCHANGED <<shown, fed>>

Feed(n) ==
    /\ link[n] = "subscriber"
    /\ fed' = fed \cup {n}
    /\ UNCHANGED <<shown, link>>

Appear(n) ==
    /\ shown[n] = "absent"
    /\ link[n] # "none"
    /\ shown' = [shown EXCEPT ![n] = "Initial"]
    /\ UNCHANGED <<link, fed>>

\* Only a subscriber waits for data.
Await(n) ==
    /\ shown[n] = "Initial"
    /\ link[n] = "subscriber"
    /\ shown' = [shown EXCEPT ![n] = "PreOperational"]
    /\ UNCHANGED <<link, fed>>

\* A publisher is operational at once, a subscriber once it has been fed.
Operate(n) ==
    /\ shown[n] \in {"Initial", "PreOperational"}
    /\ link[n] = "publisher" \/ n \in fed
    /\ shown' = [shown EXCEPT ![n] = "Operational"]
    /\ UNCHANGED <<link, fed>>

\* Closing: one connection at a time loses its link, then shows Initial.
Cut(n) ==
    /\ link[n] # "none"
    /\ shown[n] \in {"PreOperational", "Operational"}
    /\ link' = [link EXCEPT ![n] = "none"]
    /\ fed' = fed \ {n}
    /\ UNCHANGED shown

Reset(n) ==
    /\ link[n] = "none"
    /\ shown[n] \in {"PreOperational", "Operational"}
    /\ shown' = [shown EXCEPT ![n] = "Initial"]
    /\ UNCHANGED <<link, fed>>

\* The nodes could not be made: the link goes and the name is lost for good.
Break(n) ==
    /\ shown[n] = "absent"
    /\ link' = [link EXCEPT ![n] = "none"]
    /\ fed' = fed \ {n}
    /\ shown' = [shown EXCEPT ![n] = "broken"]

ConnectionsNext ==
    \E n \in Names :
        \/ \E role \in {"publisher", "subscriber"} : Open(n, role)
        \/ Feed(n) \/ Appear(n) \/ Await(n) \/ Operate(n)
        \/ Cut(n) \/ Reset(n) \/ Break(n)

ConnectionsSpec == ConnectionsInit /\ [][ConnectionsNext]_connectionVars
=============================================================================
