----------------------------- MODULE MCServices -----------------------------
(***************************************************************************)
(* Three services of the fleet server beside deployments and builds: the   *)
(* saved BMC targets, the serving of ISOs, the netboot server.  They share *)
(* no state and each is explored on its own.                               *)
(***************************************************************************)
EXTENDS BMCTargets, ImageServe, NetbootManager

VARIABLE subject    \* the service that takes the steps of a behaviour

vars == <<subject, targetVars, serveVars, netbootVars>>

Init == /\ subject \in {"targets", "serve", "netboot"}
        /\ TargetInit /\ ServeInit /\ NetbootInit
        /\ subject # "serve" => listener = FALSE

Next ==
    /\ UNCHANGED subject
    /\ \/ subject = "targets" /\ TargetNext /\ UNCHANGED <<serveVars, netbootVars>>
       \/ subject = "serve" /\ ServeNext /\ UNCHANGED <<targetVars, netbootVars>>
       \/ subject = "netboot" /\ NetbootNext /\ UNCHANGED <<targetVars, serveVars>>

Spec == Init /\ [][Next]_vars
        /\ TargetFairness /\ NetbootFairness

\* The types of the services' variables.
TypeOK == TargetTypeOK /\ ServeTypeOK /\ NetbootTypeOK

\* What a service holds comes free again: the guard of a refresh, and the status of
\* a netboot server that has ended.
ServicesComeFree == RefreshIsReleased /\ ExitIsNoticed
=============================================================================
