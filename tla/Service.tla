------------------------------ MODULE Service -------------------------------
(***************************************************************************)
(* The service: instances of vnim that register and end (Registration),    *)
(* and the clients of one of them (Connections), which dial while the      *)
(* selection is its own, and whose deaths may end it.                      *)
(***************************************************************************)
EXTENDS Connections

CONSTANTS
  Instances, None,
  This          \* the instance whose clients are looked at

VARIABLES listed, owner, pc, found, raced

ASSUME ServiceAssumption == This \in Instances /\ None \notin Instances

Registering == INSTANCE Registration

registration == <<listed, owner, pc, found, raced>>
service == <<vars, registration>>

ServiceInit == Init /\ Registering!Init

\* The selection names the window of the server a client dials.
ClientOfThis(s) ==
  /\ ClientStep(s)
  /\ stage[s] = "away" => owner = This
  /\ UNCHANGED registration

Serve(s) == Handle(s) /\ UNCHANGED registration

Others ==
  /\ \E i \in Instances : \/ Registering!Start(i) \/ Registering!SetXi18nSelectionOwner(i)
                          \/ i # This /\ Registering!Stop(i)
  /\ UNCHANGED vars

ServiceNext ==
  \/ Others
  \/ pc[This] = "up" /\ \E s \in Apps : ClientOfThis(s) \/ Serve(s)
  \/ End /\ Registering!Stop(This)

ServiceSpec == ServiceInit /\ [][ServiceNext]_service

ServerIsFound == Registering!ServerIsFound
RefusedForALiveServer == Registering!RefusedForALiveServer
=============================================================================
