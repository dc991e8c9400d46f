---------------------------- MODULE Registration ----------------------------
(***************************************************************************)
(* How a server makes itself known (SetXi18nSelectionOwner): its atom in   *)
(* the property XIM_SERVERS of the root window, and the selection of that  *)
(* atom.  Instances of vnim may start, also at the same time, and end at   *)
(* any moment.  None takes its atom back: on DestroyNotify the window      *)
(* handler destroys the window a second time, and the error ends the       *)
(* process in the next round trip, before DeleteXi18nAtom has written.     *)
(* Each step is a request of an instance, as the X server executes it.     *)
(***************************************************************************)
EXTENDS Integers, FiniteSets

CONSTANTS
  Instances,    \* processes
  None          \* no owner

VARIABLES
  listed,       \* X: how often the atom stands in XIM_SERVERS
  owner,        \* X: the owner of the selection
  pc,           \* where each instance is
  found,        \* the instances that have seen the atom in the property
  raced         \* whether two instances were starting at the same time

vars == <<listed, owner, pc, found, raced>>

Starting == {"reading", "checking", "taking", "publishing", "confirming"}
InStart == {i \in Instances : pc[i] \in Starting}
Up == {i \in Instances : pc[i] = "up"}

Init ==
  /\ listed = 0 /\ owner = None
  /\ pc = [i \in Instances |-> "off"]
  /\ found = {}
  /\ raced = FALSE

Go(i, from, to) == pc[i] = from /\ pc' = [pc EXCEPT ![i] = to]

Start(i) ==
  /\ Go(i, "off", "reading")
  /\ raced' = (raced \/ InStart # {})
  /\ UNCHANGED <<listed, owner, found>>

ReadServers(i) ==
  /\ Go(i, "reading", IF listed > 0 THEN "checking" ELSE "taking")
  /\ found' = IF listed > 0 THEN found \cup {i} ELSE found
  /\ UNCHANGED <<listed, owner, raced>>

\* Fault: the owner is replaced, whoever it is.
CheckOwnerForced(i) ==
  /\ Go(i, "checking", "taking")
  /\ UNCHANGED <<listed, owner, found, raced>>

\* Fault: an atom that is listed is taken for a server that is there.
CheckOwnerListed(i) ==
  /\ Go(i, "checking", "refused")
  /\ UNCHANGED <<listed, owner, found, raced>>

\* found is a local variable.
Leave(i) == found' = found \ {i}

\* The atom of a server that has ended is listed still, without an owner.
CheckOwner(i) ==
  /\ \/ owner = None /\ Go(i, "checking", "taking") /\ UNCHANGED found
     \/ owner # None /\ Go(i, "checking", "refused") /\ Leave(i)
  /\ UNCHANGED <<listed, owner, raced>>

TakeSelection(i) ==
  /\ Go(i, "taking", "publishing")
  /\ owner' = i
  /\ UNCHANGED <<listed, found, raced>>

\* Nothing is added where the atom was found.
Publish(i) ==
  /\ Go(i, "publishing", "confirming")
  /\ listed' = IF i \in found THEN listed ELSE listed + 1
  /\ UNCHANGED <<owner, found, raced>>

Confirm(i) ==
  /\ Go(i, "confirming", IF owner = i THEN "up" ELSE "refused")
  /\ Leave(i)
  /\ UNCHANGED <<listed, owner, raced>>

\* The X server takes the selection from a process that ends.
Stop(i) ==
  /\ pc[i] \in Starting \cup {"up"}
  /\ pc' = [pc EXCEPT ![i] = "ended"]
  /\ owner' = IF owner = i THEN None ELSE owner
  /\ Leave(i)
  /\ UNCHANGED <<listed, raced>>

SetXi18nSelectionOwner(i) ==
  ReadServers(i) \/ CheckOwner(i) \/ TakeSelection(i) \/ Publish(i) \/ Confirm(i)

Next == \E i \in Instances : Start(i) \/ SetXi18nSelectionOwner(i) \/ Stop(i)

Spec == Init /\ [][Next]_vars

-----------------------------------------------------------------------------
(* Properties.                                                             *)

\* Type invariant.
TypeOK ==
  /\ listed \in Nat /\ owner \in Instances \cup {None}
  /\ pc \in [Instances -> Starting \cup {"off", "up", "refused", "ended"}]
  /\ found \subseteq Instances /\ raced \in BOOLEAN

(***************************************************************************)
(* Unless two instances were starting at the same time, one server at most *)
(* is up, clients find it by the selection, and its atom is listed once,   *)
(* also after servers before it ended without taking theirs back.          *)
(***************************************************************************)
ServerIsFound ==
  ~raced => \A i \in Up : owner = i /\ Up = {i} /\ listed = 1

(***************************************************************************)
(* An instance is refused only where another one has the selection and is  *)
(* there: what a server that ended left behind keeps nobody from starting. *)
(* Not so where two were starting: one can take the selection and end.     *)
(***************************************************************************)
RefusedForALiveServer ==
  [][\A i \in Instances : ~raced /\ pc[i] # "refused" /\ pc'[i] = "refused" =>
       \E j \in InStart \cup Up : j # i /\ owner = j]_vars
=============================================================================
