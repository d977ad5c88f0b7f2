----------------------------- MODULE SerialJobs ------------------------------
(***************************************************************************)
(* What the executors promise about one another: the jobs of a cluster run *)
(* one at a time, the VMs of a cluster change only while a job owns it,    *)
(* and a restart takes every job away at once.  No rows, no requests, no   *)
(* mutex: ClusterLifecycle is shown to implement this.                     *)
(***************************************************************************)
CONSTANTS Clusters, Ops, NoOp, VMStates

VARIABLES owner, vms

vars == <<owner, vms>>

Init ==
    /\ owner = [c \in Clusters |-> NoOp]
    /\ vms \in [Clusters -> VMStates]

Begin(c, o) ==
    /\ owner[c] = NoOp
    /\ owner' = [owner EXCEPT ![c] = o]
    /\ UNCHANGED vms

Touch(c) ==
    /\ owner[c] # NoOp
    /\ \E v \in VMStates : vms' = [vms EXCEPT ![c] = v]
    /\ UNCHANGED owner

End(c) ==
    /\ owner[c] # NoOp
    /\ owner' = [owner EXCEPT ![c] = NoOp]
    /\ UNCHANGED vms

Restart ==
    /\ owner' = [c \in Clusters |-> NoOp]
    /\ vms' \in [Clusters -> VMStates]
    /\ \A c \in Clusters : owner[c] = NoOp => vms'[c] = vms[c]

Next ==
    \/ \E c \in Clusters, o \in Ops : Begin(c, o)
    \/ \E c \in Clusters : Touch(c) \/ End(c)
    \/ Restart

Spec == Init /\ [][Next]_vars
==============================================================================
