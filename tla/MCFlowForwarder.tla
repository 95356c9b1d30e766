--------------------------- MODULE MCFlowForwarder ---------------------------
(***************************************************************************)
(* The forwarders and the setup of the five stacks, for TLC.  They share   *)
(* nothing, so a behaviour has one of them and their states add up.  The   *)
(* flows of one forwarder are alike.                                       *)
(***************************************************************************)
EXTENDS FlowForwarder, StackSetup

VARIABLE part   \* the part that moves

Symmetry == Permutations(Flows)

MCInit ==
  /\ part \in {"forwarder", "setup"}
  /\ Init /\ SetupInit
  /\ IF part = "forwarder" THEN stack = "lan" ELSE wiring = Forwarders.lan.tcp

MCNext ==
  \/ part = "forwarder" /\ Next /\ UNCHANGED <<part, setupVars>>
  \/ part = "setup" /\ SetupNext /\ UNCHANGED <<part, vars>>

MCSpec == MCInit /\ [][MCNext]_<<part, vars, setupVars>>

=============================================================================
