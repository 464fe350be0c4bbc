----------------------------- MODULE CallUpload -----------------------------
(***************************************************************************)
(* What the upload pipeline promises about one concluded call, whatever    *)
(* threads, lists and files it uses to keep the promise: each plugin is    *)
(* offered the call in at most Rounds attempts and never again once it has *)
(* taken it; a call is given up only when every plugin that still owes an  *)
(* answer has had all its attempts, or before any plugin saw it; and it is *)
(* reported delivered only when every live plugin has taken it.            *)
(***************************************************************************)
EXTENDS Naturals

CONSTANTS Calls, Plugins, Rounds

VARIABLES
  outcome,   \* none, pending, delivered or dropped, per call
  live,      \* plugins that are up
  served,    \* plugins that have taken the call, per call
  tries      \* attempts made, per call and plugin

vars == <<outcome, live, served, tries>>

Init ==
  /\ outcome = [c \in Calls |-> "none"]
  /\ live \in SUBSET Plugins
  /\ served = [c \in Calls |-> {}]
  /\ tries = [c \in Calls |-> [p \in Plugins |-> 0]]

Conclude(c) ==
  /\ outcome[c] = "none"
  /\ \E o \in {"pending", "dropped"} : outcome' = [outcome EXCEPT ![c] = o]
  /\ UNCHANGED <<live, served, tries>>

Offer(c, p) ==
  /\ outcome[c] = "pending"
  /\ p \in live \ served[c]
  /\ tries[c][p] < Rounds
  /\ tries' = [tries EXCEPT ![c][p] = @ + 1]
  /\ \/ served' = [served EXCEPT ![c] = @ \cup {p}]
     \/ UNCHANGED served
  /\ UNCHANGED <<outcome, live>>

Deliver(c) ==
  /\ outcome[c] = "pending"
  /\ live \subseteq served[c]
  /\ outcome' = [outcome EXCEPT ![c] = "delivered"]
  /\ UNCHANGED <<live, served, tries>>

Drop(c) ==
  /\ outcome[c] = "pending"
  /\ \/ \A p \in Plugins : tries[c][p] = 0
     \/ \A p \in live \ served[c] : tries[c][p] = Rounds
  /\ outcome' = [outcome EXCEPT ![c] = "dropped"]
  /\ UNCHANGED <<live, served, tries>>

GoDown(p) ==
  /\ live' = live \ {p}
  /\ UNCHANGED <<outcome, served, tries>>

Next ==
  \/ \E c \in Calls :
       \/ Conclude(c) \/ Deliver(c) \/ Drop(c)
       \/ \E p \in Plugins : Offer(c, p)
  \/ \E p \in live : GoDown(p)

Spec == Init /\ [][Next]_vars
=============================================================================
