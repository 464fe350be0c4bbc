---------------------------- MODULE RecorderPool ----------------------------
(***************************************************************************)
(* What the management of trunked calls promises about the recorders: one   *)
(* is lent to one call at a time and comes back in the step that files what *)
(* it recorded for that call.  A call gets a recorder once.  When the       *)
(* program exits every call that had a recorder is filed with its own audio *)
(* before the end; one that was filed already may be filed again then, with *)
(* the audio of whichever call its former recorder was lent to last.        *)
(***************************************************************************)
CONSTANTS Recorders, Calls, None

VARIABLES
  phase,   \* running, exiting, exited
  lent,    \* per recorder, the call it is lent to, or None
  started, \* the calls that got a recorder
  filed    \* what was handed on: the call, and whose audio

vars == <<phase, lent, started, filed>>

\* Calls that had a recorder and are not filed yet.
Pending == {c \in started : \A f \in filed : f.call # c}

Init ==
  /\ phase = "running"
  /\ lent = [r \in Recorders |-> None]
  /\ started = {}
  /\ filed = {}

Lend(r, c) ==
  /\ phase = "running" /\ lent[r] = None
  /\ c \notin started /\ started' = started \cup {c}
  /\ lent' = [lent EXCEPT ![r] = c]
  /\ UNCHANGED <<phase, filed>>

Return(r) ==
  /\ phase = "running" /\ lent[r] # None
  /\ lent' = [lent EXCEPT ![r] = None]
  /\ lent[r] \in Pending
  /\ filed' = filed \cup {[call |-> lent[r], audio |-> lent[r]]}
  /\ UNCHANGED <<phase, started>>

\* A call takes over from another: its recorder is lent before that one comes back.
HandOver(r, c, old) ==
  /\ phase = "running" /\ lent[r] = None /\ lent[old] # None
  /\ c \notin started /\ started' = started \cup {c}
  /\ lent' = [lent EXCEPT ![r] = c, ![old] = None]
  /\ lent[old] \in Pending
  /\ filed' = filed \cup {[call |-> lent[old], audio |-> lent[old]]}
  /\ UNCHANGED phase

BeginExit ==
  /\ phase = "running"
  /\ phase' = "exiting"
  /\ UNCHANGED <<lent, started, filed>>

FileOnExit(r, c, a) ==
  /\ phase = "exiting"
  /\ c \in started /\ a \in started
  /\ lent' = [lent EXCEPT ![r] = None]
  /\ c \in Pending => a = c
  /\ filed' = filed \cup {[call |-> c, audio |-> a]}
  /\ UNCHANGED <<phase, started>>

Finish ==
  /\ phase = "exiting"
  /\ Pending = {}
  /\ phase' = "exited"
  /\ UNCHANGED <<lent, started, filed>>

Next ==
  \/ \E c \in Calls \ started, r \in Recorders :
       Lend(r, c) \/ \E old \in Recorders : HandOver(r, c, old)
  \/ \E r \in Recorders :
       \/ Return(r)
       \/ \E c \in started, a \in started : FileOnExit(r, c, a)
  \/ BeginExit \/ Finish

Spec == Init /\ [][Next]_vars
=============================================================================
