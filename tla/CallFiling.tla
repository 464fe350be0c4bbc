----------------------------- MODULE CallFiling -----------------------------
(***************************************************************************)
(* What a channel whose call is closed and restarted without end promises   *)
(* about what was heard on it: the voice written is divided among calls     *)
(* that follow each other; a call is filed slot by slot, each slot once and *)
(* with everything that was written for it; and the next call writes its    *)
(* first voice only when all the voice of the calls before it is filed.     *)
(***************************************************************************)
EXTENDS Naturals

CONSTANTS Voices, Calls, Slots, None

VARIABLES
  writtenFor, \* per piece of voice, the call and slot, or None
  filed       \* what was handed on: call, slot and audio

vars == <<writtenFor, filed>>

Unfiled == {v \in Voices : \A r \in filed : v \notin r.audio}

Init ==
  /\ writtenFor = [v \in Voices |-> None]
  /\ filed = {}

\* Voice is written for the call of that time.  No earlier call has unfiled voice,
\* and a call of which a slot was filed is over.
Write(v, c, s) ==
  /\ writtenFor[v] = None
  /\ \A w \in Unfiled : writtenFor[w] # None => writtenFor[w].call = c
  /\ \A r \in filed : r.call < c
  /\ writtenFor' = [writtenFor EXCEPT ![v] = [call |-> c, slot |-> s]]
  /\ UNCHANGED filed

\* A slot is filed whole, and if it has voice.
File(c, s) ==
  LET audio == {v \in Voices : writtenFor[v] = [call |-> c, slot |-> s]} IN
  /\ audio # {}
  /\ \A r \in filed : <<r.call, r.slot>> # <<c, s>> /\ r.call <= c
  /\ filed' = filed \cup {[call |-> c, slot |-> s, audio |-> audio]}
  /\ UNCHANGED writtenFor

Next ==
  \E c \in Calls, s \in Slots :
    \/ File(c, s)
    \/ \E v \in Voices : Write(v, c, s)

Spec == Init /\ [][Next]_vars
=============================================================================
