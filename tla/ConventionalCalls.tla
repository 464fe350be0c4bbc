------------------------- MODULE ConventionalCalls -------------------------
(***************************************************************************)
(* One channel of a conventional system: its call, which is closed and     *)
(* restarted for as long as the program runs, its recorder with one sink   *)
(* per slot, and the port of the selector that feeds the recorder.         *)
(*                                                                         *)
(* The main loop (manage_conventional_call and enable_detected_recorders)  *)
(* samples the length and the squelch, once a second, without a lock.  The *)
(* scheduler's threads fill and end transmissions meanwhile, also between  *)
(* the steps of conclude_call and restart_call.  A sink is reduced to what *)
(* matters here (see TransmissionSink), and so is the concluder.           *)
(***************************************************************************)
EXTENDS Naturals, FiniteSets, Sequences

CONSTANTS
  Configs,      \* the kinds of channel explored
  CallTimeout,  \* callTimeout, in seconds
  MaxVoice,     \* bound: buffers of voice heard, per type of channel
  MaxCalls,     \* bound: calls concluded
  MaxChain      \* bound: buffers between the selector and a sink

Types == {"conventional", "conventionalP25", "conventionalDMR"}
Slots == {0, 1}

\* limit is maxDuration; without a channel file detection is always on.
ConfigType == [type : Types, detection : BOOLEAN, limit : Nat]

ASSUME ConventionalAssumption ==
  /\ Configs \subseteq ConfigType
  /\ CallTimeout \in Nat /\ MaxVoice \in [Types -> Nat]
  /\ MaxCalls \in Nat \ {0} /\ MaxChain \in Nat

\* A buffer of voice, one second of it, or the tag of a terminator.
Voice == UNION {1..MaxVoice[t] : t \in Types}
TERM  == 0

VARIABLES
  config,    \* fixed while the program runs
  carrier,   \* environment: somebody transmits on the channel
  voice,     \* buffers of voice heard so far
  spoken,    \* the slots heard since the last second began
  detected,  \* the signal detector's last list has a signal near the channel
  enabled,   \* the selector's port
  squelched, \* the prefilter's squelch; it moves only while the port is open
  chain,     \* per slot, what is on its way from the selector to the sink
  sink,      \* per slot, the transmission_sink
  recorder,  \* the recorder's state
  call,      \* the Call_conventional
  main,      \* where the main thread is
  exiting,   \* exit_flag was seen
  done,      \* the calls handed to the concluder
  owner      \* history: the call and slot a buffer was written for

radio == <<carrier, voice, spoken, detected>>
vars  == <<config, radio, enabled, squelched, chain, sink, recorder, call, main,
           exiting, done, owner>>

NoOwner == [call |-> 0, slot |-> 0]
Unused  == [call |-> FALSE, state |-> "AVAILABLE", open |-> {}, list |-> {}]
Started == [call |-> TRUE, state |-> "IDLE", open |-> {}, list |-> {}]

Used == IF config.type = "conventionalDMR" THEN Slots ELSE {0}

\* total_length_in_seconds.
Held(s) == sink[s].open \cup sink[s].list
Length(s) == Cardinality(Held(s))

Concluded == UNION {r.audio : r \in done}

\* Analog recorders are started at setup, before the flowgraph runs.
Init ==
  /\ config \in Configs
  /\ carrier = FALSE /\ voice = 0 /\ spoken = {} /\ detected = FALSE
  /\ squelched = TRUE
  /\ chain = [s \in Slots |-> <<>>]
  /\ main = [at |-> "check", slot |-> 0]
  /\ exiting = FALSE /\ done = {}
  /\ owner = [v \in Voice |-> NoOwner]
  /\ \/ /\ config.type = "conventional"
        /\ recorder = "ACTIVE"
        /\ enabled = ~config.detection
        /\ sink = [s \in Slots |-> IF s = 0 THEN Started ELSE Unused]
        /\ call = [num |-> 1, state |-> "RECORDING", idle_count |-> 0]
     \/ /\ config.type # "conventional"
        /\ recorder = "INACTIVE"
        /\ enabled = FALSE
        /\ sink = [s \in Slots |-> Unused]
        /\ call = [num |-> 1, state |-> "MONITORING", idle_count |-> 0]

(***************************************************************************)
(* The channel, the signal detector and the recorder's chain               *)
(***************************************************************************)

ChainFrame == UNCHANGED <<config, sink, recorder, call, main, exiting, done, owner>>

\* Somebody keys up, or stops.
Key ==
  /\ carrier' = ~carrier
  /\ UNCHANGED <<voice, spoken, detected, enabled, squelched, chain>> /\ ChainFrame

\* The detector publishes its list every 100 ms.  A signal on a neighbouring
\* channel, less than 12.5 kHz away, counts as well.
Detect ==
  /\ config.detection
  /\ detected' \in {carrier, TRUE}
  /\ UNCHANGED <<carrier, voice, spoken, enabled, squelched, chain>> /\ ChainFrame

\* The prefilter's squelch follows the signal while samples reach it.
Squelch ==
  /\ enabled
  /\ squelched' = ~carrier
  /\ UNCHANGED <<radio, enabled, chain>> /\ ChainFrame

Push(s, item) ==
  /\ s \in Used
  /\ carrier /\ enabled /\ ~squelched
  /\ Len(chain[s]) < MaxChain
  /\ chain' = [chain EXCEPT ![s] = Append(@, item)]

\* A second has no more than a second of voice per slot.
Hear(s) ==
  /\ s \notin spoken
  /\ voice < MaxVoice[config.type]
  /\ voice' = voice + 1
  /\ spoken' = spoken \cup {s}
  /\ Push(s, voice + 1)
  /\ UNCHANGED <<carrier, detected, enabled, squelched>> /\ ChainFrame

\* A terminator; one that is not received makes no step.
EndVoice(s) ==
  /\ config.type # "conventional"
  /\ Push(s, TERM)
  /\ UNCHANGED <<radio, enabled, squelched>> /\ ChainFrame

(***************************************************************************)
(* The sink: work, start_recording and stop_recording, each under its lock *)
(***************************************************************************)

Ended(k) ==
  [call |-> k.call, state |-> "IDLE", open |-> {}, list |-> k.list \cup k.open]

Written(k, v) ==
  [call |-> k.call, state |-> "RECORDING", open |-> k.open \cup {v}, list |-> k.list]

\* Without a call the buffer is dropped.
Work(s) ==
  /\ chain[s] # <<>>
  /\ chain' = [chain EXCEPT ![s] = Tail(@)]
  /\ \/ /\ sink[s].call /\ Head(chain[s]) # TERM
        /\ sink' = [sink EXCEPT ![s] = Written(@, Head(chain[s]))]
        /\ owner' = [owner EXCEPT ![Head(chain[s])] = [call |-> call.num, slot |-> s]]
     \/ /\ sink[s].call /\ Head(chain[s]) = TERM /\ sink[s].open # {}
        /\ sink' = [sink EXCEPT ![s] = Ended(@)]
        /\ UNCHANGED owner
     \/ /\ ~sink[s].call \/ (Head(chain[s]) = TERM /\ sink[s].open = {})
        /\ UNCHANGED <<sink, owner>>
  /\ UNCHANGED <<config, radio, enabled, squelched, recorder, call, main, exiting, done>>

(***************************************************************************)
(* The main loop                                                           *)
(***************************************************************************)

Goto(at, s) == main' = [at |-> at, slot |-> s]
MainFrame == UNCHANGED <<config, carrier, voice, detected, squelched, chain, owner>>

\* Mutant: only a squelched channel is opened.
CheckDetection_Squelched ==
  /\ main.at = "check"
  /\ enabled' = (enabled \/ (detected /\ squelched))
  /\ Goto("manage", 0)
  /\ UNCHANGED <<spoken, sink, recorder, call, exiting, done>> /\ MainFrame

\* check_conventional_channel_detection: ten times a second, so between any two
\* seconds.  The port of a recorder that is not started is opened as well.
CheckDetection ==
  /\ main.at = "check"
  /\ enabled' = (enabled \/ detected)
  /\ Goto("manage", 0)
  /\ UNCHANGED <<spoken, sink, recorder, call, exiting, done>> /\ MainFrame

\* Mutant: every type goes by the sink's state.
IsIdle_BySink == sink[0].state = "IDLE"

\* The is_idle of the analog and of the DMR recorder.
SquelchIdle == recorder = "ACTIVE" => squelched

\* A P25 recorder goes by the state of its decoder's sink.
IsIdle ==
  IF config.type = "conventionalP25" THEN sink[0].state = "IDLE" ELSE SquelchIdle

\* manage_conventional_call, up to the decision.  The length is that of slot 0,
\* and 0 unless the call is RECORDING.
Manage ==
  /\ main.at = "manage"
  /\ spoken' = {}
  /\ \/ /\ call.state = "RECORDING" /\ Length(0) > 0
        /\ call' = [call EXCEPT !.idle_count = IF IsIdle THEN @ + 1 ELSE 0]
        /\ Goto("judge", 0)
     \/ /\ call.state # "RECORDING" \/ Length(0) = 0
        /\ recorder # "ACTIVE"
        /\ Goto("open", 0)
        /\ UNCHANGED call
     \/ /\ call.state # "RECORDING" \/ Length(0) = 0
        /\ recorder = "ACTIVE"
        /\ Goto("check", 0)
        /\ UNCHANGED call
  /\ UNCHANGED <<config, carrier, voice, detected, squelched, chain, owner, enabled,
                 sink, recorder, exiting, done>>

TimedOut == call.idle_count > CallTimeout

\* Mutant: the open transmission only.
TooLong_Open == config.limit > 0 /\ Cardinality(sink[0].open) > config.limit

TooLong == config.limit > 0 /\ Length(0) > config.limit

\* The length is read again.
Judge ==
  /\ main.at = "judge"
  /\ Goto(IF TimedOut \/ TooLong THEN "stop" ELSE "check", 0)
  /\ UNCHANGED <<spoken, enabled, sink, recorder, call, exiting, done>> /\ MainFrame

\* The loop on exit_flag concludes every call, one that is RECORDING.
Exit ==
  /\ main.at = "check"
  /\ exiting' = TRUE
  /\ Goto(IF call.state = "RECORDING" THEN "stop" ELSE "exited", 0)
  /\ UNCHANGED <<spoken, enabled, sink, recorder, call, done>> /\ MainFrame

(***************************************************************************)
(* conclude_call and the recorder's stop                                   *)
(***************************************************************************)

\* Slot by slot, then on to the next step with the first slot.
NextSlot(s, after) == IF s + 1 \in Used THEN Goto(main.at, s + 1) ELSE Goto(after, 0)

Stop ==
  /\ main.at = "stop"
  /\ recorder' = "INACTIVE"
  /\ enabled' = FALSE
  /\ Goto("close", 0)
  /\ UNCHANGED <<spoken, sink, call, exiting, done>> /\ MainFrame

\* stop_recording ends an open transmission.
Close(s) ==
  /\ main = [at |-> "close", slot |-> s]
  /\ sink' = [sink EXCEPT ![s] = [call |-> FALSE, state |-> "AVAILABLE",
                                 open |-> {}, list |-> Held(s)]]
  /\ NextSlot(s, "conclude")
  /\ UNCHANGED <<spoken, enabled, recorder, call, exiting, done>> /\ MainFrame

\* Mutant: both slots take the first one's transmissions.
Conclude_First(s) ==
  /\ main = [at |-> "conclude", slot |-> s]
  /\ done' = IF sink[0].list = {} THEN done
             ELSE done \cup {[call |-> call.num, slot |-> s, audio |-> sink[0].list]}
  /\ NextSlot(s, IF exiting THEN "exited" ELSE "restart")
  /\ UNCHANGED <<spoken, enabled, sink, recorder, call, exiting>> /\ MainFrame

\* One call_info per slot, with the slot's transmission_list.  The concluder
\* drops one without transmissions.
Conclude(s) ==
  /\ main = [at |-> "conclude", slot |-> s]
  /\ done' = IF sink[s].list = {} THEN done
             ELSE done \cup {[call |-> call.num, slot |-> s, audio |-> sink[s].list]}
  /\ NextSlot(s, IF exiting THEN "exited" ELSE "restart")
  /\ UNCHANGED <<spoken, enabled, sink, recorder, call, exiting>> /\ MainFrame

(***************************************************************************)
(* restart_call and the recorder's start                                   *)
(***************************************************************************)

\* Mutant: the restarted call keeps its number.
Restart_SameNumber ==
  /\ main.at = "restart"
  /\ call.num < MaxCalls
  /\ call' = [call EXCEPT !.state = "RECORDING", !.idle_count = 0]
  /\ Goto("open", 0)
  /\ UNCHANGED <<spoken, enabled, sink, recorder, exiting, done>> /\ MainFrame

Restart ==
  /\ main.at = "restart"
  /\ call.num < MaxCalls
  /\ call' = [num |-> call.num + 1, state |-> "RECORDING", idle_count |-> 0]
  /\ Goto("open", 0)
  /\ UNCHANGED <<spoken, enabled, sink, recorder, exiting, done>> /\ MainFrame

\* start_recording clears the transmission_list and the length.
Open(s) ==
  /\ main = [at |-> "open", slot |-> s]
  /\ sink' = [sink EXCEPT ![s] = Started]
  /\ NextSlot(s, "start")
  /\ UNCHANGED <<spoken, enabled, recorder, call, exiting, done>> /\ MainFrame

\* The rest of start, and set_state(RECORDING) for a first start.
Start ==
  /\ main.at = "start"
  /\ recorder' = "ACTIVE"
  /\ enabled' = ~config.detection
  /\ call' = [call EXCEPT !.state = "RECORDING"]
  /\ Goto("check", 0)
  /\ UNCHANGED <<spoken, sink, exiting, done>> /\ MainFrame

MainThread ==
  \/ CheckDetection \/ Manage \/ Judge \/ Stop \/ Restart \/ Start
  \/ \E s \in Slots : Close(s) \/ Conclude(s) \/ Open(s)

Next ==
  \/ Key \/ Detect \/ Squelch
  \/ \E s \in Slots : Hear(s) \/ EndVoice(s) \/ Work(s)
  \/ MainThread \/ Exit

Spec == Init /\ [][Next]_vars

\* The loop goes round, the scheduler runs every block that has input.
FairSpec ==
  /\ Spec
  /\ WF_vars(MainThread) /\ WF_vars(Squelch)
  /\ \A s \in Slots : WF_vars(Work(s))

(***************************************************************************)
(* Properties                                                              *)
(***************************************************************************)

At == {"check", "manage", "judge", "stop", "close", "conclude", "restart", "open",
       "start", "exited"}

\* Types of all variables.
TypeOK ==
  /\ config \in Configs
  /\ carrier \in BOOLEAN /\ detected \in BOOLEAN /\ enabled \in BOOLEAN
  /\ squelched \in BOOLEAN /\ exiting \in BOOLEAN
  /\ voice \in Nat /\ spoken \subseteq Slots
  /\ chain \in [Slots -> Seq(Voice \cup {TERM})]
  /\ sink \in [Slots -> [call : BOOLEAN, state : {"AVAILABLE", "IDLE", "RECORDING"},
                        open : SUBSET Voice, list : SUBSET Voice]]
  /\ recorder \in {"INACTIVE", "ACTIVE"}
  /\ call \in [num : 1..MaxCalls, state : {"MONITORING", "RECORDING"}, idle_count : Nat]
  /\ main \in [at : At, slot : Slots]
  /\ done \subseteq [call : 1..MaxCalls, slot : Slots, audio : SUBSET Voice]
  /\ owner \in [Voice -> [call : 0..MaxCalls, slot : Slots]]

\* Every buffer that was written to a file is still with its sink or in a
\* concluded call, and in one only: the call and slot it was written for.  The
\* scheduler writes between any two steps of conclude_call and restart_call.
KeptOnce ==
  /\ \A r \in done, v \in Voice :
       v \in r.audio => owner[v] = [call |-> r.call, slot |-> r.slot]
  /\ \A v \in Voice : owner[v] # NoOwner => v \in Held(owner[v].slot) \cup Concluded
  /\ main.at \in {"check", "manage", "judge", "stop", "close"} =>
       \A s \in Slots : Held(s) \cap Concluded = {}

\* What the channel promises about its calls, see CallFiling: a voice once written
\* stays with its call, a slot is filed once and whole, and no voice is written for
\* a new call before that of the last one is filed.
Filing == INSTANCE CallFiling WITH
  Voices <- Voice, Calls <- 1..MaxCalls, None <- NoOwner, writtenFor <- owner, filed <- done

FilingPromise == Filing!Spec

\* maxDuration is looked at once a second, so a call exceeds it by what the chain
\* holds, the second heard until then and the one under way.  This is slot 0.
LimitHolds == config.limit > 0 => Length(0) <= config.limit + MaxChain + 2

\* Once the channel is quiet for good, what slot 0 holds is concluded, by the
\* squelch, whatever was on its way when a call was closed.  Only without signal
\* detection, which may leave the port closed and the squelch as it was.
QuietIsConcluded ==
  <>[](~carrier /\ config.type # "conventionalP25" /\ ~config.detection) =>
    []<>(Held(0) \subseteq Concluded)

\* A signal that stays finds the port open again and again, also after a call
\* was closed by maxDuration in the middle of it.
SignalOpensPort ==
  <>[](carrier /\ detected) => []<>(enabled \/ main.at \in {"restart", "exited"})
=============================================================================
