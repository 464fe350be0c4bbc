--------------------------- MODULE ControlChannel ---------------------------
(***************************************************************************)
(* Keeping a trunked system on its control channel: the message queue and   *)
(* the message count of monitor_messages, check_message_count and           *)
(* retune_system of monitor_systems.cc, the list of control channels of     *)
(* system_impl.cc, and what tunes the demodulator: p25_trunking.cc,         *)
(* smartnet_impl.cc and autotune.cc.                                        *)
(*                                                                         *)
(* One trunked system.  The main thread goes round its loop; the            *)
(* demodulator's thread adds messages to the queue at any point of it, and  *)
(* the radio system moves its control channel when it likes.                *)
(***************************************************************************)
EXTENDS Naturals, SequencesExt, FiniteSetsExt

CONSTANTS
  Channels,     \* frequencies
  Sources,      \* 1..n, in the order of the configuration
  Announced,    \* pairs of secondary control channels the system may broadcast
  Threshold,    \* messages in a window that make 2 per second
  MaxQueue,     \* capacity of the message queue, 100 in the code
  MaxMessages,  \* bound: messages counted or queued in a window
  MaxStrays,    \* bound: time-outs and broken frames in a window
  Configs       \* the configurations explored

None == "none"

\* defined: control_channels of the configuration file (without repetition, see
\* add_control_channel); reach: the channels between a source's min_hz and
\* max_hz; autotune: the sources with autotune; limit: controlRetuneLimit.
ConfigType ==
  [type : {"p25", "smartnet"}, defined : {l \in Seq(Channels) : l # <<>> /\ IsInjective(l)},
   reach : [Sources -> SUBSET Channels], autotune : SUBSET Sources, limit : Nat]

ASSUME ChannelAssumption ==
  /\ None \notin Channels
  /\ Sources \subseteq Nat
  /\ Announced \subseteq Channels \X Channels
  /\ Threshold \in Nat /\ MaxQueue \in Nat /\ MaxMessages \in Nat /\ MaxStrays \in Nat
  /\ Configs \subseteq ConfigType

VARIABLES
  config,     \* options, fixed while the program runs
  step,       \* where the main loop is: head, drain, check, status, gone
  exit_flag,
  list,       \* control_channels
  at,         \* current_control_channel, counted from 1
  source,     \* System_impl::source
  connected,  \* sources whose block is connected to the demodulator
  tuned,      \* chan_freq of the demodulator
  queue,      \* msg_queue
  count,      \* message_count
  attempts,   \* retune_attempts
  carrier,    \* the frequency the radio system has its control channel on
  steady,     \* tuned to the carrier without a break since the last check
  talking,    \* voice was heard on this frequency, its terminator not yet
  strays,     \* time-outs and broken frames since the last check
  heard,      \* history: messages handled since the last check, but for INVALID
  tried       \* history: frequencies tuned to since there was a signal

loop     == <<config, step, exit_flag>>
channels == <<list, at>>
demod    == <<source, connected, tuned>>
window   == <<count, heard, steady, talking>>
air      == <<carrier, strays>>
vars == <<loop, channels, demod, queue, window, air, attempts, tried>>

P25 == config.type = "p25"
Covering(f) == {s \in Sources : f \in config.reach[s]}
Autotuned == P25 /\ source \in config.autotune

(***************************************************************************)
(* The list of control channels                                            *)
(***************************************************************************)

\* add_control_channel: at the end, unless it is there.
Added(l, f) == IF f \in Range(l) THEN l ELSE Append(l, f)

\* get_next_control_channel: the index it leaves.
NextAt == IF at < Len(list) THEN at + 1 ELSE 1

(***************************************************************************)
(* The demodulator                                                         *)
(***************************************************************************)

\* tune_freq and finetune_control_freq alike set chan_freq.
Tune(f) == tuned' = f /\ talking' = (talking /\ f = tuned)

\* Mutant: the system keeps its source.
SwitchTo_KeepsSource(s) ==
  /\ connected' = (connected \ {source}) \cup {s}
  /\ UNCHANGED source

\* set_source, disconnect from the current source, make, connect.
SwitchTo(s) ==
  /\ source' = s
  /\ connected' = (connected \ {source}) \cup {s}

\* The frequency found a source: the current one if it reaches, or the first.
Follow(f) ==
  /\ Covering(f) # {}
  /\ Tune(f)
  /\ tried' = tried \cup {f}
  /\ \/ source \in Covering(f) /\ UNCHANGED <<source, connected>>
     \/ source \notin Covering(f) /\ SwitchTo(Min(Covering(f)))

\* retune_system.  The index moves on whether or not a source can follow.  Of
\* autotune_control_channel(system, false), at its end, the correction by a few
\* hundred Hz is left out: the frequency is the one just tuned.
Retune ==
  /\ at' = NextAt
  /\ \/ Follow(list[NextAt])
     \/ Covering(list[NextAt]) = {} /\ UNCHANGED <<demod, talking, tried>>

Init ==
  /\ config \in Configs
  /\ step = "head" /\ exit_flag = FALSE
  /\ list = config.defined /\ at = 1
  /\ Covering(list[1]) # {}   \* setup_systems fails otherwise
  /\ source = Min(Covering(list[1])) /\ connected = {source}
  /\ tuned = list[1]
  /\ queue = <<>> /\ count = 0 /\ attempts = 0
  /\ carrier \in Channels \cup {None}
  /\ steady = (carrier = tuned) /\ talking = FALSE
  /\ strays = 0 /\ heard = 0 /\ tried = {tuned}

(***************************************************************************)
(* The main loop: messages                                                 *)
(***************************************************************************)

Goto(s) == step' = s /\ UNCHANGED <<config, exit_flag>>

LoopHead ==
  /\ step = "head"
  /\ Goto(IF exit_flag THEN "gone" ELSE "drain")
  /\ UNCHANGED <<channels, demod, queue, window, air, attempts, tried>>

\* The next message of the queue, if it is of this kind.
Take(kind) ==
  /\ step = "drain" /\ queue # <<>> /\ Head(queue).kind = kind
  /\ queue' = Tail(queue)
  /\ UNCHANGED <<loop, attempts, carrier, strays>>

Count == count' = count + 1 /\ heard' = heard + 1

\* Messages that change nothing here: grants, registrations, ...; a P25 voice
\* frame (UNKNOWN); a SmartNet time-out.
HandleOther ==
  /\ Take("other")
  /\ Count
  /\ UNCHANGED <<channels, demod, steady, talking, tried>>

\* Mutant: takes a count back that the message never got.
HandleInvalid_Uncounted ==
  /\ Take("invalid")
  /\ count' = IF count > 0 THEN count - 1 ELSE 0
  /\ UNCHANGED <<channels, demod, heard, steady, talking, tried>>

\* P25 parses a time-out, which is empty, and a JSON message as
\* INVALID_CC_MESSAGE: the count is taken back, but for the first.
HandleInvalid ==
  /\ Take("invalid")
  /\ count' = IF count + 1 > 1 THEN count ELSE 1
  /\ UNCHANGED <<channels, demod, heard, steady, talking, tried>>

\* Secondary Control Channel Broadcast: two CONTROL_CHANNEL messages.
HandleSecondary ==
  /\ Take("secondary")
  /\ Count
  /\ LET pair == Head(queue).pair IN list' = Added(Added(list, pair[1]), pair[2])
  /\ UNCHANGED <<at, demod, steady, talking, tried>>

\* Mutant: the terminator is counted and no more.
HandleTDULC_Stays ==
  /\ Take("tdulc")
  /\ Count
  /\ UNCHANGED <<channels, demod, steady, talking, tried>>

HandleTDULC ==
  /\ Take("tdulc")
  /\ Count
  /\ Retune
  /\ steady' = (steady /\ tuned' = tuned)
  /\ UNCHANGED list

DrainDone ==
  /\ step = "drain" /\ queue = <<>>
  /\ Goto("check")
  /\ UNCHANGED <<channels, demod, queue, window, air, attempts, tried>>

(***************************************************************************)
(* The main loop: check_message_count, every three seconds                 *)
(***************************************************************************)

\* msgs_decoded_per_second < 2
Low == count < Threshold

\* What the radio does: a channel that carried the control channel through the
\* whole window has brought enough messages.
Plausible == steady => heard >= Threshold

\* The check is over: a new window begins.
NewWindow ==
  /\ count' = 0 /\ heard' = 0 /\ strays' = 0
  /\ steady' = (tuned' = carrier)
  /\ Goto("status")

Due == step = "check" /\ Plausible /\ UNCHANGED <<queue, carrier>>

\* Mutant: the attempts are not reset when a signal is found.
CheckGood_KeepsAttempts ==
  /\ Due /\ ~Low
  /\ tried' = {tuned}
  /\ UNCHANGED <<channels, demod, talking, attempts>>
  /\ NewWindow

CheckGood ==
  /\ Due /\ ~Low
  /\ attempts' = 0
  /\ tried' = {tuned}
  /\ UNCHANGED <<channels, demod, talking>>
  /\ NewWindow

Tries == IF config.limit > 0 THEN attempts + 1 ELSE attempts
Exhausted == config.limit > 0 /\ attempts + 1 > config.limit

CheckLow ==
  /\ Due /\ Low /\ ~Exhausted
  /\ attempts' = Tries
  /\ \/ Len(list) > 1 /\ Retune
     \/ Len(list) <= 1 /\ UNCHANGED <<at, demod, talking, tried>>
  /\ UNCHANGED list
  /\ NewWindow

\* The function returns before it resets the count.
GiveUp ==
  /\ Due /\ Low /\ Exhausted
  /\ attempts' = Tries
  /\ exit_flag' = TRUE /\ step' = "status"
  /\ UNCHANGED <<config, channels, demod, window, strays, tried>>

Check == CheckGood \/ CheckLow \/ GiveUp

\* Three seconds are not over.
NotYet ==
  /\ step = "check"
  /\ Goto("status")
  /\ UNCHANGED <<channels, demod, queue, window, air, attempts, tried>>

(***************************************************************************)
(* The main loop: print_status, every 200 seconds                          *)
(***************************************************************************)

\* autotune_control_channel goes by the list's index, which may stand on a
\* channel that retune_system could not follow to.
PrintStatus ==
  /\ step = "status"
  /\ IF Autotuned THEN Tune(list[at]) ELSE UNCHANGED <<tuned, talking>>
  /\ steady' = (steady /\ tuned' = tuned)
  /\ Goto("head")
  /\ UNCHANGED <<channels, source, connected, queue, count, heard, air, attempts, tried>>

NoStatus ==
  /\ step = "status"
  /\ Goto("head")
  /\ UNCHANGED <<channels, demod, queue, window, air, attempts, tried>>

\* SIGINT, or a source that got no samples.
Interrupt ==
  /\ step # "gone" /\ ~exit_flag
  /\ exit_flag' = TRUE
  /\ UNCHANGED <<config, step, channels, demod, queue, window, air, attempts, tried>>

(***************************************************************************)
(* The demodulator's thread and the radio system                           *)
(***************************************************************************)

\* A message is dropped if the queue is full.
Insert(m) ==
  /\ step # "gone"
  /\ count + Len(queue) < MaxMessages
  /\ queue' = IF Len(queue) < MaxQueue THEN Append(queue, m) ELSE queue
  /\ UNCHANGED <<loop, channels, demod, count, heard, steady, carrier, attempts, tried>>

\* A TSBK, an MBT or an OSW.
ReceiveControl ==
  /\ tuned = carrier
  /\ \/ Insert([kind |-> "other"])
     \/ P25 /\ \E pair \in Announced : Insert([kind |-> "secondary", pair |-> pair])
  /\ UNCHANGED <<talking, strays>>

\* A second without a frame, or a message that is not one.
ReceiveStray ==
  /\ strays < MaxStrays
  /\ Insert([kind |-> IF P25 THEN "invalid" ELSE "other"])
  /\ strays' = strays + 1
  /\ UNCHANGED talking

\* A P25 voice frame: the frequency is a voice channel now.
ReceiveVoice ==
  /\ P25 /\ tuned # carrier
  /\ Insert([kind |-> "other"])
  /\ talking' = TRUE
  /\ UNCHANGED strays

\* TDU with Link Control: the end of the talking.  One that finds the queue
\* full is lost, and the next one counts.
ReceiveTDULC ==
  /\ talking /\ tuned # carrier
  /\ Len(queue) < MaxQueue
  /\ Insert([kind |-> "tdulc"])
  /\ talking' = FALSE
  /\ UNCHANGED strays

\* The radio system moves its control channel, or is off the air.
Move ==
  /\ step # "gone"
  /\ carrier' \in (Channels \cup {None}) \ {carrier}
  /\ steady' = FALSE
  /\ UNCHANGED <<loop, channels, demod, queue, count, heard, talking, strays, attempts, tried>>

Air == ReceiveControl \/ ReceiveStray \/ ReceiveVoice \/ ReceiveTDULC \/ Move

Handle == HandleOther \/ HandleInvalid \/ HandleSecondary \/ HandleTDULC
Status == PrintStatus \/ NoStatus

Next ==
  \/ LoopHead \/ Handle \/ DrainDone
  \/ CheckGood \/ CheckLow \/ GiveUp \/ NotYet
  \/ Status \/ Interrupt \/ Air

Spec == Init /\ [][Next]_vars

\* The loop goes round, three seconds pass again and again, and a transmission
\* on a voice channel ends.
Fairness ==
  /\ WF_vars(LoopHead) /\ WF_vars(Handle) /\ WF_vars(DrainDone)
  /\ WF_vars(Check \/ NotYet) /\ SF_vars(Check) /\ WF_vars(Status)
  /\ SF_vars(ReceiveTDULC)

FairSpec == Spec /\ Fairness

(***************************************************************************)
(* Properties                                                              *)
(***************************************************************************)

Message ==
  [kind : {"other", "invalid", "tdulc"}] \cup [kind : {"secondary"}, pair : Announced]

TypeOK ==
  /\ config \in Configs
  /\ step \in {"head", "drain", "check", "status", "gone"}
  /\ exit_flag \in BOOLEAN
  /\ list \in Seq(Channels) /\ at \in 1..Len(list)
  /\ source \in Sources /\ connected \in SUBSET Sources /\ tuned \in Channels
  /\ queue \in Seq(Message)
  /\ count \in Nat /\ heard \in Nat /\ strays \in Nat /\ attempts \in Nat
  /\ carrier \in Channels \cup {None}
  /\ steady \in BOOLEAN /\ talking \in BOOLEAN
  /\ tried \subseteq Channels

\* The demodulator is connected to the system's source and to no other (a
\* second connection, or a disconnect of what is not connected, ends the flow
\* graph), and is tuned inside its band unless autotune moved it out.
Attached ==
  /\ connected = {source}
  /\ source \in Covering(tuned) \/ Autotuned

\* "Should be at least equal to the number of channels defined in order for all
\* to be attempted" (controlRetuneLimit, CONFIGURE.md): with such a limit for
\* the channels of the list, the program gives up only when all of the
\* configuration that a source can reach were tuned to since the last signal.
AllAttempted ==
  attempts > config.limit /\ config.limit >= Len(list) =>
    \A f \in Range(config.defined) : Covering(f) # {} => f \in tried

\* A channel that carried the control channel since the last check is not left
\* by the check, however many broken messages came between the good ones.
KeepsLive == [][steady /\ Check => tuned' = tuned /\ attempts' = 0]_vars

\* A control channel that is in the list, in reach and stays where it is gets
\* tuned to, again and again, or the program ends: neither messages left in the
\* queue, voice on other channels, channels out of reach nor a wrong index keep
\* the system away from it for ever.
FoundAgain ==
  \A f \in Channels :
    <>[](carrier = f /\ f \in Range(list) /\ Covering(f) # {})
      => []<>(tuned = f \/ step = "gone")
=============================================================================
