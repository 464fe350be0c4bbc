---------------------------- MODULE CallManager ----------------------------
(***************************************************************************)
(* Trunked calls and the recorders they hold: handle_call_grant,           *)
(* handle_call_update, start_recorder and manage_calls of                  *)
(* monitor_systems.cc, conclude_call of call_impl.cc, the recorder pools   *)
(* of source.cc and start/stop of the recorders.                           *)
(*                                                                         *)
(* All of it runs on the main thread, one handler at a time; the recorders *)
(* write and fall silent on their own.  Time is abstracted to the two      *)
(* comparisons with callTimeout that manage_calls makes.  A recorder's     *)
(* sink is reduced to what is decided here (see TransmissionSink), and so  *)
(* is Call_Concluder::conclude_call (see CallConcluder).                   *)
(***************************************************************************)
EXTENDS Integers, FiniteSets

CONSTANTS
  Systems,       \* trunked systems (sites)
  Site,          \* their multi-site options and ids, see SiteConfig
  Talkgroups,
  File,          \* per system: its talkgroup file, from a talkgroup to its entry
  Channels,      \* per system: its channels, a frequency and a TDMA slot each
  Phase2,        \* channels that are TDMA
  Sources,       \* 1..n, in the order of the configuration
  Covered,       \* per source: the channels between its min_hz and max_hz
  Pool,          \* per source: its digital and its analog recorders
  Recorders,     \* all of them, numbered
  MaxCalls,      \* bound: calls that are created
  Configs        \* the combinations of global and system options explored

NoRecorder == 0
NoName == ""

SiteConfig == [multi_site : BOOLEAN, wacn : Nat, name : STRING, number : Nat,
               nac : Nat, site : Nat]

\* A line of the file: priority -1 is "never record"; preferredNAC names an
\* NAC, a site or a multiSiteSystemNumber, or is 0.
Entry == [priority : Int, mode : {"A", "D", "E", "DE", "TE"}, preferredNAC : Nat]

\* The systems that have each option.
ConfigType == [record_unknown : SUBSET Systems, monitor_encrypted : SUBSET Systems,
               default_analog : SUBSET Systems]

ASSUME ManagerAssumption ==
  /\ Site \in [Systems -> SiteConfig]
  /\ \A s \in Systems :
       /\ DOMAIN File[s] \subseteq Talkgroups
       /\ \A t \in DOMAIN File[s] : File[s][t] \in Entry
  /\ Sources \subseteq Nat
  /\ DOMAIN Covered = Sources
  /\ Recorders \subseteq Nat \ {NoRecorder}
  /\ Pool \in [Sources -> [digital : SUBSET Recorders, analog : SUBSET Recorders]]
  /\ MaxCalls \in Nat
  /\ Configs \subseteq ConfigType

Ids == 1..MaxCalls

VARIABLES
  config,    \* options, fixed while the program runs
  phase,     \* running, exiting (the loop on exit_flag), exited
  made,      \* call_counter
  call,      \* the vector of calls: the fields of each, by call number
  serving,   \* per recorder: the call it is ACTIVE for, or 0
  tape,      \* per recorder: the call whose transmissions its sink lists
  quiet,     \* per recorder: since_last_write() > callTimeout
  recorded,  \* history: the calls that got a recorder
  ends       \* history: what conclude_call did, see Ending

recorder == <<serving, tape, quiet>>
history == <<recorded, ends>>
vars == <<config, phase, made, call, recorder, history>>

calls == DOMAIN call

\* A grant or update, and what get_talkgroup_patch(tg) returns when it is
\* handled: the talkgroups of the active supergroup patch that tg is in (a
\* patch of one makes no difference to start_recorder and is left out).
Message == {m \in [sys : Systems, tg : Talkgroups, ch : UNION {Channels[s] : s \in Systems},
                   enc : BOOLEAN, patch : SUBSET Talkgroups] :
              /\ m.ch \in Channels[m.sys]
              /\ m.patch # {} => m.tg \in m.patch /\ Cardinality(m.patch) > 1}

MonitoringState ==
  {"UNSPECIFIED", "UNKNOWN_TG", "IGNORED_TG", "NO_SOURCE", "NO_RECORDER", "ENCRYPTED",
   "DUPLICATE", "SUPERSEDED"}

\* stale: since_last_update() > callTimeout
Call == [sys : Systems, tg : Talkgroups, ch : UNION {Channels[s] : s \in Systems}, enc : BOOLEAN,
         state : {"MONITORING", "RECORDING"}, mon : MonitoringState,
         rec : Recorders \cup {NoRecorder}, stale : BOOLEAN]

\* conclude_call of call by took the transmissions of call of, and had them
\* removed because by is superseded or encrypted.
Ending == [by : Ids, of : Ids, removed : BOOLEAN]

Init ==
  /\ config \in Configs
  /\ phase = "running"
  /\ made = 0
  /\ call = << >>
  /\ serving = [r \in Recorders |-> 0]
  /\ tape = [r \in Recorders |-> 0]
  /\ quiet = [r \in Recorders |-> TRUE]
  /\ recorded = {}
  /\ ends = {}

First(S) == CHOOSE n \in S : \A m \in S : n <= m
Last(S)  == CHOOSE n \in S : \A m \in S : n >= m

(***************************************************************************)
(* Multi-site: which call a grant duplicates or supersedes                 *)
(***************************************************************************)

ByWacn(o, s) == Site[o].site # Site[s].site /\ Site[o].name = NoName
ByName(o, s) == ~ByWacn(o, s) /\ Site[o].name # NoName /\ Site[o].name = Site[s].name

Listed(s, t) == t \in DOMAIN File[s]

\* System s repeats what system o carries.
SameNetwork(o, s) ==
  /\ o # s
  /\ Site[o].multi_site /\ Site[s].multi_site
  /\ Site[o].wacn = Site[s].wacn
  /\ ByWacn(o, s) \/ ByName(o, s)

\* preferredNAC of a talkgroup that is not in the file is 0.
Preferred(s, t) == IF Listed(s, t) THEN File[s][t].preferredNAC ELSE 0

\* The talkgroup prefers s, and not o.
Prefers(o, s, t) ==
  \/ /\ ByWacn(o, s)
     /\ \/ Preferred(o, t) # Site[o].nac /\ Preferred(s, t) = Site[s].nac
        \/ Preferred(o, t) # Site[o].site /\ Preferred(s, t) = Site[s].site
  \/ /\ ByName(o, s)
     /\ Site[o].number # 0 /\ Site[s].number # 0
     /\ Preferred(o, t) # Site[o].number /\ Preferred(s, t) = Site[s].number

Recording(c) == call[c].state = "RECORDING"

Originals(m) ==
  {c \in calls : call[c].tg = m.tg /\ Recording(c) /\ SameNetwork(call[c].sys, m.sys)}

Superseding(m) == \E c \in Originals(m) : Prefers(call[c].sys, m.sys, m.tg)

Matches(c, m) == call[c].tg = m.tg /\ call[c].sys = m.sys /\ call[c].ch = m.ch

(***************************************************************************)
(* start_recorder                                                          *)
(***************************************************************************)

EncryptedMode(m) == Listed(m.sys, m.tg) /\ File[m.sys][m.tg].mode \in {"E", "DE", "TE"}
Encrypted(m) == m.enc \/ EncryptedMode(m)

Patched(m) == {t \in m.patch : Listed(m.sys, t)}

\* An active patch lends a talkgroup the lowest priority number in it.
CallPriority(m) == First({File[m.sys][t].priority : t \in Patched(m) \cup {m.tg}})

\* Known, or everything is recorded, or patched with a known one.
Recordable(m) ==
  Listed(m.sys, m.tg) \/ m.sys \in config.record_unknown \/ Patched(m) # {}
Admitted(m) == Recordable(m) /\ (Encrypted(m) => m.sys \in config.monitor_encrypted)

Analog(m) == IF Listed(m.sys, m.tg) THEN File[m.sys][m.tg].mode = "A"
             ELSE m.sys \in config.default_analog

Covering(ch) == {s \in Sources : ch \in Covered[s]}

\* The recorders of the first source that covers the channel.
FirstPool(m) ==
  LET pool == Pool[First(Covering(m.ch))] IN IF Analog(m) THEN pool.analog ELSE pool.digital

\* Mutant: recorders are handed out whatever their state.
Available_Any(m) == FirstPool(m)

\* get_analog_recorder and get_digital_recorder: those whose sink is AVAILABLE.
Available(m) == {r \in FirstPool(m) : serving[r] = 0}

Reached(m) == Admitted(m) /\ Covering(m.ch) # {}
Ignored(m) == Listed(m.sys, m.tg) /\ CallPriority(m) = -1
Outranked(m) == Listed(m.sys, m.tg) /\ CallPriority(m) > Cardinality(Available(m))

Served(m) == Reached(m) /\ ~Ignored(m) /\ ~Outranked(m) /\ Available(m) # {}

\* Why no recorder is started.  The last case leaves the state as made: all
\* recorders of the source are busy, or start() of a TDMA recorder returns
\* false (FSK4 modulation, or no XOR mask yet).
Refused(m, why) ==
  \/ why = "UNKNOWN_TG" /\ ~Recordable(m)
  \/ why = "ENCRYPTED" /\ Recordable(m) /\ ~Admitted(m)
  \/ why = "NO_SOURCE" /\ Admitted(m) /\ Covering(m.ch) = {}
  \/ why = "IGNORED_TG" /\ Reached(m) /\ Ignored(m)
  \/ why = "NO_RECORDER" /\ Reached(m) /\ ~Ignored(m) /\ Outranked(m)
  \/ /\ why = "UNSPECIFIED"
     /\ Reached(m) /\ ~Ignored(m) /\ ~Outranked(m)
     /\ Available(m) = {} \/ (m.ch \in Phase2 /\ ~Analog(m))

\* Call_impl's constructor; start_recorder marks an encrypted mode.
Made(m, state, mon, r) ==
  [sys |-> m.sys, tg |-> m.tg, ch |-> m.ch,
   enc |-> m.enc \/ (mon # "DUPLICATE" /\ EncryptedMode(m)),
   state |-> state, mon |-> mon, rec |-> r, stale |-> FALSE]

Add(record) ==
  call' = [c \in calls \cup {made + 1} |-> IF c = made + 1 THEN record ELSE call[c]]

Erase(c) == call' = [d \in calls \ {c} |-> call[d]]

IsAnalog(r) == \E s \in Sources : r \in Pool[s].analog

\* A digital sink counts the start as a write.  An analog recorder measures
\* from the end of its last transmission, however long ago.
Start(r, c) ==
  /\ recorded' = recorded \cup {c}
  /\ tape' = [tape EXCEPT ![r] = c]
  /\ \E q \in BOOLEAN :
       /\ q => IsAnalog(r)
       /\ quiet' = [quiet EXCEPT ![r] = q]

(***************************************************************************)
(* conclude_call                                                           *)
(***************************************************************************)

\* Mutant: the recorder's list is not handed over on a timeout.
Conclude_Forgets(c, superseded) == UNCHANGED ends

\* recorder->stop() and get_transmission_list(): whatever the recorder holds.
Conclude(c, superseded) ==
  ends' = ends \cup {[by |-> c, of |-> tape[call[c].rec], removed |-> superseded \/ call[c].enc]}

(***************************************************************************)
(* Control channel messages                                                *)
(***************************************************************************)

Frame == UNCHANGED <<config, phase>>

Known(m) == \E c \in calls : Matches(c, m)

\* handle_call_grant on a call that exists.  The message's encryption is not
\* looked at here.
Regrant(m) ==
  /\ phase = "running"
  /\ Known(m)
  /\ call' = [c \in calls |-> IF Matches(c, m) THEN [call[c] EXCEPT !.stale = FALSE] ELSE call[c]]
  /\ UNCHANGED <<made, recorder, history>> /\ Frame

\* handle_call_update: an UPDATE when newCallFromUpdate is off (otherwise it is
\* taken for a grant), and a UU_V_UPDATE.
Update(m) ==
  /\ phase = "running"
  /\ Known(m)
  /\ call' = [c \in calls |->
                IF Matches(c, m)
                THEN [call[c] EXCEPT !.stale = FALSE, !.enc = @ \/ Encrypted(m)]
                ELSE call[c]]
  /\ UNCHANGED <<made, recorder, history>> /\ Frame

\* handle_call_grant makes a call, pushed back once it is placed.
NewCall(m) ==
  /\ phase = "running"
  /\ made < MaxCalls
  /\ ~Known(m)
  /\ made' = made + 1
  /\ Frame

Duplicate(m) ==
  /\ NewCall(m)
  /\ Originals(m) # {} /\ ~Superseding(m)
  /\ Add(Made(m, "MONITORING", "DUPLICATE", NoRecorder))
  /\ UNCHANGED <<recorder, history>>

\* Mutant: the original call is given up before a recorder is found.
Refuse_GivesUp(m) ==
  /\ NewCall(m)
  /\ Originals(m) = {} \/ Superseding(m)
  /\ \E why \in MonitoringState :
       /\ Refused(m, why)
       /\ call' = [c \in calls \cup {made + 1} |->
                     IF c = made + 1 THEN Made(m, "MONITORING", why, NoRecorder)
                     ELSE IF Superseding(m) /\ c = Last(Originals(m))
                     THEN [call[c] EXCEPT !.state = "MONITORING", !.mon = "SUPERSEDED"]
                     ELSE call[c]]
  /\ UNCHANGED <<recorder, history>>

\* No recorder; a superseded call, if there is one, goes on.
Refuse(m) ==
  /\ NewCall(m)
  /\ Originals(m) = {} \/ Superseding(m)
  /\ \E why \in MonitoringState :
       /\ Refused(m, why)
       /\ Add(Made(m, "MONITORING", why, NoRecorder))
  /\ UNCHANGED <<recorder, history>>

Record(m) ==
  /\ NewCall(m)
  /\ Originals(m) = {}
  /\ Served(m)
  /\ LET r == First(Available(m))
     IN  /\ Add(Made(m, "RECORDING", "UNSPECIFIED", r))
         /\ serving' = [serving EXCEPT ![r] = made + 1]
         /\ Start(r, made + 1)
  /\ UNCHANGED ends

\* The new call gets a recorder first; then the last of the calls it
\* duplicates, but no other, is stopped and concluded.
Supersede(m) ==
  /\ NewCall(m)
  /\ Originals(m) # {} /\ Superseding(m)
  /\ Served(m)
  /\ LET r == First(Available(m))
         o == Last(Originals(m))
     IN  /\ call' = [c \in calls \cup {made + 1} |->
                       IF c = made + 1 THEN Made(m, "RECORDING", "UNSPECIFIED", r)
                       ELSE IF c = o THEN [call[c] EXCEPT !.state = "MONITORING",
                                                          !.mon = "SUPERSEDED"]
                       ELSE call[c]]
         /\ serving' = [serving EXCEPT ![r] = made + 1, ![call[o].rec] = 0]
         /\ Start(r, made + 1)
         /\ Conclude(o, TRUE)

(***************************************************************************)
(* The recorders, and time                                                 *)
(***************************************************************************)

\* A recorder that is ACTIVE writes.  An analog sink's stop time moves only
\* when a transmission ends, so it may seem silent while it writes.
Voice(r) ==
  /\ phase = "running"
  /\ serving[r] # 0
  /\ \/ quiet' = [quiet EXCEPT ![r] = FALSE]
     \/ IsAnalog(r) /\ UNCHANGED quiet
  /\ UNCHANGED <<made, call, serving, tape, history>> /\ Frame

\* callTimeout passes without a write.
FallsQuiet(r) ==
  /\ phase = "running"
  /\ ~quiet[r]
  /\ quiet' = [quiet EXCEPT ![r] = TRUE]
  /\ UNCHANGED <<made, call, serving, tape, history>> /\ Frame

\* callTimeout passes without a grant or an update.
UpdatesLapse(c) ==
  /\ phase = "running"
  /\ c \in calls
  /\ ~call[c].stale
  /\ call' = [call EXCEPT ![c].stale = TRUE]
  /\ UNCHANGED <<made, recorder, history>> /\ Frame

(***************************************************************************)
(* manage_calls                                                            *)
(***************************************************************************)

\* Mutant: every expired call that ever had a recorder is concluded.
ExpireMonitoring_Concludes(c) ==
  /\ phase = "running"
  /\ c \in calls
  /\ ~Recording(c) /\ call[c].stale
  /\ IF call[c].rec = NoRecorder THEN UNCHANGED ends ELSE Conclude(c, TRUE)
  /\ Erase(c)
  /\ UNCHANGED <<made, recorder, recorded>> /\ Frame

ExpireMonitoring(c) ==
  /\ phase = "running"
  /\ c \in calls
  /\ ~Recording(c) /\ call[c].stale
  /\ Erase(c)
  /\ UNCHANGED <<made, recorder, history>> /\ Frame

ExpireRecording(c) ==
  /\ phase = "running"
  /\ c \in calls
  /\ Recording(c) /\ call[c].stale /\ quiet[call[c].rec]
  /\ Conclude(c, FALSE)
  /\ serving' = [serving EXCEPT ![call[c].rec] = 0]
  /\ Erase(c)
  /\ UNCHANGED <<made, tape, quiet, recorded>> /\ Frame

(***************************************************************************)
(* The loop on exit_flag                                                   *)
(***************************************************************************)

BeginExit ==
  /\ phase = "running"
  /\ phase' = "exiting"
  /\ UNCHANGED <<config, made, call, recorder, history>>

\* conclude_call of the next call in the vector: nothing for a call that only
\* monitors, but a SUPERSEDED one is concluded a second time, and stop()
\* reaches its recorder whichever call that one serves by now.
ExitConclude ==
  /\ phase = "exiting"
  /\ calls # {}
  /\ LET c == First(calls)
         superseded == call[c].mon = "SUPERSEDED"
     IN  /\ Erase(c)
         /\ \/ /\ Recording(c) \/ superseded
               /\ Conclude(c, superseded)
               /\ serving' = [serving EXCEPT ![call[c].rec] = 0]
            \/ ~Recording(c) /\ ~superseded /\ UNCHANGED <<serving, ends>>
  /\ UNCHANGED <<config, phase, made, tape, quiet, recorded>>

\* Mutant: the loop ends at the first call that never had a recorder.
ExitDone_Early ==
  /\ phase = "exiting"
  /\ \A c \in calls : c = First(calls) => call[c].rec = NoRecorder
  /\ phase' = "exited"
  /\ UNCHANGED <<config, made, call, recorder, history>>

ExitDone ==
  /\ phase = "exiting"
  /\ calls = {}
  /\ phase' = "exited"
  /\ UNCHANGED <<config, made, call, recorder, history>>

Handle(m) == Regrant(m) \/ Update(m) \/ Duplicate(m) \/ Refuse(m) \/ Record(m) \/ Supersede(m)

Manage == \E c \in calls : UpdatesLapse(c) \/ ExpireMonitoring(c) \/ ExpireRecording(c)

Next ==
  \/ \E m \in Message : Handle(m)
  \/ \E r \in Recorders : Voice(r) \/ FallsQuiet(r)
  \/ Manage
  \/ BeginExit \/ ExitConclude \/ ExitDone

Spec == Init /\ [][Next]_vars

(***************************************************************************)
(* Properties                                                              *)
(***************************************************************************)

TypeOK ==
  /\ config \in Configs
  /\ phase \in {"running", "exiting", "exited"}
  /\ made \in 0..MaxCalls
  /\ calls \subseteq 1..made
  /\ call \in [calls -> Call]
  /\ serving \in [Recorders -> 0..MaxCalls]
  /\ tape \in [Recorders -> 0..MaxCalls]
  /\ quiet \in [Recorders -> BOOLEAN]
  /\ recorded \subseteq 1..made
  /\ ends \subseteq Ending

\* While the program runs, calls and recorders agree: a recorder that is ACTIVE
\* serves a call that is managed, RECORDING and holds that recorder, and the
\* recorder of every RECORDING call serves it.  Otherwise a recorder would
\* never come back to its pool, or record for a call that is gone.
PoolSound ==
  phase = "running" =>
    /\ \A c \in calls : Recording(c) => serving[call[c].rec] = c
    /\ \A r \in Recorders : serving[r] # 0 =>
         serving[r] \in calls /\ Recording(serving[r]) /\ call[serving[r]].rec = r

\* While the program runs, a call is concluded with the transmissions that its
\* recorder made for it, and never with those of another call.
OwnAudio == phase = "running" => \A e \in ends : e.by = e.of

\* A call that got a recorder stays RECORDING until conclude_call hands over
\* its transmissions, and is not RECORDING after: no recorded call is erased
\* unconcluded, also not by the exit loop.
RecordedIsConcluded ==
  \A c \in recorded :
    ((c \in calls /\ Recording(c)) <=> ~\E e \in ends : e.by = c)

\* The handling of a message makes a call stop recording only if another
\* recorder has started on the same talkgroup: a better site may take over a
\* call but never lose it.
SupersedeKeepsRecording ==
  [][phase' = "running" =>
       \A c \in calls \cap calls' : Recording(c) /\ ~Recording(c)' =>
         \E d \in calls' : d # c /\ call'[d].tg = call[c].tg /\ Recording(d)']_vars

\* What the calls promise about the recorders, see RecorderPool: a recorder comes
\* back in the step that files its call, a call is filed with its own audio, and
\* the exit loop leaves none unfiled, for all that it may file a superseded one twice.
Lending == INSTANCE RecorderPool WITH
  Calls <- Ids, None <- 0, lent <- serving, started <- recorded,
  filed <- {[call |-> e.by, audio |-> e.of] : e \in ends}

PoolPromise == Lending!Spec

\* Every transmission belongs to the call whose recorder made it, also in the
\* exit loop: "Call has been superseded. Removing files." is about the files of
\* the call that was superseded (call_concluder.cc).
RemovesOnlyOwn == \A e \in ends : e.removed => e.by = e.of
=============================================================================
