--------------------------- MODULE PluginManager ---------------------------
(***************************************************************************)
(* The life of the plugins (plugin_manager.cc) as main() drives it:        *)
(* initialised, started and set up one after the other, called back from   *)
(* three kinds of threads, and stopped at the end.                         *)
(*                                                                         *)
(* A callback goes through the vector of plugins, looks at each state and  *)
(* calls those that are RUNNING.  No lock protects the states: what keeps  *)
(* a stopped plugin from being called is only the order of main() and what *)
(* it waits for.                                                           *)
(***************************************************************************)
EXTENDS Naturals, FiniteSets

CONSTANTS
  PluginCount,  \* length of the vector
  Streams,      \* threads of the flow graph that run a recorder's sinks
  Workers       \* upload workers, each with one call

Plugins == 1..PluginCount
Main    == "main"
Threads == {Main} \cup Streams \cup Workers

ASSUME PluginAssumption ==
  /\ PluginCount \in Nat
  /\ Main \notin Streams \cup Workers
  /\ Streams \cap Workers = {}

VARIABLES
  state,    \* Plugin::state
  main,     \* where main() is, and the plugin its loop is at
  flow,     \* the flow graph: new, up, down
  pass,     \* per thread, the callback it is in
  gave_up,  \* shutdown_call_data_workers timed out
  ready,    \* history: plugins that were set up
  started,  \* history: plugins whose start() returned 0
  stops     \* history: calls of stop(), per plugin

history == <<ready, started, stops>>
vars    == <<state, main, flow, pass, gave_up, history>>

\* at: the plugin it looks at or calls (busy), 0 when the thread is elsewhere;
\* list: the plugins to offer to; seen: those called.
Idle == [at |-> 0, list |-> {}, busy |-> FALSE, seen |-> {}]

Running == {p \in Plugins : state[p] = "RUNNING"}
In(t, p) == pass[t].busy /\ pass[t].at = p

Goto(phase, p) == main' = [phase |-> phase, at |-> p]

Init ==
  /\ state = [p \in Plugins |-> "UNKNOWN"]
  /\ main = [phase |-> "init", at |-> 1]
  /\ flow = "new"
  /\ pass = [t \in Threads |-> Idle]
  /\ gave_up = FALSE
  /\ ready = {} /\ started = {} /\ stops = [p \in Plugins |-> 0]

(***************************************************************************)
(* Loading and start                                                       *)
(***************************************************************************)

\* The last loop of initialize_plugins.
InitPlugin(p) ==
  /\ main = [phase |-> "init", at |-> p]
  /\ \E s \in {"INITIALIZED", "FAILED"} : state' = [state EXCEPT ![p] = s]
  /\ Goto("init", p + 1)
  /\ UNCHANGED <<flow, pass, gave_up, history>>

Initialized ==
  /\ main = [phase |-> "init", at |-> PluginCount + 1]
  /\ Goto("start", 1)
  /\ UNCHANGED <<state, flow, pass, gave_up, history>>

\* start() returned an error.
StartFails(p) ==
  /\ main = [phase |-> "start", at |-> p] /\ p \in Plugins
  /\ state[p] = "INITIALIZED"
  /\ state' = [state EXCEPT ![p] = "FAILED"]
  /\ Goto("start", p + 1)
  /\ UNCHANGED <<flow, pass, gave_up, history>>

\* RUNNING, and setup_sources and setup_systems; without a start() if init
\* failed.
StartPlugin(p) ==
  /\ main = [phase |-> "start", at |-> p] /\ p \in Plugins
  /\ state' = [state EXCEPT ![p] = "RUNNING"]
  /\ started' = IF state[p] = "INITIALIZED" THEN started \cup {p} ELSE started
  /\ ready' = ready \cup {p}
  /\ Goto("start", p + 1)
  /\ UNCHANGED <<flow, pass, gave_up, stops>>

Started ==
  /\ main = [phase |-> "start", at |-> PluginCount + 1]
  /\ Goto("setup", 0)
  /\ UNCHANGED <<state, flow, pass, gave_up, history>>

\* Mutant: the flow graph starts with the plugins.
SetupSystems_Early ==
  /\ main.phase \in {"setup", "start"} /\ flow = "new"
  /\ flow' = "up"
  /\ main' = IF main.phase = "setup" THEN [phase |-> "loop", at |-> 0] ELSE main
  /\ UNCHANGED <<state, pass, gave_up, history>>

\* setup_systems, and tb->start().
SetupSystems ==
  /\ main.phase = "setup" /\ pass[Main].at = 0
  /\ flow' = "up"
  /\ Goto("loop", 0)
  /\ UNCHANGED <<state, pass, gave_up, history>>

\* main() returns without stopping anything.
SetupFails ==
  /\ main.phase = "setup" /\ pass[Main].at = 0
  /\ Goto("exit", 0)
  /\ UNCHANGED <<state, flow, pass, gave_up, history>>

(***************************************************************************)
(* Callbacks                                                               *)
(***************************************************************************)

Enter(t, l) ==
  /\ pass[t].at = 0
  /\ pass' = [pass EXCEPT ![t] = [at |-> 1, list |-> l, busy |-> FALSE, seen |-> {}]]
  /\ UNCHANGED <<state, main, flow, gave_up, history>>

\* call_start, calls_active, poll_one, trunk_message, ... from setup_systems
\* and monitor_messages.
MainCalls == main.phase \in {"setup", "loop"} /\ Enter(Main, Plugins)

\* audio_stream, voice_codec_data and signal.
StreamCalls(t) == t \in Streams /\ flow = "up" /\ main.phase # "wait" /\ Enter(t, Plugins)

\* plugman_call_end: all plugins, or on a retry those that failed before.
Launch(t) ==
  /\ t \in Workers /\ main.phase \in {"loop", "drain"}
  /\ \E l \in SUBSET Plugins : Enter(t, l)

Look(t) ==
  /\ pass[t].at \in Plugins /\ ~pass[t].busy
  /\ LET p == pass[t].at IN
     pass' = IF p \in pass[t].list /\ state[p] = "RUNNING"
             THEN [pass EXCEPT ![t] = [at |-> p, list |-> pass[t].list, busy |-> TRUE,
                                       seen |-> pass[t].seen \cup {p}]]
             ELSE [pass EXCEPT ![t] = [at |-> p + 1, list |-> pass[t].list, busy |-> FALSE,
                                       seen |-> pass[t].seen]]
  /\ UNCHANGED <<state, main, flow, gave_up, history>>

Return(t) ==
  /\ pass[t].busy
  /\ pass' = [pass EXCEPT ![t] = [at |-> pass[t].at + 1, list |-> pass[t].list,
                                  busy |-> FALSE, seen |-> pass[t].seen]]
  /\ UNCHANGED <<state, main, flow, gave_up, history>>

Leave(t) ==
  /\ pass[t].at = PluginCount + 1
  /\ pass' = [pass EXCEPT ![t] = Idle]
  /\ UNCHANGED <<state, main, flow, gave_up, history>>

(***************************************************************************)
(* Exit                                                                    *)
(***************************************************************************)

\* The loop sees exit_flag.
BeginExit ==
  /\ main.phase = "loop" /\ pass[Main].at = 0
  /\ Goto("drain", 0)
  /\ UNCHANGED <<state, flow, pass, gave_up, history>>

\* shutdown_call_data_workers; main() then calls tb->stop().
DrainDone ==
  /\ main.phase = "drain"
  /\ \A t \in Workers : pass[t].at = 0
  /\ Goto("wait", 0)
  /\ UNCHANGED <<state, flow, pass, gave_up, history>>

\* Mutant: the deadline waits for the workers.
DrainTimeout_Waits ==
  /\ main.phase = "drain"
  /\ \A t \in Workers : ~pass[t].busy
  /\ gave_up' = TRUE
  /\ Goto("wait", 0)
  /\ UNCHANGED <<state, flow, pass, history>>

\* Ten seconds are over: the workers are left behind.
DrainTimeout ==
  /\ main.phase = "drain"
  /\ gave_up' = TRUE
  /\ Goto("wait", 0)
  /\ UNCHANGED <<state, flow, pass, history>>

\* Mutant: stop() without wait().
FlowDown_NoWait ==
  /\ main.phase = "wait"
  /\ flow' = "down"
  /\ Goto("stop", 1)
  /\ UNCHANGED <<state, pass, gave_up, history>>

\* tb->wait(): the threads have ended.
FlowDown ==
  /\ main.phase = "wait"
  /\ \A t \in Streams : pass[t].at = 0
  /\ flow' = "down"
  /\ Goto("stop", 1)
  /\ UNCHANGED <<state, pass, gave_up, history>>

StopCall(p) ==
  /\ main = [phase |-> "stop", at |-> p] /\ p \in Plugins
  /\ state[p] = "RUNNING"
  /\ stops' = [stops EXCEPT ![p] = @ + 1]
  /\ Goto("stopping", p)
  /\ UNCHANGED <<state, flow, pass, gave_up, ready, started>>

\* Mutant: an error ends the loop.
StopReturns_Breaks(p) ==
  /\ main = [phase |-> "stopping", at |-> p]
  /\ \/ state' = [state EXCEPT ![p] = "STOPPED"] /\ Goto("stop", p + 1)
     \/ state' = [state EXCEPT ![p] = "FAILED"] /\ Goto("stop", PluginCount + 1)
  /\ UNCHANGED <<flow, pass, gave_up, history>>

StopReturns(p) ==
  /\ main = [phase |-> "stopping", at |-> p]
  /\ \E s \in {"STOPPED", "FAILED"} : state' = [state EXCEPT ![p] = s]
  /\ Goto("stop", p + 1)
  /\ UNCHANGED <<flow, pass, gave_up, history>>

\* One that is not RUNNING.
StopSkips(p) ==
  /\ main = [phase |-> "stop", at |-> p] /\ p \in Plugins
  /\ state[p] # "RUNNING"
  /\ state' = [state EXCEPT ![p] = "STOPPED"]
  /\ Goto("stop", p + 1)
  /\ UNCHANGED <<flow, pass, gave_up, history>>

Stopped ==
  /\ main = [phase |-> "stop", at |-> PluginCount + 1]
  /\ Goto("exit", 0)
  /\ UNCHANGED <<state, flow, pass, gave_up, history>>

Exiting ==
  \/ DrainDone \/ DrainTimeout \/ FlowDown \/ Stopped
  \/ \E p \in Plugins : StopCall(p) \/ StopReturns(p) \/ StopSkips(p)

Starting ==
  \/ Initialized \/ Started \/ SetupSystems \/ SetupFails
  \/ \E p \in Plugins : InitPlugin(p) \/ StartFails(p) \/ StartPlugin(p)

Callback(t) == Look(t) \/ Return(t) \/ Leave(t)

Next ==
  \/ Starting \/ BeginExit \/ Exiting
  \/ MainCalls
  \/ \E t \in Threads : StreamCalls(t) \/ Launch(t) \/ Callback(t)

Spec == Init /\ [][Next]_vars

\* main() goes on, and a callback of the flow graph's threads returns.  A plugin
\* may hang in call_end for ever.
FairSpec ==
  /\ Spec
  /\ WF_vars(Exiting)
  /\ \A t \in Streams : WF_vars(Callback(t))

(***************************************************************************)
(* Properties                                                              *)
(***************************************************************************)

Phases == {"init", "start", "setup", "loop", "drain", "wait", "stop", "stopping", "exit"}

\* Types of all variables.
TypeOK ==
  /\ state \in [Plugins -> {"UNKNOWN", "INITIALIZED", "RUNNING", "FAILED", "STOPPED"}]
  /\ main \in [phase : Phases, at : 0..PluginCount + 1]
  /\ flow \in {"new", "up", "down"}
  /\ pass \in [Threads -> [at : 0..PluginCount + 1, list : SUBSET Plugins,
                           busy : BOOLEAN, seen : SUBSET Plugins]]
  /\ gave_up \in BOOLEAN
  /\ ready \subseteq Plugins /\ started \subseteq Plugins
  /\ stops \in [Plugins -> Nat]

\* A plugin that a thread is in was set up and its stop() has not been called,
\* though the threads do not look at the state again; only a worker that the
\* drain left behind may still be in call_end.
CalledWhileUp ==
  \A t \in Threads, p \in Plugins : In(t, p) =>
    p \in ready /\ (stops[p] = 0 \/ (t \in Workers /\ gave_up))

\* stop() is called once for each plugin that was started, whatever the others
\* return, and never for one that was not set up.
StoppedOnce ==
  \A p \in Plugins :
    /\ stops[p] <= 1 /\ (stops[p] = 1 => p \in ready)
    /\ main.phase = "exit" /\ flow = "down" => (p \in started => stops[p] = 1)

\* A callback of the main loop or of the flow graph reaches every plugin that is
\* running when it ends: none starts or stops while one is under way.
SameAudience ==
  [][\A t \in {Main} \cup Streams : Leave(t) => pass[t].seen = Running]_vars

\* A plugin that hangs in call_end keeps neither the program from exiting nor
\* the others from being stopped.
ExitEnds == (main.phase = "drain") ~> (main.phase = "exit" /\ flow = "down")
=============================================================================
