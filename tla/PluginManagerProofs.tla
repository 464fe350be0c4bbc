------------------------ MODULE PluginManagerProofs ------------------------
(***************************************************************************)
(* Theorems about PluginManager for any number of plugins, of threads of   *)
(* the flow graph and of workers.                                          *)
(***************************************************************************)
EXTENDS PluginManager, TLAPS

FlowInv ==
  /\ main.phase \in {"init", "start", "setup"} => flow = "new"
  /\ main.phase \in {"loop", "drain", "wait"} => flow = "up"
  /\ main.phase \in {"stop", "stopping"} => flow = "down"
  /\ main.phase = "exit" => flow # "up"

\* When the threads are in a callback.
PassInv ==
  \A t \in Threads :
    /\ pass[t].busy => pass[t].at \in ready
    /\ pass[t].at # 0 =>
         /\ t = Main => main.phase \in {"setup", "loop"}
         /\ t \in Streams => main.phase \in {"loop", "drain", "wait"}
         /\ t \in Workers => main.phase \in {"loop", "drain"} \/ gave_up

\* stop_plugins has not come to this plugin, or it is not called at all.
Pending(p) ==
  \/ main.phase \notin {"stop", "stopping", "exit"}
  \/ main.phase = "stop" /\ p >= main.at
  \/ main.phase = "stopping" /\ p > main.at
  \/ main.phase = "exit" /\ flow # "down"

LifeInv ==
  /\ main.phase = "init" => ready = {}
  /\ started \subseteq ready
  /\ \A p \in Plugins : state[p] = "RUNNING" => p \in ready
  /\ \A p \in Plugins :
       /\ Pending(p) => stops[p] = 0 /\ (p \in ready <=> state[p] = "RUNNING")
       /\ ~Pending(p) => (p \in ready => stops[p] = 1) /\ (p \notin ready => stops[p] = 0)

\* What a callback has called so far is what is running.
SeenInv ==
  \A t \in {Main} \cup Streams : pass[t].at # 0 =>
    /\ pass[t].list = Plugins
    /\ \A p \in Plugins :
         p \in pass[t].seen <=>
           state[p] = "RUNNING" /\ (p < pass[t].at \/ (p = pass[t].at /\ pass[t].busy))

\* The inductive invariant.
IInv == TypeOK /\ FlowInv /\ PassInv /\ LifeInv /\ SeenInv

PassType == [at : 0..PluginCount + 1, list : SUBSET Plugins,
             busy : BOOLEAN, seen : SUBSET Plugins]

LEMMA Numbers == /\ PluginCount \in Nat
                 /\ \A p \in Plugins : p \in Nat /\ p >= 1 /\ p <= PluginCount
                 /\ \A p \in Plugins : p + 1 \in 0..PluginCount + 1 /\ p \in 0..PluginCount + 1
                 /\ 0 \in 0..PluginCount + 1 /\ 1 \in 0..PluginCount + 1
BY PluginAssumption DEF Plugins

(***************************************************************************)
(* Types                                                                   *)
(***************************************************************************)

LEMMA InitInv == Init => IInv
<1> SUFFICES ASSUME Init  PROVE IInv
  OBVIOUS
<1> USE Numbers
<1>1. TypeOK
  <2>1. Idle \in PassType
    BY DEF Idle, PassType
  <2>2. pass \in [Threads -> PassType]
    BY <2>1 DEF Init
  <2>3. QED
    BY <2>2 DEF Init, TypeOK, PassType, Phases
<1>2. \A t \in Threads : pass[t].at = 0 /\ ~pass[t].busy
  BY DEF Init, Idle
<1>3. FlowInv /\ PassInv /\ LifeInv
  BY <1>2 DEF Init, FlowInv, PassInv, LifeInv, Pending
<1>4. SeenInv
  BY <1>2 DEF SeenInv, Threads
<1>5. QED
  BY <1>1, <1>3, <1>4 DEF IInv

\* A step of one thread in a callback.
LEMMA CallbackType ==
  ASSUME TypeOK, PassInv, NEW t \in Threads, StreamCalls(t) \/ Launch(t) \/ Callback(t) \/ MainCalls
  PROVE  pass' \in [Threads -> PassType]
<1> USE Numbers
<1>1. pass \in [Threads -> PassType] /\ pass[t] \in PassType
  BY DEF TypeOK, PassType
<1>2. \A u \in Threads : \A l \in SUBSET Plugins : Enter(u, l) => pass' \in [Threads -> PassType]
  <2> SUFFICES ASSUME NEW u \in Threads, NEW l \in SUBSET Plugins, Enter(u, l)
               PROVE  pass' \in [Threads -> PassType]
    OBVIOUS
  <2>1. [at |-> 1, list |-> l, busy |-> FALSE, seen |-> {}] \in PassType
    BY DEF PassType
  <2>2. QED
    BY <1>1, <2>1 DEF Enter
<1>3. CASE Look(t)
  <2> DEFINE p == pass[t].at
  <2>1. p \in Plugins /\ pass[t].list \in SUBSET Plugins /\ pass[t].seen \in SUBSET Plugins
    BY <1>1, <1>3 DEF Look, PassType
  <2>2. /\ [at |-> p, list |-> pass[t].list, busy |-> TRUE, seen |-> pass[t].seen \cup {p}]
             \in PassType
        /\ [at |-> p + 1, list |-> pass[t].list, busy |-> FALSE, seen |-> pass[t].seen]
             \in PassType
    BY <2>1 DEF PassType
  <2>3. QED
    BY <1>1, <1>3, <2>2 DEF Look
<1>4. CASE Return(t)
  <2>1. pass[t].at \in Plugins
    BY <1>4 DEF Return, PassInv, TypeOK
  <2>2. [at |-> pass[t].at + 1, list |-> pass[t].list, busy |-> FALSE, seen |-> pass[t].seen]
          \in PassType
    BY <1>1, <2>1 DEF PassType
  <2>3. QED
    BY <1>1, <1>4, <2>2 DEF Return
<1>5. CASE Leave(t)
  BY <1>1, <1>5 DEF Leave, Idle, PassType
<1>6. QED
  BY <1>2, <1>3, <1>4, <1>5 DEF StreamCalls, Launch, MainCalls, Callback, Threads

(***************************************************************************)
(* Steps of the threads                                                    *)
(***************************************************************************)

LEMMA CallbackStep ==
  ASSUME IInv, NEW t \in Threads, StreamCalls(t) \/ Launch(t) \/ Callback(t) \/ MainCalls
  PROVE  IInv'
<1> USE Numbers
<1>1. UNCHANGED <<state, main, flow, gave_up, ready, started, stops>>
  BY DEF StreamCalls, Launch, Callback, MainCalls, Enter, Look, Return, Leave, history
<1>2. TypeOK'
  <2>1. pass' \in [Threads -> PassType]
    BY CallbackType DEF IInv
  <2>2. QED
    BY <1>1, <2>1 DEF IInv, TypeOK, PassType
<1>3. FlowInv' /\ LifeInv'
  BY <1>1 DEF IInv, FlowInv, LifeInv, Pending
\* What each kind of step leaves in pass, for the thread u that takes it.
<1>4. PICK u \in Threads :
        /\ \A w \in Threads \ {u} : pass'[w] = pass[w]
        /\ \/ /\ pass[u].at = 0 /\ pass'[u].at = 1 /\ ~pass'[u].busy /\ pass'[u].seen = {}
              /\ u \in {Main} \cup Streams => pass'[u].list = Plugins
              /\ u = Main => main.phase \in {"setup", "loop"}
              /\ u \in Streams => main.phase \in {"loop", "drain", "wait"}
              /\ u \in Workers => main.phase \in {"loop", "drain"}
           \/ Look(u) \/ Return(u) \/ Leave(u)
  <2>0. pass \in [Threads -> PassType]
    BY DEF IInv, TypeOK, PassType
  <2>1. CASE MainCalls
    <3>1. Main \in Threads /\ Main \notin Streams \cup Workers
      BY PluginAssumption DEF Threads
    <3>2. Enter(Main, Plugins) /\ main.phase \in {"setup", "loop"}
      BY <2>1 DEF MainCalls
    <3>3. QED
      BY <2>0, <3>1, <3>2 DEF Enter
  <2>2. CASE StreamCalls(t)
    <3>1. t \in Streams /\ t # Main /\ t \notin Workers
      BY <2>2, PluginAssumption DEF StreamCalls
    <3>2. Enter(t, Plugins) /\ main.phase \in {"loop", "drain", "wait"}
      <4>1. Enter(t, Plugins) /\ flow = "up" /\ main.phase # "wait"
        BY <2>2 DEF StreamCalls
      <4>2. QED
        BY <4>1 DEF IInv, FlowInv, TypeOK, Phases
    <3>3. QED
      BY <2>0, <3>1, <3>2 DEF Enter
  <2>3. CASE Launch(t)
    <3>1. t \in Workers /\ t # Main /\ t \notin Streams
      BY <2>3, PluginAssumption DEF Launch
    <3>2. PICK l \in SUBSET Plugins : Enter(t, l) /\ main.phase \in {"loop", "drain"}
      BY <2>3 DEF Launch
    <3>3. QED
      BY <2>0, <3>1, <3>2 DEF Enter
  <2>4. CASE Callback(t)
    BY <2>0, <2>4 DEF Callback, Look, Return, Leave
  <2>5. QED
    BY <2>1, <2>2, <2>3, <2>4
<1> HIDE DEF Threads
<1>5. pass[u] \in PassType /\ pass \in [Threads -> PassType]
  BY DEF IInv, TypeOK, PassType
\* Where u is afterwards.
<1>6. /\ pass'[u].busy => pass'[u].at \in ready
      /\ pass'[u].at # 0 /\ pass[u].at = 0 => pass'[u].at = 1
  <2>1. CASE Look(u)
    <3>1. pass[u].at \in Plugins /\ state[pass[u].at] = "RUNNING" => pass[u].at \in ready
      BY <2>1 DEF IInv, LifeInv, Look
    <3>2. QED
      BY <1>5, <2>1, <3>1 DEF Look
  <2>2. CASE Return(u)
    BY <1>5, <2>2 DEF Return, IInv, PassInv, TypeOK
  <2>3. CASE Leave(u)
    BY <1>5, <2>3 DEF Leave, Idle
  <2>4. QED
    BY <1>4, <2>1, <2>2, <2>3
<1>e. pass[u].at = 0 => ~Look(u) /\ ~Return(u) /\ ~Leave(u)
  <2>1. 0 \notin Plugins /\ 0 # PluginCount + 1
    BY PluginAssumption DEF Plugins
  <2>2. pass[u].busy => pass[u].at \in Plugins
    BY DEF IInv, PassInv, TypeOK
  <2>3. QED
    BY <2>1, <2>2 DEF Look, Return, Leave
<1>7. PassInv'
  <2> SUFFICES ASSUME NEW w \in Threads
               PROVE  /\ pass'[w].busy => pass'[w].at \in ready
                      /\ pass'[w].at # 0 =>
                           /\ w = Main => main.phase \in {"setup", "loop"}
                           /\ w \in Streams => main.phase \in {"loop", "drain", "wait"}
                           /\ w \in Workers => main.phase \in {"loop", "drain"} \/ gave_up
    BY <1>1 DEF PassInv
  <2>1. CASE w # u
    BY <1>4, <2>1 DEF IInv, PassInv
  <2>2. CASE w = u /\ pass[u].at = 0
    BY <1>4, <1>6, <1>e, <2>2
  <2>3. CASE w = u /\ pass[u].at # 0
    BY <1>6, <2>3 DEF IInv, PassInv
  <2>4. QED
    BY <2>1, <2>2, <2>3
<1>8. SeenInv'
  <2> SUFFICES ASSUME NEW w \in {Main} \cup Streams, pass'[w].at # 0
               PROVE  /\ pass'[w].list = Plugins
                      /\ \A p \in Plugins : p \in pass'[w].seen <=>
                           /\ state'[p] = "RUNNING"
                           /\ p < pass'[w].at \/ (p = pass'[w].at /\ pass'[w].busy)
    BY DEF SeenInv
  <2>0. w \in Threads /\ state' = state
    BY <1>1 DEF Threads
  <2>l. pass'[w].list = Plugins
    <3>1. CASE w # u \/ pass[u].at = 0
      BY <1>4, <1>e, <2>0, <3>1 DEF IInv, SeenInv
    <3>2. CASE w = u /\ pass[u].at # 0
      <4>1. pass[u].list = Plugins
        BY <3>2 DEF IInv, SeenInv
      <4>2. Look(u) \/ Return(u) => pass'[u].list = pass[u].list
        BY <1>5 DEF Look, Return
      <4>3. Leave(u) => pass'[u].at = 0
        BY <1>5 DEF Leave, Idle
      <4>4. QED
        BY <1>4, <3>2, <4>1, <4>2, <4>3
    <3>3. QED
      BY <3>1, <3>2
  <2> SUFFICES ASSUME NEW p \in Plugins
               PROVE  p \in pass'[w].seen <=>
                        /\ state'[p] = "RUNNING"
                        /\ p < pass'[w].at \/ (p = pass'[w].at /\ pass'[w].busy)
    BY <2>l
  <2>1. CASE w # u
    BY <1>4, <2>0, <2>1 DEF IInv, SeenInv
  <2>2. CASE w = u /\ pass[u].at = 0
    <3>1. pass'[u].at = 1 /\ ~pass'[u].busy /\ pass'[u].seen = {} /\ pass'[u].list = Plugins
      BY <1>4, <1>e, <2>2
    <3>2. ~(p < 1)
      OBVIOUS
    <3>3. QED
      BY <2>0, <2>2, <3>1, <3>2
  <2>3. CASE w = u /\ pass[u].at # 0
    <3>1. /\ pass[u].list = Plugins
          /\ p \in pass[u].seen <=>
               state[p] = "RUNNING" /\ (p < pass[u].at \/ (p = pass[u].at /\ pass[u].busy))
      BY <2>3 DEF IInv, SeenInv
    <3>n. p \in Nat /\ pass[u].at \in Nat
      BY <1>5 DEF PassType
    <3>2. CASE Look(u)
      <4>1. CASE state[pass[u].at] = "RUNNING"
        <5>1. /\ pass'[u].at = pass[u].at /\ pass'[u].busy /\ pass'[u].list = pass[u].list
              /\ pass'[u].seen = pass[u].seen \cup {pass[u].at} /\ ~pass[u].busy
          BY <1>5, <3>1, <3>2, <4>1 DEF Look
        <5>2. QED
          BY <2>0, <2>3, <3>n, <3>1, <4>1, <5>1
      <4>2. CASE state[pass[u].at] # "RUNNING"
        <5>1. /\ pass'[u].at = pass[u].at + 1 /\ ~pass'[u].busy /\ pass'[u].list = pass[u].list
              /\ pass'[u].seen = pass[u].seen /\ ~pass[u].busy
          BY <1>5, <3>2, <4>2 DEF Look
        <5>2. p < pass[u].at + 1 <=> p < pass[u].at \/ p = pass[u].at
          BY <3>n
        <5>3. QED
          BY <2>0, <2>3, <3>1, <4>2, <5>1, <5>2
      <4>3. QED
        BY <4>1, <4>2
    <3>3. CASE Return(u)
      <4>1. /\ pass'[u].at = pass[u].at + 1 /\ ~pass'[u].busy /\ pass'[u].list = pass[u].list
            /\ pass'[u].seen = pass[u].seen /\ pass[u].busy
        BY <1>5, <3>3 DEF Return
      <4>2. p < pass[u].at + 1 <=> p < pass[u].at \/ p = pass[u].at
        BY <3>n
      <4>3. QED
        BY <2>0, <2>3, <3>1, <4>1, <4>2
    <3>4. CASE Leave(u)
      BY <1>5, <2>0, <2>3, <3>4 DEF Leave, Idle
    <3>5. QED
      BY <1>4, <2>3, <3>2, <3>3, <3>4
  <2>4. QED
    BY <2>1, <2>2, <2>3
<1>9. QED
  BY <1>2, <1>3, <1>7, <1>8 DEF IInv

(***************************************************************************)
(* Steps of main()                                                         *)
(***************************************************************************)

\* Nobody but a worker is in a callback while the states change.
LEMMA Quiet ==
  ASSUME IInv, main.phase \in {"init", "start", "stop", "stopping", "exit"}
  PROVE  \A t \in {Main} \cup Streams : pass[t].at = 0
BY DEF IInv, PassInv, Threads

\* A step that changes the states keeps SeenInv, if Quiet holds.
LEMMA QuietSeen ==
  ASSUME \A t \in {Main} \cup Streams : pass[t].at = 0, pass' = pass
  PROVE  SeenInv'
BY DEF SeenInv

\* A step that leaves the states and the callbacks alone.
LEMMA SameSeen == IInv /\ state' = state /\ pass' = pass => SeenInv'
BY DEF IInv, SeenInv

LEMMA StartingStep == IInv /\ Starting => IInv'
<1> SUFFICES ASSUME IInv, Starting  PROVE IInv'
  OBVIOUS
<1> USE Numbers
<1>t. TypeOK /\ main.at \in Nat
  BY DEF IInv, TypeOK
<1>1. ASSUME Initialized \/ Started  PROVE IInv'
  <2>1. /\ UNCHANGED <<state, flow, pass, gave_up, ready, started, stops>>
        /\ \/ main.phase = "init" /\ main' = [phase |-> "start", at |-> 1]
           \/ main.phase = "start" /\ main' = [phase |-> "setup", at |-> 0]
    BY <1>1 DEF Initialized, Started, Goto, history
  <2>2. TypeOK'
    BY <1>t, <2>1 DEF TypeOK, Phases
  <2>3. FlowInv' /\ PassInv' /\ LifeInv'
    BY <2>1 DEF IInv, FlowInv, PassInv, LifeInv, Pending
  <2>4. QED
    BY <2>1, <2>2, <2>3, SameSeen DEF IInv
<1>2. ASSUME SetupSystems \/ SetupFails  PROVE IInv'
  <2>1. /\ UNCHANGED <<state, pass, gave_up, ready, started, stops>>
        /\ main.phase = "setup" /\ pass[Main].at = 0 /\ flow = "new"
        /\ \/ main' = [phase |-> "loop", at |-> 0] /\ flow' = "up"
           \/ main' = [phase |-> "exit", at |-> 0] /\ flow' = flow
    BY <1>2 DEF SetupSystems, SetupFails, Goto, history, IInv, FlowInv
  <2>2. TypeOK'
    BY <1>t, <2>1 DEF TypeOK, Phases
  <2>3. FlowInv' /\ LifeInv'
    BY <2>1 DEF IInv, FlowInv, LifeInv, Pending
  <2>4. PassInv'
    BY <2>1 DEF IInv, PassInv
  <2>5. QED
    BY <2>1, <2>2, <2>3, <2>4, SameSeen DEF IInv
<1>3. ASSUME NEW p \in Plugins, InitPlugin(p) \/ StartFails(p) \/ StartPlugin(p)
      PROVE  IInv'
  <2>1. /\ pass' = pass /\ flow' = flow /\ gave_up' = gave_up /\ stops' = stops
        /\ main.phase \in {"init", "start"} /\ main' = [phase |-> main.phase, at |-> p + 1]
        /\ \/ /\ \E x \in {"INITIALIZED", "FAILED"} : state' = [state EXCEPT ![p] = x]
              /\ ready' = ready /\ started' = started
              /\ main.phase = "init" \/ state[p] = "INITIALIZED"
           \/ /\ state' = [state EXCEPT ![p] = "RUNNING"]
              /\ main.phase = "start"
              /\ ready' = ready \cup {p} /\ started' \subseteq started \cup {p}
              /\ started \subseteq started'
    BY <1>3 DEF InitPlugin, StartFails, StartPlugin, Goto, history
  <2>2. TypeOK'
    BY <1>t, <2>1 DEF TypeOK, Phases
  <2>3. FlowInv'
    BY <2>1 DEF IInv, FlowInv
  <2>4. PassInv'
    BY <2>1 DEF IInv, PassInv
  <2>5. LifeInv'
    <3>1. \A q \in Plugins : Pending(q) /\ Pending(q)'
      BY <2>1 DEF Pending
    <3>2. \A q \in Plugins : stops[q] = 0 /\ (q \in ready <=> state[q] = "RUNNING")
      BY <3>1 DEF IInv, LifeInv
    <3>3. \A q \in Plugins : q \in ready' <=> state'[q] = "RUNNING"
      BY <1>t, <2>1, <3>2 DEF TypeOK, IInv, LifeInv
    <3>4. main'.phase = "init" => ready' = {}
      BY <2>1 DEF IInv, LifeInv
    <3>5. started' \subseteq ready'
      BY <2>1 DEF IInv, LifeInv
    <3>6. QED
      BY <2>1, <3>1, <3>2, <3>3, <3>4, <3>5 DEF LifeInv
  <2>6. SeenInv'
    BY <2>1, Quiet, QuietSeen
  <2>7. QED
    BY <2>2, <2>3, <2>4, <2>5, <2>6 DEF IInv
<1>4. QED
  BY <1>1, <1>2, <1>3 DEF Starting

LEMMA ExitingStep == IInv /\ (BeginExit \/ Exiting) => IInv'
<1> SUFFICES ASSUME IInv, BeginExit \/ Exiting  PROVE IInv'
  OBVIOUS
<1> USE Numbers
<1>t. TypeOK /\ main.at \in Nat
  BY DEF IInv, TypeOK
<1>1. ASSUME BeginExit \/ DrainDone \/ DrainTimeout  PROVE IInv'
  <2>1. /\ UNCHANGED <<state, flow, pass, ready, started, stops>>
        /\ gave_up' \in BOOLEAN /\ (gave_up => gave_up')
        /\ \/ main.phase = "loop" /\ main' = [phase |-> "drain", at |-> 0] /\ pass[Main].at = 0
           \/ /\ main.phase = "drain" /\ main' = [phase |-> "wait", at |-> 0]
              /\ gave_up' \/ \A t \in Workers : pass[t].at = 0
    BY <1>1, <1>t DEF BeginExit, DrainDone, DrainTimeout, Goto, history, TypeOK
  <2>2. TypeOK'
    BY <1>t, <2>1 DEF TypeOK, Phases
  <2>3. FlowInv' /\ LifeInv'
    BY <2>1 DEF IInv, FlowInv, LifeInv, Pending
  <2>4. PassInv'
    BY <2>1 DEF IInv, PassInv
  <2>5. QED
    BY <2>1, <2>2, <2>3, <2>4, SameSeen DEF IInv
<1>2. CASE FlowDown
  <2>1. /\ UNCHANGED <<state, pass, gave_up, ready, started, stops>>
        /\ main.phase = "wait" /\ main' = [phase |-> "stop", at |-> 1] /\ flow' = "down"
        /\ \A t \in Streams : pass[t].at = 0
    BY <1>2 DEF FlowDown, Goto, history
  <2>2. TypeOK'
    BY <1>t, <2>1 DEF TypeOK, Phases
  <2>3. FlowInv' /\ LifeInv'
    BY <2>1 DEF IInv, FlowInv, LifeInv, Pending
  <2>4. PassInv'
    BY <2>1 DEF IInv, PassInv
  <2>5. QED
    BY <2>1, <2>2, <2>3, <2>4, SameSeen DEF IInv
<1>3. ASSUME NEW p \in Plugins, StopCall(p)  PROVE IInv'
  <2>1. /\ UNCHANGED <<state, flow, pass, gave_up, ready, started>>
        /\ main = [phase |-> "stop", at |-> p] /\ main' = [phase |-> "stopping", at |-> p]
        /\ state[p] = "RUNNING" /\ stops' = [stops EXCEPT ![p] = @ + 1]
    BY <1>3 DEF StopCall, Goto
  <2>2. TypeOK'
    BY <1>t, <2>1 DEF TypeOK, Phases
  <2>3. FlowInv' /\ PassInv'
    BY <2>1 DEF IInv, FlowInv, PassInv
  <2>4. LifeInv'
    <3>1. Pending(p) /\ ~Pending(p)'
      BY <2>1 DEF Pending
    <3>2. \A q \in Plugins \ {p} : (Pending(q)' <=> Pending(q)) /\ stops'[q] = stops[q]
      BY <1>t, <2>1 DEF Pending, TypeOK
    <3>3. stops'[p] = 1 /\ p \in ready
      BY <1>t, <2>1, <3>1 DEF IInv, LifeInv, TypeOK
    <3>4. QED
      BY <2>1, <3>1, <3>2, <3>3 DEF IInv, LifeInv
  <2>5. QED
    BY <2>1, <2>2, <2>3, <2>4, SameSeen DEF IInv
<1>4. ASSUME NEW p \in Plugins, StopReturns(p) \/ StopSkips(p)  PROVE IInv'
  <2>1. /\ UNCHANGED <<flow, pass, gave_up, ready, started, stops>>
        /\ main.at = p /\ main' = [phase |-> "stop", at |-> p + 1]
        /\ main.phase = "stopping" \/ (main.phase = "stop" /\ state[p] # "RUNNING")
        /\ \E x \in {"STOPPED", "FAILED"} : state' = [state EXCEPT ![p] = x]
    BY <1>4 DEF StopReturns, StopSkips, Goto, history
  <2>2. TypeOK'
    BY <1>t, <2>1 DEF TypeOK, Phases
  <2>3. FlowInv' /\ PassInv'
    BY <2>1 DEF IInv, FlowInv, PassInv
  <2>4. LifeInv'
    <3>1. ~Pending(p)' /\ (Pending(p) => p \notin ready)
      BY <2>1 DEF Pending, IInv, LifeInv
    <3>2. \A q \in Plugins \ {p} : (Pending(q)' <=> Pending(q)) /\ state'[q] = state[q]
      BY <1>t, <2>1 DEF Pending, TypeOK
    <3>3. state'[p] # "RUNNING"
      BY <1>t, <2>1 DEF TypeOK
    <3>4. QED
      BY <2>1, <3>1, <3>2, <3>3 DEF IInv, LifeInv
  <2>5. SeenInv'
    BY <2>1, Quiet, QuietSeen
  <2>6. QED
    BY <2>2, <2>3, <2>4, <2>5 DEF IInv
<1>5. CASE Stopped
  <2>1. /\ UNCHANGED <<state, flow, pass, gave_up, ready, started, stops>>
        /\ main = [phase |-> "stop", at |-> PluginCount + 1]
        /\ main' = [phase |-> "exit", at |-> 0] /\ flow = "down"
    BY <1>5 DEF Stopped, Goto, history, IInv, FlowInv
  <2>2. TypeOK'
    BY <1>t, <2>1 DEF TypeOK, Phases
  <2>3. FlowInv' /\ PassInv'
    BY <2>1 DEF IInv, FlowInv, PassInv
  <2>4. LifeInv'
    <3>1. \A q \in Plugins : ~Pending(q) /\ ~Pending(q)'
      BY <2>1 DEF Pending
    <3>2. QED
      BY <2>1, <3>1 DEF IInv, LifeInv
  <2>5. QED
    BY <2>1, <2>2, <2>3, <2>4, SameSeen DEF IInv
<1>6. QED
  BY <1>1, <1>2, <1>3, <1>4, <1>5 DEF Exiting

LEMMA InvStep == IInv /\ [Next]_vars => IInv'
<1> SUFFICES ASSUME IInv, [Next]_vars  PROVE IInv'
  OBVIOUS
<1>1. CASE MainCalls
  BY <1>1, CallbackStep DEF Threads
<1>2. ASSUME NEW t \in Threads, StreamCalls(t) \/ Launch(t) \/ Callback(t)  PROVE IInv'
  BY <1>2, CallbackStep
<1>3. CASE UNCHANGED vars
  BY <1>3 DEF vars, history, IInv, TypeOK, FlowInv, PassInv, LifeInv, Pending, SeenInv
<1>4. QED
  BY <1>1, <1>2, <1>3, StartingStep, ExitingStep DEF Next

(***************************************************************************)
(* Theorems                                                                *)
(***************************************************************************)

\* What main(), the flow graph and the workers do to the plugins keeps the
\* inductive invariant: the phases tell which threads may be in a callback and
\* which plugins are RUNNING.
THEOREM Invariant == Spec => []IInv
<1>1. IInv /\ [Next]_vars => IInv'
  BY InvStep
<1>2. QED
  BY <1>1, InitInv, PTL DEF Spec

\* Types of the plugin manager's state and of every callback under way.
THEOREM TypeCorrect == Spec => []TypeOK
<1>1. IInv => TypeOK
  BY DEF IInv
<1>2. QED
  BY <1>1, Invariant, PTL

\* Without a lock, no callback is in a plugin that stop() was called for, except
\* from a worker that the drain left behind.
THEOREM CalledOnlyUp == Spec => []CalledWhileUp
<1>1. IInv => CalledWhileUp
  <2> SUFFICES ASSUME IInv, NEW t \in Threads, NEW p \in Plugins, In(t, p)
               PROVE  p \in ready /\ (stops[p] = 0 \/ (t \in Workers /\ gave_up))
    BY DEF CalledWhileUp
  <2>1. p \in ready /\ pass[t].at = p /\ p # 0
    BY Numbers DEF IInv, PassInv, In
  <2>2. CASE Pending(p)
    BY <2>1, <2>2 DEF IInv, LifeInv
  <2>3. CASE ~Pending(p)
    <3>1. main.phase \in {"stop", "stopping", "exit"}
      BY <2>3 DEF Pending
    <3>2. t # Main /\ t \notin Streams
      BY <2>1, <3>1 DEF IInv, PassInv
    <3>3. t \in Workers /\ gave_up
      BY <2>1, <3>1, <3>2 DEF IInv, PassInv, Threads
    <3>4. QED
      BY <2>1, <3>3
  <2>4. QED
    BY <2>2, <2>3
<1>2. QED
  BY <1>1, Invariant, PTL

\* stop() is called at most once for a plugin, only after it was set up, and by
\* the end for every one that was started, whatever stop() returned for others.
THEOREM OneStop == Spec => []StoppedOnce
<1>1. IInv => StoppedOnce
  <2> SUFFICES ASSUME IInv, NEW p \in Plugins
               PROVE  /\ stops[p] <= 1 /\ (stops[p] = 1 => p \in ready)
                      /\ main.phase = "exit" /\ flow = "down" => (p \in started => stops[p] = 1)
    BY DEF StoppedOnce
  <2>1. stops[p] = 0 \/ (stops[p] = 1 /\ p \in ready)
    BY DEF IInv, LifeInv
  <2>2. main.phase = "exit" /\ flow = "down" => ~Pending(p)
    BY DEF Pending
  <2>3. QED
    BY <2>1, <2>2 DEF IInv, LifeInv
<1>2. QED
  BY <1>1, Invariant, PTL

\* A callback of the main loop or the flow graph reaches all the plugins that
\* are running when it ends.
THEOREM EveryoneHears == Spec => SameAudience
<1>1. IInv /\ [Next]_vars => [\A t \in {Main} \cup Streams : Leave(t) => pass[t].seen = Running]_vars
  <2> SUFFICES ASSUME IInv, NEW t \in {Main} \cup Streams, Leave(t)
               PROVE  pass[t].seen = Running
    OBVIOUS
  <2>1. pass[t].at = PluginCount + 1 /\ pass[t].at # 0
    BY Numbers DEF Leave
  <2>2. \A p \in Plugins : p \in pass[t].seen <=> state[p] = "RUNNING"
    <3>1. \A p \in Plugins : p < PluginCount + 1
      BY Numbers
    <3>2. QED
      BY <2>1, <3>1 DEF IInv, SeenInv
  <2>3. pass[t].seen \subseteq Plugins
    BY DEF IInv, TypeOK, Threads
  <2>4. QED
    BY <2>2, <2>3 DEF Running
<1>2. QED
  BY <1>1, Invariant, PTL DEF Spec, SameAudience
=============================================================================
