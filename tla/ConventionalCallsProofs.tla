---------------------- MODULE ConventionalCallsProofs ----------------------
(***************************************************************************)
(* Theorems about ConventionalCalls for every kind of channel, any timeout *)
(* and length, and any number of buffers and calls.                        *)
(***************************************************************************)
EXTENDS ConventionalCalls, FiniteSetTheorems, TLAPS

Loop == {"check", "manage", "judge", "stop"}

\* A slot that the restart has not reached yet.
Stale(s) == main.at = "open" /\ s >= main.slot

\* What is on its way is not written yet, and is on its way once.
OnItsWay ==
  \A s \in Slots : \A i \in 1..Len(chain[s]) :
    chain[s][i] # TERM => chain[s][i] <= voice /\ owner[chain[s][i]] = NoOwner

OneWay ==
  \A s, t \in Slots : \A i \in 1..Len(chain[s]), j \in 1..Len(chain[t]) :
    chain[s][i] = chain[t][j] /\ chain[s][i] # TERM => s = t /\ i = j

Fresh == \A v \in Voice : owner[v] # NoOwner => v <= voice

\* What a sink holds was written for the call that holds the recorder.
Mine ==
  \A s \in Slots : ~Stale(s) =>
    \A v \in Held(s) : owner[v] = [call |-> call.num, slot |-> s]

\* A call is filed once, before its number is given up.
Filed ==
  \A r \in done :
    /\ r.call <= call.num
    /\ main.at \notin {"conclude", "restart", "exited"} => r.call < call.num
    /\ \A v \in r.audio : owner[v] = [call |-> r.call, slot |-> r.slot]

NothingLost ==
  \A s \in Slots : \A v \in Voice :
    owner[v] # NoOwner /\ owner[v].slot = s => v \in Held(s) \cup Concluded

\* Before a sink is cleared, all that it holds is concluded.
Passed(s) ==
  \/ main.at = "conclude" /\ s < main.slot
  \/ main.at = "restart"
  \/ Stale(s)

Finished == \A s \in Slots : Passed(s) => Held(s) \subseteq Concluded

\* A sink takes no voice from its stop to its start.
Writable ==
  \A s \in Slots : sink[s].call =>
    /\ s \in Used
    /\ \/ main.at \in Loop \cup {"start", "exited"}
       \/ main.at = "close" /\ s >= main.slot
       \/ main.at = "open" /\ s < main.slot

Shut == \A s \in Slots : ~sink[s].call => sink[s].open = {}

Unstarted ==
  main.at \in {"check", "manage", "judge"}
    /\ (recorder = "INACTIVE" \/ call.state = "MONITORING")
  => \A s \in Slots : ~sink[s].call /\ Held(s) = {}

SlotsUsed ==
  /\ main.slot \in Used
  /\ main.at \notin {"close", "conclude", "open"} => main.slot = 0
  /\ \A s \in Slots : s \notin Used => Held(s) = {}

ChainInv == OnItsWay /\ OneWay /\ Fresh
CallInv  ==
  /\ Mine /\ Filed /\ NothingLost /\ Finished
  /\ Writable /\ Shut /\ Unstarted /\ SlotsUsed

\* The inductive invariant.
IInv == TypeOK /\ ChainInv /\ CallInv

(***************************************************************************)
(* Operators                                                               *)
(***************************************************************************)

LEMMA VoiceFacts ==
  /\ \A v \in Voice : v \in Nat /\ v # TERM
  /\ TypeOK /\ voice < MaxVoice[config.type] => voice + 1 \in Voice
<1>1. \A v \in Voice : v \in Nat /\ v # TERM
  BY ConventionalAssumption DEF Voice, TERM
<1>2. ASSUME TypeOK, voice < MaxVoice[config.type]  PROVE voice + 1 \in Voice
  <2>1. config.type \in Types
    BY <1>2, ConventionalAssumption DEF TypeOK, ConfigType
  <2>2. voice \in Nat /\ MaxVoice[config.type] \in Nat
    BY <1>2, <2>1, ConventionalAssumption DEF TypeOK
  <2>3. voice + 1 \in 1..MaxVoice[config.type]
    BY <1>2, <2>2
  <2>4. QED
    BY <2>1, <2>3 DEF Voice
<1>3. QED
  BY <1>1, <1>2

LEMMA UsedFacts == Used \subseteq Slots /\ 0 \in Used /\ 0 \in Slots /\ Slots \subseteq Nat
BY DEF Used, Slots

LEMMA AppendFacts ==
  ASSUME NEW S, NEW q \in Seq(S), NEW e \in S
  PROVE  /\ Append(q, e) \in Seq(S) /\ Len(Append(q, e)) = Len(q) + 1 /\ Len(q) \in Nat
         /\ \A i \in 1..Len(q) : Append(q, e)[i] = q[i]
         /\ Append(q, e)[Len(q) + 1] = e
OBVIOUS

LEMMA TailFacts ==
  ASSUME NEW S, NEW q \in Seq(S), q # <<>>
  PROVE  /\ Tail(q) \in Seq(S) /\ Len(Tail(q)) = Len(q) - 1 /\ Len(q) \in Nat \ {0}
         /\ \A i \in 1..(Len(q) - 1) : Tail(q)[i] = q[i + 1]
         /\ Head(q) = q[1] /\ Head(q) \in S
OBVIOUS

SinkType == [call : BOOLEAN, state : {"AVAILABLE", "IDLE", "RECORDING"},
             open : SUBSET Voice, list : SUBSET Voice]

LEMMA SinkFacts ==
  ASSUME NEW k \in SinkType, NEW v \in Voice
  PROVE  /\ Written(k, v) \in SinkType /\ Ended(k) \in SinkType
         /\ Written(k, v).call = k.call /\ Ended(k).call = k.call
         /\ Written(k, v).open = k.open \cup {v} /\ Written(k, v).list = k.list
         /\ Ended(k).open = {} /\ Ended(k).list = k.list \cup k.open
<1>1. k.open \cup {v} \in SUBSET Voice /\ k.list \cup k.open \in SUBSET Voice
  BY DEF SinkType
<1>2. Written(k, v) = [call |-> k.call, state |-> "RECORDING",
                      open |-> k.open \cup {v}, list |-> k.list]
  BY DEF SinkType, Written
<1>3. Ended(k) = [call |-> k.call, state |-> "IDLE", open |-> {},
                 list |-> k.list \cup k.open]
  BY DEF SinkType, Ended
<1>4. k.call \in BOOLEAN /\ k.list \in SUBSET Voice
  BY DEF SinkType
<1>5. Written(k, v) \in SinkType /\ Ended(k) \in SinkType
  BY <1>1, <1>2, <1>3, <1>4 DEF SinkType
<1>6. QED
  BY <1>2, <1>3, <1>5

\* What one step of a sink does to the sinks and to the history.
LEMMA WorkFacts ==
  ASSUME NEW s \in Slots, Work(s), TypeOK
  PROVE  LET h == Head(chain[s]) IN
         \/ /\ sink[s].call /\ h \in Voice /\ h = chain[s][1] /\ 1 \in 1..Len(chain[s])
            /\ sink' = [sink EXCEPT ![s] = Written(sink[s], h)]
            /\ owner' = [owner EXCEPT ![h] = [call |-> call.num, slot |-> s]]
         \/ /\ sink' = [sink EXCEPT ![s] = Ended(sink[s])]
            /\ owner' = owner
         \/ sink' = sink /\ owner' = owner
<1> DEFINE h == Head(chain[s])
<1>1. /\ h \in Voice \cup {TERM} /\ h = chain[s][1] /\ 1 \in 1..Len(chain[s])
  BY TailFacts DEF Work, TypeOK
<1>2. \/ /\ sink[s].call /\ h # TERM
         /\ sink' = [sink EXCEPT ![s] = Written(@, h)]
         /\ owner' = [owner EXCEPT ![h] = [call |-> call.num, slot |-> s]]
      \/ /\ sink' = [sink EXCEPT ![s] = Ended(@)]
         /\ owner' = owner
      \/ sink' = sink /\ owner' = owner
  BY DEF Work
<1> HIDE DEF h
<1>3. \/ /\ sink[s].call /\ h \in Voice /\ h = chain[s][1] /\ 1 \in 1..Len(chain[s])
         /\ sink' = [sink EXCEPT ![s] = Written(sink[s], h)]
         /\ owner' = [owner EXCEPT ![h] = [call |-> call.num, slot |-> s]]
      \/ /\ sink' = [sink EXCEPT ![s] = Ended(sink[s])]
         /\ owner' = owner
      \/ sink' = sink /\ owner' = owner
  BY <1>1, <1>2
<1>4. QED
  BY <1>3 DEF h

(***************************************************************************)
(* Types                                                                   *)
(***************************************************************************)

LEMMA TypeStep == TypeOK /\ [Next]_vars => TypeOK'
<1> SUFFICES ASSUME TypeOK, [Next]_vars  PROVE TypeOK'
  OBVIOUS
<1> USE ConventionalAssumption, UsedFacts
<1>1. CASE Key \/ Detect \/ Squelch
  BY <1>1 DEF TypeOK, Key, Detect, Squelch, ChainFrame, radio
<1>2. ASSUME NEW s \in Slots, Hear(s)  PROVE TypeOK'
  <2>1. voice + 1 \in Voice /\ voice' \in Nat
    BY <1>2, VoiceFacts DEF Hear, TypeOK
  <2>2. chain' \in [Slots -> Seq(Voice \cup {TERM})]
    <3>1. Append(chain[s], voice + 1) \in Seq(Voice \cup {TERM})
      BY <2>1, AppendFacts DEF TypeOK
    <3>2. QED
      BY <1>2, <3>1 DEF Hear, Push, TypeOK
  <2>3. QED
    BY <1>2, <2>1, <2>2 DEF TypeOK, Hear, ChainFrame
<1>3. ASSUME NEW s \in Slots, EndVoice(s)  PROVE TypeOK'
  <2>1. chain' \in [Slots -> Seq(Voice \cup {TERM})]
    <3>1. Append(chain[s], TERM) \in Seq(Voice \cup {TERM})
      BY AppendFacts DEF TypeOK
    <3>2. QED
      BY <1>3, <3>1 DEF EndVoice, Push, TypeOK
  <2>2. QED
    BY <1>3, <2>1 DEF TypeOK, EndVoice, ChainFrame, radio
<1>4. ASSUME NEW s \in Slots, Work(s)  PROVE TypeOK'
  <2> DEFINE h == Head(chain[s])
  <2>1. Tail(chain[s]) \in Seq(Voice \cup {TERM})
    BY <1>4, TailFacts DEF Work, TypeOK
  <2>2. chain' \in [Slots -> Seq(Voice \cup {TERM})]
    BY <1>4, <2>1 DEF Work, TypeOK
  <2>3. /\ sink \in [Slots -> SinkType]
        /\ owner \in [Voice -> [call : 0..MaxCalls, slot : Slots]]
        /\ [call |-> call.num, slot |-> s] \in [call : 0..MaxCalls, slot : Slots]
    BY DEF TypeOK, SinkType
  <2>4. \/ /\ h \in Voice
           /\ sink' = [sink EXCEPT ![s] = Written(sink[s], h)]
           /\ owner' = [owner EXCEPT ![h] = [call |-> call.num, slot |-> s]]
        \/ sink' = [sink EXCEPT ![s] = Ended(sink[s])] /\ owner' = owner
        \/ sink' = sink /\ owner' = owner
    BY <1>4, WorkFacts
  <2>5. sink[s] \in SinkType /\ Ended(sink[s]) \in SinkType
    <3>1. sink[s] \in SinkType
      BY <2>3
    <3>2. QED
      BY <3>1 DEF Ended, SinkType
  <2> HIDE DEF h
  <2>6. sink' \in [Slots -> SinkType]
    BY <2>3, <2>4, <2>5, SinkFacts
  <2>7. owner' \in [Voice -> [call : 0..MaxCalls, slot : Slots]]
    BY <2>3, <2>4
  <2>8. QED
    BY <1>4, <2>2, <2>6, <2>7 DEF TypeOK, Work, radio, SinkType
<1>5. CASE CheckDetection
  <2>1. main' \in [at : At, slot : Slots] /\ enabled' \in BOOLEAN
    <3>1. enabled \in BOOLEAN /\ detected \in BOOLEAN
      BY DEF TypeOK
    <3>2. enabled' = (enabled \/ detected)
      BY <1>5 DEF CheckDetection
    <3>3. enabled' \in BOOLEAN
      BY <3>1, <3>2
    <3>4. QED
      BY <1>5, <3>3 DEF CheckDetection, Goto, At
  <2>2. QED
    BY <1>5, <2>1 DEF TypeOK, CheckDetection, MainFrame
<1>6. CASE Manage
  <2>1. main' \in [at : At, slot : Slots]
    BY <1>6 DEF Manage, Goto, At
  <2>2. call' \in [num : 1..MaxCalls, state : {"MONITORING", "RECORDING"}, idle_count : Nat]
    <3>1. call' = call \/ call' = [call EXCEPT !.idle_count = IF IsIdle THEN @ + 1 ELSE 0]
      BY <1>6 DEF Manage
    <3>2. QED
      BY <3>1 DEF TypeOK
  <2>3. /\ spoken' \subseteq Slots
        /\ UNCHANGED <<config, carrier, voice, detected, enabled, squelched, chain, owner,
                       sink, recorder, exiting, done>>
    BY <1>6 DEF Manage
  <2>4. QED
    BY <2>1, <2>2, <2>3 DEF TypeOK
<1>7. CASE Judge \/ Exit \/ Stop \/ Start
  <2>1. main' \in [at : At, slot : Slots]
    BY <1>7 DEF Judge, Exit, Stop, Start, Goto, At
  <2>2. CASE Judge
    BY <2>1, <2>2 DEF TypeOK, Judge, MainFrame
  <2>3. CASE Exit
    BY <2>1, <2>3 DEF TypeOK, Exit, MainFrame
  <2>4. CASE Stop
    BY <2>1, <2>4 DEF TypeOK, Stop, MainFrame
  <2>5. CASE Start
    BY <2>1, <2>5 DEF TypeOK, Start, MainFrame
  <2>6. QED
    BY <1>7, <2>2, <2>3, <2>4, <2>5
<1>8. CASE Restart
  BY <1>8 DEF TypeOK, Restart, Goto, MainFrame, At
<1>9. ASSUME NEW s \in Slots, Close(s)  PROVE TypeOK'
  <2>1. main' \in [at : At, slot : Slots]
    BY <1>9 DEF Close, NextSlot, Goto, TypeOK, At
  <2>2. QED
    BY <1>9, <2>1 DEF TypeOK, Close, MainFrame, Held
<1>10. ASSUME NEW s \in Slots, Conclude(s)  PROVE TypeOK'
  <2>1. main' \in [at : At, slot : Slots]
    BY <1>10 DEF Conclude, NextSlot, Goto, TypeOK, At
  <2>2. done' \subseteq [call : 1..MaxCalls, slot : Slots, audio : SUBSET Voice]
    BY <1>10 DEF Conclude, TypeOK
  <2>3. QED
    BY <1>10, <2>1, <2>2 DEF TypeOK, Conclude, MainFrame
<1>11. ASSUME NEW s \in Slots, Open(s)  PROVE TypeOK'
  <2>1. main' \in [at : At, slot : Slots]
    BY <1>11 DEF Open, NextSlot, Goto, TypeOK, At
  <2>2. QED
    BY <1>11, <2>1 DEF TypeOK, Open, MainFrame, Started
<1>12. CASE UNCHANGED vars
  BY <1>12 DEF TypeOK, vars, radio
<1>13. QED
  BY <1>1, <1>2, <1>3, <1>4, <1>5, <1>6, <1>7, <1>8, <1>9, <1>10, <1>11, <1>12
  DEF Next, MainThread

(***************************************************************************)
(* The chain                                                               *)
(***************************************************************************)

LEMMA ChainStep == TypeOK /\ ChainInv /\ [Next]_vars => ChainInv'
<1> SUFFICES ASSUME TypeOK, ChainInv, [Next]_vars  PROVE ChainInv'
  OBVIOUS
<1> USE DEF ChainInv
<1>1. ASSUME UNCHANGED <<chain, voice, owner>>  PROVE ChainInv'
  BY <1>1 DEF OnItsWay, OneWay, Fresh
<1>2. ASSUME NEW s \in Slots, Hear(s)  PROVE ChainInv'
  <2>1. /\ voice \in Nat /\ voice + 1 \in Voice /\ voice + 1 # TERM /\ voice' = voice + 1
        /\ owner' = owner /\ chain[s] \in Seq(Voice \cup {TERM})
        /\ chain' = [chain EXCEPT ![s] = Append(@, voice + 1)]
        /\ chain \in [Slots -> Seq(Voice \cup {TERM})]
    BY <1>2, VoiceFacts DEF Hear, Push, TypeOK, ChainFrame
  <2>2. /\ Len(chain'[s]) = Len(chain[s]) + 1 /\ Len(chain[s]) \in Nat
        /\ \A i \in 1..Len(chain[s]) : chain'[s][i] = chain[s][i]
        /\ chain'[s][Len(chain[s]) + 1] = voice + 1
        /\ \A t \in Slots : t # s => chain'[t] = chain[t]
    BY <2>1, AppendFacts
  <2>3. owner[voice + 1] = NoOwner
    BY <2>1 DEF Fresh
  <2>4. \A t \in Slots : \A i \in 1..Len(chain[t]) :
          chain[t][i] # TERM => chain[t][i] <= voice /\ owner[chain[t][i]] = NoOwner
    BY DEF OnItsWay
  <2>5. \A t \in Slots : \A i \in 1..Len(chain[t]) : chain[t][i] # voice + 1 /\ i \in Nat
    <3> SUFFICES ASSUME NEW t \in Slots, NEW i \in 1..Len(chain[t])
                 PROVE  chain[t][i] # voice + 1
      OBVIOUS
    <3>1. chain[t][i] \in Voice \cup {TERM} 
      BY <2>1
    <3>2. chain[t][i] \in Nat
      BY <3>1, VoiceFacts DEF TERM
    <3>3. chain[t][i] # TERM => chain[t][i] <= voice
      BY <2>4
    <3>4. QED
      BY <2>1, <3>2, <3>3
  <2>6. OnItsWay'
    <3> SUFFICES ASSUME NEW t \in Slots, NEW i \in 1..Len(chain'[t]), chain'[t][i] # TERM
                 PROVE  chain'[t][i] <= voice + 1 /\ owner[chain'[t][i]] = NoOwner
      BY <2>1 DEF OnItsWay
    <3>1. CASE t = s /\ i = Len(chain[s]) + 1
      BY <2>1, <2>2, <2>3, <3>1
    <3>2. CASE ~(t = s /\ i = Len(chain[s]) + 1)
      <4>1. i \in 1..Len(chain[t]) /\ chain'[t][i] = chain[t][i]
        BY <2>2, <3>2
      <4>2. chain[t][i] <= voice /\ owner[chain[t][i]] = NoOwner
        BY <2>4, <4>1
      <4>3. chain[t][i] \in Nat
        BY <2>1, <4>1, VoiceFacts DEF TERM
      <4>4. QED
        BY <2>1, <4>1, <4>2, <4>3
    <3>3. QED
      BY <3>1, <3>2
  <2>7. OneWay'
    <3> SUFFICES ASSUME NEW t \in Slots, NEW u \in Slots,
                        NEW i \in 1..Len(chain'[t]), NEW j \in 1..Len(chain'[u]),
                        chain'[t][i] = chain'[u][j], chain'[t][i] # TERM
                 PROVE  t = u /\ i = j
      BY DEF OneWay
    <3>1. \/ t = s /\ i = Len(chain[s]) + 1 /\ chain'[t][i] = voice + 1
          \/ i \in 1..Len(chain[t]) /\ chain'[t][i] = chain[t][i]
      BY <2>2
    <3>2. \/ u = s /\ j = Len(chain[s]) + 1 /\ chain'[u][j] = voice + 1
          \/ j \in 1..Len(chain[u]) /\ chain'[u][j] = chain[u][j]
      BY <2>2
    <3>3. QED
      BY <2>5, <3>1, <3>2 DEF OneWay
  <2>8. Fresh'
    <3> SUFFICES ASSUME NEW v \in Voice, owner[v] # NoOwner  PROVE v <= voice + 1
      BY <2>1 DEF Fresh
    <3>1. v \in Nat /\ v <= voice
      BY VoiceFacts DEF Fresh
    <3>2. QED
      BY <2>1, <3>1
  <2>9. QED
    BY <2>6, <2>7, <2>8
<1>3. ASSUME NEW s \in Slots, EndVoice(s)  PROVE ChainInv'
  <2>1. /\ owner' = owner /\ voice' = voice /\ chain[s] \in Seq(Voice \cup {TERM})
        /\ chain' = [chain EXCEPT ![s] = Append(@, TERM)]
        /\ chain \in [Slots -> Seq(Voice \cup {TERM})]
    BY <1>3 DEF EndVoice, Push, TypeOK, ChainFrame, radio
  <2>2. /\ Len(chain'[s]) = Len(chain[s]) + 1 /\ Len(chain[s]) \in Nat
        /\ \A i \in 1..Len(chain[s]) : chain'[s][i] = chain[s][i]
        /\ chain'[s][Len(chain[s]) + 1] = TERM
        /\ \A t \in Slots : t # s => chain'[t] = chain[t]
    BY <2>1, AppendFacts
  <2>3. \A t \in Slots : \A i \in 1..Len(chain'[t]) : chain'[t][i] # TERM =>
          i \in 1..Len(chain[t]) /\ chain'[t][i] = chain[t][i]
    BY <2>2
  <2>4. OnItsWay'
    BY <2>1, <2>3 DEF OnItsWay
  <2>5. OneWay'
    BY <2>3 DEF OneWay
  <2>6. QED
    BY <2>1, <2>4, <2>5 DEF Fresh
<1>4. ASSUME NEW s \in Slots, Work(s)  PROVE ChainInv'
  <2> DEFINE h == Head(chain[s])
  <2>1. /\ voice' = voice /\ chain[s] \in Seq(Voice \cup {TERM}) /\ chain[s] # <<>>
        /\ chain' = [chain EXCEPT ![s] = Tail(@)]
        /\ chain \in [Slots -> Seq(Voice \cup {TERM})]
        /\ \/ owner' = owner
           \/ /\ h # TERM
              /\ owner' = [owner EXCEPT ![h] = [call |-> call.num, slot |-> s]]
    BY <1>4 DEF Work, TypeOK, radio
  <2>2. /\ Len(chain'[s]) = Len(chain[s]) - 1 /\ Len(chain[s]) \in Nat \ {0}
        /\ \A i \in 1..(Len(chain[s]) - 1) : chain'[s][i] = chain[s][i + 1]
        /\ \A t \in Slots : t # s => chain'[t] = chain[t]
        /\ h = chain[s][1] /\ h \in Voice \cup {TERM}
    BY <2>1, TailFacts
  <2> HIDE DEF h
  <2>3. \A t \in Slots : \A i \in 1..Len(chain'[t]) : \E k \in 1..Len(chain[t]) :
          /\ chain'[t][i] = chain[t][k]
          /\ k = IF t = s THEN i + 1 ELSE i
    <3> SUFFICES ASSUME NEW t \in Slots, NEW i \in 1..Len(chain'[t])
                 PROVE  \E k \in 1..Len(chain[t]) :
                          chain'[t][i] = chain[t][k] /\ k = IF t = s THEN i + 1 ELSE i
      OBVIOUS
    <3>1. CASE t = s
      BY <2>2, <3>1
    <3>2. CASE t # s
      BY <2>2, <3>2
    <3>3. QED
      BY <3>1, <3>2
  <2>4. \A t \in Slots : \A i \in 1..Len(chain'[t]) : chain'[t][i] # TERM => chain'[t][i] # h
    <3> SUFFICES ASSUME NEW t \in Slots, NEW i \in 1..Len(chain'[t]),
                        chain'[t][i] # TERM, chain'[t][i] = h
                 PROVE  FALSE
      OBVIOUS
    <3>1. PICK k \in 1..Len(chain[t]) :
            chain'[t][i] = chain[t][k] /\ k = IF t = s THEN i + 1 ELSE i
      BY <2>3
    <3>2. 1 \in 1..Len(chain[s]) /\ i \in Nat /\ i >= 1
      BY <2>2
    <3>3. t = s /\ k = 1
      BY <2>2, <3>1, <3>2 DEF OneWay
    <3>4. QED
      BY <3>1, <3>2, <3>3
  <2>5. OnItsWay'
    <3> SUFFICES ASSUME NEW t \in Slots, NEW i \in 1..Len(chain'[t]), chain'[t][i] # TERM
                 PROVE  chain'[t][i] <= voice /\ owner'[chain'[t][i]] = NoOwner
      BY <2>1 DEF OnItsWay
    <3>1. PICK k \in 1..Len(chain[t]) : chain'[t][i] = chain[t][k]
      BY <2>3
    <3>2. chain[t][k] <= voice /\ owner[chain[t][k]] = NoOwner
      BY <3>1 DEF OnItsWay
    <3>3. chain[t][k] \in Voice /\ chain[t][k] # h
      <4>1. chain[t][k] \in Voice \cup {TERM}
        BY <2>1
      <4>2. QED
        BY <2>4, <3>1, <4>1
    <3>4. owner'[chain[t][k]] = owner[chain[t][k]]
      BY <2>1, <3>3 DEF TypeOK
    <3>5. QED
      BY <3>1, <3>2, <3>4
  <2>6. OneWay'
    <3> SUFFICES ASSUME NEW t \in Slots, NEW u \in Slots,
                        NEW i \in 1..Len(chain'[t]), NEW j \in 1..Len(chain'[u]),
                        chain'[t][i] = chain'[u][j], chain'[t][i] # TERM
                 PROVE  t = u /\ i = j
      BY DEF OneWay
    <3>1. PICK k \in 1..Len(chain[t]) :
            chain'[t][i] = chain[t][k] /\ k = IF t = s THEN i + 1 ELSE i
      BY <2>3
    <3>2. PICK l \in 1..Len(chain[u]) :
            chain'[u][j] = chain[u][l] /\ l = IF u = s THEN j + 1 ELSE j
      BY <2>3
    <3>3. t = u /\ k = l
      <4>1. chain[t][k] = chain[u][l] /\ chain[t][k] # TERM
        BY <3>1, <3>2
      <4>2. QED
        BY <4>1 DEF OneWay
    <3>4. i \in Nat /\ j \in Nat
      OBVIOUS
    <3>5. QED
      BY <3>1, <3>2, <3>3, <3>4
  <2>7. Fresh'
    <3>1. CASE owner' = owner
      BY <2>1, <3>1 DEF Fresh
    <3>2. CASE owner' # owner
      <4>1. h <= voice /\ 1 \in 1..Len(chain[s])
        BY <2>1, <2>2, <3>2 DEF OnItsWay
      <4>2. \A v \in Voice : v # h => owner'[v] = owner[v]
        BY <2>1, <3>2 DEF TypeOK
      <4>3. QED
        BY <2>1, <4>1, <4>2 DEF Fresh
    <3>3. QED
      BY <3>1, <3>2
  <2>8. QED
    BY <2>5, <2>6, <2>7
<1>5. CASE \/ Key \/ Detect \/ Squelch \/ MainThread \/ Exit \/ UNCHANGED vars
  BY <1>1, <1>5
  DEF Key, Detect, Squelch, MainThread, CheckDetection, Manage, Judge, Stop, Restart, Start,
      Close, Conclude, Open, Exit, ChainFrame, MainFrame, vars, radio
<1>6. QED
  BY <1>2, <1>3, <1>4, <1>5 DEF Next

(***************************************************************************)
(* The call                                                                *)
(***************************************************************************)

LEMMA InitInv == Init => IInv
<1> SUFFICES ASSUME Init  PROVE IInv
  OBVIOUS
<1> USE ConventionalAssumption, UsedFacts
<1>1. /\ sink \in [Slots -> SinkType]
      /\ \A s \in Slots : Held(s) = {} /\ sink[s].open = {} /\ (sink[s].call => s \in Used)
      /\ chain = [s \in Slots |-> <<>>] /\ owner = [v \in Voice |-> NoOwner]
      /\ done = {} /\ main = [at |-> "check", slot |-> 0]
  <2>1. \A s \in Slots : \/ sink[s] = Unused
                         \/ sink[s] = Started /\ s = 0
    BY DEF Init
  <2>2. sink = [s \in Slots |-> sink[s]]
    BY DEF Init
  <2>3. Unused \in SinkType /\ Started \in SinkType
    BY DEF SinkType, Started, Unused
  <2>4. sink \in [Slots -> SinkType]
    BY <2>1, <2>2, <2>3
  <2>5. \A s \in Slots : Held(s) = {} /\ sink[s].open = {} /\ (sink[s].call => s \in Used)
    BY <2>1 DEF Started, Unused, Held
  <2>6. QED
    BY <2>4, <2>5 DEF Init
<1>2. TypeOK
  <2>1. chain \in [Slots -> Seq(Voice \cup {TERM})]
    BY <1>1
  <2>2. owner \in [Voice -> [call : 0..MaxCalls, slot : Slots]]
    <3>1. NoOwner \in [call : 0..MaxCalls, slot : Slots]
      BY DEF NoOwner
    <3>2. QED
      BY <1>1, <3>1
  <2>3. main \in [at : At, slot : Slots]
    BY <1>1 DEF At
  <2>4. /\ call \in [num : 1..MaxCalls, state : {"MONITORING", "RECORDING"}, idle_count : Nat]
        /\ enabled \in BOOLEAN /\ recorder \in {"INACTIVE", "ACTIVE"}
        /\ spoken \subseteq Slots /\ voice \in Nat
    <3>1. config.detection \in BOOLEAN
      BY DEF Init, ConfigType
    <3>2. QED
      BY <3>1 DEF Init
  <2>5. QED
    BY <1>1, <2>1, <2>2, <2>3, <2>4 DEF TypeOK, Init, SinkType
<1>3. ChainInv
  <2>1. \A s \in Slots : Len(chain[s]) = 0
    BY <1>1
  <2>2. OnItsWay /\ OneWay
    BY <2>1 DEF OnItsWay, OneWay
  <2>3. Fresh
    BY <1>1 DEF Fresh
  <2>4. QED
    BY <2>2, <2>3 DEF ChainInv
<1>4. CallInv
  <2>1. Mine /\ Filed /\ NothingLost /\ Finished
    BY <1>1 DEF Mine, Filed, NothingLost, Finished
  <2>2. Writable /\ Shut /\ SlotsUsed
    BY <1>1 DEF Writable, Shut, SlotsUsed, Loop
  <2>3. Unstarted
    <3>1. recorder = "INACTIVE" \/ call.state = "MONITORING" =>
            \A s \in Slots : ~sink[s].call
      BY DEF Init, Unused
    <3>2. QED
      BY <1>1, <3>1 DEF Unstarted
  <2>4. QED
    BY <2>1, <2>2, <2>3 DEF CallInv
<1>5. QED
  BY <1>2, <1>3, <1>4 DEF IInv

\* A step that leaves what the sinks hold and where the main thread is.
LEMMA SameHeld ==
  ASSUME CallInv, UNCHANGED <<config, recorder, call, main, done, owner>>,
         \A s \in Slots : /\ Held(s)' = Held(s) /\ sink'[s].call = sink[s].call
                          /\ ~sink[s].call => sink'[s].open = sink[s].open
  PROVE  CallInv'
<1> USE DEF CallInv, Used, Stale, Passed, Concluded
<1>1. Mine' /\ Filed'
  BY DEF Mine, Filed
<1>2. NothingLost' /\ Finished'
  BY DEF NothingLost, Finished
<1>3. Writable' /\ Shut' /\ Unstarted' /\ SlotsUsed'
  BY DEF Writable, Shut, Unstarted, SlotsUsed
<1>4. QED
  BY <1>1, <1>2, <1>3

\* A buffer is written while the slot's sink has the call.
LEMMA WorkStep ==
  ASSUME TypeOK, ChainInv, CallInv, NEW s \in Slots, Work(s)
  PROVE  CallInv'
<1> DEFINE h == Head(chain[s])
<1>1. /\ UNCHANGED <<config, recorder, call, main, done>>
      /\ sink \in [Slots -> SinkType] /\ sink[s] \in SinkType
      /\ owner \in [Voice -> [call : 0..MaxCalls, slot : Slots]]
      /\ call.num \in Nat \ {0}
      /\ \A r \in done : r.call \in Nat \ {0}
  BY ConventionalAssumption DEF Work, TypeOK, SinkType
<1>2. CASE sink' = sink /\ owner' = owner
  BY <1>1, <1>2, SameHeld DEF Held
<1>3. CASE sink' = [sink EXCEPT ![s] = Ended(sink[s])] /\ owner' = owner
  <2>1. ASSUME NEW t \in Slots
        PROVE  /\ Held(t)' = Held(t) /\ sink'[t].call = sink[t].call
               /\ ~sink[t].call => sink'[t].open = sink[t].open
    <3>1. CASE t # s
      BY <1>1, <1>3, <3>1 DEF Held
    <3>2. CASE t = s
      <4>1. sink'[t] = Ended(sink[t])
        BY <1>1, <1>3, <3>2
      <4>2. ~sink[t].call => sink[t].open = {}
        BY DEF CallInv, Shut
      <4>3. QED
        BY <4>1, <4>2 DEF Ended, Held
    <3>3. QED
      BY <3>1, <3>2
  <2>2. QED
    BY <1>1, <1>3, <2>1, SameHeld
<1>4. CASE /\ sink[s].call /\ h \in Voice /\ h = chain[s][1] /\ 1 \in 1..Len(chain[s])
           /\ sink' = [sink EXCEPT ![s] = Written(sink[s], h)]
           /\ owner' = [owner EXCEPT ![h] = [call |-> call.num, slot |-> s]]
  <2> HIDE DEF h
  <2>1. owner[h] = NoOwner
    BY <1>4, VoiceFacts DEF ChainInv, OnItsWay
  <2>2. /\ Held(s)' = Held(s) \cup {h}
        /\ \A t \in Slots : t # s => Held(t)' = Held(t)
        /\ \A t \in Slots : sink'[t].call = sink[t].call
        /\ \A t \in Slots : t # s => sink'[t].open = sink[t].open
    <3>1. sink'[s] = Written(sink[s], h) /\ \A t \in Slots : t # s => sink'[t] = sink[t]
      BY <1>1, <1>4
    <3>2. /\ Written(sink[s], h).call = sink[s].call
          /\ Written(sink[s], h).open = sink[s].open \cup {h}
          /\ Written(sink[s], h).list = sink[s].list
      BY <1>1, <1>4, SinkFacts
    <3>3. QED
      BY <3>1, <3>2 DEF Held
  <2>3. /\ owner'[h] = [call |-> call.num, slot |-> s]
        /\ \A v \in Voice : v # h => owner'[v] = owner[v]
    BY <1>1, <1>4
  <2>4. ~Stale(s) /\ ~Passed(s) /\ s \in Used
    <3>1. /\ s \in Used
          /\ \/ main.at \in Loop \cup {"start", "exited"}
             \/ main.at = "close" /\ s >= main.slot
             \/ main.at = "open" /\ s < main.slot
      BY <1>4 DEF CallInv, Writable
    <3>2. s \in Nat /\ main.slot \in Nat
      BY UsedFacts DEF TypeOK
    <3>3. QED
      BY <3>1, <3>2 DEF Passed, Stale, Loop
  <2>5. \A t \in Slots : \A v \in Held(t) : v \in Voice
    BY <1>1 DEF Held, SinkType
  <2>6. \A r \in done : \A v \in r.audio : v \in Voice
    BY DEF TypeOK
  <2>7. Mine'
    <3> SUFFICES ASSUME NEW t \in Slots, ~Stale(t), NEW v \in Held(t)'
                 PROVE  owner'[v] = [call |-> call.num, slot |-> t]
      BY <1>1 DEF Mine, Stale
    <3>1. CASE v \in Held(t)
      <4>1. owner[v] = [call |-> call.num, slot |-> t]
        BY <3>1 DEF CallInv, Mine
      <4>2. v # h
        BY <1>1, <2>1, <4>1 DEF NoOwner
      <4>3. QED
        BY <2>3, <2>5, <3>1, <4>1, <4>2
    <3>2. CASE v \notin Held(t)
      BY <2>2, <2>3, <3>2
    <3>3. QED
      BY <3>1, <3>2
  <2>8. Filed'
    <3>1. ASSUME NEW r \in done, NEW v \in r.audio
          PROVE  owner'[v] = [call |-> r.call, slot |-> r.slot]
      <4>1. owner[v] = [call |-> r.call, slot |-> r.slot]
        BY DEF CallInv, Filed
      <4>2. v # h
        BY <1>1, <2>1, <4>1 DEF NoOwner
      <4>3. QED
        BY <2>3, <2>6, <4>1, <4>2
    <3>2. QED
      BY <1>1, <3>1 DEF CallInv, Filed
  <2>9. NothingLost'
    <3> SUFFICES ASSUME NEW t \in Slots, NEW v \in Voice,
                        owner'[v] # NoOwner, owner'[v].slot = t
                 PROVE  v \in Held(t)' \cup Concluded
      BY <1>1 DEF NothingLost, Concluded
    <3>1. CASE v = h
      BY <2>2, <2>3, <3>1
    <3>2. CASE v # h
      BY <2>2, <2>3, <3>2 DEF CallInv, NothingLost
    <3>3. QED
      BY <3>1, <3>2
  <2>10. Finished'
    BY <1>1, <2>2, <2>4 DEF CallInv, Finished, Passed, Stale, Concluded
  <2>11. Writable' /\ Shut'
    BY <1>1, <1>4, <2>2 DEF CallInv, Writable, Shut, Used
  <2>12. Unstarted'
    BY <1>1, <1>4, <2>2 DEF CallInv, Unstarted
  <2>13. SlotsUsed'
    BY <1>1, <2>2, <2>4 DEF CallInv, SlotsUsed, Used
  <2>14. QED
    BY <2>7, <2>8, <2>9, <2>10, <2>11, <2>12, <2>13 DEF CallInv
<1>5. QED
  BY <1>2, <1>3, <1>4, WorkFacts

\* A step of the main thread that leaves the sinks and the filed calls, to a
\* step of the loop or the first one of a restart.
LEMMA Walk ==
  ASSUME TypeOK, CallInv, UNCHANGED <<config, sink, done, owner>>, call'.num = call.num,
         main.at \in Loop \cup {"start"}, main' = [at |-> main'.at, slot |-> 0],
         main'.at \in Loop \cup {"close", "exited"}, Unstarted'
  PROVE  CallInv'
<1> USE UsedFacts
<1>1. \A s \in Slots : /\ ~Stale(s) /\ ~Stale(s)' /\ ~Passed(s)'
                       /\ Held(s)' = Held(s)
  BY DEF Stale, Passed, Loop, Held
<1>2. Mine' /\ Filed'
  BY <1>1 DEF CallInv, Mine, Filed, Loop
<1>3. NothingLost' /\ Finished'
  BY <1>1 DEF CallInv, NothingLost, Finished, Concluded
<1>4. Writable' /\ Shut' /\ SlotsUsed'
  <2>1. \A s \in Slots : s \in Nat /\ s >= 0
    OBVIOUS
  <2>2. QED
    BY <1>1, <2>1 DEF CallInv, Writable, Shut, SlotsUsed, Used
<1>5. QED
  BY <1>2, <1>3, <1>4 DEF CallInv

LEMMA LoopStep ==
  ASSUME TypeOK, CallInv, CheckDetection \/ Judge \/ Exit \/ Stop \/ Start
  PROVE  CallInv'
<1>1. /\ UNCHANGED <<config, sink, done, owner>> /\ main.at \in Loop \cup {"start"}
      /\ main' = [at |-> main'.at, slot |-> 0] /\ main'.at \in Loop \cup {"close", "exited"}
  BY DEF CheckDetection, Judge, Exit, Stop, Start, Goto, MainFrame, Loop
<1>2. call'.num = call.num
  BY DEF CheckDetection, Judge, Exit, Stop, Start, TypeOK
<1>3. Unstarted'
  <2>1. CASE CheckDetection
    BY <2>1 DEF CheckDetection, CallInv, Unstarted, Goto, MainFrame, Held
  <2>2. CASE Judge
    BY <2>2 DEF Judge, CallInv, Unstarted, Goto, MainFrame, Held
  <2>3. CASE Exit
    BY <2>3 DEF Exit, Unstarted, Goto
  <2>4. CASE Stop
    BY <2>4 DEF Stop, Unstarted, Goto
  <2>5. CASE Start
    BY <2>5 DEF Start, Unstarted, Goto, TypeOK
  <2>6. QED
    BY <2>1, <2>2, <2>3, <2>4, <2>5
<1>4. QED
  BY <1>1, <1>2, <1>3, Walk

LEMMA ManageStep ==
  ASSUME TypeOK, CallInv, Manage
  PROVE  CallInv'
<1> USE UsedFacts
<1>1. /\ UNCHANGED <<config, sink, recorder, done, owner>> /\ main.at = "manage"
      /\ call'.num = call.num /\ call'.state = call.state
      /\ \/ main' = [at |-> "judge", slot |-> 0] \/ main' = [at |-> "check", slot |-> 0]
         \/ main' = [at |-> "open", slot |-> 0] /\ recorder = "INACTIVE"
  BY DEF Manage, Goto, TypeOK
<1>2. CASE main'.at # "open"
  <2>1. Unstarted'
    BY <1>1 DEF CallInv, Unstarted, Held
  <2>2. QED
    BY <1>1, <1>2, <2>1, Walk DEF Loop
<1>3. CASE main' = [at |-> "open", slot |-> 0] /\ recorder = "INACTIVE"
  <2>1. \A s \in Slots : /\ ~sink'[s].call /\ Held(s) = {} /\ Held(s)' = {} /\ Stale(s)'
                         /\ ~Stale(s)
    <3>1. \A s \in Slots : s >= 0
      OBVIOUS
    <3>2. QED
      BY <1>1, <1>3, <3>1 DEF CallInv, Unstarted, Stale, Held
  <2>2. Mine' /\ Filed'
    BY <1>1, <1>3, <2>1 DEF CallInv, Mine, Filed
  <2>3. NothingLost' /\ Finished'
    BY <1>1, <2>1 DEF CallInv, NothingLost, Finished, Concluded
  <2>4. Writable' /\ Shut' /\ Unstarted' /\ SlotsUsed'
    BY <1>1, <1>3, <2>1 DEF CallInv, Writable, Shut, Unstarted, SlotsUsed, Used
  <2>5. QED
    BY <2>2, <2>3, <2>4 DEF CallInv
<1>4. QED
  BY <1>1, <1>2, <1>3

LEMMA RestartStep ==
  ASSUME TypeOK, CallInv, Restart
  PROVE  CallInv'
<1> USE UsedFacts
<1>1. /\ UNCHANGED <<config, sink, recorder, done, owner>> /\ main.at = "restart"
      /\ call'.num = call.num + 1 /\ call.num \in Nat
      /\ main' = [at |-> "open", slot |-> 0]
      /\ \A r \in done : r.call \in Nat
  BY ConventionalAssumption DEF Restart, Goto, MainFrame, TypeOK
<1>2. \A s \in Slots : Held(s)' = Held(s) /\ Passed(s) /\ Stale(s)' /\ ~sink[s].call
  <2>1. \A s \in Slots : s >= 0
    OBVIOUS
  <2>2. QED
    BY <1>1, <2>1 DEF CallInv, Writable, Loop, Held, Passed, Stale
<1>3. Mine'
  BY <1>2 DEF Mine
<1>4. Filed'
  BY <1>1 DEF CallInv, Filed
<1>5. NothingLost' /\ Finished'
  BY <1>1, <1>2 DEF CallInv, NothingLost, Finished, Concluded
<1>6. Writable' /\ Shut' /\ Unstarted' /\ SlotsUsed'
  BY <1>1, <1>2 DEF CallInv, Writable, Shut, Unstarted, SlotsUsed, Used
<1>7. QED
  BY <1>3, <1>4, <1>5, <1>6 DEF CallInv

LEMMA CloseStep ==
  ASSUME TypeOK, CallInv, NEW s \in Slots, Close(s)
  PROVE  CallInv'
<1> USE UsedFacts
<1>1. /\ UNCHANGED <<config, recorder, call, done, owner>>
      /\ main = [at |-> "close", slot |-> s] /\ sink \in [Slots -> SinkType]
      /\ \/ main' = [at |-> "close", slot |-> s + 1] /\ s + 1 \in Used
         \/ main' = [at |-> "conclude", slot |-> 0] /\ s + 1 \notin Used
  BY DEF Close, NextSlot, Goto, MainFrame, TypeOK, SinkType
<1>2. s \in Nat /\ \A t \in Slots : t \in Nat /\ (t > s => t = s + 1)
  BY DEF Slots
<1>3. /\ \A t \in Slots : t # s => sink'[t] = sink[t]
      /\ ~sink'[s].call /\ sink'[s].open = {} /\ sink'[s].list = Held(s)
  BY <1>1 DEF Close
<1>4. \A t \in Slots : /\ Held(t)' = Held(t)
                       /\ ~Stale(t) /\ ~Stale(t)' /\ ~Passed(t)'
  <2>1. \A t \in Slots : Held(t)' = Held(t)
    BY <1>3 DEF Held
  <2>2. \A t \in Slots : ~Stale(t) /\ ~Stale(t)' /\ ~Passed(t)'
    BY <1>1, <1>2 DEF Stale, Passed
  <2>3. QED
    BY <2>1, <2>2
<1>5. Mine' /\ Filed'
  BY <1>1, <1>4 DEF CallInv, Mine, Filed
<1>6. NothingLost' /\ Finished'
  BY <1>1, <1>4 DEF CallInv, NothingLost, Finished, Concluded
<1>7. Writable'
  <2> SUFFICES ASSUME NEW t \in Slots, sink'[t].call
               PROVE  t \in Used /\ main'.at = "close" /\ t >= main'.slot
    BY <1>1 DEF Writable, Used
  <2>1. t # s /\ sink[t].call
    BY <1>3
  <2>2. t \in Used /\ t >= s
    BY <1>1, <2>1 DEF CallInv, Writable, Loop
  <2>3. t = s + 1
    BY <1>2, <2>1, <2>2
  <2>4. QED
    BY <1>1, <2>2, <2>3, <1>2
<1>8. Shut' /\ Unstarted' /\ SlotsUsed'
  BY <1>1, <1>3, <1>4 DEF CallInv, Shut, Unstarted, SlotsUsed, Used
<1>9. QED
  BY <1>5, <1>6, <1>7, <1>8 DEF CallInv

LEMMA ConcludeStep ==
  ASSUME TypeOK, CallInv, NEW s \in Slots, Conclude(s)
  PROVE  CallInv'
<1> USE UsedFacts
<1>1. /\ UNCHANGED <<config, sink, recorder, call, owner>>
      /\ main = [at |-> "conclude", slot |-> s]
      /\ \/ main' = [at |-> "conclude", slot |-> s + 1] /\ s + 1 \in Used
         \/ /\ main' = [at |-> "restart", slot |-> 0] \/ main' = [at |-> "exited", slot |-> 0]
            /\ s + 1 \notin Used
      /\ call.num \in Nat
  BY ConventionalAssumption DEF Conclude, NextSlot, Goto, MainFrame, TypeOK
<1>2. s \in Nat /\ \A t \in Slots : t \in Nat /\ (t > s => t = s + 1)
  BY DEF Slots
<1>3. \A t \in Slots : /\ ~sink[t].call /\ sink[t].open = {} /\ Held(t) = sink[t].list
                       /\ Held(t)' = Held(t) /\ ~Stale(t) /\ ~Stale(t)'
  BY <1>1 DEF CallInv, Writable, Shut, Loop, Held, Stale
<1>4. /\ Concluded' = Concluded \cup Held(s)
      /\ \A r \in done' : r \in done \/ r = [call |-> call.num, slot |-> s, audio |-> Held(s)]
  <2>1. \/ done' = done /\ Held(s) = {}
        \/ done' = done \cup {[call |-> call.num, slot |-> s, audio |-> Held(s)]}
    BY <1>3 DEF Conclude
  <2>2. CASE done' = done /\ Held(s) = {}
    BY <2>2 DEF Concluded
  <2>3. CASE done' = done \cup {[call |-> call.num, slot |-> s, audio |-> Held(s)]}
    <3> DEFINE new == [call |-> call.num, slot |-> s, audio |-> Held(s)]
    <3>1. done' = done \cup {new} /\ new.audio = Held(s)
      BY <2>3
    <3> HIDE DEF new
    <3>2. \A x : x \in Concluded' <=> x \in Concluded \cup Held(s)
      BY <3>1 DEF Concluded
    <3>3. Concluded' = Concluded \cup Held(s)
      BY <3>2
    <3>4. QED
      BY <2>3, <3>3
  <2>4. QED
    BY <2>1, <2>2, <2>3
<1>5. Mine'
  BY <1>1, <1>3 DEF CallInv, Mine
<1>6. Filed'
  <2> SUFFICES ASSUME NEW r \in done'
               PROVE  /\ r.call <= call.num
                      /\ \A v \in r.audio : owner[v] = [call |-> r.call, slot |-> r.slot]
    BY <1>1 DEF Filed
  <2>1. CASE r \in done
    BY <2>1 DEF CallInv, Filed
  <2>2. CASE r = [call |-> call.num, slot |-> s, audio |-> Held(s)]
    <3>1. \A v \in Held(s) : owner[v] = [call |-> call.num, slot |-> s]
      BY <1>3 DEF CallInv, Mine
    <3>2. QED
      BY <1>1, <2>2, <3>1
  <2>3. QED
    BY <1>4, <2>1, <2>2
<1>7. NothingLost'
  BY <1>1, <1>3, <1>4 DEF CallInv, NothingLost
<1>8. Finished'
  <2> SUFFICES ASSUME NEW t \in Slots, Passed(t)'  PROVE Held(t) \subseteq Concluded'
    BY <1>3 DEF Finished
  <2>1. CASE t = s
    BY <1>4, <2>1
  <2>2. CASE t < s
    BY <1>1, <1>4, <2>2 DEF CallInv, Finished, Passed
  <2>3. CASE t > s
    <3>1. t = s + 1
      BY <1>2, <2>3
    <3>2. t \notin Used
      BY <1>1, <1>2, <1>3, <3>1 DEF Passed
    <3>3. QED
      BY <3>2 DEF CallInv, SlotsUsed
  <2>4. QED
    BY <1>2, <2>1, <2>2, <2>3
<1>9. Writable' /\ Shut' /\ Unstarted' /\ SlotsUsed'
  BY <1>1, <1>3 DEF CallInv, Writable, Shut, Unstarted, SlotsUsed, Used
<1>10. QED
  BY <1>5, <1>6, <1>7, <1>8, <1>9 DEF CallInv

LEMMA OpenStep ==
  ASSUME TypeOK, CallInv, NEW s \in Slots, Open(s)
  PROVE  CallInv'
<1> USE UsedFacts
<1>1. /\ UNCHANGED <<config, recorder, call, done, owner>>
      /\ main = [at |-> "open", slot |-> s] /\ sink \in [Slots -> SinkType]
      /\ \/ main' = [at |-> "open", slot |-> s + 1] /\ s + 1 \in Used
         \/ main' = [at |-> "start", slot |-> 0] /\ s + 1 \notin Used
  BY DEF Open, NextSlot, Goto, MainFrame, TypeOK, SinkType
<1>2. s \in Nat /\ \A t \in Slots : t \in Nat /\ (t > s => t = s + 1)
  BY DEF Slots
<1>3. /\ \A t \in Slots : t # s => sink'[t] = sink[t] /\ Held(t)' = Held(t)
      /\ sink'[s].open = {} /\ Held(s)' = {} /\ Held(s) \subseteq Concluded
      /\ s \in Used
  <2>1. /\ sink'[s] = Started /\ \A t \in Slots : t # s => sink'[t] = sink[t]
    BY <1>1 DEF Open
  <2>2. Held(s) \subseteq Concluded /\ s \in Used
    BY <1>1, <1>2 DEF CallInv, Finished, SlotsUsed, Passed, Stale
  <2>3. \A t \in Slots : t # s => Held(t)' = Held(t)
    BY <2>1 DEF Held
  <2>4. sink'[s].open = {} /\ Held(s)' = {}
    BY <2>1 DEF Held, Started
  <2>5. QED
    BY <2>1, <2>2, <2>3, <2>4
<1>4. Mine'
  <2> SUFFICES ASSUME NEW t \in Slots, ~Stale(t)', NEW v \in Held(t)'
               PROVE  owner[v] = [call |-> call.num, slot |-> t]
    BY <1>1 DEF Mine
  <2>1. t # s /\ v \in Held(t)
    BY <1>3
  <2>2. CASE t < s
    <3>1. ~Stale(t)
      BY <1>1, <1>2, <2>2 DEF Stale
    <3>2. QED
      BY <2>1, <3>1 DEF CallInv, Mine
  <2>3. CASE t > s
    <3>1. t = s + 1
      BY <1>2, <2>3
    <3>2. t \notin Used
      BY <1>1, <1>2, <3>1 DEF Stale
    <3>3. QED
      BY <2>1, <3>2 DEF CallInv, SlotsUsed
  <2>4. t < s \/ t > s
    <3>1. t \in Nat /\ s \in Nat
      BY <1>2
    <3>2. QED
      BY <2>1, <3>1
  <2>5. QED
    BY <2>2, <2>3, <2>4
<1>5. Filed'
  BY <1>1 DEF CallInv, Filed
<1>6. NothingLost'
  BY <1>1, <1>3 DEF CallInv, NothingLost, Concluded
<1>7. Finished'
  <2> SUFFICES ASSUME NEW t \in Slots, Passed(t)'  PROVE Held(t)' \subseteq Concluded
    BY <1>1 DEF Finished, Concluded
  <2>1. t > s /\ Stale(t)
    BY <1>1, <1>2 DEF Passed, Stale
  <2>2. QED
    BY <1>3, <2>1 DEF CallInv, Finished, Passed
<1>8. Writable'
  <2> SUFFICES ASSUME NEW t \in Slots, sink'[t].call
               PROVE  /\ t \in Used
                      /\ \/ main'.at = "start"
                         \/ main'.at = "open" /\ t < main'.slot
    BY <1>1 DEF Writable, Used
  <2>1. t = s \/ (t \in Used /\ t < s)
    BY <1>1, <1>3 DEF CallInv, Writable, Loop
  <2>2. QED
    BY <1>1, <1>2, <1>3, <2>1
<1>9. Shut' /\ Unstarted' /\ SlotsUsed'
  BY <1>1, <1>3 DEF CallInv, Shut, Unstarted, SlotsUsed, Used
<1>10. QED
  BY <1>4, <1>5, <1>6, <1>7, <1>8, <1>9 DEF CallInv

LEMMA CallStep == TypeOK /\ ChainInv /\ CallInv /\ [Next]_vars => CallInv'
<1> SUFFICES ASSUME TypeOK, ChainInv, CallInv, [Next]_vars  PROVE CallInv'
  OBVIOUS
<1>1. ASSUME UNCHANGED <<config, sink, recorder, call, main, done, owner>>  PROVE CallInv'
  BY <1>1, SameHeld DEF Held
<1>2. CASE \/ Key \/ Detect \/ Squelch \/ UNCHANGED vars
           \/ \E s \in Slots : Hear(s) \/ EndVoice(s)
  BY <1>1, <1>2 DEF Key, Detect, Squelch, Hear, EndVoice, ChainFrame, vars
<1>3. CASE \E s \in Slots : Work(s)
  BY <1>3, WorkStep
<1>4. CASE MainThread \/ Exit
  BY <1>4, LoopStep, ManageStep, RestartStep, CloseStep, ConcludeStep, OpenStep DEF MainThread
<1>5. QED
  BY <1>2, <1>3, <1>4 DEF Next

(***************************************************************************)
(* Theorems                                                                *)
(***************************************************************************)

\* The inductive invariant holds in every reachable state.
THEOREM Invariant == Spec => []IInv
<1>1. Init => IInv
  BY InitInv
<1>2. IInv /\ [Next]_vars => IInv'
  BY TypeStep, ChainStep, CallStep DEF IInv
<1>3. QED
  BY <1>1, <1>2, PTL DEF Spec

\* Every variable keeps its type, for any configuration.
THEOREM TypeCorrect == Spec => []TypeOK
<1>1. IInv => TypeOK
  BY DEF IInv
<1>2. QED
  BY <1>1, Invariant, PTL

\* conclude_call and restart_call lose no audio and file none twice, whatever
\* the scheduler writes between their steps.
THEOREM KeepsOnce == Spec => []KeptOnce
<1>1. IInv => KeptOnce
  <2> SUFFICES ASSUME TypeOK, CallInv  PROVE KeptOnce
    BY DEF IInv
  <2>1. \A r \in done : \A v \in Voice :
          v \in r.audio => owner[v] = [call |-> r.call, slot |-> r.slot]
    BY DEF CallInv, Filed
  <2>2. ASSUME NEW v \in Voice, owner[v] # NoOwner
        PROVE  v \in Held(owner[v].slot) \cup Concluded
    <3>1. owner[v].slot \in Slots
      BY DEF TypeOK
    <3>2. QED
      BY <2>2, <3>1 DEF CallInv, NothingLost
  <2>3. ASSUME main.at \in Loop \cup {"close"}, NEW s \in Slots
        PROVE  Held(s) \cap Concluded = {}
    <3> SUFFICES ASSUME NEW v \in Held(s), NEW r \in done, v \in r.audio  PROVE FALSE
      BY DEF Concluded
    <3>1. owner[v] = [call |-> call.num, slot |-> s]
      BY <2>3 DEF CallInv, Mine, Stale, Loop
    <3>2. owner[v] = [call |-> r.call, slot |-> r.slot] /\ r.call < call.num
      BY <2>3 DEF CallInv, Filed, Loop
    <3>3. call.num \in Nat /\ r.call \in Nat
      BY ConventionalAssumption DEF TypeOK
    <3>4. QED
      BY <3>1, <3>2, <3>3
  <2>4. QED
    BY <2>1, <2>2, <2>3 DEF KeptOnce, Loop
<1>2. QED
  BY <1>1, Invariant, PTL

(***************************************************************************)
(* The refinement of CallFiling                                            *)
(***************************************************************************)

\* The slots of a call are filed in their order, and no sink is open after exit.
FileInv ==
  /\ \A r \in done : r.call = call.num /\ main.at = "conclude" => r.slot < main.slot
  /\ main.at = "exited" => \A s \in Slots : ~sink[s].call

LEMMA DoneFacts ==
  TypeOK => call.num \in Nat /\ \A r \in done : r.call \in Nat /\ r.slot \in Nat
<1>1. TypeOK => call.num \in Nat
  BY ConventionalAssumption DEF TypeOK
<1>2. ASSUME TypeOK, NEW r \in done  PROVE r.call \in Nat /\ r.slot \in Nat
  <2>1. r \in [call : 1..MaxCalls, slot : Slots, audio : SUBSET Voice]
    BY <1>2 DEF TypeOK
  <2>2. r.call \in 1..MaxCalls /\ r.slot \in Slots
    BY <2>1
  <2>3. QED
    BY <2>2, ConventionalAssumption DEF Slots
<1>3. QED
  BY <1>1, <1>2

LEMMA FileStep == TypeOK /\ CallInv /\ FileInv /\ [Next]_vars => FileInv'
<1> SUFFICES ASSUME TypeOK, CallInv, FileInv, [Next]_vars PROVE FileInv'
  OBVIOUS
<1> USE UsedFacts
<1>1. ASSUME UNCHANGED <<done, main>>, call'.num = call.num,
             \A s \in Slots : sink'[s].call => sink[s].call
      PROVE  FileInv'
  BY <1>1 DEF FileInv
<1>2. ASSUME main'.at \notin {"conclude", "exited"} PROVE FileInv'
  BY <1>2 DEF FileInv
<1>3. CASE \/ Key \/ Detect \/ Squelch \/ UNCHANGED vars
           \/ \E s \in Slots : Hear(s) \/ EndVoice(s)
  BY <1>1, <1>3 DEF Key, Detect, Squelch, Hear, EndVoice, ChainFrame, vars
<1>4. ASSUME NEW s \in Slots, Work(s) PROVE FileInv'
  <2>1. UNCHANGED <<done, main, call>> /\ sink \in [Slots -> SinkType]
    BY <1>4 DEF Work, TypeOK, SinkType
  <2>2. \A t \in Slots : sink'[t].call => sink[t].call
    <3>1. \/ /\ Head(chain[s]) \in Voice
             /\ sink' = [sink EXCEPT ![s] = Written(sink[s], Head(chain[s]))]
          \/ sink' = [sink EXCEPT ![s] = Ended(sink[s])]
          \/ sink' = sink
      BY <1>4, WorkFacts
    <3>2. ASSUME NEW k, k.call = sink[s].call, sink' = [sink EXCEPT ![s] = k]
          PROVE  \A t \in Slots : sink'[t].call => sink[t].call
      BY <2>1, <3>2
    <3>3. \A v : Written(sink[s], v).call = sink[s].call /\ Ended(sink[s]).call = sink[s].call
      BY DEF Written, Ended
    <3>4. QED
      BY <3>1, <3>2, <3>3
  <2>3. QED
    BY <1>1, <2>1, <2>2
<1>5. CASE CheckDetection \/ Manage \/ Judge \/ Stop \/ Restart \/ Start
  <2>1. main'.at \notin {"conclude", "exited"}
    BY <1>5 DEF CheckDetection, Manage, Judge, Stop, Restart, Start, Goto
  <2>2. QED
    BY <1>2, <2>1
<1>6. CASE Exit
  <2>1. /\ main.at = "check" /\ UNCHANGED <<done, sink, call>>
        /\ \/ main' = [at |-> "stop", slot |-> 0]
           \/ main' = [at |-> "exited", slot |-> 0] /\ call.state # "RECORDING"
    BY <1>6 DEF Exit, Goto, MainFrame
  <2>2. call.state # "RECORDING" => \A s \in Slots : ~sink[s].call
    BY <2>1 DEF CallInv, Unstarted, TypeOK
  <2>3. QED
    BY <2>1, <2>2 DEF FileInv
<1>7. ASSUME NEW s \in Slots, Close(s) PROVE FileInv'
  <2>1. /\ UNCHANGED <<done, call>> /\ main.at = "close"
        /\ main'.at \in {"close", "conclude"}
    BY <1>7 DEF Close, NextSlot, Goto, MainFrame
  <2>2. \A r \in done : r.call < call.num
    BY <2>1 DEF CallInv, Filed
  <2>3. \A r \in done : r.call # call.num
    BY <2>2, DoneFacts
  <2>4. QED
    BY <2>1, <2>3 DEF FileInv
<1>8. ASSUME NEW s \in Slots, Conclude(s) PROVE FileInv'
  <2>1. /\ UNCHANGED <<sink, call>> /\ main = [at |-> "conclude", slot |-> s] /\ s \in Nat
        /\ \/ main' = [at |-> "conclude", slot |-> s + 1]
           \/ main' = [at |-> "restart", slot |-> 0]
           \/ main' = [at |-> "exited", slot |-> 0]
    BY <1>8 DEF Conclude, NextSlot, Goto, MainFrame
  <2>2. \A r \in done' : r \in done \/ r.slot = s
    BY <1>8 DEF Conclude
  <2>3. \A t \in Slots : ~sink[t].call
    BY <2>1 DEF CallInv, Writable, Loop
  <2>4. \A r \in done : r.slot \in Nat /\ (r.call = call.num => r.slot < s)
    BY <2>1, DoneFacts DEF FileInv
  <2>5. \A r \in done' : r.call = call.num => r.slot < s + 1
    <3> SUFFICES ASSUME NEW r \in done', r.call = call.num PROVE r.slot < s + 1
      OBVIOUS
    <3>1. CASE r \in done
      BY <2>1, <2>4, <3>1
    <3>2. CASE r.slot = s
      BY <2>1, <3>2
    <3>3. QED
      BY <2>2, <3>1, <3>2
  <2>6. QED
    BY <2>1, <2>3, <2>5 DEF FileInv
<1>9. ASSUME NEW s \in Slots, Open(s) PROVE FileInv'
  <2>1. main'.at \notin {"conclude", "exited"}
    BY <1>9 DEF Open, NextSlot, Goto
  <2>2. QED
    BY <1>2, <2>1
<1>10. QED
  BY <1>3, <1>4, <1>5, <1>6, <1>7, <1>8, <1>9 DEF Next, MainThread

\* What a sink writes, it writes for the call that is open.
LEMMA WriteRefines ==
  ASSUME IInv, FileInv, NEW s \in Slots, Work(s)
  PROVE  Filing!Next \/ UNCHANGED Filing!vars
<1> DEFINE h == Head(chain[s])
           c == call.num
<1>1. TypeOK /\ ChainInv /\ CallInv /\ done' = done /\ c \in 1..MaxCalls /\ c \in Nat
  BY ConventionalAssumption DEF IInv, Work, TypeOK
<1>2. CASE owner' = owner
  BY <1>1, <1>2 DEF Filing!vars
<1>3. CASE /\ sink[s].call /\ h \in Voice /\ h = chain[s][1] /\ 1 \in 1..Len(chain[s])
           /\ owner' = [owner EXCEPT ![h] = [call |-> call.num, slot |-> s]]
  <2> HIDE DEF h
  <2>1. owner[h] = NoOwner
    BY <1>1, <1>3, VoiceFacts DEF ChainInv, OnItsWay
  <2>2. main.at \notin {"conclude", "restart", "exited"}
    BY <1>1, <1>3 DEF CallInv, Writable, FileInv, Loop
  <2>3. \A r \in done : r.call < c
    BY <1>1, <2>2 DEF CallInv, Filed
  <2>4. ASSUME NEW v \in Filing!Unfiled, owner[v] # NoOwner
        PROVE  owner[v].call = c
    <3>1. v \in Voice /\ v \notin Concluded
      BY DEF Filing!Unfiled, Concluded
    <3> DEFINE t == owner[v].slot
    <3>2. t \in Slots
      BY <1>1, <3>1 DEF TypeOK
    <3>3. v \in Held(t)
      BY <1>1, <2>4, <3>1, <3>2 DEF CallInv, NothingLost
    <3>4. ~Stale(t)
      BY <1>1, <3>1, <3>2, <3>3 DEF CallInv, Finished, Passed
    <3> HIDE DEF t
    <3>5. owner[v] = [call |-> call.num, slot |-> t]
      BY <1>1, <3>2, <3>3, <3>4 DEF CallInv, Mine
    <3>6. QED
      BY <3>5
  <2>5. Filing!Write(h, c, s)
    BY <1>1, <1>3, <2>1, <2>3, <2>4 DEF Filing!Write
  <2>6. QED
    BY <1>1, <1>3, <2>5 DEF Filing!Next
<1>4. QED
  BY <1>1, <1>2, <1>3, WorkFacts

\* What is filed of a slot is all that was written for it.
LEMMA ConcludeRefines ==
  ASSUME IInv, FileInv, NEW s \in Slots, Conclude(s)
  PROVE  Filing!Next \/ UNCHANGED Filing!vars
<1> DEFINE c == call.num
           audio == {v \in Voice : owner[v] = [call |-> c, slot |-> s]}
<1>1. /\ TypeOK /\ CallInv /\ owner' = owner /\ c \in 1..MaxCalls /\ c \in Nat
      /\ main = [at |-> "conclude", slot |-> s] /\ s \in Nat
      /\ done' = IF sink[s].list = {} THEN done
                 ELSE done \cup {[call |-> c, slot |-> s, audio |-> sink[s].list]}
  BY ConventionalAssumption, UsedFacts DEF IInv, Conclude, MainFrame, TypeOK
<1>2. \A r \in done : ~(r.call = c /\ r.slot = s) /\ r.call <= c
  <2>1. \A r \in done : r.call <= c
    BY <1>1 DEF CallInv, Filed
  <2>2. \A r \in done : r.call = c => r.slot < s
    BY <1>1 DEF FileInv
  <2>3. \A r \in done : r.call = c => r.slot # s
    BY <1>1, <2>2, DoneFacts
  <2>4. QED
    BY <2>1, <2>3
<1>3. sink[s].list = audio
  <2>1. ~sink[s].call /\ sink[s].open = {} /\ Held(s) = sink[s].list /\ ~Stale(s)
    BY <1>1 DEF CallInv, Writable, Shut, Loop, Held, Stale
  <2>2. \A v \in sink[s].list : v \in Voice /\ owner[v] = [call |-> c, slot |-> s]
    BY <1>1, <2>1 DEF CallInv, Mine, TypeOK
  <2>3. ASSUME NEW v \in Voice, owner[v] = [call |-> c, slot |-> s]
        PROVE  v \in sink[s].list
    <3>1. owner[v] # NoOwner /\ owner[v].slot = s
      BY <1>1, <2>3 DEF NoOwner
    <3>2. v \in Held(s) \cup Concluded
      BY <1>1, <3>1 DEF CallInv, NothingLost
    <3>3. ASSUME NEW r \in done, v \in r.audio PROVE FALSE
      <4>1. owner[v] = [call |-> r.call, slot |-> r.slot]
        BY <1>1, <3>3 DEF CallInv, Filed
      <4>2. r.call = c /\ r.slot = s
        BY <2>3, <4>1
      <4>3. QED
        BY <1>2, <4>2
    <3>4. QED
      BY <2>1, <3>2, <3>3 DEF Concluded
  <2>4. QED
    BY <2>2, <2>3
<1> HIDE DEF audio, c
<1>4. CASE audio = {}
  BY <1>1, <1>3, <1>4 DEF Filing!vars
<1>5. CASE audio # {}
  <2>1. done' = done \cup {[call |-> c, slot |-> s, audio |-> audio]}
    BY <1>1, <1>3, <1>5
  <2>2. \A r \in done : <<r.call, r.slot>> # <<c, s>> /\ r.call <= c
    BY <1>2
  <2>3. Filing!File(c, s)
    BY <1>1, <1>5, <2>1, <2>2 DEF Filing!File, audio
  <2>4. QED
    BY <1>1, <2>3 DEF Filing!Next
<1>6. QED
  BY <1>4, <1>5

LEMMA FilingStep ==
  IInv /\ FileInv /\ [Next]_vars => Filing!Next \/ UNCHANGED Filing!vars
<1> SUFFICES ASSUME IInv, FileInv, [Next]_vars PROVE Filing!Next \/ UNCHANGED Filing!vars
  OBVIOUS
<1>1. CASE \E s \in Slots : Work(s)
  BY <1>1, WriteRefines
<1>2. CASE \E s \in Slots : Conclude(s)
  BY <1>2, ConcludeRefines
<1>3. CASE \/ Key \/ Detect \/ Squelch \/ UNCHANGED vars
           \/ \E s \in Slots : Hear(s) \/ EndVoice(s)
  BY <1>3 DEF Key, Detect, Squelch, Hear, EndVoice, ChainFrame, vars, Filing!vars
<1>4. CASE \/ CheckDetection \/ Manage \/ Judge \/ Stop \/ Restart \/ Start \/ Exit
           \/ \E s \in Slots : Close(s) \/ Open(s)
  BY <1>4 DEF CheckDetection, Manage, Judge, Stop, Restart, Start, Exit, Close, Open, MainFrame,
              Filing!vars
<1>5. QED
  BY <1>1, <1>2, <1>3, <1>4 DEF Next, MainThread

\* A channel implements CallFiling: the scheduler may write between any two steps
\* of conclude_call and restart_call, and still each call is filed once and whole
\* before the next one begins.
THEOREM FilesInOrder == Spec => FilingPromise
<1>1. Init => IInv /\ FileInv
  BY InitInv DEF Init, FileInv
<1>2. IInv /\ FileInv /\ [Next]_vars => (IInv /\ FileInv)'
  BY TypeStep, ChainStep, CallStep, FileStep DEF IInv
<1>3. Init => Filing!Init
  BY DEF Init, Filing!Init
<1>4. IInv /\ FileInv /\ [Next]_vars => [Filing!Next]_(Filing!vars)
  BY FilingStep
<1>5. QED
  BY <1>1, <1>2, <1>3, <1>4, PTL DEF Spec, FilingPromise, Filing!Spec

(***************************************************************************)
(* maxDuration                                                             *)
(***************************************************************************)

\* Voice of slot 0 between the selector and its sink, and what the sink holds
\* or is about to.
Way  == {chain[0][i] : i \in 1..Len(chain[0])} \cap Voice
Near == Held(0) \cup Way
Load == Cardinality(Near)

\* A second under way that has been heard already.
Heard == IF 0 \in spoken THEN 1 ELSE 0

\* From the look at the clock to the look at the length a second is spent; at all
\* other places of the loop no more than the chain has come since.
Spent ==
  \/ main.at \in {"judge", "stop", "close", "conclude", "restart", "exited"}
  \/ main = [at |-> "open", slot |-> 0]

Bounded ==
  config.limit > 0 => Load <= config.limit + MaxChain + Heard + (IF Spent THEN 1 ELSE 0)

Queued == Len(chain[0]) <= MaxChain

LEMMA VoiceFinite == IsFiniteSet(Voice)
<1> DEFINE N(t) == 1..MaxVoice[t]
<1>1. ASSUME NEW t \in Types  PROVE IsFiniteSet(N(t))
  <2>1. MaxVoice[t] \in Int
    BY ConventionalAssumption
  <2>2. QED
    BY <2>1, FS_Interval
<1>2. IsFiniteSet(N("conventional") \cup N("conventionalP25"))
  BY <1>1, FS_Union DEF Types
<1>3. IsFiniteSet(N("conventional") \cup N("conventionalP25") \cup N("conventionalDMR"))
  BY <1>1, <1>2, FS_Union DEF Types
<1>4. Voice = N("conventional") \cup N("conventionalP25") \cup N("conventionalDMR")
  BY DEF Voice, Types
<1>5. QED
  BY <1>3, <1>4

\* Sets of voice have a size, which grows with them.
LEMMA Sizes ==
  ASSUME NEW A \in SUBSET Voice, NEW B \in SUBSET Voice
  PROVE  /\ IsFiniteSet(A) /\ Cardinality(A) \in Nat
         /\ A \subseteq B => Cardinality(A) <= Cardinality(B)
         /\ \A x : A \subseteq B \cup {x} => Cardinality(A) <= Cardinality(B) + 1
         /\ Cardinality(A \cup B) <= Cardinality(A) + Cardinality(B)
<1>1. \A S \in SUBSET Voice : IsFiniteSet(S) /\ Cardinality(S) \in Nat
  BY VoiceFinite, FS_Subset, FS_CardinalityType
<1>2. A \subseteq B => Cardinality(A) <= Cardinality(B)
  BY <1>1, FS_Subset
<1>3. ASSUME NEW x, A \subseteq B \cup {x}  PROVE Cardinality(A) <= Cardinality(B) + 1
  <2>1. IsFiniteSet(B \cup {x}) /\ Cardinality(B \cup {x}) <= Cardinality(B) + 1
    BY <1>1, FS_AddElement
  <2>2. Cardinality(A) <= Cardinality(B \cup {x})
    BY <1>3, <2>1, FS_Subset
  <2>3. Cardinality(B \cup {x}) \in Nat
    BY <2>1, FS_CardinalityType
  <2>4. QED
    BY <1>1, <2>1, <2>2, <2>3
<1>4. Cardinality(A \cup B) <= Cardinality(A) + Cardinality(B)
  <2>1. Cardinality(A \cup B) = Cardinality(A) + Cardinality(B) - Cardinality(A \cap B)
    BY <1>1, FS_Union
  <2>2. Cardinality(A \cap B) \in Nat
    BY <1>1
  <2>3. QED
    BY <1>1, <2>1, <2>2
<1>5. QED
  BY <1>1, <1>2, <1>3, <1>4

LEMMA NearType ==
  ASSUME TypeOK
  PROVE  Held(0) \in SUBSET Voice /\ Way \in SUBSET Voice /\ Near \in SUBSET Voice
BY UsedFacts DEF TypeOK, Held, Way, Near

\* The chain holds no more voice than it has places.
LEMMA WaySize ==
  ASSUME TypeOK
  PROVE  Cardinality(Way) <= Len(chain[0])
<1> DEFINE D == 1..Len(chain[0])
           T == {chain[0][i] : i \in D}
<1>1. chain[0] \in Seq(Voice \cup {TERM}) /\ Len(chain[0]) \in Nat
  BY UsedFacts DEF TypeOK
<1>2. IsFiniteSet(D) /\ Cardinality(D) = Len(chain[0])
  BY <1>1, FS_Interval
<1>3. [i \in D |-> chain[0][i]] \in Surjection(D, T)
  BY DEF Surjection
<1>4. IsFiniteSet(T) /\ Cardinality(T) <= Cardinality(D)
  BY <1>2, <1>3, FS_Surjection
<1>5. Way \subseteq T
  BY DEF Way
<1>6. Cardinality(Way) <= Cardinality(T) /\ Cardinality(Way) \in Nat /\ Cardinality(T) \in Nat
  BY <1>4, <1>5, FS_Subset, FS_CardinalityType
<1>7. QED
  BY <1>1, <1>2, <1>4, <1>6

LEMMA QueuedStep == TypeOK /\ Queued /\ [Next]_vars => Queued'
<1> SUFFICES ASSUME TypeOK, Queued, [Next]_vars  PROVE Queued'
  OBVIOUS
<1> USE ConventionalAssumption, UsedFacts DEF Queued
<1>0. chain \in [Slots -> Seq(Voice \cup {TERM})] /\ Len(chain[0]) \in Nat
  BY DEF TypeOK
<1>1. ASSUME NEW s \in Slots, NEW item \in Voice \cup {TERM}, Push(s, item)  PROVE Queued'
  <2>1. chain'[s] = Append(chain[s], item) /\ Len(chain[s]) < MaxChain
        /\ \A t \in Slots : t # s => chain'[t] = chain[t]
    BY <1>0, <1>1 DEF Push
  <2>2. Len(chain'[s]) = Len(chain[s]) + 1 /\ Len(chain[s]) \in Nat
    BY <1>0, <2>1, AppendFacts
  <2>3. QED
    BY <2>1, <2>2
<1>2. ASSUME NEW s \in Slots, Hear(s)  PROVE Queued'
  <2>1. voice + 1 \in Voice
    BY <1>2, VoiceFacts DEF Hear
  <2>2. QED
    BY <1>1, <1>2, <2>1 DEF Hear
<1>3. ASSUME NEW s \in Slots, EndVoice(s)  PROVE Queued'
  BY <1>1, <1>3 DEF EndVoice
<1>4. ASSUME NEW s \in Slots, Work(s)  PROVE Queued'
  <2>1. chain'[s] = Tail(chain[s]) /\ chain[s] # <<>>
        /\ \A t \in Slots : t # s => chain'[t] = chain[t]
    BY <1>0, <1>4 DEF Work
  <2>2. Len(chain'[s]) = Len(chain[s]) - 1 /\ Len(chain[s]) \in Nat
    BY <1>0, <2>1, TailFacts
  <2>3. CASE s = 0
    BY <2>2, <2>3
  <2>4. CASE s # 0
    BY <2>1, <2>4
  <2>5. QED
    BY <2>3, <2>4
<1>5. CASE \/ Key \/ Detect \/ Squelch \/ MainThread \/ Exit \/ UNCHANGED vars
  BY <1>5
  DEF Key, Detect, Squelch, MainThread, CheckDetection, Manage, Judge, Stop, Restart, Start,
      Close, Conclude, Open, Exit, ChainFrame, MainFrame, vars
<1>6. QED
  BY <1>2, <1>3, <1>4, <1>5 DEF Next

\* What the step of a sink does to what is near it.
LEMMA WorkNear ==
  ASSUME TypeOK, NEW s \in Slots, Work(s)
  PROVE  Near' \subseteq Near
<1> DEFINE h == Head(chain[s])
<1>1. /\ sink \in [Slots -> SinkType] /\ sink[s] \in SinkType /\ sink[0] \in SinkType
      /\ chain \in [Slots -> Seq(Voice \cup {TERM})] /\ 0 \in Slots
  BY UsedFacts DEF TypeOK, SinkType
<1>2. /\ chain[s] # <<>> /\ chain'[s] = Tail(chain[s])
      /\ \A t \in Slots : t # s => chain'[t] = chain[t]
  BY <1>1 DEF Work
<1>3. /\ Len(chain'[s]) = Len(chain[s]) - 1 /\ Len(chain[s]) \in Nat \ {0}
      /\ \A i \in 1..(Len(chain[s]) - 1) : chain'[s][i] = chain[s][i + 1]
  BY <1>1, <1>2, TailFacts
<1>4. Way' \subseteq Way
  <2> SUFFICES ASSUME NEW v \in Way'  PROVE v \in Way
    OBVIOUS
  <2>1. PICK i \in 1..Len(chain'[0]) : v = chain'[0][i]
    BY DEF Way
  <2>2. v \in Voice
    BY DEF Way
  <2>3. CASE s = 0
    <3>1. i + 1 \in 1..Len(chain[0]) /\ v = chain[0][i + 1]
      BY <1>3, <2>1, <2>3
    <3>2. QED
      BY <2>2, <3>1 DEF Way
  <2>4. CASE s # 0
    <3>1. chain'[0] = chain[0]
      BY <1>1, <1>2, <2>4
    <3>2. QED
      BY <2>1, <2>2, <3>1 DEF Way
  <2>5. QED
    BY <2>3, <2>4
<1>5. Held(0)' \subseteq Held(0) \cup Way
  <2>1. CASE /\ sink[s].call /\ h \in Voice /\ h = chain[s][1] /\ 1 \in 1..Len(chain[s])
             /\ sink' = [sink EXCEPT ![s] = Written(sink[s], h)]
    <3>1. CASE s = 0
      <4>1. h \in Way
        BY <2>1, <3>1 DEF Way
      <4>2. sink'[0] = Written(sink[0], h)
        BY <1>1, <2>1, <3>1
      <4>3. Held(0)' = Held(0) \cup {h}
        BY <1>1, <2>1, <4>2, SinkFacts DEF Held
      <4>4. QED
        BY <4>1, <4>3
    <3>2. CASE s # 0
      <4>1. sink'[0] = sink[0]
        BY <1>1, <2>1, <3>2
      <4>2. QED
        BY <4>1 DEF Held
    <3>3. QED
      BY <3>1, <3>2
  <2>2. CASE sink' = [sink EXCEPT ![s] = Ended(sink[s])]
    <3>1. sink'[0] = sink[0] \/ sink'[0] = Ended(sink[0])
      BY <1>1, <2>2
    <3>2. QED
      BY <3>1 DEF Held, Ended
  <2>3. CASE sink' = sink
    BY <2>3 DEF Held
  <2>4. QED
    BY <2>1, <2>2, <2>3, WorkFacts
<1>6. QED
  BY <1>4, <1>5 DEF Near

\* A buffer heard, or a terminator, joins the end of the chain.
LEMMA PushNear ==
  ASSUME TypeOK, NEW s \in Slots, NEW item \in Voice \cup {TERM}, Push(s, item), sink' = sink
  PROVE  /\ Near' \subseteq Near \cup {item}
         /\ s # 0 \/ item = TERM => Near' \subseteq Near
<1>1. chain \in [Slots -> Seq(Voice \cup {TERM})] /\ 0 \in Slots
  BY UsedFacts DEF TypeOK
<1>2. chain'[s] = Append(chain[s], item) /\ \A t \in Slots : t # s => chain'[t] = chain[t]
  BY <1>1 DEF Push
<1>3. /\ Len(chain'[s]) = Len(chain[s]) + 1 /\ Len(chain[s]) \in Nat
      /\ \A i \in 1..Len(chain[s]) : chain'[s][i] = chain[s][i]
      /\ chain'[s][Len(chain[s]) + 1] = item
  BY <1>1, <1>2, AppendFacts
<1>4. ASSUME NEW v \in Way'  PROVE v \in Way \/ (v = item /\ s = 0)
  <2>1. v \in Voice
    BY DEF Way
  <2>2. PICK i \in 1..Len(chain'[0]) : v = chain'[0][i]
    BY DEF Way
  <2>3. CASE s # 0
    BY <1>1, <1>2, <2>1, <2>2, <2>3 DEF Way
  <2>4. CASE s = 0
    <3>1. i \in 1..Len(chain[0]) \/ i = Len(chain[0]) + 1
      BY <1>3, <2>4
    <3>2. QED
      BY <1>3, <2>1, <2>2, <2>4, <3>1 DEF Way
  <2>5. QED
    BY <2>3, <2>4
<1>5. Held(0)' = Held(0)
  BY DEF Held
<1>6. \A v \in Way' : v \in Voice /\ v # TERM
  BY VoiceFacts DEF Way
<1>7. QED
  BY <1>4, <1>5, <1>6 DEF Near

\* No step of the main thread adds to what is near.
LEMMA MainNear ==
  ASSUME TypeOK, MainThread \/ Exit
  PROVE  /\ Near' \subseteq Near /\ chain' = chain /\ config' = config
         /\ Manage \/ spoken' = spoken
<1>1. chain' = chain /\ config' = config /\ (Manage \/ spoken' = spoken)
  BY DEF MainThread, CheckDetection, Manage, Judge, Stop, Restart, Start, Close, Conclude,
         Open, Exit, MainFrame
<1>2. Way' = Way
  BY <1>1 DEF Way
<1>3. sink \in [Slots -> SinkType] /\ 0 \in Slots
  BY UsedFacts DEF TypeOK, SinkType
<1>4. Held(0)' \subseteq Held(0)
  <2>1. ASSUME NEW s \in Slots, Close(s)  PROVE Held(0)' \subseteq Held(0)
    <3>1. sink'[0] = sink[0] \/ (s = 0 /\ sink'[0].open = {} /\ sink'[0].list = Held(0))
      BY <1>3, <2>1 DEF Close
    <3>2. QED
      BY <3>1 DEF Held
  <2>2. ASSUME NEW s \in Slots, Open(s)  PROVE Held(0)' \subseteq Held(0)
    <3>1. sink'[0] = sink[0] \/ sink'[0] = Started
      BY <1>3, <2>2 DEF Open
    <3>2. QED
      BY <3>1 DEF Held, Started
  <2>3. CASE \/ CheckDetection \/ Manage \/ Judge \/ Stop \/ Restart \/ Start \/ Exit
             \/ \E s \in Slots : Conclude(s)
    <3>1. sink' = sink
      BY <2>3 DEF CheckDetection, Manage, Judge, Stop, Restart, Start, Conclude, Exit
    <3>2. QED
      BY <3>1 DEF Held
  <2>4. QED
    BY <2>1, <2>2, <2>3 DEF MainThread
<1>5. QED
  BY <1>1, <1>2, <1>4 DEF Near

\* The types and sizes the sums below need.
Measured ==
  /\ Near \in SUBSET Voice
  /\ Load \in Nat /\ Heard \in Nat /\ Heard <= 1
  /\ config.limit \in Nat /\ MaxChain \in Nat
  /\ Length(0) \in Nat /\ Length(0) <= Load
  /\ Queued => Load <= Length(0) + MaxChain

LEMMA LoadType == TypeOK => Measured
<1> SUFFICES ASSUME TypeOK  PROVE Measured
  OBVIOUS
<1>1. Load \in Nat /\ Length(0) \in Nat /\ Length(0) <= Load
  BY NearType, Sizes DEF Load, Length, Near
<1>2. config.limit \in Nat /\ MaxChain \in Nat
  BY ConventionalAssumption DEF TypeOK, ConfigType
<1>3. ASSUME Queued  PROVE Load <= Length(0) + MaxChain
  <2>1. Load <= Length(0) + Cardinality(Way)
    BY NearType, Sizes DEF Load, Length, Near
  <2>2. Cardinality(Way) <= Len(chain[0]) /\ Cardinality(Way) \in Nat
    BY WaySize, NearType, Sizes
  <2>3. Len(chain[0]) \in Nat
    BY UsedFacts DEF TypeOK
  <2>4. QED
    BY <1>1, <1>2, <1>3, <2>1, <2>2, <2>3 DEF Queued
<1>4. QED
  BY <1>1, <1>2, <1>3, NearType DEF Heard, Measured

LEMMA LoadTypeNext == TypeOK' => Measured'
BY LoadType, PTL

\* The bound holds on after a step that adds nothing near the sink.
LEMMA NoMore ==
  ASSUME TypeOK, TypeOK', Bounded, Near' \subseteq Near, config' = config, spoken' = spoken,
         Spent => Spent'
  PROVE  Bounded'
<1>1. Load' <= Load
  <2>1. Near \in SUBSET Voice /\ Near' \in SUBSET Voice
    BY LoadType, LoadTypeNext DEF Measured
  <2>2. QED
    BY <2>1, Sizes DEF Load
<1>2. Heard' = Heard
  BY DEF Heard
<1>3. Load \in Nat /\ Load' \in Nat /\ config.limit \in Nat /\ MaxChain \in Nat /\ Heard \in Nat
  BY LoadType, LoadTypeNext DEF Measured
<1>4. QED
  BY <1>1, <1>2, <1>3 DEF Bounded

LEMMA BoundedStep ==
  ASSUME TypeOK, CallInv, Queued, Bounded, [Next]_vars, TypeOK', Queued'
  PROVE  Bounded'
<1> USE UsedFacts
<1>1. ASSUME NEW s \in Slots, Hear(s)  PROVE Bounded'
  <2>1. /\ voice + 1 \in Voice /\ Push(s, voice + 1) /\ sink' = sink /\ config' = config
        /\ main' = main /\ s \notin spoken /\ spoken' = spoken \cup {s}
    BY <1>1, VoiceFacts DEF Hear, ChainFrame
  <2>2. Near' \subseteq Near \cup {voice + 1} /\ (s # 0 => Near' \subseteq Near)
    BY <2>1, PushNear
  <2>3. Near \in SUBSET Voice /\ Near' \in SUBSET Voice
    BY LoadType, LoadTypeNext DEF Measured
  <2>4. Load' <= Load + 1 /\ (s # 0 => Load' <= Load)
    BY <2>2, <2>3, Sizes DEF Load
  <2>5. (s = 0 => Heard' = Heard + 1) /\ (s # 0 => Heard' = Heard)
    BY <2>1 DEF Heard
  <2>6. Spent' = Spent
    BY <2>1 DEF Spent
  <2>7. Load \in Nat /\ Load' \in Nat /\ config.limit \in Nat /\ MaxChain \in Nat /\ Heard \in Nat
    BY LoadType, LoadTypeNext DEF Measured
  <2>8. QED
    BY <2>1, <2>4, <2>5, <2>6, <2>7 DEF Bounded
<1>2. ASSUME NEW s \in Slots, EndVoice(s)  PROVE Bounded'
  <2>1. Push(s, TERM) /\ sink' = sink /\ UNCHANGED <<config, main, spoken>>
    BY <1>2 DEF EndVoice, ChainFrame, radio
  <2>2. Near' \subseteq Near
    BY <2>1, PushNear
  <2>3. QED
    BY <2>1, <2>2, NoMore DEF Spent
<1>3. ASSUME NEW s \in Slots, Work(s)  PROVE Bounded'
  <2>1. UNCHANGED <<config, main, spoken>>
    BY <1>3 DEF Work, radio
  <2>2. Near' \subseteq Near
    BY <1>3, WorkNear
  <2>3. QED
    BY <2>1, <2>2, NoMore DEF Spent
<1>4. CASE Key \/ Detect \/ Squelch \/ UNCHANGED vars
  <2>1. UNCHANGED <<config, main, spoken, sink, chain>>
    BY <1>4 DEF Key, Detect, Squelch, ChainFrame, vars, radio
  <2>2. Near' = Near
    BY <2>1 DEF Near, Way, Held
  <2>3. QED
    BY <2>1, <2>2, NoMore DEF Spent
<1>5. CASE CheckDetection \/ Stop \/ Restart \/ Start \/ Exit
  <2>1. Spent => Spent'
    BY <1>5 DEF CheckDetection, Stop, Restart, Start, Exit, Spent, Goto
  <2>2. Near' \subseteq Near /\ config' = config /\ (Manage \/ spoken' = spoken)
    BY <1>5, MainNear DEF MainThread
  <2>3. spoken' = spoken
    BY <1>5 DEF CheckDetection, Stop, Restart, Start, Exit
  <2>4. QED
    BY <2>1, <2>2, <2>3, NoMore
<1>6. ASSUME NEW s \in Slots, Close(s) \/ Conclude(s)  PROVE Bounded'
  <2>1. Near' \subseteq Near /\ config' = config
    BY <1>6, MainNear DEF MainThread
  <2>2. spoken' = spoken
    BY <1>6 DEF Close, Conclude
  <2>3. Spent'
    BY <1>6 DEF Close, Conclude, NextSlot, Spent, Goto
  <2>4. QED
    BY <2>1, <2>2, <2>3, NoMore
<1>7. ASSUME Near' \subseteq Near, config' = config, Held(0) = {} \/ Held(0)' = {}
      PROVE  Bounded'
  <2>1. Load' <= MaxChain
    <3>1. CASE Held(0)' = {}
      <4>1. Length(0)' = 0
        BY <3>1, FS_EmptySet DEF Length
      <4>2. QED
        BY <4>1, LoadType, LoadTypeNext DEF Measured
    <3>2. CASE Held(0) = {}
      <4>1. Length(0) = 0
        BY <3>2, FS_EmptySet DEF Length
      <4>2. Load <= MaxChain
        BY <4>1, LoadType, LoadTypeNext DEF Measured
      <4>3. Near \in SUBSET Voice /\ Near' \in SUBSET Voice
        BY LoadType, LoadTypeNext DEF Measured
      <4>4. Load' <= Load
        BY <1>7, <4>3, Sizes DEF Load
      <4>5. QED
        BY <4>2, <4>4, LoadType, LoadTypeNext DEF Measured
    <3>3. QED
      BY <1>7, <3>1, <3>2
  <2>2. Load' \in Nat /\ config.limit \in Nat /\ MaxChain \in Nat /\ Heard' \in Nat
    BY LoadType, LoadTypeNext DEF Measured
  <2>3. QED
    BY <1>7, <2>1, <2>2 DEF Bounded
<1>8. ASSUME NEW s \in Slots, Open(s)  PROVE Bounded'
  <2>1. Near' \subseteq Near /\ config' = config
    BY <1>8, MainNear DEF MainThread
  <2>2. CASE s = 0
    <3>1. sink'[0] = Started
      BY <1>8, <2>2 DEF Open, TypeOK
    <3>2. Held(0)' = {}
      BY <3>1 DEF Held, Started
    <3>3. QED
      BY <1>7, <2>1, <3>2
  <2>3. CASE s # 0
    <3>1. ~Spent /\ spoken' = spoken
      BY <1>8, <2>3 DEF Open, Spent
    <3>2. QED
      BY <2>1, <3>1, NoMore
  <2>4. QED
    BY <2>2, <2>3
<1>9. CASE Judge
  <2>1. Near' \subseteq Near /\ config' = config /\ spoken' = spoken /\ sink' = sink
    BY <1>9, MainNear DEF MainThread, Judge
  <2>2. CASE main'.at = "stop"
    BY <2>1, <2>2, NoMore DEF Spent
  <2>3. CASE main'.at # "stop"
    <3>1. config.limit > 0 => Length(0) <= config.limit
      BY <1>9, <2>3, LoadType DEF Measured, Judge, Goto, TooLong
    <3>2. Near \in SUBSET Voice /\ Near' \in SUBSET Voice
      BY LoadType, LoadTypeNext DEF Measured
    <3>3. Load' <= Load
      BY <2>1, <3>2, Sizes DEF Load
    <3>4. /\ Load <= Length(0) + MaxChain /\ Load \in Nat /\ Load' \in Nat
          /\ Length(0) \in Nat /\ config.limit \in Nat /\ MaxChain \in Nat /\ Heard' \in Nat
      BY LoadType, LoadTypeNext DEF Measured
    <3>5. QED
      BY <2>1, <3>1, <3>3, <3>4 DEF Bounded
  <2>4. QED
    BY <2>2, <2>3
<1>10. CASE Manage
  <2>1. Near' \subseteq Near /\ config' = config /\ sink' = sink /\ spoken' = {}
    BY <1>10, MainNear DEF MainThread, Manage
  <2>2. CASE main'.at = "judge"
    <3>1. Spent' /\ ~Spent
      BY <1>10, <2>2 DEF Spent, Manage
    <3>2. Near \in SUBSET Voice /\ Near' \in SUBSET Voice
      BY LoadType, LoadTypeNext DEF Measured
    <3>3. Load' <= Load
      BY <2>1, <3>2, Sizes DEF Load
    <3>4. Heard' = 0
      BY <2>1 DEF Heard
    <3>5. /\ Load \in Nat /\ Load' \in Nat /\ Heard \in Nat /\ Heard <= 1
          /\ config.limit \in Nat /\ MaxChain \in Nat
      BY LoadType, LoadTypeNext DEF Measured
    <3>6. QED
      BY <2>1, <3>1, <3>3, <3>4, <3>5 DEF Bounded
  <2>3. CASE main'.at # "judge"
    <3>1. call.state # "RECORDING" \/ Length(0) = 0
      BY <1>10, <2>3 DEF Manage, Goto
    <3>2. CASE call.state # "RECORDING"
      <4>1. Held(0) = {}
        BY <1>10, <3>2 DEF Manage, CallInv, Unstarted, TypeOK
      <4>2. QED
        BY <1>7, <2>1, <4>1
    <3>3. CASE Length(0) = 0
      <4>1. IsFiniteSet(Held(0))
        BY NearType, Sizes
      <4>2. Held(0) = {}
        BY <3>3, <4>1, FS_EmptySet DEF Length
      <4>3. QED
        BY <1>7, <2>1, <4>2
    <3>4. QED
      BY <3>1, <3>2, <3>3
  <2>4. QED
    BY <2>2, <2>3
<1>11. QED
  BY <1>1, <1>2, <1>3, <1>4, <1>5, <1>6, <1>8, <1>9, <1>10 DEF Next, MainThread

\* For any maxDuration a call exceeds it by no more than the chain to the sink
\* holds and two seconds.
THEOREM KeepsLimit == Spec => []LimitHolds
<1> DEFINE Inv == IInv /\ Queued /\ Bounded
<1>1. Init => Inv
  <2> SUFFICES ASSUME Init  PROVE Inv
    OBVIOUS
  <2>1. TypeOK /\ IInv
    BY InitInv DEF IInv
  <2>2. chain[0] = <<>> /\ Held(0) = {}
    BY UsedFacts DEF Init, Held, Started, Unused
  <2>3. Queued
    BY <2>2, ConventionalAssumption DEF Queued
  <2>4. Length(0) = 0
    BY <2>2, FS_EmptySet DEF Length
  <2>5. QED
    BY <2>1, <2>3, <2>4, LoadType DEF Bounded, Measured
<1>2. Inv /\ [Next]_vars => Inv'
  BY TypeStep, ChainStep, CallStep, QueuedStep, BoundedStep DEF IInv
<1>3. Inv => LimitHolds
  <2> SUFFICES ASSUME IInv, Bounded, config.limit > 0
               PROVE  Length(0) <= config.limit + MaxChain + 2
    BY DEF LimitHolds
  <2>1. Load <= config.limit + MaxChain + Heard + (IF Spent THEN 1 ELSE 0)
    BY DEF Bounded
  <2>2. /\ Load \in Nat /\ Heard \in Nat /\ Heard <= 1 /\ config.limit \in Nat
        /\ MaxChain \in Nat /\ Length(0) \in Nat /\ Length(0) <= Load
    BY LoadType DEF IInv, Measured
  <2>3. QED
    BY <2>1, <2>2
<1>4. QED
  BY <1>1, <1>2, <1>3, PTL DEF Spec
=============================================================================
