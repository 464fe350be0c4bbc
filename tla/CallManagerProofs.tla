--------------------------- MODULE CallManagerProofs ---------------------------
(***************************************************************************)
(* Theorems about CallManager for every set of systems, talkgroups,        *)
(* channels, sources and recorders and every number of calls.              *)
(***************************************************************************)
EXTENDS CallManager, WellFoundedInduction, TLAPS

\* A call that records or did record until it was superseded has a recorder,
\* and a recorder that was ever started lists some call's transmissions.
Holding ==
  \A c \in calls :
    /\ Recording(c) \/ call[c].mon = "SUPERSEDED" => call[c].rec # NoRecorder
    /\ call[c].rec # NoRecorder => tape[call[c].rec] # 0

\* While the program runs, an ACTIVE recorder lists the call it serves.
Taping == phase = "running" => \A r \in Recorders : serving[r] # 0 => tape[r] = serving[r]

\* Only calls that were made have been concluded.
Past == \A e \in ends : e.by <= made

\* The inductive invariant.
IInv ==
  /\ TypeOK /\ Holding /\ Taping /\ Past
  /\ PoolSound /\ OwnAudio /\ RecordedIsConcluded

(***************************************************************************)
(* Lemmas about the operators                                              *)
(***************************************************************************)

\* First is the least element of a set of numbers.
LEMMA FirstIsLeast ==
  ASSUME NEW S \in SUBSET Nat, S # {}
  PROVE  First(S) \in S /\ \A m \in S : First(S) <= m
<1> DEFINE R == OpToRel(<, Nat)
<1>1. IsWellFoundedOn(R, Nat)
  BY NatLessThanWellFounded
<1>2. \A x, y \in Nat : x < y => <<x, y>> \in R
  BY DEF OpToRel
<1> HIDE DEF R
<1>3. PICK n \in S : \A m \in S : <<m, n>> \notin R
  BY <1>1, WFMin
<1>4. ASSUME NEW m \in S PROVE n <= m
  <2>1. m \in Nat /\ n \in Nat /\ ~(m < n)
    BY <1>2, <1>3
  <2>2. QED
    BY <2>1
<1>5. QED
  BY <1>4 DEF First

\* Last is the greatest element of a bounded one.
LEMMA LastIsGreatest ==
  ASSUME NEW N \in Nat, NEW S \in SUBSET (0..N), S # {}
  PROVE  Last(S) \in S /\ \A m \in S : Last(S) >= m
<1> DEFINE D == {N - n : n \in S}
<1>1. D \in SUBSET Nat /\ D # {}
  <2>1. \A n \in S : N - n \in Nat
    OBVIOUS
  <2>2. QED
    BY <2>1
<1>2. First(D) \in D /\ \A d \in D : First(D) <= d
  BY <1>1, FirstIsLeast
<1>3. PICK n \in S : First(D) = N - n
  BY <1>2
<1>4. ASSUME NEW m \in S PROVE n >= m
  <2>1. N - n <= N - m
    BY <1>2, <1>3
  <2>2. m \in Nat /\ n \in Nat
    OBVIOUS
  <2>3. QED
    BY <2>1, <2>2
<1>5. QED
  BY <1>4 DEF Last

\* A new call is a call.
LEMMA MadeType ==
  ASSUME NEW m \in Message, NEW state \in {"MONITORING", "RECORDING"},
         NEW mon \in MonitoringState, NEW r \in Recorders \cup {NoRecorder}
  PROVE  Made(m, state, mon, r) \in Call
<1>1. (m.enc \/ (mon # "DUPLICATE" /\ EncryptedMode(m))) \in BOOLEAN
  OBVIOUS
<1>2. /\ m.sys \in Systems /\ m.tg \in Talkgroups
      /\ m.ch \in UNION {Channels[s] : s \in Systems}
  BY DEF Message
<1>3. QED
  BY <1>1, <1>2 DEF Made, Call

\* The recorder that is started was AVAILABLE.
LEMMA Chosen ==
  ASSUME NEW m \in Message, Served(m)
  PROVE  /\ First(Available(m)) \in Recorders
         /\ serving[First(Available(m))] = 0
<1> USE ManagerAssumption
<1>1. Covering(m.ch) \in SUBSET Sources /\ Covering(m.ch) # {}
  BY DEF Served, Reached, Covering
<1>2. First(Covering(m.ch)) \in Sources
  BY <1>1, FirstIsLeast
<1>3. FirstPool(m) \subseteq Recorders
  BY <1>2 DEF FirstPool
<1>4. Available(m) \in SUBSET Nat /\ Available(m) # {} /\ Available(m) \subseteq Recorders
  BY <1>3 DEF Available, Served
<1>5. First(Available(m)) \in Available(m)
  BY <1>4, FirstIsLeast
<1>6. QED
  BY <1>4, <1>5 DEF Available

\* The call that is superseded is recording the same talkgroup.
LEMMA Superseded ==
  ASSUME TypeOK, NEW m \in Message, Originals(m) # {}
  PROVE  LET o == Last(Originals(m))
         IN  o \in calls /\ Recording(o) /\ call[o].tg = m.tg
<1>1. made \in Nat /\ calls \subseteq 0..made
  BY ManagerAssumption DEF TypeOK
<1>2. Originals(m) \in SUBSET (0..made)
  BY <1>1 DEF Originals
<1>3. Last(Originals(m)) \in Originals(m)
  BY <1>1, <1>2, LastIsGreatest
<1>4. QED
  BY <1>3 DEF Originals

\* Adding a call: the others are as they were.
LEMMA Added ==
  ASSUME NEW record, Add(record)
  PROVE  /\ calls' = calls \cup {made + 1}
         /\ call'[made + 1] = record
         /\ \A c \in calls : c # made + 1 => call'[c] = call[c]
         /\ call' = [c \in calls' |-> call'[c]]
BY DEF Add, calls

\* Erasing one: the others are as they were.
LEMMA Erased ==
  ASSUME NEW c, Erase(c)
  PROVE  /\ calls' = calls \ {c}
         /\ \A d \in calls' : call'[d] = call[d]
         /\ call' = [d \in calls' |-> call'[d]]
BY DEF Erase, calls

\* What conclude_call notes of a call that has or had a recorder.
LEMMA Concluded ==
  ASSUME IInv, NEW c \in calls, NEW superseded \in BOOLEAN, Conclude(c, superseded),
         call[c].rec # NoRecorder
  PROVE  \E e \in Ending : /\ ends' = ends \cup {e}
                           /\ e.by = c /\ e.of = tape[call[c].rec]
<1> DEFINE e == [by |-> c, of |-> tape[call[c].rec], removed |-> superseded \/ call[c].enc]
<1>1. call[c] \in Call /\ c \in Ids
  BY ManagerAssumption DEF IInv, TypeOK, Ids
<1>2. call[c].rec \in Recorders /\ tape[call[c].rec] \in Ids
  <2>1. call[c].rec \in Recorders
    BY <1>1 DEF Call
  <2>2. tape[call[c].rec] \in 0..MaxCalls /\ tape[call[c].rec] # 0
    BY <2>1 DEF IInv, TypeOK, Holding
  <2>3. QED
    BY <2>1, <2>2, ManagerAssumption DEF Ids
<1>3. (superseded \/ call[c].enc) \in BOOLEAN
  OBVIOUS
<1>4. e \in Ending
  BY <1>1, <1>2, <1>3 DEF Ending
<1>5. QED
  BY <1>4 DEF Conclude


\* The number of the next call is not in use.
LEMMA Fresh ==
  ASSUME IInv, NEW m, NewCall(m)
  PROVE  /\ made' = made + 1 /\ made + 1 \in Ids /\ made + 1 # 0
         /\ made + 1 \in 0..MaxCalls
         /\ calls \cup {made + 1} \subseteq 1..made'
         /\ recorded \cup {made + 1} \subseteq 1..made'
         /\ made + 1 \notin calls /\ made + 1 \notin recorded
         /\ \A e \in ends : e.by \in Ids /\ e.by # made + 1
         /\ \A r \in Recorders : serving[r] # made + 1
         /\ made' \in 0..MaxCalls /\ phase = "running" /\ phase' = phase /\ config' = config
<1> USE ManagerAssumption
<1>1. made \in Nat /\ made < MaxCalls /\ MaxCalls \in Nat /\ made' = made + 1
  BY DEF IInv, TypeOK, NewCall
<1>2. calls \subseteq 1..made /\ recorded \subseteq 1..made
  BY DEF IInv, TypeOK
<1>3. \A e \in ends : e.by \in Ids /\ e.by <= made
  BY DEF IInv, TypeOK, Past, Ending
<1>4. phase = "running" /\ phase' = phase /\ config' = config
  BY DEF NewCall, Frame
<1>5. made + 1 \notin calls /\ made + 1 \notin recorded
  BY <1>1, <1>2
<1>6. \A r \in Recorders : serving[r] # made + 1
  <2>1. ASSUME NEW r \in Recorders, serving[r] = made + 1 PROVE FALSE
    <3>1. serving[r] # 0
      BY <1>1, <2>1
    <3>2. serving[r] \in calls
      BY <1>4, <3>1 DEF IInv, PoolSound
    <3>3. QED
      BY <1>5, <2>1, <3>2
  <2>2. QED
    BY <2>1
<1>7. \A e \in ends : e.by \in Ids /\ e.by # made + 1
  BY <1>1, <1>3 DEF Ids
<1>8. /\ made + 1 \in Ids /\ made + 1 # 0 /\ made + 1 \in 0..MaxCalls
      /\ made' \in 0..MaxCalls
      /\ calls \cup {made + 1} \subseteq 1..made' /\ recorded \cup {made + 1} \subseteq 1..made'
  BY <1>1, <1>2 DEF Ids
<1>9. QED
  BY <1>1, <1>4, <1>5, <1>6, <1>7, <1>8

(***************************************************************************)
(* The actions preserve the invariant                                      *)
(***************************************************************************)

LEMMA InitInv == Init => IInv
<1> SUFFICES ASSUME Init PROVE IInv
  OBVIOUS
<1>1. calls = {} /\ ends = {} /\ recorded = {}
  BY DEF Init, calls
<1>2. TypeOK
  <2>1. call \in [calls -> Call] /\ made \in 0..MaxCalls
    BY <1>1, ManagerAssumption DEF Init, calls
  <2>2. serving \in [Recorders -> 0..MaxCalls] /\ tape \in [Recorders -> 0..MaxCalls]
    BY ManagerAssumption DEF Init
  <2>3. QED
    BY <1>1, <2>1, <2>2 DEF Init, TypeOK
<1>3. \A r \in Recorders : serving[r] = 0
  BY DEF Init
<1>4. QED
  BY <1>1, <1>2, <1>3
     DEF IInv, Holding, Taping, Past, PoolSound, OwnAudio, RecordedIsConcluded

\* A step that changes no recorder, erases nothing and concludes nothing, and
\* leaves every call what it is to its recorder: calls it adds only monitor.
LEMMA CallsOnlyInv ==
  ASSUME IInv, TypeOK', phase' = phase, calls \subseteq calls', made <= made',
         \A c \in calls : /\ call'[c].state = call[c].state /\ call'[c].mon = call[c].mon
                          /\ call'[c].rec = call[c].rec,
         \A c \in calls' \ calls : /\ call'[c].state = "MONITORING"
                                   /\ call'[c].mon # "SUPERSEDED"
                                   /\ call'[c].rec = NoRecorder /\ c \notin recorded,
         UNCHANGED <<recorder, history>>
  PROVE  IInv'
<1>1. serving' = serving /\ tape' = tape /\ recorded' = recorded /\ ends' = ends
  BY DEF recorder, history
<1>2. \A c \in calls : /\ Recording(c)' <=> Recording(c)
                       /\ call'[c].mon = call[c].mon /\ call'[c].rec = call[c].rec
  BY DEF Recording
<1>3. \A c \in calls' \ calls : ~Recording(c)'
  BY DEF Recording
<1>4. Holding'
  BY <1>1, <1>2, <1>3 DEF Holding, IInv
<1>5. Taping'
  BY <1>1 DEF Taping, IInv
<1>6. Past'
  <2>1. ASSUME NEW e \in ends PROVE e.by <= made'
    <3>1. e.by \in Nat /\ made \in Nat /\ made' \in Nat /\ e.by <= made
      BY ManagerAssumption DEF IInv, TypeOK, Past, Ending, Ids
    <3>2. QED
      BY <3>1
  <2>2. QED
    BY <1>1, <2>1 DEF Past
<1>7. PoolSound'
  BY <1>1, <1>2, <1>3 DEF PoolSound, IInv
<1>8. OwnAudio'
  BY <1>1 DEF OwnAudio, IInv
<1>9. RecordedIsConcluded'
  BY <1>1, <1>2, <1>3 DEF RecordedIsConcluded, IInv
<1>10. QED
  BY <1>4, <1>5, <1>6, <1>7, <1>8, <1>9 DEF IInv

\* A new call that only monitors.
LEMMA QuietAddInv ==
  ASSUME IInv, NEW m \in Message, NewCall(m), NEW mon \in MonitoringState, mon # "SUPERSEDED",
         Add(Made(m, "MONITORING", mon, NoRecorder)), UNCHANGED <<recorder, history>>
  PROVE  IInv'
<1> DEFINE new == Made(m, "MONITORING", mon, NoRecorder)
<1>1. /\ new \in Call /\ new.state = "MONITORING" /\ new.mon = mon /\ new.rec = NoRecorder
  BY MadeType DEF Made
<1> HIDE DEF new
<1>2. /\ calls' = calls \cup {made + 1} /\ call'[made + 1] = new
      /\ \A c \in calls : c # made + 1 => call'[c] = call[c]
      /\ call' = [c \in calls' |-> call'[c]]
  BY Added DEF new
<1>3. /\ made' = made + 1 /\ calls' \subseteq 1..made' /\ recorded \subseteq 1..made'
      /\ made + 1 \notin calls /\ made + 1 \notin recorded
      /\ made' \in 0..MaxCalls /\ phase' = phase /\ config' = config
  BY <1>2, Fresh
<1>4. \A c \in calls' : call'[c] \in Call
  BY <1>1, <1>2 DEF IInv, TypeOK
<1>5. call' \in [calls' -> Call]
  BY <1>2, <1>4
<1>6. TypeOK'
  BY <1>3, <1>5 DEF IInv, TypeOK, recorder, history
<1>7. made \in Nat /\ made <= made'
  BY <1>3, ManagerAssumption DEF IInv, TypeOK
<1>8. QED
  BY <1>1, <1>2, <1>3, <1>6, <1>7, CallsOnlyInv

LEMMA DuplicateInv ==
  ASSUME IInv, NEW m \in Message, Duplicate(m)
  PROVE  IInv'
BY QuietAddInv DEF Duplicate, MonitoringState

LEMMA RefuseInv ==
  ASSUME IInv, NEW m \in Message, Refuse(m)
  PROVE  IInv'
<1>1. PICK why \in MonitoringState :
        Refused(m, why) /\ Add(Made(m, "MONITORING", why, NoRecorder))
  BY DEF Refuse
<1>2. why # "SUPERSEDED"
  BY <1>1 DEF Refused
<1>3. QED
  BY <1>1, <1>2, QuietAddInv DEF Refuse

\* Only times and the encryption of calls change.
LEMMA TouchedInv ==
  ASSUME IInv, UNCHANGED <<config, phase, made, recorder, history>>, calls' = calls,
         call' = [c \in calls |-> call'[c]], \A c \in calls : call'[c] \in Call,
         \A c \in calls : /\ call'[c].state = call[c].state /\ call'[c].mon = call[c].mon
                          /\ call'[c].rec = call[c].rec
  PROVE  IInv'
<1>1. TypeOK'
  <2>1. call' \in [calls' -> Call]
    OBVIOUS
  <2>2. QED
    BY <2>1 DEF IInv, TypeOK, recorder, history
<1>2. made <= made'
  BY ManagerAssumption DEF IInv, TypeOK
<1>3. QED
  BY <1>1, <1>2, CallsOnlyInv

LEMMA RegrantInv ==
  ASSUME IInv, NEW m \in Message, Regrant(m)
  PROVE  IInv'
<1>1. /\ call' = [c \in calls |-> IF Matches(c, m) THEN [call[c] EXCEPT !.stale = FALSE]
                                  ELSE call[c]]
      /\ UNCHANGED <<config, phase, made, recorder, history>>
  BY DEF Regrant, Frame
<1>2. calls' = calls
  BY <1>1 DEF calls
<1>3. ASSUME NEW c \in calls
      PROVE  /\ call'[c] \in Call
             /\ call'[c].state = call[c].state /\ call'[c].mon = call[c].mon
             /\ call'[c].rec = call[c].rec
  <2>1. call[c] \in Call
    BY DEF IInv, TypeOK
  <2>2. call'[c] = [call[c] EXCEPT !.stale = FALSE] \/ call'[c] = call[c]
    BY <1>1
  <2>3. QED
    BY <2>1, <2>2 DEF Call
<1>4. call' = [c \in calls |-> call'[c]]
  BY <1>1
<1>5. QED
  BY <1>1, <1>2, <1>3, <1>4, TouchedInv

LEMMA UpdateInv ==
  ASSUME IInv, NEW m \in Message, Update(m)
  PROVE  IInv'
<1>1. /\ call' = [c \in calls |->
                    IF Matches(c, m)
                    THEN [call[c] EXCEPT !.stale = FALSE, !.enc = @ \/ Encrypted(m)]
                    ELSE call[c]]
      /\ UNCHANGED <<config, phase, made, recorder, history>>
  BY DEF Update, Frame
<1>2. calls' = calls
  BY <1>1 DEF calls
<1>3. ASSUME NEW c \in calls
      PROVE  /\ call'[c] \in Call
             /\ call'[c].state = call[c].state /\ call'[c].mon = call[c].mon
             /\ call'[c].rec = call[c].rec
  <2> DEFINE enc == call[c].enc \/ Encrypted(m)
  <2>1. call[c] \in Call
    BY DEF IInv, TypeOK
  <2>2. call'[c] = [call[c] EXCEPT !.stale = FALSE, !.enc = enc] \/ call'[c] = call[c]
    BY <1>1
  <2>3. enc \in BOOLEAN
    OBVIOUS
  <2> HIDE DEF enc
  <2>4. QED
    BY <2>1, <2>2, <2>3 DEF Call
<1>4. call' = [c \in calls |-> call'[c]]
  BY <1>1
<1>5. QED
  BY <1>1, <1>2, <1>3, <1>4, TouchedInv

LEMMA UpdatesLapseInv ==
  ASSUME IInv, NEW c \in calls, UpdatesLapse(c)
  PROVE  IInv'
<1>1. /\ call' = [call EXCEPT ![c].stale = TRUE]
      /\ UNCHANGED <<config, phase, made, recorder, history>>
  BY DEF UpdatesLapse, Frame
<1>2. call \in [calls -> Call]
  BY DEF IInv, TypeOK
<1>3. calls' = calls
  BY <1>1 DEF calls
<1>4. ASSUME NEW d \in calls
      PROVE  /\ call'[d] \in Call
             /\ call'[d].state = call[d].state /\ call'[d].mon = call[d].mon
             /\ call'[d].rec = call[d].rec
  <2>1. call[d] \in Call
    BY <1>2
  <2>2. call'[d] = [call[d] EXCEPT !.stale = TRUE] \/ call'[d] = call[d]
    BY <1>1, <1>2
  <2>3. QED
    BY <2>1, <2>2 DEF Call
<1>5. call' = [d \in calls |-> call'[d]]
  BY <1>1, <1>2
<1>6. QED
  BY <1>1, <1>3, <1>4, <1>5, TouchedInv

\* The recorders write and fall silent.
LEMMA QuietInv ==
  ASSUME IInv, NEW r \in Recorders, Voice(r) \/ FallsQuiet(r)
  PROVE  IInv'
<1>1. UNCHANGED <<config, phase, made, call, serving, tape, history>>
  BY DEF Voice, FallsQuiet, Frame
<1>2. quiet' \in [Recorders -> BOOLEAN]
  BY DEF Voice, FallsQuiet, IInv, TypeOK
<1>3. TypeOK'
  BY <1>1, <1>2 DEF IInv, TypeOK, history, calls
<1>4. QED
  BY <1>1, <1>3 DEF IInv, history, calls, Recording, Holding, Taping, Past, PoolSound,
                    OwnAudio, RecordedIsConcluded

\* The recorder that is started lists the new call; nothing else is listed anew.
LEMMA Started ==
  ASSUME TypeOK, NEW r \in Recorders, NEW c \in 1..MaxCalls, Start(r, c)
  PROVE  /\ recorded' = recorded \cup {c}
         /\ tape' \in [Recorders -> 0..MaxCalls] /\ quiet' \in [Recorders -> BOOLEAN]
         /\ tape'[r] = c /\ \A x \in Recorders : x # r => tape'[x] = tape[x]
<1>1. c \in 0..MaxCalls
  BY ManagerAssumption
<1>2. QED
  BY <1>1 DEF TypeOK, Start

LEMMA RecordInv ==
  ASSUME IInv, NEW m \in Message, Record(m)
  PROVE  IInv'
<1> DEFINE r == First(Available(m))
           new == Made(m, "RECORDING", "UNSPECIFIED", r)
           n == made + 1
<1>1. /\ NewCall(m) /\ Add(new) /\ serving' = [serving EXCEPT ![r] = n] /\ Start(r, n)
      /\ ends' = ends
  BY DEF Record
<1>2. r \in Recorders /\ serving[r] = 0 /\ r # NoRecorder
  BY Chosen, ManagerAssumption DEF Record
<1>3. new \in Call /\ new.state = "RECORDING" /\ new.mon = "UNSPECIFIED" /\ new.rec = r
  BY <1>2, MadeType DEF Made, MonitoringState
<1>4. /\ calls' = calls \cup {n} /\ call'[n] = new
      /\ \A c \in calls : c # n => call'[c] = call[c]
      /\ call' = [c \in calls' |-> call'[c]]
  BY <1>1, Added
<1>5. /\ made' = n /\ n \in Ids /\ n # 0 /\ n \in 0..MaxCalls /\ made' \in 0..MaxCalls
      /\ calls \cup {n} \subseteq 1..made' /\ recorded \cup {n} \subseteq 1..made'
      /\ n \notin calls /\ n \notin recorded
      /\ \A e \in ends : e.by \in Ids /\ e.by # n
      /\ \A x \in Recorders : serving[x] # n
      /\ phase = "running" /\ phase' = phase /\ config' = config
  BY <1>1, Fresh
<1>6. /\ recorded' = recorded \cup {n} /\ tape' \in [Recorders -> 0..MaxCalls]
      /\ quiet' \in [Recorders -> BOOLEAN]
      /\ tape'[r] = n /\ \A x \in Recorders : x # r => tape'[x] = tape[x]
  BY <1>1, <1>2, <1>5, Started DEF IInv, Ids
<1>7. serving'[r] = n /\ \A x \in Recorders : x # r => serving'[x] = serving[x]
  BY <1>1, <1>2 DEF IInv, TypeOK
<1>8. serving' \in [Recorders -> 0..MaxCalls]
  BY <1>1, <1>5 DEF IInv, TypeOK
<1> HIDE DEF r, new, n
<1>9. TypeOK'
  <2>1. \A c \in calls' : call'[c] \in Call
    BY <1>3, <1>4 DEF IInv, TypeOK
  <2>2. call' \in [calls' -> Call]
    BY <1>4, <2>1
  <2>3. QED
    BY <1>1, <1>4, <1>5, <1>6, <1>8, <2>2 DEF IInv, TypeOK
<1>10. /\ call'[n].state = "RECORDING" /\ call'[n].rec = r /\ call'[n].mon = "UNSPECIFIED"
       /\ \A c \in calls : call'[c] = call[c]
  BY <1>3, <1>4, <1>5
<1>11. \A c \in calls : call[c].rec # NoRecorder => call[c].rec \in Recorders
  BY DEF IInv, TypeOK, Call
<1>12. Holding'
  BY <1>2, <1>4, <1>5, <1>6, <1>10, <1>11 DEF Holding, IInv, Recording
<1>13. Taping'
  BY <1>5, <1>6, <1>7 DEF Taping, IInv
<1>14. Past'
  <2>1. ASSUME NEW e \in ends PROVE e.by <= made'
    <3>1. e.by \in Nat /\ made \in Nat /\ made' = made + 1 /\ e.by <= made
      BY <1>5, ManagerAssumption DEF IInv, TypeOK, Past, Ending, Ids, n
    <3>2. QED
      BY <3>1
  <2>2. QED
    BY <1>1, <2>1 DEF Past
<1>15. PoolSound'
  <2>1. ASSUME NEW c \in calls', call'[c].state = "RECORDING" PROVE serving'[call'[c].rec] = c
    <3>1. CASE c = n
      BY <1>7, <1>10, <3>1
    <3>2. CASE c \in calls
      <4>1. Recording(c) /\ call'[c].rec = call[c].rec /\ serving[call[c].rec] = c
        BY <1>5, <1>10, <2>1, <3>2 DEF IInv, PoolSound, Recording
      <4>2. call[c].rec \in Recorders
        BY <1>11, <3>2, <4>1 DEF IInv, Holding
      <4>3. c # 0
        BY <3>2, ManagerAssumption DEF IInv, TypeOK
      <4>4. QED
        BY <1>2, <1>7, <4>1, <4>2, <4>3
    <3>3. QED
      BY <1>4, <3>1, <3>2
  <2>2. ASSUME NEW x \in Recorders, serving'[x] # 0
        PROVE  /\ serving'[x] \in calls' /\ call'[serving'[x]].state = "RECORDING"
               /\ call'[serving'[x]].rec = x
    <3>1. CASE x = r
      BY <1>4, <1>7, <1>10, <3>1
    <3>2. CASE x # r
      BY <1>4, <1>5, <1>7, <1>10, <2>2, <3>2 DEF IInv, PoolSound, Recording
    <3>3. QED
      BY <3>1, <3>2
  <2>3. QED
    BY <2>1, <2>2 DEF PoolSound, Recording
<1>16. OwnAudio'
  BY <1>1, <1>5 DEF OwnAudio, IInv
<1>17. RecordedIsConcluded'
  BY <1>1, <1>4, <1>5, <1>6, <1>10 DEF RecordedIsConcluded, IInv, Recording
<1>18. QED
  BY <1>9, <1>12, <1>13, <1>14, <1>15, <1>16, <1>17 DEF IInv

\* What is known of a call that records: its recorder serves and lists it.
LEMMA Recorder ==
  ASSUME IInv, phase = "running", NEW c \in calls, Recording(c)
  PROVE  /\ call[c].rec \in Recorders /\ call[c].rec # NoRecorder
         /\ serving[call[c].rec] = c /\ tape[call[c].rec] = c /\ c # 0
<1>1. call[c].rec \in Recorders /\ call[c].rec # NoRecorder
  BY DEF IInv, TypeOK, Call, Holding
<1>2. serving[call[c].rec] = c
  BY DEF IInv, PoolSound
<1>3. c # 0
  BY ManagerAssumption DEF IInv, TypeOK
<1>4. QED
  BY <1>1, <1>2, <1>3 DEF IInv, Taping

LEMMA SupersedeInv ==
  ASSUME IInv, NEW m \in Message, Supersede(m)
  PROVE  IInv'
<1> DEFINE r == First(Available(m))
           new == Made(m, "RECORDING", "UNSPECIFIED", r)
           n == made + 1
           o == Last(Originals(m))
           p == call[o].rec
           old == [call[o] EXCEPT !.state = "MONITORING", !.mon = "SUPERSEDED"]
<1>1. /\ NewCall(m) /\ Start(r, n) /\ Conclude(o, TRUE)
      /\ call' = [c \in calls \cup {n} |-> IF c = n THEN new ELSE IF c = o THEN old ELSE call[c]]
      /\ serving' = [serving EXCEPT ![r] = n, ![p] = 0]
  BY DEF Supersede
<1>2. r \in Recorders /\ serving[r] = 0 /\ r # NoRecorder
  BY Chosen, ManagerAssumption DEF Supersede
<1>3. new \in Call /\ new.state = "RECORDING" /\ new.mon = "UNSPECIFIED" /\ new.rec = r
  BY <1>2, MadeType DEF Made, MonitoringState
<1>4. o \in calls /\ Recording(o)
  BY Superseded DEF IInv, Supersede
<1>5. /\ made' = n /\ n \in Ids /\ n # 0 /\ n \in 0..MaxCalls /\ made' \in 0..MaxCalls
      /\ calls \cup {n} \subseteq 1..made' /\ recorded \cup {n} \subseteq 1..made'
      /\ n \notin calls /\ n \notin recorded
      /\ \A e \in ends : e.by \in Ids /\ e.by # n
      /\ \A x \in Recorders : serving[x] # n
      /\ phase = "running" /\ phase' = phase /\ config' = config
  BY <1>1, Fresh
<1>6. /\ recorded' = recorded \cup {n} /\ tape' \in [Recorders -> 0..MaxCalls]
      /\ quiet' \in [Recorders -> BOOLEAN]
      /\ tape'[r] = n /\ \A x \in Recorders : x # r => tape'[x] = tape[x]
  BY <1>1, <1>2, <1>5, Started DEF IInv, Ids
<1>7. p \in Recorders /\ p # NoRecorder /\ serving[p] = o /\ tape[p] = o /\ o # 0
  BY <1>4, <1>5, Recorder
<1>8. PICK e \in Ending : ends' = ends \cup {e} /\ e.by = o /\ e.of = o
  BY <1>1, <1>4, <1>7, Concluded
<1>9. p # r
  BY <1>2, <1>7
<1>10. /\ serving'[r] = n /\ serving'[p] = 0
       /\ \A x \in Recorders : x # r /\ x # p => serving'[x] = serving[x]
  BY <1>1, <1>2, <1>7, <1>9 DEF IInv, TypeOK
<1>11. serving' \in [Recorders -> 0..MaxCalls]
  <2>1. 0 \in 0..MaxCalls
    BY ManagerAssumption
  <2>2. QED
    BY <1>1, <1>5, <2>1 DEF IInv, TypeOK
<1>12. old \in Call /\ old.state = "MONITORING" /\ old.mon = "SUPERSEDED" /\ old.rec = p
  <2>1. call[o] \in Call
    BY <1>4 DEF IInv, TypeOK
  <2>2. QED
    BY <2>1 DEF Call, MonitoringState
<1>13. n # o
  BY <1>4, <1>5
<1>14. calls' = calls \cup {n}
  BY <1>1 DEF calls
<1> HIDE DEF r, new, n, old, p, o
<1>15. /\ call'[n] = new /\ call'[o] = old
       /\ \A c \in calls : c # o => call'[c] = call[c]
       /\ call' = [c \in calls' |-> call'[c]]
  BY <1>1, <1>4, <1>5, <1>13, <1>14
<1>16. TypeOK'
  <2>1. \A c \in calls' : call'[c] \in Call
    BY <1>3, <1>12, <1>14, <1>15 DEF IInv, TypeOK
  <2>2. call' \in [calls' -> Call]
    BY <1>15, <2>1
  <2>3. ends' \subseteq Ending
    BY <1>8 DEF IInv, TypeOK
  <2>4. QED
    BY <1>5, <1>6, <1>11, <1>14, <2>2, <2>3 DEF IInv, TypeOK
<1>17. \A c \in calls : call[c].rec # NoRecorder => call[c].rec \in Recorders
  BY DEF IInv, TypeOK, Call
<1>18. Holding'
  <2>1. ASSUME NEW c \in calls', call'[c].state = "RECORDING" \/ call'[c].mon = "SUPERSEDED"
        PROVE  call'[c].rec # NoRecorder
    BY <1>2, <1>3, <1>7, <1>12, <1>14, <1>15, <2>1 DEF IInv, Holding, Recording
  <2>2. ASSUME NEW c \in calls', call'[c].rec # NoRecorder
        PROVE  tape'[call'[c].rec] # 0
    <3>1. CASE c = n
      BY <1>3, <1>5, <1>6, <1>15, <3>1
    <3>2. CASE c = o
      BY <1>6, <1>7, <1>9, <1>12, <1>15, <3>2
    <3>3. CASE c \in calls /\ c # o
      BY <1>5, <1>6, <1>15, <1>17, <2>2, <3>3 DEF IInv, Holding
    <3>4. QED
      BY <1>14, <3>1, <3>2, <3>3
  <2>3. QED
    BY <2>1, <2>2 DEF Holding, Recording
<1>19. Taping'
  BY <1>5, <1>6, <1>10 DEF Taping, IInv
<1>20. Past'
  <2>1. ASSUME NEW x \in ends PROVE x.by <= made'
    <3>1. x.by \in Nat /\ made \in Nat /\ made' = made + 1 /\ x.by <= made
      BY <1>5, ManagerAssumption DEF IInv, TypeOK, Past, Ending, Ids, n
    <3>2. QED
      BY <3>1
  <2>2. o <= made'
    BY <1>4, <1>5
  <2>3. QED
    BY <1>8, <2>1, <2>2 DEF Past
<1>21. PoolSound'
  <2>1. ASSUME NEW c \in calls', call'[c].state = "RECORDING" PROVE serving'[call'[c].rec] = c
    <3>1. CASE c = n
      BY <1>3, <1>10, <1>15, <3>1
    <3>2. CASE c \in calls /\ c # o
      <4>1. Recording(c) /\ call'[c].rec = call[c].rec
        BY <1>15, <2>1, <3>2 DEF Recording
      <4>2. call[c].rec \in Recorders /\ serving[call[c].rec] = c /\ c # 0
        BY <1>5, <3>2, <4>1, Recorder
      <4>3. QED
        BY <1>2, <1>7, <1>10, <3>2, <4>1, <4>2
    <3>3. c # o
      BY <1>12, <1>15, <2>1
    <3>4. QED
      BY <1>14, <3>1, <3>2, <3>3
  <2>2. ASSUME NEW x \in Recorders, serving'[x] # 0
        PROVE  /\ serving'[x] \in calls' /\ call'[serving'[x]].state = "RECORDING"
               /\ call'[serving'[x]].rec = x
    <3>1. CASE x = r
      BY <1>3, <1>10, <1>14, <1>15, <3>1
    <3>2. CASE x # r
      <4>1. x # p /\ serving'[x] = serving[x]
        BY <1>10, <2>2, <3>2
      <4>2. serving[x] \in calls /\ Recording(serving[x]) /\ call[serving[x]].rec = x
        BY <1>5, <2>2, <4>1 DEF IInv, PoolSound
      <4>3. serving[x] # o
        BY <4>1, <4>2 DEF p
      <4>4. QED
        BY <1>14, <1>15, <4>1, <4>2, <4>3 DEF Recording
    <3>3. QED
      BY <3>1, <3>2
  <2>3. QED
    BY <2>1, <2>2 DEF PoolSound, Recording
<1>22. OwnAudio'
  BY <1>5, <1>8 DEF OwnAudio, IInv
<1>23. RecordedIsConcluded'
  <2>1. ASSUME NEW c \in recorded'
        PROVE  (c \in calls' /\ call'[c].state = "RECORDING") <=> ~\E x \in ends' : x.by = c
    <3>1. CASE c = n
      BY <1>3, <1>5, <1>8, <1>13, <1>14, <1>15, <3>1
    <3>2. CASE c = o
      BY <1>8, <1>12, <1>15, <3>2
    <3>3. CASE c # n /\ c # o
      <4>1. c \in recorded
        BY <1>6, <3>3
      <4>2. (c \in calls /\ Recording(c)) <=> ~\E x \in ends : x.by = c
        BY <4>1 DEF IInv, RecordedIsConcluded
      <4>3. (\E x \in ends' : x.by = c) <=> \E x \in ends : x.by = c
        BY <1>8, <3>3
      <4>4. QED
        BY <1>14, <1>15, <3>3, <4>2, <4>3 DEF Recording
    <3>4. QED
      BY <3>1, <3>2, <3>3
  <2>2. QED
    BY <2>1 DEF RecordedIsConcluded, Recording
<1>24. QED
  BY <1>16, <1>18, <1>19, <1>20, <1>21, <1>22, <1>23 DEF IInv

\* Erasing a call leaves the others typed.
LEMMA ErasedType ==
  ASSUME IInv, NEW c \in calls, Erase(c), made' = made
  PROVE  call' \in [calls' -> Call] /\ calls' \subseteq 1..made'
<1>1. calls' \subseteq calls /\ \A d \in calls' : call'[d] \in Call
  BY Erased DEF IInv, TypeOK
<1>2. call' = [d \in calls' |-> call'[d]]
  BY Erased
<1>3. QED
  BY <1>1, <1>2 DEF IInv, TypeOK

LEMMA ExpireMonitoringInv ==
  ASSUME IInv, NEW c \in calls, ExpireMonitoring(c)
  PROVE  IInv'
<1>1. /\ ~Recording(c) /\ Erase(c) /\ phase = "running"
      /\ UNCHANGED <<config, phase, made, serving, tape, quiet, recorded, ends>>
  BY DEF ExpireMonitoring, Frame, recorder, history
<1>2. calls' = calls \ {c} /\ \A d \in calls' : call'[d] = call[d]
  BY <1>1, Erased
<1>3. TypeOK'
  BY <1>1, ErasedType DEF IInv, TypeOK
<1>4. Holding' /\ Taping' /\ Past' /\ OwnAudio'
  BY <1>1, <1>2 DEF IInv, Holding, Taping, Past, OwnAudio, Recording
<1>5. PoolSound'
  <2>1. \A r \in Recorders : serving[r] # 0 => serving[r] # c
    BY <1>1 DEF IInv, PoolSound
  <2>2. QED
    BY <1>1, <1>2, <2>1 DEF IInv, PoolSound, Recording
<1>6. RecordedIsConcluded'
  BY <1>1, <1>2 DEF IInv, RecordedIsConcluded, Recording
<1>7. QED
  BY <1>3, <1>4, <1>5, <1>6 DEF IInv

LEMMA ExpireRecordingInv ==
  ASSUME IInv, NEW c \in calls, ExpireRecording(c)
  PROVE  IInv'
<1> DEFINE p == call[c].rec
<1>1. /\ Recording(c) /\ Erase(c) /\ Conclude(c, FALSE) /\ phase = "running"
      /\ serving' = [serving EXCEPT ![p] = 0]
      /\ UNCHANGED <<config, phase, made, tape, quiet, recorded>>
  BY DEF ExpireRecording, Frame
<1>2. calls' = calls \ {c} /\ \A d \in calls' : call'[d] = call[d]
  BY <1>1, Erased
<1>3. p \in Recorders /\ p # NoRecorder /\ serving[p] = c /\ tape[p] = c /\ c # 0
  BY <1>1, Recorder
<1>4. PICK e \in Ending : ends' = ends \cup {e} /\ e.by = c /\ e.of = c
  BY <1>1, <1>3, Concluded
<1>5. /\ serving'[p] = 0 /\ \A x \in Recorders : x # p => serving'[x] = serving[x]
      /\ serving' \in [Recorders -> 0..MaxCalls]
  <2>1. 0 \in 0..MaxCalls
    BY ManagerAssumption
  <2>2. QED
    BY <1>1, <1>3, <2>1 DEF IInv, TypeOK
<1> HIDE DEF p
<1>6. TypeOK'
  <2>1. ends' \subseteq Ending
    BY <1>4 DEF IInv, TypeOK
  <2>2. QED
    BY <1>1, <1>5, <2>1, ErasedType DEF IInv, TypeOK
<1>7. Holding'
  BY <1>1, <1>2 DEF IInv, Holding, Recording
<1>8. Taping'
  BY <1>1, <1>5 DEF IInv, Taping
<1>9. Past'
  <2>1. c <= made
    BY ManagerAssumption DEF IInv, TypeOK
  <2>2. QED
    BY <1>1, <1>4, <2>1 DEF IInv, Past
<1>10. PoolSound'
  <2>1. ASSUME NEW d \in calls', call'[d].state = "RECORDING" PROVE serving'[call'[d].rec] = d
    <3>1. d \in calls /\ d # c /\ Recording(d) /\ call'[d].rec = call[d].rec
      BY <1>2, <2>1 DEF Recording
    <3>2. call[d].rec \in Recorders /\ serving[call[d].rec] = d
      BY <1>1, <3>1, Recorder
    <3>3. QED
      BY <1>3, <1>5, <3>1, <3>2
  <2>2. ASSUME NEW x \in Recorders, serving'[x] # 0
        PROVE  /\ serving'[x] \in calls' /\ call'[serving'[x]].state = "RECORDING"
               /\ call'[serving'[x]].rec = x
    <3>1. x # p /\ serving'[x] = serving[x]
      BY <1>5, <2>2
    <3>2. serving[x] \in calls /\ Recording(serving[x]) /\ call[serving[x]].rec = x
      BY <1>1, <2>2, <3>1 DEF IInv, PoolSound
    <3>3. serving[x] # c
      BY <3>1, <3>2 DEF p
    <3>4. QED
      BY <1>2, <3>1, <3>2, <3>3 DEF Recording
  <2>3. QED
    BY <2>1, <2>2 DEF PoolSound, Recording
<1>11. OwnAudio'
  BY <1>1, <1>4 DEF IInv, OwnAudio
<1>12. RecordedIsConcluded'
  BY <1>1, <1>2, <1>4 DEF IInv, RecordedIsConcluded, Recording
<1>13. QED
  BY <1>6, <1>7, <1>8, <1>9, <1>10, <1>11, <1>12 DEF IInv

\* Leaving the phase of the main loop changes nothing else.
LEMMA PhaseInv ==
  ASSUME IInv, BeginExit \/ ExitDone
  PROVE  IInv'
<1>1. /\ UNCHANGED <<config, made, call, serving, tape, quiet, recorded, ends>>
      /\ phase' \in {"exiting", "exited"}
  BY DEF BeginExit, ExitDone, recorder, history
<1>2. TypeOK' /\ Holding' /\ Past' /\ RecordedIsConcluded'
  BY <1>1 DEF IInv, TypeOK, Holding, Past, RecordedIsConcluded, Recording, calls
<1>3. Taping' /\ PoolSound' /\ OwnAudio'
  BY <1>1 DEF Taping, PoolSound, OwnAudio
<1>4. QED
  BY <1>2, <1>3 DEF IInv

LEMMA ExitConcludeInv ==
  ASSUME IInv, ExitConclude
  PROVE  IInv'
<1> DEFINE c == First(calls)
           p == call[c].rec
           superseded == call[c].mon = "SUPERSEDED"
<1>1. /\ Erase(c) /\ phase = "exiting"
      /\ UNCHANGED <<config, phase, made, tape, quiet, recorded>>
  BY DEF ExitConclude
<1>2. c \in calls
  <2>1. calls \in SUBSET Nat /\ calls # {}
    BY DEF ExitConclude, IInv, TypeOK
  <2>2. QED
    BY <2>1, FirstIsLeast
<1>3. \/ /\ Recording(c) \/ superseded
         /\ Conclude(c, superseded)
         /\ serving' = [serving EXCEPT ![p] = 0]
      \/ ~Recording(c) /\ ~superseded /\ UNCHANGED <<serving, ends>>
  BY DEF ExitConclude
<1> HIDE DEF c
<1>4. calls' = calls \ {c} /\ \A d \in calls' : call'[d] = call[d]
  BY <1>1, <1>2, Erased
<1>5. Taping' /\ PoolSound' /\ OwnAudio'
  BY <1>1 DEF Taping, PoolSound, OwnAudio
<1>6. Holding'
  BY <1>1, <1>4 DEF IInv, Holding, Recording
<1>7. CASE Conclude(c, superseded) /\ serving' = [serving EXCEPT ![p] = 0]
            /\ (Recording(c) \/ superseded)
  <2>1. p # NoRecorder
    BY <1>2, <1>7 DEF IInv, Holding
  <2>2. superseded \in BOOLEAN
    OBVIOUS
  <2> HIDE DEF superseded
  <2>3. PICK e \in Ending : ends' = ends \cup {e} /\ e.by = c
    BY <1>2, <1>7, <2>1, <2>2, Concluded
  <2>4. TypeOK'
    <3>1. ends' \subseteq Ending
      BY <2>3 DEF IInv, TypeOK
    <3>2. serving' \in [Recorders -> 0..MaxCalls]
      <4>1. 0 \in 0..MaxCalls
        BY ManagerAssumption
      <4>2. QED
        BY <1>7, <4>1 DEF IInv, TypeOK
    <3>3. QED
      BY <1>1, <1>2, <3>1, <3>2, ErasedType DEF IInv, TypeOK
  <2>5. Past'
    <3>1. c <= made
      BY <1>2, ManagerAssumption DEF IInv, TypeOK
    <3>2. QED
      BY <1>1, <2>3, <3>1 DEF IInv, Past
  <2>6. RecordedIsConcluded'
    BY <1>1, <1>4, <2>3 DEF IInv, RecordedIsConcluded, Recording
  <2>7. QED
    BY <1>5, <1>6, <2>4, <2>5, <2>6 DEF IInv
<1>8. CASE ~Recording(c) /\ UNCHANGED <<serving, ends>>
  <2>1. TypeOK'
    BY <1>1, <1>2, <1>8, ErasedType DEF IInv, TypeOK
  <2>2. Past'
    BY <1>1, <1>8 DEF IInv, Past
  <2>3. RecordedIsConcluded'
    BY <1>1, <1>4, <1>8 DEF IInv, RecordedIsConcluded, Recording
  <2>4. QED
    BY <1>5, <1>6, <2>1, <2>2, <2>3 DEF IInv
<1>9. QED
  BY <1>3, <1>7, <1>8

LEMMA StepInv == IInv /\ [Next]_vars => IInv'
<1> SUFFICES ASSUME IInv, [Next]_vars PROVE IInv'
  OBVIOUS
<1>1. ASSUME NEW m \in Message, Handle(m) PROVE IInv'
  BY <1>1, RegrantInv, UpdateInv, DuplicateInv, RefuseInv, RecordInv, SupersedeInv DEF Handle
<1>2. CASE Manage
  BY <1>2, UpdatesLapseInv, ExpireMonitoringInv, ExpireRecordingInv DEF Manage
<1>3. CASE UNCHANGED vars
  BY <1>3 DEF vars, recorder, history, calls, IInv, TypeOK, Holding, Taping, Past, PoolSound,
              OwnAudio, RecordedIsConcluded, Recording
<1>4. QED
  BY <1>1, <1>2, <1>3, QuietInv, PhaseInv, ExitConcludeInv DEF Next

(***************************************************************************)
(* The theorems                                                            *)
(***************************************************************************)

\* The inductive invariant holds in every state of the call manager.
THEOREM Invariant == Spec => []IInv
<1>1. QED
  BY InitInv, StepInv, PTL DEF Spec

\* The variables stay in their types: call numbers, recorders, endings.
THEOREM TypeCorrect == Spec => []TypeOK
<1>1. IInv => TypeOK
  BY DEF IInv
<1>2. QED
  BY <1>1, Invariant, PTL

\* manage_calls, handle_call_grant and start_recorder keep calls and recorders
\* in agreement: no recorder is lost to its pool or serves a call that is gone.
THEOREM PoolAgrees == Spec => []PoolSound
<1>1. IInv => PoolSound
  BY DEF IInv
<1>2. QED
  BY <1>1, Invariant, PTL

\* Until exit, conclude_call hands over the call's own transmissions.
THEOREM ConcludesOwn == Spec => []OwnAudio
<1>1. IInv => OwnAudio
  BY DEF IInv
<1>2. QED
  BY <1>1, Invariant, PTL

\* No call that got a recorder is erased without conclude_call, also on exit.
THEOREM NoneForgotten == Spec => []RecordedIsConcluded
<1>1. IInv => RecordedIsConcluded
  BY DEF IInv
<1>2. QED
  BY <1>1, Invariant, PTL

\* handle_call_grant gives up a call only for one that records: the call that
\* stops recording and stays in the vector is the one superseded in this step.
LEMMA StepKeepsRecording ==
  ASSUME IInv, IInv', Next, phase' = "running",
         NEW c \in calls \cap calls', Recording(c), call'[c].state # "RECORDING"
  PROVE  \E d \in calls' : d # c /\ call'[d].tg = call[c].tg /\ call'[d].state = "RECORDING"
<1>1. PICK m \in Message : Supersede(m)
  <2>1. ASSUME NEW m \in Message, Regrant(m) \/ Update(m) PROVE call'[c].state = call[c].state
    <3>1. call[c] \in Call /\ call'[c] \in Call
      BY DEF IInv, TypeOK
    <3>2. CASE Regrant(m)
      BY <3>1, <3>2 DEF Regrant, Call
    <3>3. CASE Update(m)
      BY <3>1, <3>3 DEF Update, Call
    <3>4. QED
      BY <2>1, <3>2, <3>3
  <2>2. ASSUME NEW m \in Message, Duplicate(m) \/ Refuse(m) \/ Record(m)
        PROVE  call'[c] = call[c]
    <3>1. NewCall(m) /\ \E x : Add(x)
      BY <2>2 DEF Duplicate, Refuse, Record
    <3>2. c # made + 1
      BY <3>1, Fresh
    <3>3. QED
      BY <3>1, <3>2, Added
  <2>3. ASSUME NEW r \in Recorders, Voice(r) \/ FallsQuiet(r) PROVE call' = call
    BY <2>3 DEF Voice, FallsQuiet
  <2>4. ASSUME NEW d \in calls, UpdatesLapse(d) PROVE call'[c].state = call[c].state
    <3>1. call[c] \in Call
      BY DEF IInv, TypeOK
    <3>2. QED
      BY <2>4, <3>1 DEF UpdatesLapse, IInv, TypeOK, Call
  <2>5. ASSUME NEW d \in calls, ExpireMonitoring(d) \/ ExpireRecording(d)
        PROVE  call'[c] = call[c]
    <3>1. Erase(d)
      BY <2>5 DEF ExpireMonitoring, ExpireRecording
    <3>2. QED
      BY <3>1, Erased
  <2>6. ~BeginExit /\ ~ExitConclude /\ ~ExitDone
    BY DEF BeginExit, ExitConclude, ExitDone
  <2>7. call'[c].state # call[c].state
    BY DEF Recording
  <2>8. ~Manage
    BY <2>4, <2>5, <2>7 DEF Manage
  <2>9. PICK m \in Message : Handle(m)
    BY <2>3, <2>6, <2>7, <2>8 DEF Next
  <2>10. QED
    BY <2>1, <2>2, <2>7, <2>9 DEF Handle
<1> DEFINE n == made + 1
           o == Last(Originals(m))
<1>2. o \in calls /\ call[o].tg = m.tg
  BY <1>1, Superseded DEF IInv, Supersede
<1>3. n \notin calls
  BY <1>1, Fresh DEF Supersede
<1>4. /\ n \in calls'
      /\ call'[n] = Made(m, "RECORDING", "UNSPECIFIED", First(Available(m)))
      /\ \A x \in calls : x # o => call'[x] = call[x]
  BY <1>1, <1>3 DEF Supersede, calls
<1>5. call'[n].tg = m.tg /\ call'[n].state = "RECORDING"
  BY <1>4 DEF Made
<1> HIDE DEF n, o
<1>6. c = o
  BY <1>4 DEF Recording
<1>7. QED
  BY <1>2, <1>3, <1>4, <1>5, <1>6

\* A call that stops recording while the program runs has been taken over by
\* another recording of the same talkgroup.
THEOREM TakeOverOnly == Spec => SupersedeKeepsRecording
<1>1. ASSUME IInv, IInv', [Next]_vars
      PROVE  [phase' = "running" =>
                \A c \in calls \cap calls' : Recording(c) /\ ~Recording(c)' =>
                  \E d \in calls' : d # c /\ call'[d].tg = call[c].tg /\ Recording(d)']_vars
  <2>1. CASE Next
    BY <1>1, <2>1, StepKeepsRecording DEF Recording
  <2>2. CASE UNCHANGED vars
    BY <2>2
  <2>3. QED
    BY <1>1, <2>1, <2>2
<1>2. QED
  BY <1>1, Invariant, PTL DEF Spec, SupersedeKeepsRecording

(***************************************************************************)
(* The refinement of RecorderPool                                          *)
(***************************************************************************)

\* What a recorder lists, and who records, got a recorder; also on exit the
\* recorder of a RECORDING call lists its transmissions.
Loan ==
  /\ \A r \in Recorders : tape[r] # 0 => tape[r] \in recorded
  /\ \A c \in calls : Recording(c) \/ call[c].mon = "SUPERSEDED" => c \in recorded
  /\ \A c \in calls : Recording(c) => tape[call[c].rec] = c

\* Calls that go, stay what they are or only begin to monitor.
Kept ==
  /\ tape' = tape /\ recorded' = recorded
  /\ \A c \in calls' :
       \/ /\ c \in calls /\ call'[c].state = call[c].state
          /\ call'[c].mon = call[c].mon /\ call'[c].rec = call[c].rec
       \/ call'[c].state = "MONITORING" /\ call'[c].mon # "SUPERSEDED"

LEMMA LoanKept == Loan /\ Kept => Loan'
BY DEF Loan, Kept, Recording

\* That is what a step does that starts no recorder.
LEMMA QuietKept ==
  ASSUME IInv, [Next]_vars, \A m \in Message : ~Record(m) /\ ~Supersede(m)
  PROVE  Kept
<1>1. ASSUME NEW m \in Message, Regrant(m) \/ Update(m) PROVE Kept
  <2>1. /\ tape' = tape /\ recorded' = recorded /\ calls' = calls
        /\ \A c \in calls : \/ call'[c] = call[c]
                            \/ \E b \in BOOLEAN : call'[c] = [call[c] EXCEPT !.stale = FALSE, !.enc = b]
                            \/ call'[c] = [call[c] EXCEPT !.stale = FALSE]
    <3>1. CASE Regrant(m)
      BY <3>1 DEF Regrant, recorder, history, calls
    <3>2. CASE Update(m)
      <4>1. \A c \in calls : (call[c].enc \/ Encrypted(m)) \in BOOLEAN
        OBVIOUS
      <4>2. QED
        BY <3>2, <4>1 DEF Update, recorder, history, calls
    <3>3. QED
      BY <1>1, <3>1, <3>2
  <2>2. \A c \in calls : call[c] \in Call
    BY DEF IInv, TypeOK
  <2>3. ASSUME NEW c \in calls
        PROVE  /\ call'[c].state = call[c].state /\ call'[c].mon = call[c].mon
               /\ call'[c].rec = call[c].rec
    BY <2>1, <2>2 DEF Call
  <2>4. QED
    BY <2>1, <2>3 DEF Kept
<1>2. ASSUME NEW m \in Message, Duplicate(m) \/ Refuse(m) PROVE Kept
  <2>1. /\ NewCall(m) /\ tape' = tape /\ recorded' = recorded
        /\ \E mon \in MonitoringState \ {"SUPERSEDED"} : Add(Made(m, "MONITORING", mon, NoRecorder))
    BY <1>2 DEF Duplicate, Refuse, Refused, MonitoringState, recorder, history
  <2>2. PICK mon \in MonitoringState \ {"SUPERSEDED"} :
          Add(Made(m, "MONITORING", mon, NoRecorder))
    BY <2>1
  <2>3. /\ calls' = calls \cup {made + 1} /\ made + 1 \notin calls
        /\ call'[made + 1] = Made(m, "MONITORING", mon, NoRecorder)
        /\ \A c \in calls : c # made + 1 => call'[c] = call[c]
    BY <2>1, <2>2, Added, Fresh
  <2>4. call'[made + 1].state = "MONITORING" /\ call'[made + 1].mon # "SUPERSEDED"
    BY <2>3 DEF Made
  <2>5. QED
    BY <2>1, <2>3, <2>4 DEF Kept
<1>3. ASSUME NEW c \in calls, UpdatesLapse(c) PROVE Kept
  <2>1. /\ tape' = tape /\ recorded' = recorded /\ call' = [call EXCEPT ![c].stale = TRUE]
        /\ call \in [calls -> Call]
    BY <1>3 DEF UpdatesLapse, recorder, history, IInv, TypeOK
  <2>2. calls' = calls
    BY <2>1 DEF calls
  <2>3. ASSUME NEW d \in calls
        PROVE  /\ call'[d].state = call[d].state /\ call'[d].mon = call[d].mon
               /\ call'[d].rec = call[d].rec
    BY <2>1 DEF Call
  <2>4. QED
    BY <2>1, <2>2, <2>3 DEF Kept
<1>4. ASSUME NEW c, Erase(c), tape' = tape, recorded' = recorded PROVE Kept
  BY <1>4, Erased DEF Kept
<1>5. ASSUME NEW r \in Recorders, Voice(r) \/ FallsQuiet(r) PROVE Kept
  BY <1>5 DEF Kept, Voice, FallsQuiet, history, calls
<1>6. CASE BeginExit \/ ExitDone \/ UNCHANGED vars
  BY <1>6 DEF Kept, BeginExit, ExitDone, vars, recorder, history, calls
<1>7. CASE ExitConclude
  BY <1>4, <1>7 DEF ExitConclude
<1>8. CASE Manage
  BY <1>3, <1>4, <1>8 DEF Manage, ExpireMonitoring, ExpireRecording, recorder, history
<1>9. QED
  BY <1>1, <1>2, <1>5, <1>6, <1>7, <1>8 DEF Next, Handle

\* A recorder that is started lists the new call, while every other call keeps its
\* own: this is PoolSound and Taping of the state after.
LEMMA StartLoan ==
  ASSUME IInv, Loan, IInv', NEW m \in Message, Record(m) \/ Supersede(m)
  PROVE  Loan'
<1> DEFINE r == First(Available(m))
           n == made + 1
<1>1. NewCall(m) /\ Start(r, n)
  BY DEF Record, Supersede
<1>2. /\ r \in Recorders /\ n \in Ids /\ n \notin calls /\ phase' = "running"
  BY <1>1, Chosen, Fresh DEF Record, Supersede
<1>3. /\ recorded' = recorded \cup {n} /\ tape'[r] = n
      /\ \A x \in Recorders : x # r => tape'[x] = tape[x]
  BY <1>1, <1>2, Started DEF IInv, Ids
<1>4. \A c \in calls' : c = n \/ (c \in calls /\ (Recording(c)' \/ call'[c].mon = "SUPERSEDED"
                                   => Recording(c) \/ call[c].mon = "SUPERSEDED"))
  <2>1. CASE Record(m)
    <3>1. Add(Made(m, "RECORDING", "UNSPECIFIED", r))
      BY <2>1 DEF Record
    <3>2. QED
      BY <3>1, Added DEF Recording
  <2>2. CASE Supersede(m)
    <3> DEFINE o == Last(Originals(m))
    <3>1. Recording(o)
      BY <2>2, Superseded DEF IInv, Supersede
    <3>2. \A c \in calls' : c = n \/ (c \in calls /\ (c = o \/ call'[c] = call[c]))
      BY <2>2 DEF Supersede, calls
    <3> HIDE DEF o
    <3>3. QED
      BY <3>1, <3>2 DEF Recording
  <2>3. QED
    BY <2>1, <2>2
<1> HIDE DEF r, n
<1>5. \A x \in Recorders : tape'[x] # 0 => tape'[x] \in recorded'
  BY <1>3 DEF Loan
<1>6. \A c \in calls' : Recording(c)' \/ call'[c].mon = "SUPERSEDED" => c \in recorded'
  BY <1>3, <1>4 DEF Loan
<1>7. ASSUME NEW c \in calls', Recording(c)' PROVE tape'[call'[c].rec] = c
  <2>1. call'[c].rec \in Recorders
    BY <1>7 DEF IInv, TypeOK, Holding, Call
  <2>2. serving'[call'[c].rec] = c /\ c # 0
    BY <1>2, <1>7, ManagerAssumption DEF IInv, PoolSound, TypeOK
  <2>3. QED
    BY <1>2, <2>1, <2>2 DEF IInv, Taping
<1>8. QED
  BY <1>5, <1>6, <1>7 DEF Loan

LEMMA StepLoan == IInv /\ Loan /\ IInv' /\ [Next]_vars => Loan'
BY QuietKept, LoanKept, StartLoan

\* What conclude_call noted, as filings of the pool.
filings == {[call |-> e.by, audio |-> e.of] : e \in ends}

LEMMA Filing ==
  ASSUME NEW x, ends' = ends \cup {x}
  PROVE  filings' = filings \cup {[call |-> x.by, audio |-> x.of]}
BY DEF filings

\* A call that got a recorder and is not filed still records.
LEMMA PendingRecords ==
  ASSUME IInv
  PROVE  Lending!Pending = {c \in recorded : c \in calls /\ Recording(c)}
<1>1. \A e \in ends : [call |-> e.by, audio |-> e.of].call = e.by
  OBVIOUS
<1>2. ASSUME NEW c \in recorded
      PROVE  (\A f \in filings : f.call # c) <=> (c \in calls /\ Recording(c))
  <2>1. (\A f \in filings : f.call # c) <=> \A e \in ends : e.by # c
    BY <1>1 DEF filings
  <2>2. QED
    BY <2>1 DEF IInv, RecordedIsConcluded
<1>3. QED
  BY <1>2 DEF Lending!Pending, filings

LEMMA RecordRefines ==
  ASSUME IInv, NEW m \in Message, Record(m)
  PROVE  Lending!Next
<1> DEFINE r == First(Available(m))
           n == made + 1
<1>1. /\ NewCall(m) /\ Start(r, n) /\ serving' = [serving EXCEPT ![r] = n] /\ ends' = ends
  BY DEF Record
<1>2. r \in Recorders /\ serving[r] = 0
  BY Chosen DEF Record
<1>3. n \in Ids \ recorded /\ phase = "running" /\ phase' = phase
  BY <1>1, Fresh
<1>4. recorded' = recorded \cup {n}
  BY <1>1 DEF Start
<1> HIDE DEF r, n
<1>5. Lending!Lend(r, n)
  BY <1>1, <1>2, <1>3, <1>4 DEF Lending!Lend
<1>6. QED
  BY <1>2, <1>3, <1>5 DEF Lending!Next

LEMMA SupersedeRefines ==
  ASSUME IInv, Loan, NEW m \in Message, Supersede(m)
  PROVE  Lending!Next
<1> DEFINE r == First(Available(m))
           n == made + 1
           o == Last(Originals(m))
           p == call[o].rec
<1>1. /\ NewCall(m) /\ Start(r, n) /\ Conclude(o, TRUE)
      /\ serving' = [serving EXCEPT ![r] = n, ![p] = 0]
  BY DEF Supersede
<1>2. r \in Recorders /\ serving[r] = 0
  BY Chosen DEF Supersede
<1>3. n \in Ids \ recorded /\ phase = "running" /\ phase' = phase
  BY <1>1, Fresh
<1>4. recorded' = recorded \cup {n}
  BY <1>1 DEF Start
<1>5. o \in calls /\ Recording(o) /\ o \in recorded
  BY Superseded DEF IInv, Supersede, Loan
<1>6. p \in Recorders /\ p # NoRecorder /\ serving[p] = o /\ tape[p] = o /\ o # 0
  BY <1>3, <1>5, Recorder
<1>7. PICK e \in Ending : ends' = ends \cup {e} /\ e.by = o /\ e.of = o
  BY <1>1, <1>5, <1>6, Concluded
<1> HIDE DEF r, n, o, p
<1>8. o \in Lending!Pending
  BY <1>5, PendingRecords
<1>9. filings' = filings \cup {[call |-> o, audio |-> o]}
  BY <1>7, Filing
<1>10. Lending!HandOver(r, n, p)
  BY <1>1, <1>2, <1>3, <1>4, <1>6, <1>8, <1>9 DEF Lending!HandOver, filings
<1>11. QED
  BY <1>2, <1>3, <1>6, <1>10 DEF Lending!Next, Lending!HandOver

LEMMA ExpireRecordingRefines ==
  ASSUME IInv, Loan, NEW c \in calls, ExpireRecording(c)
  PROVE  Lending!Next
<1> DEFINE p == call[c].rec
<1>1. /\ Recording(c) /\ Conclude(c, FALSE) /\ phase = "running"
      /\ serving' = [serving EXCEPT ![p] = 0]
      /\ UNCHANGED <<phase, recorded>>
  BY DEF ExpireRecording, Frame
<1>2. p \in Recorders /\ p # NoRecorder /\ serving[p] = c /\ tape[p] = c /\ c # 0
  BY <1>1, Recorder
<1>3. PICK e \in Ending : ends' = ends \cup {e} /\ e.by = c /\ e.of = c
  BY <1>1, <1>2, Concluded
<1> HIDE DEF p
<1>4. c \in Lending!Pending
  BY <1>1, PendingRecords DEF Loan
<1>5. filings' = filings \cup {[call |-> c, audio |-> c]}
  BY <1>3, Filing
<1>6. Lending!Return(p)
  BY <1>1, <1>2, <1>4, <1>5 DEF Lending!Return, filings
<1>7. QED
  BY <1>2, <1>6 DEF Lending!Next, Lending!Return

\* The exit loop: a call that still records is filed with its own audio, one
\* that was superseded with what its former recorder holds.
LEMMA ExitConcludeRefines ==
  ASSUME IInv, Loan, ExitConclude
  PROVE  Lending!Next \/ UNCHANGED Lending!vars
<1> DEFINE c == First(calls)
           p == call[c].rec
           superseded == call[c].mon = "SUPERSEDED"
<1>1. phase = "exiting" /\ UNCHANGED <<phase, recorded>>
  BY DEF ExitConclude
<1>2. c \in calls
  <2>1. calls \in SUBSET Nat /\ calls # {}
    BY DEF ExitConclude, IInv, TypeOK
  <2>2. QED
    BY <2>1, FirstIsLeast
<1>3. \/ /\ Recording(c) \/ superseded
         /\ Conclude(c, superseded)
         /\ serving' = [serving EXCEPT ![p] = 0]
      \/ UNCHANGED <<serving, ends>>
  BY DEF ExitConclude
<1> HIDE DEF c
<1>4. CASE UNCHANGED <<serving, ends>>
  BY <1>1, <1>4 DEF Lending!vars
<1>5. CASE /\ Recording(c) \/ superseded
           /\ Conclude(c, superseded)
           /\ serving' = [serving EXCEPT ![p] = 0]
  <2>1. p \in Recorders /\ p # NoRecorder /\ tape[p] \in recorded /\ c \in recorded
    <3>1. p # NoRecorder /\ tape[p] # 0 /\ c \in recorded
      BY <1>2, <1>5 DEF IInv, Holding, Loan
    <3>2. p \in Recorders
      BY <1>2, <3>1 DEF IInv, TypeOK, Call
    <3>3. QED
      BY <3>1, <3>2 DEF Loan
  <2>2. superseded \in BOOLEAN
    OBVIOUS
  <2> HIDE DEF superseded
  <2>3. PICK e \in Ending : ends' = ends \cup {e} /\ e.by = c /\ e.of = tape[p]
    BY <1>2, <1>5, <2>1, <2>2, Concluded
  <2>4. c \in Lending!Pending => tape[p] = c
    BY PendingRecords DEF Loan
  <2>5. filings' = filings \cup {[call |-> c, audio |-> tape[p]]}
    BY <2>3, Filing
  <2> HIDE DEF p
  <2>6. Lending!FileOnExit(p, c, tape[p])
    BY <1>1, <1>5, <2>1, <2>4, <2>5 DEF Lending!FileOnExit, filings
  <2>7. QED
    BY <2>1, <2>6 DEF Lending!Next, Lending!FileOnExit
<1>6. QED
  BY <1>3, <1>4, <1>5

LEMMA LendingStep ==
  IInv /\ Loan /\ [Next]_vars => Lending!Next \/ UNCHANGED Lending!vars
<1> SUFFICES ASSUME IInv, Loan, [Next]_vars PROVE Lending!Next \/ UNCHANGED Lending!vars
  OBVIOUS
<1>1. ASSUME UNCHANGED <<phase, serving, recorded, ends>> PROVE UNCHANGED Lending!vars
  BY <1>1 DEF Lending!vars
<1>2. ASSUME NEW m \in Message, Regrant(m) \/ Update(m) \/ Duplicate(m) \/ Refuse(m)
      PROVE  UNCHANGED Lending!vars
  BY <1>1, <1>2 DEF Regrant, Update, Duplicate, Refuse, NewCall, Frame, recorder, history
<1>3. ASSUME NEW m \in Message, Handle(m) PROVE Lending!Next \/ UNCHANGED Lending!vars
  BY <1>2, <1>3, RecordRefines, SupersedeRefines DEF Handle
<1>4. ASSUME NEW r \in Recorders, Voice(r) \/ FallsQuiet(r) PROVE UNCHANGED Lending!vars
  BY <1>1, <1>4 DEF Voice, FallsQuiet, Frame, history
<1>5. ASSUME NEW c \in calls, UpdatesLapse(c) \/ ExpireMonitoring(c)
      PROVE  UNCHANGED Lending!vars
  BY <1>1, <1>5 DEF UpdatesLapse, ExpireMonitoring, Frame, recorder, history
<1>6. CASE Manage
  BY <1>5, <1>6, ExpireRecordingRefines DEF Manage
<1>7. CASE BeginExit
  BY <1>7 DEF BeginExit, recorder, history, Lending!BeginExit, Lending!Next
<1>8. CASE ExitDone
  <2>1. Lending!Pending = {}
    BY <1>8, PendingRecords DEF ExitDone
  <2>2. Lending!Finish
    BY <1>8, <2>1 DEF ExitDone, recorder, history, Lending!Finish
  <2>3. QED
    BY <2>2 DEF Lending!Next
<1>9. CASE UNCHANGED vars
  BY <1>1, <1>9 DEF vars, recorder, history
<1>10. QED
  BY <1>3, <1>4, <1>6, <1>7, <1>8, <1>9, ExitConcludeRefines DEF Next

\* The calls implement RecorderPool, for all systems, recorders and messages: a
\* recorder comes back in the step that files its call with the call's own audio,
\* also when another call takes over, and the exit loop ends with all filed.
THEOREM RecordersComeBack == Spec => PoolPromise
<1>1. Init => Loan /\ Lending!Init
  BY DEF Init, Loan, calls, Lending!Init
<1>2. IInv /\ Loan /\ IInv' /\ [Next]_vars => Loan'
  BY StepLoan
<1>3. IInv /\ Loan /\ [Next]_vars => [Lending!Next]_(Lending!vars)
  BY LendingStep
<1>4. QED
  BY <1>1, <1>2, <1>3, InitInv, StepInv, PTL DEF Spec, PoolPromise, Lending!Spec

(***************************************************************************)
(* Without multi-site systems                                              *)
(***************************************************************************)

\* No call is superseded, and each is concluded with its own transmissions.
Separate ==
  /\ \A c \in calls : call[c].mon # "SUPERSEDED"
  /\ \A e \in ends : e.by = e.of

\* A step on the vector of calls supersedes none, if no system is multi-site.
LEMMA NoneSuperseded ==
  ASSUME \A s \in Systems : ~Site[s].multi_site,
         IInv, Separate, [Next]_vars
  PROVE  \A c \in calls' : call'[c].mon # "SUPERSEDED"
<1>1. ASSUME NEW m \in Message, Supersede(m) PROVE FALSE
  <2>1. PICK o \in calls : SameNetwork(call[o].sys, m.sys)
    BY <1>1 DEF Supersede, Originals
  <2>2. m.sys \in Systems
    BY DEF Message
  <2>3. QED
    BY <2>1, <2>2 DEF SameNetwork
<1>2. ASSUME NEW m \in Message, Record(m) PROVE \A c \in calls' : call'[c].mon # "SUPERSEDED"
  <2> DEFINE r == First(Available(m))
  <2>1. Add(Made(m, "RECORDING", "UNSPECIFIED", r))
    BY <1>2 DEF Record
  <2> HIDE DEF r
  <2>2. /\ calls' = calls \cup {made + 1}
        /\ call'[made + 1] = Made(m, "RECORDING", "UNSPECIFIED", r)
        /\ \A c \in calls : c # made + 1 => call'[c] = call[c]
    BY <2>1, Added
  <2>3. call'[made + 1].mon = "UNSPECIFIED"
    BY <2>2 DEF Made
  <2>4. QED
    BY <2>2, <2>3 DEF Separate
<1>3. CASE \A m \in Message : ~Record(m) /\ ~Supersede(m)
  BY <1>3, QuietKept DEF Kept, Separate
<1>4. QED
  BY <1>1, <1>2, <1>3

\* Then the exit loop concludes only calls that record, each with what its own
\* recorder lists.
LEMMA SeparateStep ==
  ASSUME \A s \in Systems : ~Site[s].multi_site,
         IInv, Loan, IInv', Separate, [Next]_vars
  PROVE  Separate'
<1>1. \A c \in calls' : call'[c].mon # "SUPERSEDED"
  BY NoneSuperseded
<1>2. CASE phase' = "running"
  BY <1>1, <1>2 DEF IInv, OwnAudio, Separate
<1>3. CASE ends' = ends
  BY <1>1, <1>3 DEF Separate
<1>4. CASE ExitConclude
  <2> DEFINE c == First(calls)
  <2>1. calls \in SUBSET Nat /\ calls # {}
    BY <1>4 DEF ExitConclude, IInv, TypeOK
  <2>2. c \in calls
    BY <2>1, FirstIsLeast
  <2>3. ends' = ends \/ (Recording(c) /\ Conclude(c, call[c].mon = "SUPERSEDED"))
    BY <1>4, <2>2 DEF ExitConclude, Separate
  <2> HIDE DEF c
  <2>4. CASE Recording(c) /\ Conclude(c, call[c].mon = "SUPERSEDED")
    <3>1. call[c].rec # NoRecorder /\ tape[call[c].rec] = c
      BY <2>2, <2>4 DEF IInv, Holding, Loan
    <3>2. (call[c].mon = "SUPERSEDED") \in BOOLEAN
      OBVIOUS
    <3>3. PICK e \in Ending : ends' = ends \cup {e} /\ e.by = c /\ e.of = tape[call[c].rec]
      BY <2>2, <2>4, <3>1, <3>2, Concluded
    <3>4. QED
      BY <1>1, <3>1, <3>3 DEF Separate
  <2>5. QED
    BY <1>3, <2>3, <2>4
<1>5. phase' = "running" \/ ends' = ends \/ ExitConclude
  <2>1. ASSUME NEW m \in Message, Handle(m) PROVE phase' = "running"
    BY <2>1 DEF Handle, Regrant, Update, Duplicate, Refuse, Record, Supersede, NewCall, Frame
  <2>2. ASSUME NEW r \in Recorders, Voice(r) \/ FallsQuiet(r) PROVE phase' = "running"
    BY <2>2 DEF Voice, FallsQuiet, Frame
  <2>3. CASE Manage
    BY <2>3 DEF Manage, UpdatesLapse, ExpireMonitoring, ExpireRecording, Frame
  <2>4. CASE BeginExit \/ ExitDone \/ UNCHANGED vars
    BY <2>4 DEF BeginExit, ExitDone, vars, history
  <2>5. QED
    BY <2>1, <2>2, <2>3, <2>4 DEF Next
<1>6. QED
  BY <1>2, <1>3, <1>4, <1>5

\* Where no system is configured as multi-site, no call is removed with another
\* one's transmissions, also on exit: what goes wrong there takes a superseded call.
THEOREM RemovesOwnAlone ==
  ASSUME \A s \in Systems : ~Site[s].multi_site
  PROVE  Spec => []RemovesOnlyOwn
<1>1. Init => Loan /\ Separate
  BY DEF Init, Loan, Separate, calls
<1>2. IInv /\ Loan /\ IInv' /\ [Next]_vars => Loan'
  BY StepLoan
<1>3. IInv /\ Loan /\ IInv' /\ Separate /\ [Next]_vars => Separate'
  BY SeparateStep
<1>4. Separate => RemovesOnlyOwn
  BY DEF Separate, RemovesOnlyOwn
<1>5. QED
  BY <1>1, <1>2, <1>3, <1>4, InitInv, StepInv, PTL DEF Spec
====
