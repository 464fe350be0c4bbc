------------------------ MODULE ControlChannelProofs ------------------------
(***************************************************************************)
(* Theorems about ControlChannel for every set of channels and sources,    *)
(* every list of control channels and every limit.                         *)
(***************************************************************************)
EXTENDS ControlChannel, WellFoundedInduction, TLAPS

\* The list begins with the channels of the configuration.
Grown ==
  /\ config.defined # <<>>
  /\ Len(config.defined) <= Len(list)
  /\ \A i \in 1..Len(config.defined) : list[i] = config.defined[i]

\* A system with one channel stays on it.
Single == Len(list) = 1 => tuned = list[1] /\ tuned \in tried

\* The messages that count are in message_count.
Counted == heard <= count

\* Once the limit is exceeded the loop is on its way out.
Ended == attempts > config.limit => exit_flag /\ step \in {"status", "head", "gone"}

\* How many retunes it takes to come to the channel at i.
Distance(i) == IF i > at THEN i - at ELSE Len(list) - at + i

\* A channel that was not tried since the last signal will be before the
\* attempts are as many as the channels.
Rotation ==
  attempts <= config.limit =>
    \A i \in 1..Len(config.defined) :
      Covering(list[i]) # {} /\ list[i] \notin tried => attempts + Distance(i) <= Len(list)

\* The inductive invariant.
IInv ==
  /\ TypeOK /\ Attached /\ AllAttempted
  /\ Grown /\ Single /\ Counted /\ Ended /\ Rotation

(***************************************************************************)
(* Lemmas about the operators                                              *)
(***************************************************************************)

\* Min is an element of a set of numbers.
LEMMA MinIsMember ==
  ASSUME NEW S \in SUBSET Nat, S # {}
  PROVE  Min(S) \in S
<1> DEFINE R == OpToRel(<, Nat)
<1>1. IsWellFoundedOn(R, Nat)
  BY NatLessThanWellFounded
<1>2. \A x, y \in Nat : x < y => <<x, y>> \in R
  BY DEF OpToRel
<1> HIDE DEF R
<1>3. PICK n \in S : \A m \in S : <<m, n>> \notin R
  BY <1>1, WFMin
<1>4. ASSUME NEW m \in S PROVE n <= m
  <2>1. m \in Nat /\ n \in Nat /\ ~(m < n)
    BY <1>2, <1>3
  <2>2. QED
    BY <2>1
<1>5. QED
  BY <1>4 DEF Min

\* The options of the configuration in use.
LEMMA ConfigFacts ==
  ASSUME config \in Configs
  PROVE  /\ config.defined \in Seq(Channels) /\ config.defined # <<>>
         /\ config.limit \in Nat
         /\ \A f : Covering(f) \in SUBSET Sources
BY ChannelAssumption DEF ConfigType, Covering

\* The first source that covers a frequency is one that does.
LEMMA FirstCovers ==
  ASSUME config \in Configs, NEW f, Covering(f) # {}
  PROVE  Min(Covering(f)) \in Covering(f) /\ Min(Covering(f)) \in Sources
<1>1. Covering(f) \in SUBSET Nat
  BY ConfigFacts, ChannelAssumption
<1>2. QED
  BY <1>1, MinIsMember, ConfigFacts

\* The next index is in the list.
LEMMA NextInList ==
  ASSUME list \in Seq(Channels), at \in 1..Len(list)
  PROVE  NextAt \in 1..Len(list) /\ list[NextAt] \in Channels
<1>1. NextAt \in 1..Len(list)
  BY DEF NextAt
<1>2. QED
  BY <1>1

\* add_control_channel keeps what is in the list and adds at most one.
LEMMA AddedKeeps ==
  ASSUME NEW l \in Seq(Channels), NEW f \in Channels
  PROVE  /\ Added(l, f) \in Seq(Channels)
         /\ Len(l) <= Len(Added(l, f))
         /\ \A i \in 1..Len(l) : Added(l, f)[i] = l[i]
BY DEF Added

\* What retune_system does, whichever way it ends.
LEMMA Retuned ==
  ASSUME IInv, Retune, config' = config, list' = list
  PROVE  /\ at' = NextAt /\ at' \in 1..Len(list)
         /\ source' \in Sources /\ connected' \in SUBSET Sources /\ tuned' \in Channels
         /\ talking' \in BOOLEAN /\ tried' \subseteq Channels
         /\ Attached'
         /\ tried \subseteq tried'
         /\ Covering(list[NextAt]) # {} => tuned' = list[NextAt] /\ list[NextAt] \in tried'
         /\ Covering(list[NextAt]) = {} => tuned' = tuned
<1>1. at' = NextAt /\ at' \in 1..Len(list) /\ list[NextAt] \in Channels
  BY NextInList DEF Retune, IInv, TypeOK
<1>2. \A f : Covering(f)' = Covering(f)
  BY DEF Covering
<1>3. CASE Follow(list[NextAt])
  <2>1. Covering(list[NextAt]) # {} /\ tuned' = list[NextAt] /\ tried' = tried \cup {list[NextAt]}
    BY <1>3 DEF Follow, Tune
  <2>2. talking' \in BOOLEAN
    BY <1>3 DEF Follow, Tune
  <2>3. /\ source' \in Covering(list[NextAt]) /\ source' \in Sources
        /\ connected' = {source'}
    <3>1. CASE source \in Covering(list[NextAt]) /\ UNCHANGED <<source, connected>>
      BY <3>1 DEF IInv, TypeOK, Attached
    <3>2. CASE SwitchTo(Min(Covering(list[NextAt])))
      <4>1. config \in Configs
        BY DEF IInv, TypeOK
      <4>2. QED
        BY <3>2, <4>1, <2>1, FirstCovers DEF SwitchTo, IInv, Attached
    <3>3. QED
      BY <1>3, <3>1, <3>2 DEF Follow
  <2>4. Attached'
    BY <2>1, <2>3, <1>2 DEF Attached
  <2>5. QED
    BY <1>1, <2>1, <2>2, <2>3, <2>4 DEF IInv, TypeOK
<1>4. CASE Covering(list[NextAt]) = {} /\ UNCHANGED <<demod, talking, tried>>
  <2>1. UNCHANGED <<source, connected, tuned, talking, tried>>
    BY <1>4 DEF demod
  <2>2. Attached'
    BY <2>1, <1>2 DEF Attached, Autotuned, P25, IInv
  <2>3. QED
    BY <1>1, <1>4, <2>1, <2>2 DEF IInv, TypeOK
<1>5. QED
  BY <1>3, <1>4 DEF Retune

\* A message that was taken, and what is left of the queue.
LEMMA Taken ==
  ASSUME TypeOK, NEW kind, Take(kind)
  PROVE  /\ Head(queue) \in Message /\ queue' \in Seq(Message)
         /\ step = "drain" /\ UNCHANGED <<config, step, exit_flag, attempts, carrier, strays>>
BY DEF Take, TypeOK, loop

\* A message that was inserted, or dropped.
LEMMA Inserted ==
  ASSUME TypeOK, NEW m \in Message, Insert(m)
  PROVE  /\ queue' \in Seq(Message)
         /\ UNCHANGED <<config, step, exit_flag, list, at, source, connected, tuned>>
         /\ UNCHANGED <<count, heard, steady, carrier, attempts, tried>>
BY DEF Insert, TypeOK, loop, channels, demod

(***************************************************************************)
(* The invariant                                                           *)
(***************************************************************************)

LEMMA InitInv == Init => IInv
<1> SUFFICES ASSUME Init PROVE IInv
  OBVIOUS
<1> USE DEF Init
<1>1. /\ config.defined \in Seq(Channels) /\ config.defined # <<>> /\ config.limit \in Nat
      /\ \A f : Covering(f) \in SUBSET Sources
  BY ConfigFacts
<1>2. 1 \in 1..Len(list) /\ list[1] \in Channels
  BY <1>1
<1>3. source \in Covering(tuned) /\ source \in Sources
  BY FirstCovers
<1>4. TypeOK
  <2>1. list \in Seq(Channels) /\ at \in 1..Len(list) /\ tuned \in Channels
    BY <1>1, <1>2
  <2>2. queue \in Seq(Message)
    OBVIOUS
  <2>3. steady \in BOOLEAN /\ talking \in BOOLEAN
    OBVIOUS
  <2>4. count \in Nat /\ heard \in Nat /\ strays \in Nat /\ attempts \in Nat
    OBVIOUS
  <2>5. connected \in SUBSET Sources /\ source \in Sources /\ tried \subseteq Channels
    BY <1>2, <1>3
  <2>6. step = "head" /\ exit_flag \in BOOLEAN /\ carrier \in Channels \cup {None}
    OBVIOUS
  <2>7. config \in Configs
    OBVIOUS
  <2> HIDE DEF Init
  <2>8. QED
    BY <2>1, <2>2, <2>3, <2>4, <2>5, <2>6, <2>7 DEF TypeOK
<1>5. Attached
  BY <1>3 DEF Attached
<1>6. ~(attempts > config.limit)
  BY <1>1
<1>7. Grown /\ Single /\ Counted
  BY <1>1 DEF Grown, Single, Counted
<1>8. Rotation
  <2>1. ASSUME NEW i \in 1..Len(config.defined), list[i] \notin tried
        PROVE  attempts + Distance(i) <= Len(list)
    BY <2>1, <1>1 DEF Distance
  <2>2. QED
    BY <2>1 DEF Rotation
<1>9. QED
  BY <1>4, <1>5, <1>6, <1>7, <1>8 DEF IInv, AllAttempted, Ended

\* A step that leaves the list, the demodulator and the attempts alone.
LEMMA QuietInv ==
  ASSUME IInv, UNCHANGED <<config, list, at, source, connected, tuned, attempts, tried>>,
         TypeOK', Counted', Ended'
  PROVE  IInv'
<1>1. \A f : Covering(f)' = Covering(f)
  BY DEF Covering
<1>2. Attached'
  BY <1>1 DEF IInv, Attached, Autotuned, P25
<1>3. AllAttempted'
  BY <1>1 DEF IInv, AllAttempted
<1>4. Grown' /\ Single'
  BY DEF IInv, Grown, Single
<1>5. \A i : Distance(i)' = Distance(i)
  BY DEF Distance
<1>6. Rotation'
  BY <1>1, <1>5 DEF IInv, Rotation
<1>7. QED
  BY <1>2, <1>3, <1>4, <1>6 DEF IInv

\* The steps of the loop that only move on, and the interrupt.
LEMMA MoveOnInv ==
  ASSUME IInv, LoopHead \/ DrainDone \/ NotYet \/ NoStatus \/ Interrupt
  PROVE  IInv'
<1> USE DEF IInv
<1>1. /\ UNCHANGED <<config, list, at, source, connected, tuned, attempts, tried>>
      /\ UNCHANGED <<queue, count, heard, steady, talking, carrier, strays>>
  BY DEF LoopHead, DrainDone, NotYet, NoStatus, Interrupt, Goto, channels, demod, window, air
<1>2. /\ step' \in {"head", "drain", "check", "status", "gone"}
      /\ exit_flag' \in BOOLEAN
  BY DEF LoopHead, DrainDone, NotYet, NoStatus, Interrupt, Goto, TypeOK
<1>3. TypeOK'
  BY <1>1, <1>2 DEF TypeOK
<1>4. Counted'
  BY <1>1 DEF Counted
<1>5. Ended'
  BY <1>1 DEF Ended, LoopHead, DrainDone, NotYet, NoStatus, Interrupt, Goto
<1>6. QED
  BY <1>1, <1>3, <1>4, <1>5, QuietInv

\* What comes from the air does not disturb the main thread.
LEMMA AirInv ==
  ASSUME IInv, Air
  PROVE  IInv'
<1>0. TypeOK
  BY DEF IInv
<1>1. CASE Move
  <2>1. /\ UNCHANGED <<config, list, at, source, connected, tuned, attempts, tried>>
        /\ UNCHANGED <<step, exit_flag, queue, count, heard, talking, strays>>
        /\ carrier' \in Channels \cup {None} /\ steady' \in BOOLEAN
    BY <1>1 DEF Move, loop, channels, demod
  <2>2. TypeOK'
    BY <1>0, <2>1 DEF TypeOK
  <2>3. Counted' /\ Ended'
    BY <2>1 DEF IInv, Counted, Ended
  <2>4. QED
    BY <2>1, <2>2, <2>3, QuietInv
<1>2. CASE ReceiveControl \/ ReceiveStray \/ ReceiveVoice \/ ReceiveTDULC
  <2>1. PICK m \in Message : Insert(m)
    <3>1. [kind |-> "other"] \in Message /\ [kind |-> "invalid"] \in Message
      BY DEF Message
    <3>2. [kind |-> "tdulc"] \in Message
      BY DEF Message
    <3>3. \A pair \in Announced : [kind |-> "secondary", pair |-> pair] \in Message
      BY DEF Message
    <3>4. QED
      BY <1>2, <3>1, <3>2, <3>3 DEF ReceiveControl, ReceiveStray, ReceiveVoice, ReceiveTDULC
  <2>2. talking' \in BOOLEAN /\ strays' \in Nat
    <3>1. talking \in BOOLEAN /\ strays \in Nat
      BY <1>0 DEF TypeOK
    <3>2. \/ UNCHANGED strays /\ (talking' = talking \/ talking' = TRUE \/ talking' = FALSE)
          \/ strays' = strays + 1 /\ talking' = talking
      BY <1>2 DEF ReceiveControl, ReceiveStray, ReceiveVoice, ReceiveTDULC
    <3>3. talking' \in BOOLEAN
      BY <3>1, <3>2
    <3>4. strays' \in Nat
      BY <3>1, <3>2
    <3>5. QED
      BY <3>3, <3>4
  <2>3. /\ queue' \in Seq(Message)
        /\ UNCHANGED <<config, step, exit_flag, list, at, source, connected, tuned>>
        /\ UNCHANGED <<count, heard, steady, carrier, attempts, tried>>
    BY <1>0, <2>1, Inserted
  <2>4. TypeOK'
    BY <1>0, <2>2, <2>3 DEF TypeOK
  <2>5. Counted' /\ Ended'
    BY <2>3 DEF IInv, Counted, Ended
  <2>6. QED
    BY <2>3, <2>4, <2>5, QuietInv
<1>3. QED
  BY <1>1, <1>2 DEF Air

\* Messages that are counted, or not, and change nothing else.
LEMMA OtherInv ==
  ASSUME IInv, HandleOther \/ HandleInvalid
  PROVE  IInv'
<1>0. TypeOK
  BY DEF IInv
<1>1. /\ UNCHANGED <<config, list, at, source, connected, tuned, attempts, tried>>
      /\ UNCHANGED <<step, exit_flag, steady, talking, carrier, strays>>
      /\ queue' \in Seq(Message)
  BY <1>0, Taken DEF HandleOther, HandleInvalid, channels, demod
<1>2. count' \in Nat /\ heard' \in Nat /\ heard' <= count'
  BY <1>0 DEF HandleOther, HandleInvalid, Count, IInv, Counted, TypeOK
<1>3. TypeOK'
  BY <1>0, <1>1, <1>2 DEF TypeOK
<1>4. Counted' /\ Ended'
  BY <1>1, <1>2 DEF IInv, Counted, Ended
<1>5. QED
  BY <1>1, <1>3, <1>4, QuietInv

\* The list grows: the channels of the configuration stay where they are, and
\* the way to each is longer by no more than the list.
LEMMA SecondaryInv ==
  ASSUME IInv, HandleSecondary
  PROVE  IInv'
<1>0. TypeOK
  BY DEF IInv
<1>1. /\ UNCHANGED <<config, at, source, connected, tuned, attempts, tried>>
      /\ UNCHANGED <<step, exit_flag, steady, talking, carrier, strays>>
      /\ queue' \in Seq(Message)
      /\ Head(queue) \in Message /\ Head(queue).kind = "secondary" /\ step = "drain"
  BY <1>0, Taken DEF HandleSecondary, demod, Take
<1>2. count' \in Nat /\ heard' \in Nat /\ heard' <= count'
  BY <1>0 DEF HandleSecondary, Count, IInv, Counted, TypeOK
<1>3. PICK f \in Channels, g \in Channels : list' = Added(Added(list, f), g)
  <2>1. Head(queue).pair \in Announced
    BY <1>1 DEF Message
  <2>2. Head(queue).pair[1] \in Channels /\ Head(queue).pair[2] \in Channels
    BY <2>1, ChannelAssumption
  <2>3. QED
    BY <2>2 DEF HandleSecondary
<1>4. /\ list' \in Seq(Channels) /\ Len(list) <= Len(list')
      /\ \A i \in 1..Len(list) : list'[i] = list[i]
  <2>1. list \in Seq(Channels)
    BY <1>0 DEF TypeOK
  <2>2. /\ Added(list, f) \in Seq(Channels) /\ Len(list) <= Len(Added(list, f))
        /\ \A i \in 1..Len(list) : Added(list, f)[i] = list[i]
    BY <2>1, AddedKeeps
  <2>3. /\ list' \in Seq(Channels) /\ Len(Added(list, f)) <= Len(list')
        /\ \A i \in 1..Len(Added(list, f)) : list'[i] = Added(list, f)[i]
    BY <2>2, <1>3, AddedKeeps
  <2>4. Len(list) \in Nat /\ Len(Added(list, f)) \in Nat /\ Len(list') \in Nat
    BY <2>1, <2>2, <2>3
  <2>5. QED
    BY <2>2, <2>3, <2>4
<1>5. TypeOK'
  <2>1. at' \in 1..Len(list')
    BY <1>0, <1>1, <1>4 DEF TypeOK
  <2>2. QED
    BY <1>0, <1>1, <1>2, <1>4, <2>1 DEF TypeOK
<1>6. \A h : Covering(h)' = Covering(h)
  BY <1>1 DEF Covering
<1>7. Attached'
  BY <1>1, <1>6 DEF IInv, Attached, Autotuned, P25
<1>8. config.limit \in Nat /\ Len(config.defined) \in Nat
  BY <1>0, ConfigFacts DEF TypeOK
<1>9. attempts <= config.limit
  BY <1>0, <1>1, <1>8 DEF IInv, Ended, TypeOK
<1>10. AllAttempted' /\ Ended'
  BY <1>0, <1>1, <1>8, <1>9 DEF AllAttempted, Ended, TypeOK
<1>11. Grown'
  BY <1>0, <1>1, <1>4, <1>8 DEF IInv, Grown, TypeOK
<1>12. Single'
  <2>1. SUFFICES ASSUME Len(list') = 1 PROVE tuned = list'[1] /\ tuned \in tried
    BY <1>1 DEF Single
  <2>2. Len(list) = 1 /\ list'[1] = list[1]
    BY <2>1, <1>0, <1>4 DEF TypeOK
  <2>3. QED
    BY <2>2 DEF IInv, Single
<1>13. Rotation'
  <2>1. SUFFICES ASSUME NEW i \in 1..Len(config.defined),
                        Covering(list'[i]) # {}, list'[i] \notin tried
                 PROVE  attempts + Distance(i)' <= Len(list')
    BY <1>1, <1>6 DEF Rotation
  <2>2. i \in 1..Len(list) /\ list'[i] = list[i]
    BY <1>0, <1>4, <1>8 DEF IInv, Grown, TypeOK
  <2>3. attempts + Distance(i) <= Len(list)
    BY <2>1, <2>2, <1>9 DEF IInv, Rotation
  <2>4. QED
    BY <2>2, <2>3, <1>0, <1>1, <1>4 DEF Distance, TypeOK
<1>14. QED
  BY <1>2, <1>5, <1>7, <1>10, <1>11, <1>12, <1>13 DEF IInv, Counted

\* A retune, with the attempts as they are or one more, brings the loop one
\* channel nearer to all that were not tried.
LEMMA RetuneRotates ==
  ASSUME IInv, Retune, config' = config, list' = list, attempts <= config.limit,
         attempts' \in {attempts, attempts + 1}
  PROVE  Rotation' /\ Single' /\ Grown'
<1>0. TypeOK
  BY DEF IInv
<1>1. /\ at' = NextAt /\ at' \in 1..Len(list) /\ tried \subseteq tried'
      /\ (Covering(list[NextAt]) # {} => tuned' = list[NextAt] /\ list[NextAt] \in tried')
      /\ (Covering(list[NextAt]) = {} => tuned' = tuned)
  BY Retuned
<1>2. \A h : Covering(h)' = Covering(h)
  BY DEF Covering
<1>3. config.limit \in Nat /\ Len(config.defined) \in Nat /\ Len(list) \in Nat
  BY <1>0, ConfigFacts DEF TypeOK
<1>4. Grown'
  BY DEF IInv, Grown
<1>5. Single'
  <2>1. SUFFICES ASSUME Len(list) = 1 PROVE tuned' = list[1] /\ tuned' \in tried'
    BY DEF Single
  <2>2. NextAt = 1
    BY <2>1, <1>1
  <2>3. tuned = list[1] /\ tuned \in tried
    BY <2>1 DEF IInv, Single
  <2>4. QED
    BY <2>2, <2>3, <1>1
<1>6. Rotation'
  <2>1. SUFFICES ASSUME NEW i \in 1..Len(config.defined),
                        Covering(list[i]) # {}, list[i] \notin tried'
                 PROVE  attempts' + Distance(i)' <= Len(list)
    BY <1>2 DEF Rotation
  <2>2. i \in 1..Len(list)
    BY <1>3 DEF IInv, Grown
  <2>3. attempts + Distance(i) <= Len(list)
    BY <2>1, <1>1 DEF IInv, Rotation
  <2>4. i # NextAt
    BY <2>1, <1>1
  <2>5. Distance(i)' = Distance(i) - 1
    BY <2>2, <2>4, <1>0, <1>1, <1>3 DEF Distance, NextAt, TypeOK
  <2>6. Distance(i) \in Int
    BY <2>2, <1>0, <1>3 DEF Distance, TypeOK
  <2>7. QED
    BY <2>3, <2>5, <2>6, <1>0 DEF TypeOK
<1>7. QED
  BY <1>4, <1>5, <1>6

LEMMA TDULCInv ==
  ASSUME IInv, HandleTDULC
  PROVE  IInv'
<1>0. TypeOK
  BY DEF IInv
<1>1. /\ UNCHANGED <<config, list, step, exit_flag, attempts, carrier, strays>>
      /\ queue' \in Seq(Message) /\ step = "drain" /\ Retune
  BY <1>0, Taken DEF HandleTDULC
<1>2. count' \in Nat /\ heard' \in Nat /\ heard' <= count'
  BY <1>0 DEF HandleTDULC, Count, IInv, Counted, TypeOK
<1>3. config.limit \in Nat
  BY <1>0, ConfigFacts DEF TypeOK
<1>4. attempts <= config.limit
  BY <1>0, <1>1, <1>3 DEF IInv, Ended, TypeOK
<1>5. Rotation' /\ Single' /\ Grown'
  BY <1>1, <1>4, RetuneRotates
<1>6. AllAttempted' /\ Ended'
  BY <1>0, <1>1, <1>3, <1>4 DEF AllAttempted, Ended, TypeOK
<1>7. TypeOK' /\ Attached'
  <2>1. /\ at' \in 1..Len(list) /\ source' \in Sources /\ connected' \in SUBSET Sources
        /\ tuned' \in Channels /\ talking' \in BOOLEAN /\ tried' \subseteq Channels
        /\ Attached'
    BY <1>1, Retuned
  <2>2. steady' \in BOOLEAN
    BY <1>0 DEF HandleTDULC, TypeOK
  <2>3. QED
    BY <2>1, <2>2, <1>0, <1>1, <1>2 DEF TypeOK
<1>8. QED
  BY <1>2, <1>5, <1>6, <1>7 DEF IInv, Counted

\* What the end of a check leaves of the types.
LEMMA WindowType ==
  ASSUME TypeOK, Due, NewWindow
  PROVE  /\ count' = 0 /\ heard' = 0 /\ strays' = 0 /\ steady' \in BOOLEAN
         /\ UNCHANGED <<config, exit_flag, queue, carrier>>
         /\ step = "check" /\ step' = "status"
BY DEF Due, NewWindow, Goto

LEMMA CheckGoodInv ==
  ASSUME IInv, CheckGood
  PROVE  IInv'
<1>0. TypeOK
  BY DEF IInv
<1>1. /\ count' = 0 /\ heard' = 0 /\ strays' = 0 /\ steady' \in BOOLEAN
      /\ UNCHANGED <<config, exit_flag, queue, carrier>>
      /\ step' = "status"
  BY <1>0, WindowType DEF CheckGood
<1>2. /\ attempts' = 0 /\ tried' = {tuned}
      /\ UNCHANGED <<list, at, source, connected, tuned, talking>>
  BY DEF CheckGood, channels, demod
<1>3. TypeOK'
  BY <1>0, <1>1, <1>2 DEF TypeOK
<1>4. \A h : Covering(h)' = Covering(h)
  BY <1>1 DEF Covering
<1>5. Attached' /\ Grown' /\ Single' /\ Counted'
  BY <1>1, <1>2, <1>4 DEF IInv, Attached, Autotuned, P25, Grown, Single, Counted
<1>6. config.limit \in Nat /\ Len(config.defined) \in Nat /\ Len(list) \in Nat
  BY <1>0, ConfigFacts DEF TypeOK
<1>7. AllAttempted' /\ Ended'
  BY <1>1, <1>2, <1>6 DEF AllAttempted, Ended
<1>8. Rotation'
  <2>1. SUFFICES ASSUME NEW i \in 1..Len(config.defined)
                 PROVE  attempts' + Distance(i)' <= Len(list')
    BY <1>1 DEF Rotation
  <2>2. i \in 1..Len(list)
    BY <1>6 DEF IInv, Grown
  <2>3. QED
    BY <2>2, <1>0, <1>2, <1>6 DEF Distance, TypeOK
<1>9. QED
  BY <1>3, <1>5, <1>7, <1>8 DEF IInv

LEMMA CheckLowInv ==
  ASSUME IInv, CheckLow
  PROVE  IInv'
<1>0. TypeOK
  BY DEF IInv
<1>1. /\ count' = 0 /\ heard' = 0 /\ strays' = 0 /\ steady' \in BOOLEAN
      /\ UNCHANGED <<config, exit_flag, queue, carrier, list>>
      /\ step = "check" /\ step' = "status"
  BY <1>0, WindowType DEF CheckLow
<1>2. config.limit \in Nat /\ Len(config.defined) \in Nat /\ Len(list) \in Nat
  BY <1>0, ConfigFacts DEF TypeOK
<1>3. attempts <= config.limit
  BY <1>0, <1>1, <1>2 DEF IInv, Ended, TypeOK
<1>4. attempts' \in {attempts, attempts + 1} /\ attempts' <= config.limit
  BY <1>0, <1>2, <1>3 DEF CheckLow, Tries, Exhausted, TypeOK
<1>5. AllAttempted' /\ Ended'
  BY <1>0, <1>1, <1>2, <1>4 DEF AllAttempted, Ended, TypeOK
<1>6. attempts' \in Nat
  BY <1>0, <1>4 DEF TypeOK
<1>7. CASE Len(list) > 1 /\ Retune
  <2>1. /\ at' \in 1..Len(list) /\ source' \in Sources /\ connected' \in SUBSET Sources
        /\ tuned' \in Channels /\ talking' \in BOOLEAN /\ tried' \subseteq Channels
        /\ Attached'
    BY <1>1, <1>7, Retuned
  <2>2. TypeOK'
    BY <2>1, <1>0, <1>1, <1>6 DEF TypeOK
  <2>3. Rotation' /\ Single' /\ Grown'
    BY <1>1, <1>3, <1>4, <1>7, RetuneRotates
  <2>4. QED
    BY <2>1, <2>2, <2>3, <1>1, <1>5 DEF IInv, Counted
<1>8. CASE Len(list) <= 1 /\ UNCHANGED <<at, demod, talking, tried>>
  <2>1. UNCHANGED <<at, source, connected, tuned, talking, tried>>
    BY <1>8 DEF demod
  <2>2. TypeOK'
    BY <2>1, <1>0, <1>1, <1>6 DEF TypeOK
  <2>3. \A h : Covering(h)' = Covering(h)
    BY <1>1 DEF Covering
  <2>4. Attached' /\ Grown' /\ Single'
    BY <2>1, <2>3, <1>1 DEF IInv, Attached, Autotuned, P25, Grown, Single
  <2>5. Rotation'
    <3>1. ASSUME NEW i \in 1..Len(config.defined) PROVE list[i] \in tried
      <4>1. i = 1 /\ Len(list) = 1
        <5>1. Len(config.defined) <= Len(list)
          BY DEF IInv, Grown
        <5>2. Len(list) <= 1
          BY <1>8
        <5>3. Len(config.defined) \in Nat /\ Len(list) \in Nat
          BY <1>2
        <5>4. i \in Nat /\ 1 <= i /\ i <= Len(config.defined)
          BY <5>3
        <5>5. i <= 1
          BY <5>1, <5>2, <5>3, <5>4
        <5>6. Len(list) >= 1
          BY <5>1, <5>3, <5>4
        <5>7. QED
          BY <5>2, <5>3, <5>4, <5>5, <5>6
      <4>2. QED
        BY <4>1 DEF IInv, Single
    <3>2. QED
      BY <3>1, <2>1, <1>1 DEF Rotation
  <2>6. QED
    BY <2>2, <2>4, <2>5, <1>1, <1>5 DEF IInv, Counted
<1>9. QED
  BY <1>7, <1>8 DEF CheckLow

\* The limit is exceeded by the last attempt: all that could be tried was.
LEMMA GiveUpInv ==
  ASSUME IInv, GiveUp
  PROVE  IInv'
<1>0. TypeOK
  BY DEF IInv
<1>1. /\ UNCHANGED <<config, list, at, source, connected, tuned, tried>>
      /\ UNCHANGED <<count, heard, steady, talking, queue, carrier, strays>>
      /\ step = "check" /\ step' = "status" /\ exit_flag' = TRUE
  BY DEF GiveUp, Due, channels, demod, window
<1>2. config.limit \in Nat /\ Len(config.defined) \in Nat /\ Len(list) \in Nat
  BY <1>0, ConfigFacts DEF TypeOK
<1>3. attempts <= config.limit
  BY <1>0, <1>1, <1>2 DEF IInv, Ended, TypeOK
<1>4. attempts = config.limit /\ attempts' = attempts + 1
  BY <1>0, <1>2, <1>3 DEF GiveUp, Tries, Exhausted, TypeOK
<1>5. TypeOK'
  BY <1>0, <1>1, <1>4 DEF TypeOK
<1>6. \A h : Covering(h)' = Covering(h)
  BY <1>1 DEF Covering
<1>7. Attached' /\ Grown' /\ Single' /\ Counted' /\ Ended'
  BY <1>1, <1>6 DEF IInv, Attached, Autotuned, P25, Grown, Single, Counted, Ended
<1>8. Rotation'
  BY <1>1, <1>2, <1>4 DEF Rotation
<1>9. AllAttempted'
  <2>1. SUFFICES ASSUME config.limit >= Len(list), NEW f \in Range(config.defined),
                        Covering(f) # {}, f \notin tried
                 PROVE  FALSE
    BY <1>1, <1>6 DEF AllAttempted
  <2>2. PICK i \in 1..Len(config.defined) : f = config.defined[i]
    BY <1>0, ConfigFacts DEF Range, TypeOK
  <2>3. i \in 1..Len(list) /\ list[i] = f
    BY <2>2, <1>2 DEF IInv, Grown
  <2>4. attempts + Distance(i) <= Len(list)
    BY <2>1, <2>3, <1>3 DEF IInv, Rotation
  <2>5. Distance(i) >= 1 /\ Distance(i) \in Int
    BY <2>3, <1>0, <1>2 DEF Distance, TypeOK
  <2>6. QED
    BY <2>1, <2>4, <2>5, <1>2, <1>4
<1>10. QED
  BY <1>5, <1>7, <1>8, <1>9 DEF IInv

LEMMA PrintStatusInv ==
  ASSUME IInv, PrintStatus
  PROVE  IInv'
<1>0. TypeOK
  BY DEF IInv
<1>1. /\ UNCHANGED <<config, exit_flag, list, at, source, connected, attempts, tried>>
      /\ UNCHANGED <<queue, count, heard, carrier, strays>>
      /\ step = "status" /\ step' = "head" /\ steady' \in BOOLEAN
  BY <1>0 DEF PrintStatus, Goto, channels, air, TypeOK
<1>2. \/ Autotuned /\ tuned' = list[at] /\ talking' \in BOOLEAN
      \/ tuned' = tuned /\ talking' = talking
  BY DEF PrintStatus, Tune
<1>3. TypeOK'
  <2>1. tuned' \in Channels /\ talking' \in BOOLEAN
    BY <1>0, <1>2 DEF TypeOK
  <2>2. QED
    BY <2>1, <1>0, <1>1 DEF TypeOK
<1>4. \A h : Covering(h)' = Covering(h)
  BY <1>1 DEF Covering
<1>5. Attached'
  BY <1>1, <1>2, <1>4 DEF IInv, Attached, Autotuned, P25
<1>6. Grown' /\ Counted' /\ Ended'
  BY <1>1 DEF IInv, Grown, Counted, Ended
<1>7. Single'
  <2>1. Len(list) = 1 => at = 1
    BY <1>0 DEF TypeOK
  <2>2. QED
    BY <2>1, <1>1, <1>2 DEF IInv, Single
<1>8. \A i : Distance(i)' = Distance(i)
  BY <1>1 DEF Distance
<1>9. AllAttempted' /\ Rotation'
  BY <1>1, <1>4, <1>8 DEF IInv, AllAttempted, Rotation
<1>10. QED
  BY <1>3, <1>5, <1>6, <1>7, <1>9 DEF IInv

(***************************************************************************)
(* The theorems                                                            *)
(***************************************************************************)

LEMMA NextInv == IInv /\ [Next]_vars => IInv'
<1> SUFFICES ASSUME IInv, [Next]_vars PROVE IInv'
  OBVIOUS
<1>1. CASE LoopHead \/ DrainDone \/ NotYet \/ NoStatus \/ Interrupt
  BY <1>1, MoveOnInv
<1>2. CASE Air
  BY <1>2, AirInv
<1>3. CASE HandleOther \/ HandleInvalid
  BY <1>3, OtherInv
<1>4. CASE HandleSecondary
  BY <1>4, SecondaryInv
<1>5. CASE HandleTDULC
  BY <1>5, TDULCInv
<1>6. CASE CheckGood
  BY <1>6, CheckGoodInv
<1>7. CASE CheckLow
  BY <1>7, CheckLowInv
<1>8. CASE GiveUp
  BY <1>8, GiveUpInv
<1>9. CASE PrintStatus
  BY <1>9, PrintStatusInv
<1>10. CASE UNCHANGED vars
  <2>1. /\ UNCHANGED <<config, list, at, source, connected, tuned, attempts, tried>>
        /\ UNCHANGED <<step, exit_flag, queue, count, heard, steady, talking, carrier, strays>>
    BY <1>10 DEF vars, loop, channels, demod, window, air
  <2>2. TypeOK' /\ Counted' /\ Ended'
    BY <2>1 DEF IInv, TypeOK, Counted, Ended
  <2>3. QED
    BY <2>1, <2>2, QuietInv
<1>11. QED
  BY <1>1, <1>2, <1>3, <1>4, <1>5, <1>6, <1>7, <1>8, <1>9, <1>10 DEF Next, Handle, Status

\* The invariant is inductive and holds at the start.
THEOREM Invariance == Spec => []IInv
<1>1. Init => IInv
  BY InitInv
<1>2. IInv /\ [Next]_vars => IInv'
  BY NextInv
<1>3. QED
  BY <1>1, <1>2, PTL DEF Spec

\* Every variable stays in its type: above all, the index of the current
\* control channel stays in the list, also while the list grows.
THEOREM TypeCorrect == Spec => []TypeOK
<1>1. IInv => TypeOK
  BY DEF IInv
<1>2. QED
  BY <1>1, Invariance, PTL

\* However retunes, growing lists and autotune interleave, the demodulator is
\* connected to the system's source only, and in its band.
THEOREM StaysAttached == Spec => []Attached
<1>1. IInv => Attached
  BY DEF IInv
<1>2. QED
  BY <1>1, Invariance, PTL

\* With a limit for all channels of the list the program gives up only when
\* each channel of the configuration that is in reach was tried.
THEOREM NoneLeftOut == Spec => []AllAttempted
<1>1. IInv => AllAttempted
  BY DEF IInv
<1>2. QED
  BY <1>1, Invariance, PTL

\* A check never leaves a channel that brought enough messages, since invalid
\* ones cannot make the count smaller than the messages handled.
THEOREM LiveIsKept == Spec => KeepsLive
<1>1. IInv /\ [Next]_vars => [steady /\ Check => tuned' = tuned /\ attempts' = 0]_vars
  <2> SUFFICES ASSUME IInv, steady, Check PROVE tuned' = tuned /\ attempts' = 0
    OBVIOUS
  <2>1. heard >= Threshold
    BY DEF Check, CheckGood, CheckLow, GiveUp, Due, Plausible
  <2>2. ~Low
    BY <2>1, ChannelAssumption DEF Low, IInv, Counted, TypeOK
  <2>3. CheckGood
    BY <2>2 DEF Check, CheckLow, GiveUp
  <2>4. QED
    BY <2>3 DEF CheckGood, demod
<1>2. QED
  BY <1>1, Invariance, PTL DEF Spec, KeepsLive
=============================================================================
