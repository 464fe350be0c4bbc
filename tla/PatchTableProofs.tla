-------------------------- MODULE PatchTableProofs --------------------------
(***************************************************************************)
(* Theorems about PatchTable for any talkgroups, patches, time to live and *)
(* period of the clean-up.                                                 *)
(***************************************************************************)
EXTENDS PatchTable, TLAPS

\* A member that is there has the age of its announcement, and is not older than
\* the seconds since the last clean-up allow; one that is not there was cancelled
\* or is stale.
AgeInv(sg, g) ==
  /\ In(g, sg) => patch[sg][g] = heard[sg][g] /\ patch[sg][g] < STALE + since
  /\ ~In(g, sg) => heard[sg][g] >= STALE

\* The inductive invariant.
IInv == TypeOK /\ \A sg \in Supers, g \in Groups : AgeInv(sg, g)

LEMMA Numbers == /\ STALE \in Nat /\ PERIOD \in Nat /\ STALE >= 1 /\ PERIOD >= 1
                 /\ Gone \in Nat /\ Gone = STALE + PERIOD + 1 /\ Gone \in Ages /\ 0 \in Ages
                 /\ Ages = 0..Gone
BY PatchAssumption DEF Gone, Ages

\* What Put does to one member.
LEMMA PutOne ==
  ASSUME NEW table \in [Supers -> [Groups -> Ages]], NEW sg \in Supers, NEW ga, NEW v \in Ages
  PROVE  /\ Put(table, sg, ga, v) \in [Supers -> [Groups -> Ages]]
         /\ \A x \in Supers, g \in Groups :
              Put(table, sg, ga, v)[x][g] = IF x = sg /\ g \in ga THEN v ELSE table[x][g]
BY DEF Put

\* What a second does to one member.
LEMMA OlderOne ==
  ASSUME NEW table \in [Supers -> [Groups -> Ages]]
  PROVE  /\ Older(table) \in [Supers -> [Groups -> Ages]]
         /\ \A x \in Supers, g \in Groups :
              Older(table)[x][g] = IF table[x][g] < STALE + PERIOD THEN table[x][g] + 1 ELSE table[x][g]
<1>1. \A x \in Supers, g \in Groups :
        (IF table[x][g] < STALE + PERIOD THEN table[x][g] + 1 ELSE table[x][g]) \in Ages
  <2> SUFFICES ASSUME NEW x \in Supers, NEW g \in Groups
               PROVE  (IF table[x][g] < STALE + PERIOD THEN table[x][g] + 1 ELSE table[x][g]) \in Ages
    OBVIOUS
  <2>1. table[x][g] \in Ages
    OBVIOUS
  <2>2. QED
    BY <2>1, Numbers
<1>2. QED
  BY <1>1 DEF Older

LEMMA InitInv == Init => IInv
BY Numbers DEF Init, IInv, TypeOK, AgeInv, In

LEMMA AddStep ==
  ASSUME IInv, NEW sg \in Supers, NEW ga \in SUBSET Groups, PatchAdd(sg, ga)
  PROVE  IInv'
<1>1. patch \in [Supers -> [Groups -> Ages]] /\ heard \in [Supers -> [Groups -> Ages]]
      /\ since \in 0..PERIOD
  BY DEF IInv, TypeOK
<1>2. patch' = Put(patch, sg, ga \cup {sg}, 0) /\ heard' = Put(heard, sg, ga \cup {sg}, 0)
  BY DEF PatchAdd, Stamped
<1>a. 0 \in Ages
  BY Numbers
<1>b. /\ patch' \in [Supers -> [Groups -> Ages]]
      /\ \A x \in Supers, g \in Groups :
           patch'[x][g] = IF x = sg /\ g \in ga \cup {sg} THEN 0 ELSE patch[x][g]
  BY <1>1, <1>2, <1>a, PutOne
<1>c. /\ heard' \in [Supers -> [Groups -> Ages]]
      /\ \A x \in Supers, g \in Groups :
           heard'[x][g] = IF x = sg /\ g \in ga \cup {sg} THEN 0 ELSE heard[x][g]
  BY <1>1, <1>2, <1>a, PutOne
<1>3. TypeOK'
  BY <1>b, <1>c DEF IInv, TypeOK, PatchAdd
<1>4. ASSUME NEW x \in Supers, NEW g \in Groups  PROVE AgeInv(x, g)'
  <2>1. /\ patch'[x][g] = IF x = sg /\ g \in ga \cup {sg} THEN 0 ELSE patch[x][g]
        /\ heard'[x][g] = IF x = sg /\ g \in ga \cup {sg} THEN 0 ELSE heard[x][g]
    BY <1>b, <1>c
  <2>2. since' = since /\ since \in Nat
    BY <1>1, Numbers DEF PatchAdd
  <2>3. QED
    BY <2>1, <2>2, Numbers DEF IInv, AgeInv, In
<1>5. QED
  BY <1>3, <1>4 DEF IInv

LEMMA DeleteStep ==
  ASSUME IInv, NEW sg \in Supers, NEW d \in Groups, PatchDelete(sg, d)
  PROVE  IInv'
<1>1. patch \in [Supers -> [Groups -> Ages]] /\ heard \in [Supers -> [Groups -> Ages]]
  BY DEF IInv, TypeOK
<1>2. patch' = Put(patch, sg, {d}, Gone) /\ heard' = Put(heard, sg, {d}, Gone) /\ since' = since
  BY DEF PatchDelete
<1>a. Gone \in Ages
  BY Numbers
<1>b. /\ patch' \in [Supers -> [Groups -> Ages]]
      /\ \A x \in Supers, g \in Groups :
           patch'[x][g] = IF x = sg /\ g \in {d} THEN Gone ELSE patch[x][g]
  BY <1>1, <1>2, <1>a, PutOne
<1>c. /\ heard' \in [Supers -> [Groups -> Ages]]
      /\ \A x \in Supers, g \in Groups :
           heard'[x][g] = IF x = sg /\ g \in {d} THEN Gone ELSE heard[x][g]
  BY <1>1, <1>2, <1>a, PutOne
<1>3. TypeOK'
  BY <1>b, <1>c DEF IInv, TypeOK, PatchDelete
<1>4. ASSUME NEW x \in Supers, NEW g \in Groups  PROVE AgeInv(x, g)'
  <2>1. /\ patch'[x][g] = IF x = sg /\ g \in {d} THEN Gone ELSE patch[x][g]
        /\ heard'[x][g] = IF x = sg /\ g \in {d} THEN Gone ELSE heard[x][g]
    BY <1>b, <1>c
  <2>2. QED
    BY <1>2, <2>1, Numbers DEF IInv, AgeInv, In
<1>5. QED
  BY <1>3, <1>4 DEF IInv

LEMMA SecondStep == ASSUME IInv, Second  PROVE IInv'
<1>1. /\ patch \in [Supers -> [Groups -> Ages]] /\ heard \in [Supers -> [Groups -> Ages]]
      /\ since \in Nat /\ since < PERIOD /\ since' = since + 1
  BY Numbers DEF IInv, TypeOK, Second
<1>2. TypeOK'
  BY <1>1, OlderOne, Numbers DEF IInv, TypeOK, Second
<1>3. ASSUME NEW x \in Supers, NEW g \in Groups  PROVE AgeInv(x, g)'
  <2>1. /\ patch'[x][g] = IF patch[x][g] < STALE + PERIOD THEN patch[x][g] + 1 ELSE patch[x][g]
        /\ heard'[x][g] = IF heard[x][g] < STALE + PERIOD THEN heard[x][g] + 1 ELSE heard[x][g]
    BY <1>1, OlderOne DEF Second
  <2>2. patch[x][g] \in Nat /\ heard[x][g] \in Nat /\ patch[x][g] <= Gone /\ heard[x][g] <= Gone
    <3>1. patch[x][g] \in Ages /\ heard[x][g] \in Ages
      BY <1>1
    <3>2. QED
      BY <3>1, Numbers
  <2>3. AgeInv(x, g)
    BY DEF IInv
  <2>4. CASE In(g, x)
    <3>1. patch[x][g] = heard[x][g] /\ patch[x][g] < STALE + since
      BY <2>3, <2>4 DEF AgeInv
    <3>2. patch'[x][g] = patch[x][g] + 1 /\ heard'[x][g] = patch[x][g] + 1
      BY <1>1, <2>1, <2>2, <3>1, Numbers
    <3>3. QED
      BY <1>1, <2>2, <3>1, <3>2, Numbers DEF AgeInv, In
  <2>5. CASE ~In(g, x)
    <3>1. patch[x][g] = Gone /\ heard[x][g] >= STALE
      BY <2>3, <2>5 DEF AgeInv, In
    <3>2. patch'[x][g] = Gone /\ heard'[x][g] >= STALE
      BY <2>1, <2>2, <3>1, Numbers
    <3>3. QED
      BY <3>2 DEF AgeInv, In
  <2>6. QED
    BY <2>4, <2>5
<1>4. QED
  BY <1>2, <1>3 DEF IInv

LEMMA ClearStep == ASSUME IInv, ClearStale  PROVE IInv'
<1>1. /\ patch \in [Supers -> [Groups -> Ages]] /\ heard \in [Supers -> [Groups -> Ages]]
      /\ since' = 0 /\ heard' = heard
  BY DEF IInv, TypeOK, ClearStale
<1>2. /\ patch' \in [Supers -> [Groups -> Ages]]
      /\ \A x \in Supers, g \in Groups :
           patch'[x][g] = IF Stale(patch[x][g]) THEN Gone ELSE patch[x][g]
  BY <1>1, Numbers DEF ClearStale
<1>3. TypeOK'
  BY <1>1, <1>2, Numbers DEF IInv, TypeOK, ClearStale
<1>4. ASSUME NEW x \in Supers, NEW g \in Groups  PROVE AgeInv(x, g)'
  <2>1. patch[x][g] \in Nat /\ heard[x][g] \in Nat
    <3>1. patch[x][g] \in Ages /\ heard[x][g] \in Ages
      BY <1>1
    <3>2. QED
      BY <3>1, Numbers
  <2>2. QED
    BY <1>1, <1>2, <2>1, Numbers DEF IInv, AgeInv, In, Stale
<1>5. QED
  BY <1>3, <1>4 DEF IInv

LEMMA InvStep == IInv /\ [Next]_vars => IInv'
<1> SUFFICES ASSUME IInv, [Next]_vars  PROVE IInv'
  OBVIOUS
<1>1. ASSUME NEW g \in Groups, Grant(g) \/ EndCall(g)  PROVE IInv'
  <2>1. UNCHANGED <<patch, since, heard>> /\ call' \in [Groups -> {"none", "recording", "monitoring"}]
    BY <1>1 DEF Grant, EndCall, IInv, TypeOK
  <2>2. QED
    BY <2>1 DEF IInv, TypeOK, AgeInv, In
<1>2. CASE UNCHANGED vars
  BY <1>2 DEF vars, IInv, TypeOK, AgeInv, In
<1>3. QED
  BY <1>1, <1>2, AddStep, DeleteStep, SecondStep, ClearStep DEF Next

\* Announcements, cancellations, clean-ups and time keep the inductive
\* invariant.
THEOREM Invariant == Spec => []IInv
<1>1. IInv /\ [Next]_vars => IInv'
  BY InvStep
<1>2. QED
  BY <1>1, InitInv, PTL DEF Spec

\* Types: an age never grows beyond what a clean-up would have removed.
THEOREM TypeCorrect == Spec => []TypeOK
<1>1. IInv => TypeOK
  BY DEF IInv
<1>2. QED
  BY <1>1, Invariant, PTL

\* A member of a patch was announced in time, and one announced in time is a
\* member.
LEMMA InMeansHeard ==
  ASSUME IInv, NEW sg \in Supers, NEW g \in Groups
  PROVE  /\ Within(STALE, g, sg) => In(g, sg)
         /\ In(g, sg) => Within(STALE + PERIOD, g, sg)
<1>1. /\ patch[sg][g] \in Ages /\ heard[sg][g] \in Ages /\ since \in Nat /\ since <= PERIOD
      /\ AgeInv(sg, g)
  BY Numbers DEF IInv, TypeOK
<1>2. patch[sg][g] \in Nat /\ heard[sg][g] \in Nat
  BY <1>1, Numbers
<1>3. QED
  BY <1>1, <1>2, Numbers DEF AgeInv, In, Within

LEMMA Honoured == IInv => PatchHonoured
BY InMeansHeard DEF PatchHonoured, Together, TalkgroupPatch

\* A patch that is read, at the start of a call or at its end, is what was
\* announced in the last STALE seconds, with nothing older than STALE + PERIOD.
THEOREM ReadsWhatWasSaid == Spec => []PatchHonoured
BY Invariant, Honoured, PTL

\* A call of a talkgroup outside the file is recorded because of a patch exactly
\* when the announcements call for it.
THEOREM RecordsThePatched == Spec => PatchedIsRecorded
<1>1. IInv /\ [Next]_vars =>
        [\A g \in Groups \ File : Grant(g) /\ ~RecordUnknown =>
           /\ (\E o \in File : Together(STALE, g, o)) => call'[g] = "recording"
           /\ call'[g] = "recording" => \E o \in File : Together(STALE + PERIOD, g, o)]_vars
  <2> SUFFICES ASSUME IInv, NEW g \in Groups \ File, Grant(g), ~RecordUnknown
               PROVE  /\ (\E o \in File : Together(STALE, g, o)) => call'[g] = "recording"
                      /\ call'[g] = "recording" => \E o \in File : Together(STALE + PERIOD, g, o)
    OBVIOUS
  <2>1. call'[g] = IF Wanted(g) THEN "recording" ELSE "monitoring"
    BY DEF Grant, IInv, TypeOK
  <2>2. Wanted(g) <=> \E o \in File : o \in TalkgroupPatch(g)
    BY DEF Wanted
  <2>3. \A o \in File : /\ Together(STALE, g, o) => o \in TalkgroupPatch(g)
                        /\ o \in TalkgroupPatch(g) => Together(STALE + PERIOD, g, o)
    BY Honoured, PatchAssumption DEF PatchHonoured
  <2>4. QED
    BY <2>1, <2>2, <2>3
<1>2. QED
  BY <1>1, Invariant, PTL DEF Spec, PatchedIsRecorded
=============================================================================
