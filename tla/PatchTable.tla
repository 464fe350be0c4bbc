----------------------------- MODULE PatchTable -----------------------------
(***************************************************************************)
(* The talkgroup patches of one P25 system (system_impl.cc): announced     *)
(* again and again on the control channel, seldom cancelled, dropped when  *)
(* they are stale, and read when a call starts (start_recorder) and when   *)
(* it is concluded (create_call_data).                                     *)
(*                                                                         *)
(* All of this is done by the main loop.  What happens within a second     *)
(* happens in any order.                                                   *)
(***************************************************************************)
EXTENDS Naturals, FiniteSets

CONSTANTS
  Groups,         \* talkgroups; the number of a patch can be one of them
  Supers,         \* numbers of patches; 0 may be one, which is no talkgroup
  File,           \* the talkgroup file
  RecordUnknown,  \* recordUnknown
  STALE,          \* seconds a member stays without an announcement (10)
  PERIOD          \* seconds between two clean-ups (3)

ASSUME PatchAssumption ==
  /\ File \subseteq Groups /\ RecordUnknown \in BOOLEAN
  /\ STALE \in Nat \ {0} /\ PERIOD \in Nat \ {0}

\* The age of one that is not there.
Gone == STALE + PERIOD + 1

VARIABLES
  patch,    \* talkgroup_patches: seconds since the stamp of each member
  since,    \* seconds since last_decode_rate_check
  call,     \* the call of each talkgroup
  heard     \* history: seconds since a member was last announced; Gone when it
            \* never was or was cancelled after that

vars == <<patch, since, call, heard>>

In(g, sg) == patch[sg][g] # Gone

\* get_talkgroup_patch, as a set.
TalkgroupPatch(g) == {o \in Groups : \E sg \in Supers : In(g, sg) /\ In(o, sg)}

Init ==
  /\ patch = [sg \in Supers |-> [g \in Groups |-> Gone]]
  /\ since = 0
  /\ call = [g \in Groups |-> "none"]
  /\ heard = [sg \in Supers |-> [g \in Groups |-> Gone]]

Put(table, sg, ga, value) ==
  [table EXCEPT ![sg] = [g \in Groups |-> IF g \in ga THEN value ELSE table[sg][g]]]

\* A patch that is new and one that is there are written alike: members that
\* this announcement leaves out stay.
Stamped(sg, ga) == Put(patch, sg, ga \cup {sg}, 0)

\* PATCH_ADD of up to three groups: update_active_talkgroup_patches.
PatchAdd(sg, ga) ==
  /\ patch' = Stamped(sg, ga)
  /\ heard' = Put(heard, sg, ga \cup {sg}, 0)
  /\ UNCHANGED <<since, call>>

\* Mutant: a cancelled member takes the whole patch with it.
PatchDelete_Whole(sg, g) ==
  /\ patch' = Put(patch, sg, Groups, Gone)
  /\ heard' = Put(heard, sg, {g}, Gone)
  /\ UNCHANGED <<since, call>>

\* PATCH_DELETE of one group: delete_talkgroup_patch.  The supergroup stays.
PatchDelete(sg, g) ==
  /\ patch' = Put(patch, sg, {g}, Gone)
  /\ heard' = Put(heard, sg, {g}, Gone)
  /\ UNCHANGED <<since, call>>

\* Mutant: any patch at all.
Wanted_Patched(g) == g \in File \/ RecordUnknown \/ TalkgroupPatch(g) # {}

\* start_recorder, up to the choice of a recorder.
Wanted(g) == g \in File \/ RecordUnknown \/ TalkgroupPatch(g) \cap File # {}

Grant(g) ==
  /\ call[g] = "none"
  /\ call' = [call EXCEPT ![g] = IF Wanted(g) THEN "recording" ELSE "monitoring"]
  /\ UNCHANGED <<patch, since, heard>>

\* Concluded, or too old a one that was only monitored.
EndCall(g) ==
  /\ call[g] # "none"
  /\ call' = [call EXCEPT ![g] = "none"]
  /\ UNCHANGED <<patch, since, heard>>

\* Ages stop counting when clear_stale_talkgroup_patches is bound to remove them.
Older(table) ==
  [sg \in Supers |-> [g \in Groups |->
     IF table[sg][g] < STALE + PERIOD THEN table[sg][g] + 1 ELSE table[sg][g]]]

\* A second passes; the loop comes round more often.
Second ==
  /\ since < PERIOD
  /\ since' = since + 1
  /\ patch' = Older(patch)
  /\ heard' = Older(heard)
  /\ UNCHANGED call

Stale(age) == age # Gone /\ age >= STALE

\* clear_stale_talkgroup_patches.
ClearStale ==
  /\ since >= PERIOD
  /\ since' = 0
  /\ patch' = [sg \in Supers |-> [g \in Groups |->
                 IF Stale(patch[sg][g]) THEN Gone ELSE patch[sg][g]]]
  /\ UNCHANGED <<call, heard>>

Next ==
  \/ \E sg \in Supers : \/ \E ga \in SUBSET Groups : Cardinality(ga) <= 3 /\ PatchAdd(sg, ga)
                        \/ \E g \in Groups : PatchDelete(sg, g)
  \/ \E g \in Groups : Grant(g) \/ EndCall(g)
  \/ Second \/ ClearStale

Spec == Init /\ [][Next]_vars

(***************************************************************************)
(* Properties                                                              *)
(***************************************************************************)

Ages == 0..STALE + PERIOD + 1

\* Types of all variables.
TypeOK ==
  /\ patch \in [Supers -> [Groups -> Ages]]
  /\ since \in 0..PERIOD
  /\ call \in [Groups -> {"none", "recording", "monitoring"}]
  /\ heard \in [Supers -> [Groups -> Ages]]

Within(seconds, g, sg) == heard[sg][g] # Gone /\ heard[sg][g] < seconds

Together(seconds, g, o) ==
  \E sg \in Supers : Within(seconds, g, sg) /\ Within(seconds, o, sg)

\* Whenever a patch is read, it has the members announced within STALE seconds,
\* and none whose announcement is older by more than a clean-up period or was
\* cancelled.
PatchHonoured ==
  \A g, o \in Groups :
    /\ Together(STALE, g, o) => o \in TalkgroupPatch(g)
    /\ o \in TalkgroupPatch(g) => Together(STALE + PERIOD, g, o)

\* A call of a talkgroup that is not in the file is recorded while a patch with
\* one that is was announced within STALE seconds, and is not on the strength
\* of an older or a cancelled one.
PatchedIsRecorded ==
  [][\A g \in Groups \ File : Grant(g) /\ ~RecordUnknown =>
       /\ (\E o \in File : Together(STALE, g, o)) => call'[g] = "recording"
       /\ call'[g] = "recording" => \E o \in File : Together(STALE + PERIOD, g, o)]_vars
=============================================================================
