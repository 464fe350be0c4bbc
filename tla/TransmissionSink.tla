-------------------------- MODULE TransmissionSink --------------------------
(***************************************************************************)
(* gr_blocks/transmission_sink.cc: the end of a recorder's signal chain.   *)
(* It cuts the voice stream of one call into transmissions, one WAV file   *)
(* each, and says which unit spoke in each of them.                        *)
(*                                                                         *)
(* Three threads meet here.  The main thread starts and stops recordings   *)
(* and, for trunked calls, passes on the unit ids of the control channel   *)
(* (set_source).  The GNU Radio scheduler runs work().  On an analog       *)
(* recorder the signalling decoder's thread calls set_source as well.      *)
(* start_recording, stop_recording and work hold d_mutex; set_source does  *)
(* not, but for the few lines that end a conventional transmission.        *)
(*                                                                         *)
(* State STOPPED is not modelled: dowork enters it only without a current  *)
(* call, and work has returned before that.                                *)
(***************************************************************************)
EXTENDS Naturals, Sequences

CONSTANTS
  Units,        \* unit (source) ids heard on any channel
  Groups,       \* talkgroup ids
  NoUnit,       \* -1
  NoCall,       \* NULL
  MaxCalls,     \* bound: calls this recorder serves
  MaxWindows,   \* bound: buffers handed to work()
  Merged        \* bound: frames whose output one work() call may find merged

ASSUME SinkAssumption ==
  /\ NoUnit \notin Units
  /\ MaxCalls \in Nat /\ MaxWindows \in Nat /\ Merged \in Nat
  /\ NoCall \notin Nat

Threads == {"main", "decoder"}
Source  == Units \cup {NoUnit}
Step    == {"idle", "check", "set", "compare", "cache", "end"}

VARIABLES
  kind,          \* [conventional, analog]: what the recorder is built for
  current_call,  \* d_current_call
  serving,       \* d_current_call_num, kept when the call ends
  talkgroup,     \* d_current_call_talkgroup_encoded
  state,         \* the sink's State, read by others without the lock
  fp,            \* d_fp is open
  audio,         \* the buffers written to the open file: d_sample_count is 0
                 \* exactly when it is empty
  curr_src_id,
  cached_src_id,
  termination,   \* d_termination_flag
  list,          \* transmission_list
  work,          \* what work() still has to do; it holds d_mutex until idle
  setting,       \* per thread: where in set_source it is, and its argument
  call_source,   \* Call_impl::curr_src_id of the current call
  windows,       \* history: buffers handed to work() so far
  wrote,         \* history: buffers written for the call being served
  known          \* history: unit ids announced while the call was served

main  == <<current_call, serving, call_source>>
file  == <<fp, audio, list>>
srcs  == <<curr_src_id, cached_src_id>>
vars  == <<kind, main, talkgroup, state, file, srcs, termination, work, setting,
           windows, wrote, known>>

\* A tag of the stream, as op25's frame assembler attaches them.
Tags == [key : {"src_id"}, value : Units] \cup [key : {"grp_id"}, value : Groups]
          \cup [key : {"terminate"}, value : {NoUnit}]

Src(u) == [key |-> "src_id", value |-> u]
Grp(g) == [key |-> "grp_id", value |-> g]
Terminator == [key |-> "terminate", value |-> NoUnit]

\* One frame's output: voice with or without its ids, each with or without a
\* terminator, all tags on the first sample; or a terminator on a blank one.
Announced  == {<<>>} \cup {<<Src(u), Grp(g)>> : u \in Units, g \in Groups}
VoiceFrame == Announced \cup {Append(a, Terminator) : a \in Announced}
Frames ==
  [tags : VoiceFrame, many : {TRUE}] \cup [tags : {<<Terminator>>}, many : {FALSE}]

\* The buffers work() may be handed.  Analog chains carry no tags.
Untagged == [tags : {<<>>}, many : {TRUE}]
Joined(f, g) == [tags |-> f.tags \o g.tags, many |-> TRUE]
MergedFrames == {Joined(f, g) : f, g \in Frames}

Windows ==
  IF kind.analog THEN Untagged
  ELSE Frames \cup (IF Merged < 2 THEN {} ELSE MergedFrames)

Idle == [busy |-> FALSE, tags |-> <<>>, many |-> FALSE]
Unlocked == ~work.busy

Transmission == [source : Source, audio : SUBSET (1..MaxWindows)]

Init ==
  /\ kind \in [conventional : BOOLEAN, analog : BOOLEAN]
  /\ current_call = NoCall /\ serving = 0 /\ call_source = NoUnit
  /\ talkgroup \in Groups                      \* not read before a start
  /\ state = "AVAILABLE"
  /\ fp = FALSE /\ audio = {} /\ list = {}
  /\ curr_src_id = NoUnit /\ cached_src_id = NoUnit
  /\ termination = FALSE
  /\ work = Idle
  /\ setting = [t \in Threads |-> [at |-> "idle", src |-> NoUnit]]
  /\ windows = 0 /\ wrote = {} /\ known = {}

(***************************************************************************)
(* end_transmission                                                        *)
(***************************************************************************)

\* The unit a transmission is put down to, and what stays cached after it.
SourceOfTransmission ==
  IF curr_src_id = NoUnit THEN cached_src_id ELSE curr_src_id

CachedAfter ==
  IF curr_src_id \in {NoUnit, cached_src_id} THEN NoUnit ELSE cached_src_id

\* content: what the file holds; next_src: what curr_src_id is left at.
EndTransmission(content, next_src) ==
  /\ list' = list \cup {[source |-> SourceOfTransmission, audio |-> content]}
  /\ fp' = FALSE
  /\ audio' = {}
  /\ cached_src_id' = CachedAfter
  /\ curr_src_id' = next_src

(***************************************************************************)
(* Main thread: start_recording and stop_recording                         *)
(***************************************************************************)

MainIdle == setting["main"].at = "idle"

ResetFile == audio' = {} /\ list' = {}

\* Mutant: the cached id survives into the next call.
ResetSources_KeepsCache(u) == curr_src_id' = u /\ UNCHANGED cached_src_id

ResetSources(u) == curr_src_id' = u /\ cached_src_id' = NoUnit

\* A trunked call takes a recorder whose sink is AVAILABLE; a conventional one
\* keeps its recorder and restarts it without looking.
StartRecording ==
  /\ MainIdle /\ Unlocked
  /\ current_call = NoCall
  /\ serving < MaxCalls
  /\ kind.conventional \/ state = "AVAILABLE"
  /\ current_call' = serving + 1
  /\ serving' = serving + 1
  /\ talkgroup' \in Groups
  /\ \E u \in (IF kind.conventional THEN {NoUnit} ELSE Source) :
       /\ call_source' = u
       /\ ResetSources(u)
       /\ known' = {u}
  /\ ResetFile
  /\ wrote' = {}
  /\ state' = "IDLE"
  /\ UNCHANGED <<kind, fp, termination, work, setting, windows>>

StopRecording ==
  /\ MainIdle /\ Unlocked
  /\ current_call # NoCall
  /\ current_call' = NoCall
  /\ termination' = FALSE
  /\ state' = "AVAILABLE"
  /\ \/ audio # {} /\ EndTransmission(audio, NoUnit)
     \/ audio = {} /\ UNCHANGED <<file, srcs>>
  /\ UNCHANGED <<kind, serving, call_source, talkgroup, work, setting, windows, wrote, known>>

(***************************************************************************)
(* set_source, without the lock, on the main or the decoder's thread       *)
(***************************************************************************)

Goto(t, step) == setting' = [setting EXCEPT ![t].at = step]

SetSourceFrame ==
  UNCHANGED <<kind, current_call, serving, talkgroup, termination, work, windows, wrote>>

\* Call_impl::add_source: the control channel names another unit.
AddSource(u) ==
  /\ MainIdle
  /\ ~kind.conventional
  /\ current_call # NoCall
  /\ u # call_source
  /\ call_source' = u
  /\ known' = known \cup {u}
  /\ setting' = [setting EXCEPT !["main"] = [at |-> "check", src |-> u]]
  /\ UNCHANGED <<state, file, srcs>> /\ SetSourceFrame

\* analog_recorder::decoder_callback_handler: a burst of the current call.
\* The recorder's call pointer outlives the call, so the callback may too.
DecodeBurst(u) ==
  /\ kind.analog
  /\ setting["decoder"].at = "idle"
  /\ current_call # NoCall
  /\ known' = known \cup {u}
  /\ setting' = [setting EXCEPT !["decoder"] = [at |-> "check", src |-> u]]
  /\ UNCHANGED <<state, file, srcs, call_source>> /\ SetSourceFrame

CheckSource(t) ==
  /\ setting[t].at = "check"
  /\ Goto(t, IF curr_src_id = NoUnit THEN "set" ELSE "compare")
  /\ UNCHANGED <<state, file, srcs, call_source, known>> /\ SetSourceFrame

SetCurrent(t) ==
  /\ setting[t].at = "set"
  /\ curr_src_id' = setting[t].src
  /\ Goto(t, "idle")
  /\ UNCHANGED <<state, file, cached_src_id, call_source, known>> /\ SetSourceFrame

\* Mutant: trunked calls take the conventional branch.
CompareSource_AlwaysEnds(t) ==
  /\ setting[t].at = "compare"
  /\ Goto(t, IF setting[t].src = curr_src_id THEN "idle" ELSE "end")
  /\ UNCHANGED <<state, file, srcs, call_source, known>> /\ SetSourceFrame

CompareSource(t) ==
  /\ setting[t].at = "compare"
  /\ Goto(t, IF setting[t].src = curr_src_id THEN "idle"
             ELSE IF ~kind.conventional THEN "cache"
             ELSE IF state = "RECORDING" /\ audio # {} THEN "end" ELSE "idle")
  /\ UNCHANGED <<state, file, srcs, call_source, known>> /\ SetSourceFrame

CacheSource(t) ==
  /\ setting[t].at = "cache"
  /\ cached_src_id' = setting[t].src
  /\ Goto(t, "idle")
  /\ UNCHANGED <<state, file, curr_src_id, call_source, known>> /\ SetSourceFrame

\* The lock is taken only now: what the thread saw may be gone.
EndForSource(t) ==
  /\ setting[t].at = "end"
  /\ Unlocked
  /\ \/ audio # {} /\ EndTransmission(audio, setting[t].src)
     \/ /\ audio = {}
        /\ curr_src_id' = setting[t].src
        /\ UNCHANGED <<file, cached_src_id>>
  /\ state' = "IDLE"
  /\ Goto(t, "idle")
  /\ UNCHANGED <<call_source, known>> /\ SetSourceFrame

(***************************************************************************)
(* Scheduler thread: work, tag by tag, then dowork                         *)
(***************************************************************************)

WorkFrame == UNCHANGED <<kind, main, setting>>

\* Without a current call, or AVAILABLE, the buffer is dropped: no step.
WorkBegin ==
  /\ Unlocked
  /\ windows < MaxWindows
  /\ current_call # NoCall
  /\ state # "AVAILABLE"
  /\ windows' = windows + 1
  /\ \E w \in Windows : work' = [busy |-> TRUE, tags |-> w.tags, many |-> w.many]
  /\ UNCHANGED <<talkgroup, state, file, srcs, termination, wrote, known>> /\ WorkFrame

Tag(key) == work.busy /\ work.tags # <<>> /\ Head(work.tags).key = key
NextTag  == work' = [work EXCEPT !.tags = Tail(@)]

\* On a trunked call another talkgroup ends the transmission and silences the
\* sink; a conventional one takes the talkgroup over.
GroupTag ==
  /\ Tag("grp_id") /\ NextTag
  /\ \/ /\ state \in {"RECORDING", "IDLE"}
        /\ Head(work.tags).value # talkgroup
        /\ \/ /\ ~kind.conventional
              /\ state' = "IGNORE"
              /\ \/ audio # {} /\ EndTransmission(audio, NoUnit)
                 \/ audio = {} /\ UNCHANGED <<file, srcs>>
              /\ UNCHANGED talkgroup
           \/ /\ kind.conventional
              /\ talkgroup' = Head(work.tags).value
              /\ UNCHANGED <<state, file, srcs>>
     \/ /\ state \notin {"RECORDING", "IDLE"} \/ Head(work.tags).value = talkgroup
        /\ UNCHANGED <<talkgroup, state, file, srcs>>
  /\ UNCHANGED <<termination, windows, wrote, known>> /\ WorkFrame

SourceTag ==
  /\ Tag("src_id") /\ NextTag
  /\ known' = known \cup {Head(work.tags).value}
  /\ curr_src_id' = IF curr_src_id = NoUnit \/ state = "RECORDING"
                    THEN Head(work.tags).value ELSE curr_src_id
  /\ UNCHANGED <<talkgroup, state, file, cached_src_id, termination, windows, wrote>>
  /\ WorkFrame

TerminateTag ==
  /\ Tag("terminate") /\ NextTag
  /\ termination' = TRUE
  /\ UNCHANGED <<talkgroup, state, file, srcs, windows, wrote, known>> /\ WorkFrame

\* dowork, once the tags are through; the lock is released after it.
DoWork ==
  /\ work.busy /\ work.tags = <<>>
  /\ work' = Idle
  /\ termination' = FALSE
  /\ UNCHANGED <<talkgroup, windows, known>> /\ WorkFrame

\* A terminator without voice, or on a silenced or empty sink: no write.
Terminate ==
  /\ DoWork
  /\ termination
  /\ \/ /\ state = "IGNORE"
        /\ state' = "IDLE"
        /\ UNCHANGED <<file, srcs>>
     \/ /\ state # "IGNORE" /\ audio = {}
        /\ UNCHANGED <<state, file, srcs>>
     \/ /\ state # "IGNORE" /\ audio # {} /\ ~work.many
        /\ EndTransmission(audio, NoUnit)
        /\ state' = "IDLE"
  /\ UNCHANGED wrote

Ignore ==
  /\ DoWork
  /\ ~termination /\ state = "IGNORE"
  /\ UNCHANGED <<state, file, srcs, wrote>>

\* open_internal fails: on open or fdopen nothing is left open, on the header
\* the file is; a file left open by the last attempt was closed before.
OpenFails ==
  /\ DoWork
  /\ ~termination /\ state = "IDLE"
  /\ fp' \in BOOLEAN
  /\ audio' = {}
  /\ UNCHANGED <<state, list, srcs, wrote>>

\* Mutant: a file opened for the first buffer is not marked RECORDING.
Write_StaysIdle ==
  /\ DoWork
  /\ ~termination /\ state \in {"IDLE", "RECORDING"}
  /\ fp' = TRUE
  /\ audio' = (IF state = "IDLE" THEN {} ELSE audio) \cup {windows}
  /\ wrote' = wrote \cup {windows}
  /\ UNCHANGED <<state, list, srcs>>

\* In IDLE a new file is opened first, which resets d_sample_count.
Write ==
  /\ DoWork
  /\ ~termination /\ state \in {"IDLE", "RECORDING"}
  /\ fp' = TRUE
  /\ audio' = (IF state = "IDLE" THEN {} ELSE audio) \cup {windows}
  /\ wrote' = wrote \cup {windows}
  /\ state' = "RECORDING"
  /\ UNCHANGED <<list, srcs>>

\* Mutant: the transmission ends before the last buffer is written.
WriteAndTerminate_Early ==
  /\ DoWork
  /\ termination /\ state # "IGNORE" /\ audio # {} /\ work.many
  /\ EndTransmission(audio, NoUnit)
  /\ wrote' = wrote \cup {windows}
  /\ state' = "IDLE"

\* A terminator that came in with voice: the voice is written first.
WriteAndTerminate ==
  /\ DoWork
  /\ termination /\ state # "IGNORE" /\ audio # {} /\ work.many
  /\ EndTransmission(audio \cup {windows}, NoUnit)
  /\ wrote' = wrote \cup {windows}
  /\ state' = "IDLE"

SetSource(t) ==
  CheckSource(t) \/ SetCurrent(t) \/ CompareSource(t) \/ CacheSource(t) \/ EndForSource(t)

Work ==
  \/ WorkBegin \/ GroupTag \/ SourceTag \/ TerminateTag
  \/ Terminate \/ Ignore \/ OpenFails \/ Write \/ WriteAndTerminate

Next ==
  \/ StartRecording \/ StopRecording
  \/ \E u \in Units : AddSource(u) \/ DecodeBurst(u)
  \/ \E t \in Threads : SetSource(t)
  \/ Work

Spec == Init /\ [][Next]_vars

(***************************************************************************)
(* Properties                                                              *)
(***************************************************************************)

\* The variables range over the values the code gives them; STOPPED is not
\* one of them.
TypeOK ==
  /\ kind \in [conventional : BOOLEAN, analog : BOOLEAN]
  /\ serving \in 0..MaxCalls
  /\ current_call \in {NoCall, serving}
  /\ call_source \in Source
  /\ talkgroup \in Groups
  /\ state \in {"AVAILABLE", "IDLE", "RECORDING", "IGNORE"}
  /\ fp \in BOOLEAN
  /\ audio \in SUBSET (1..MaxWindows)
  /\ list \in SUBSET Transmission
  /\ curr_src_id \in Source /\ cached_src_id \in Source
  /\ termination \in BOOLEAN
  /\ work \in [busy : BOOLEAN, tags : Seq(Tags), many : BOOLEAN]
  /\ setting \in [Threads -> [at : Step, src : Source]]
  /\ windows \in 0..MaxWindows
  /\ wrote \in SUBSET (1..MaxWindows)
  /\ known \in SUBSET Source

\* end_transmission never finds samples without a file, and dowork never
\* opens a file over samples ("Weird! we have an existing FP"): whatever
\* set_source does in between, samples are there exactly while RECORDING.
SamplesHaveFile ==
  /\ state = "RECORDING" <=> audio # {}
  /\ audio # {} => fp

\* Every buffer written while a call was served is in the open file or in one
\* transmission of the call, and in no second one; nothing of an earlier call
\* is.  The list is what conclude_call takes after stop().
NothingLost ==
  /\ wrote = audio \cup UNION {t.audio : t \in list}
  /\ \A t \in list : t.audio # {} /\ t.audio \cap audio = {}
  /\ \A t, u \in list : t # u => t.audio \cap u.audio = {}

\* On a digital recorder a transmission is put down to no unit, or to one that
\* was announced while its call was served: neither the unlocked set_source
\* nor the cache carries an id over from another call.
SourceWasHeard ==
  ~kind.analog => \A t \in list : t.source \in known \cup {NoUnit}

\* A stopped trunked recorder is AVAILABLE again.  (get_digital_recorder and
\* get_analog_recorder look at nothing else: another state would lose it.)
ReturnsToPool ==
  ~kind.conventional /\ current_call = NoCall => state = "AVAILABLE"
=============================================================================
