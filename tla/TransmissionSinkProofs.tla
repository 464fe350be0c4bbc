------------------------ MODULE TransmissionSinkProofs ------------------------
(***************************************************************************)
(* Theorems about TransmissionSink for every set of units and talkgroups   *)
(* and every number of calls and buffers.                                  *)
(***************************************************************************)
EXTENDS TransmissionSink, TLAPS

\* Who holds the lock and what the threads may still do: work is busy only
\* while a call is served, and only a conventional sink ends transmissions
\* in set_source.
Locking ==
  /\ work.busy => current_call # NoCall /\ state # "AVAILABLE"
  /\ \A t \in Threads : setting[t].at = "end" => kind.conventional
  /\ ReturnsToPool

\* What was written came in earlier buffers than the one being handled.
Numbering ==
  /\ wrote \subseteq 1..windows
  /\ work.busy => windows > 0 /\ windows \notin wrote

\* On a digital recorder every id in use was announced during the call.
Heard ==
  ~kind.analog =>
    /\ {curr_src_id, cached_src_id} \subseteq known \cup {NoUnit}
    /\ setting["main"].at # "idle" => setting["main"].src \in known
    /\ setting["decoder"].at = "idle"

\* The inductive invariant.
IInv ==
  /\ TypeOK /\ Locking /\ Numbering /\ Heard
  /\ SamplesHaveFile /\ NothingLost /\ SourceWasHeard

USE SinkAssumption

(***************************************************************************)
(* Lemmas about the operators                                              *)
(***************************************************************************)

\* One frame's output carries a sequence of tags.
LEMMA FrameTags ==
  ASSUME NEW f \in Frames
  PROVE  f.tags \in Seq(Tags) /\ f.many \in BOOLEAN
<1>1. Terminator \in Tags
  BY DEF Terminator, Tags
<1>2. ASSUME NEW u \in Units, NEW g \in Groups PROVE Src(u) \in Tags /\ Grp(g) \in Tags
  BY DEF Src, Grp, Tags
<1>3. Announced \subseteq Seq(Tags)
  <2>1. ASSUME NEW u \in Units, NEW g \in Groups PROVE <<Src(u), Grp(g)>> \in Seq(Tags)
    <3>1. Src(u) \in Tags /\ Grp(g) \in Tags
      BY <1>2
    <3>2. QED
      BY <3>1
  <2>2. SUFFICES ASSUME NEW a \in Announced PROVE a \in Seq(Tags)
    OBVIOUS
  <2>3. CASE a = <<>>
    BY <2>3
  <2>4. CASE a # <<>>
    <3>1. PICK u \in Units, g \in Groups : a = <<Src(u), Grp(g)>>
      BY <2>4 DEF Announced
    <3>2. QED
      BY <2>1, <3>1
  <2>5. QED
    BY <2>3, <2>4
<1>4. VoiceFrame \subseteq Seq(Tags)
  BY <1>1, <1>3 DEF VoiceFrame
<1>5. <<Terminator>> \in Seq(Tags)
  BY <1>1
<1>6. QED
  BY <1>4, <1>5 DEF Frames

\* So does a buffer, of merged frames or without any tag.
LEMMA WindowTags ==
  ASSUME NEW w \in Windows
  PROVE  w.tags \in Seq(Tags) /\ w.many \in BOOLEAN
<1>1. w \in Untagged \/ w \in Frames \/ w \in MergedFrames
  BY DEF Windows
<1>2. CASE w \in Untagged
  <2>1. w.tags = <<>>
    BY <1>2 DEF Untagged
  <2>2. w.many \in BOOLEAN
    BY <1>2, Zenon DEF Untagged
  <2>3. QED
    BY <2>1, <2>2
<1>3. CASE w \in MergedFrames
  <2>1. PICK f \in Frames, g \in Frames : w = Joined(f, g)
    BY <1>3, SMT DEF MergedFrames
  <2>2. f.tags \in Seq(Tags) /\ g.tags \in Seq(Tags)
    BY FrameTags
  <2>3. w.tags \in Seq(Tags)
    BY <2>1, <2>2 DEF Joined
  <2>4. w.many \in BOOLEAN
    BY <2>1, Zenon DEF Joined
  <2>5. QED
    BY <2>3, <2>4
<1>4. QED
  BY <1>1, <1>2, <1>3, FrameTags

\* Taking the next tag: what it is, and that work goes on.
LEMMA TakeTag ==
  ASSUME TypeOK, NEW key, Tag(key), NextTag
  PROVE  /\ work' \in [busy : BOOLEAN, tags : Seq(Tags), many : BOOLEAN]
         /\ work.busy /\ work'.busy
         /\ key = "src_id" => Head(work.tags).value \in Units
         /\ key = "grp_id" => Head(work.tags).value \in Groups
<1>1. work.tags \in Seq(Tags) /\ work.tags # <<>> /\ work.busy
  BY DEF TypeOK, Tag
<1>2. Head(work.tags) \in Tags /\ Tail(work.tags) \in Seq(Tags)
  BY <1>1
<1>3. Head(work.tags).key = key
  BY DEF Tag
<1>4. /\ key = "src_id" => Head(work.tags).value \in Units
      /\ key = "grp_id" => Head(work.tags).value \in Groups
  BY <1>2, <1>3 DEF Tags
<1>5. QED
  BY <1>1, <1>2, <1>4 DEF NextTag, TypeOK

\* What end_transmission leaves behind when content is the open file, with the
\* last buffer or without it.
LEMMA Ended ==
  ASSUME IInv, UNCHANGED <<kind, known>>,
         NEW content \in SUBSET (1..MaxWindows), audio # {}, audio \subseteq content,
         (content \ audio) \cap wrote = {}, wrote' = wrote \cup content,
         NEW next \in Source, EndTransmission(content, next)
  PROVE  /\ fp' = FALSE /\ audio' = {} /\ curr_src_id' = next
         /\ list' \in SUBSET Transmission
         /\ cached_src_id' \in {NoUnit, cached_src_id}
         /\ NothingLost' /\ SourceWasHeard'
<1> DEFINE tx == [source |-> SourceOfTransmission, audio |-> content]
<1>1. /\ fp' = FALSE /\ audio' = {} /\ curr_src_id' = next
      /\ list' = list \cup {tx}
      /\ cached_src_id' = CachedAfter
  BY DEF EndTransmission
<1>2. /\ SourceOfTransmission \in {curr_src_id, cached_src_id}
      /\ CachedAfter \in {NoUnit, cached_src_id}
  BY DEF IInv, TypeOK, SourceOfTransmission, CachedAfter
<1>4. /\ tx \in Transmission /\ tx.audio = content /\ tx.audio # {}
      /\ tx.source \in {curr_src_id, cached_src_id}
  <2>1. SourceOfTransmission \in Source
    BY <1>2 DEF IInv, TypeOK
  <2>2. QED
    BY <1>2, <2>1 DEF Transmission
<1> HIDE DEF tx
<1>5. NothingLost'
  <2>1. /\ wrote = audio \cup UNION {t.audio : t \in list}
        /\ \A t \in list : t.audio # {} /\ t.audio \cap audio = {}
        /\ \A t, u \in list : t # u => t.audio \cap u.audio = {}
    BY DEF IInv, NothingLost
  <2>2. ASSUME NEW t \in list PROVE t.audio \cap tx.audio = {}
    <3>1. t.audio \subseteq wrote /\ t.audio \cap audio = {}
      BY <2>1
    <3>2. QED
      BY <1>4, <3>1
  <2>3. UNION {t.audio : t \in list'} = tx.audio \cup UNION {t.audio : t \in list}
    BY <1>1
  <2>4. wrote' = audio' \cup UNION {t.audio : t \in list'}
    BY <1>1, <1>4, <2>1, <2>3
  <2>5. ASSUME NEW t \in list' PROVE t.audio # {} /\ t.audio \cap audio' = {}
    BY <1>1, <1>4, <2>1
  <2>6. ASSUME NEW t \in list', NEW u \in list', t # u PROVE t.audio \cap u.audio = {}
    <3>1. t \in list \/ t = tx
      BY <1>1
    <3>2. u \in list \/ u = tx
      BY <1>1
    <3>3. QED
      BY <2>1, <2>2, <2>6, <3>1, <3>2
  <2>7. QED
    BY <2>4, <2>5, <2>6 DEF NothingLost
<1>6. SourceWasHeard'
  <2>1. ~kind.analog => tx.source \in known \cup {NoUnit}
    BY <1>4 DEF IInv, Heard
  <2>2. QED
    BY <1>1, <2>1 DEF IInv, SourceWasHeard
<1>7. QED
  BY <1>1, <1>2, <1>4, <1>5, <1>6 DEF IInv, TypeOK

\* Steps that write and end nothing keep every buffer where it is.
LEMMA Untouched ==
  ASSUME IInv, UNCHANGED <<audio, list, wrote>>
  PROVE  NothingLost'
BY DEF IInv, NothingLost

(***************************************************************************)
(* Main thread                                                             *)
(***************************************************************************)

LEMMA InitInv == Init => IInv
<1> SUFFICES ASSUME Init PROVE IInv
  OBVIOUS
<1> USE DEF Init
<1>1. TypeOK
  <2>1. work \in [busy : BOOLEAN, tags : Seq(Tags), many : BOOLEAN]
    BY DEF Idle
  <2>2. setting \in [Threads -> [at : Step, src : Source]]
    BY DEF Source, Step
  <2>3. 0 \in 0..MaxCalls /\ 0 \in 0..MaxWindows
    OBVIOUS
  <2>4. QED
    BY <2>1, <2>2, <2>3 DEF TypeOK, Source
<1>2. Locking /\ Numbering /\ Heard
  BY DEF Locking, Numbering, Heard, Idle, ReturnsToPool, Threads
<1>3. SamplesHaveFile /\ NothingLost /\ SourceWasHeard
  BY DEF SamplesHaveFile, NothingLost, SourceWasHeard
<1>4. QED
  BY <1>1, <1>2, <1>3 DEF IInv

\* A new call starts with an empty file, an empty list and no cached id.
LEMMA StartInv ==
  ASSUME IInv, StartRecording
  PROVE  IInv'
<1> USE DEF IInv
<1>1. PICK u \in Source : call_source' = u /\ ResetSources(u) /\ known' = {u}
  BY DEF StartRecording, Source
<1>2. /\ UNCHANGED <<kind, fp, termination, work, setting, windows>>
      /\ ~work.busy /\ setting["main"].at = "idle" /\ serving < MaxCalls
      /\ current_call' = serving + 1 /\ serving' = serving + 1
      /\ talkgroup' \in Groups /\ wrote' = {} /\ state' = "IDLE"
      /\ audio' = {} /\ list' = {}
      /\ curr_src_id' = u /\ cached_src_id' = NoUnit
  BY <1>1 DEF StartRecording, MainIdle, Unlocked, ResetFile, ResetSources
<1>3. TypeOK'
  BY <1>1, <1>2 DEF TypeOK, Source
<1>4. Locking'
  BY <1>2 DEF Locking, ReturnsToPool, TypeOK
<1>5. Numbering'
  BY <1>2 DEF Numbering, TypeOK
<1>6. Heard'
  BY <1>1, <1>2 DEF Heard
<1>7. SamplesHaveFile' /\ NothingLost' /\ SourceWasHeard'
  BY <1>2 DEF SamplesHaveFile, NothingLost, SourceWasHeard
<1>8. QED
  BY <1>3, <1>4, <1>5, <1>6, <1>7

\* Stopping ends the transmission that is open.
LEMMA StopInv ==
  ASSUME IInv, StopRecording
  PROVE  IInv'
<1> USE DEF IInv
<1>1. /\ UNCHANGED <<kind, serving, call_source, talkgroup, work, setting, windows, wrote, known>>
      /\ ~work.busy /\ setting["main"].at = "idle"
      /\ current_call' = NoCall /\ termination' = FALSE /\ state' = "AVAILABLE"
  BY DEF StopRecording, MainIdle, Unlocked
<1>2. /\ audio' = {} /\ fp' \in BOOLEAN /\ list' \in SUBSET Transmission
      /\ curr_src_id' \in {NoUnit, curr_src_id} /\ cached_src_id' \in {NoUnit, cached_src_id}
      /\ NothingLost' /\ SourceWasHeard'
  <2>1. CASE audio # {} /\ EndTransmission(audio, NoUnit)
    <3>1. /\ audio \in SUBSET (1..MaxWindows) /\ (audio \ audio) \cap wrote = {}
          /\ wrote' = wrote \cup audio /\ NoUnit \in Source
      BY <1>1 DEF TypeOK, NothingLost, Source
    <3>2. /\ fp' = FALSE /\ audio' = {} /\ curr_src_id' = NoUnit
          /\ list' \in SUBSET Transmission
          /\ cached_src_id' \in {NoUnit, cached_src_id}
          /\ NothingLost' /\ SourceWasHeard'
      BY <1>1, <2>1, <3>1, Ended
    <3>3. QED
      BY <3>2
  <2>2. CASE audio = {} /\ UNCHANGED <<file, srcs>>
    BY <1>1, <2>2, Untouched DEF file, srcs, TypeOK, SourceWasHeard
  <2>3. QED
    BY <2>1, <2>2 DEF StopRecording
<1>3. TypeOK'
  BY <1>1, <1>2 DEF TypeOK, Source
<1>4. Locking' /\ Numbering' /\ Heard' /\ SamplesHaveFile'
  BY <1>1, <1>2 DEF Locking, Numbering, Heard, SamplesHaveFile, ReturnsToPool
<1>5. QED
  BY <1>2, <1>3, <1>4

(***************************************************************************)
(* set_source                                                              *)
(***************************************************************************)

\* A step of set_source that leaves the state, the file and the buffers alone.
Silent ==
  /\ UNCHANGED <<kind, current_call, serving, talkgroup, termination, work, windows, wrote,
                 state, file>>
  /\ call_source' \in Source
  /\ setting' \in [Threads -> [at : Step, src : Source]]
  /\ curr_src_id' \in Source /\ cached_src_id' \in Source
  /\ \A t \in Threads : setting'[t].at = "end" => kind.conventional
  /\ known' \in SUBSET Source

\* Such a step keeps the invariant if the ids it handles were announced.
LEMMA SilentInv ==
  ASSUME IInv, Silent, Heard', known \subseteq known'
  PROVE  IInv'
<1> USE DEF IInv, Silent, file
<1>1. TypeOK'
  BY DEF TypeOK
<1>2. Locking' /\ Numbering'
  BY DEF Locking, Numbering, ReturnsToPool
<1>4. SamplesHaveFile' /\ NothingLost'
  BY DEF SamplesHaveFile, NothingLost
<1>5. SourceWasHeard'
  BY DEF SourceWasHeard
<1>6. QED
  BY <1>1, <1>2, <1>4, <1>5

\* The control channel or a decoder announces a unit.
LEMMA AnnounceInv ==
  ASSUME IInv, NEW u \in Units, AddSource(u) \/ DecodeBurst(u)
  PROVE  IInv'
<1> USE DEF IInv
<1>1. PICK t \in Threads :
        /\ setting' = [setting EXCEPT ![t] = [at |-> "check", src |-> u]]
        /\ t = "main" \/ kind.analog
  BY DEF AddSource, DecodeBurst, Threads
<1>2. /\ UNCHANGED <<state, file, srcs>> /\ SetSourceFrame
      /\ call_source' \in Source /\ known' = known \cup {u} /\ u \in Source
  BY DEF AddSource, DecodeBurst, TypeOK, Source
<1>3. Silent
  BY <1>1, <1>2 DEF Silent, SetSourceFrame, srcs, TypeOK, Step, Locking
<1>4. Heard'
  BY <1>1, <1>2 DEF Heard, SetSourceFrame, srcs, TypeOK, Threads
<1>5. QED
  BY <1>2, <1>3, <1>4, SilentInv

\* The steps of set_source that read and write the two ids without the lock.
LEMMA UnlockedInv ==
  ASSUME IInv, NEW t \in Threads,
         CheckSource(t) \/ SetCurrent(t) \/ CompareSource(t) \/ CacheSource(t)
  PROVE  IInv'
<1> USE DEF IInv
<1>1. /\ UNCHANGED <<state, file, call_source, known>> /\ SetSourceFrame
      /\ curr_src_id' \in {curr_src_id, setting[t].src}
      /\ cached_src_id' \in {cached_src_id, setting[t].src}
      /\ setting[t].at # "idle"
  BY DEF CheckSource, SetCurrent, CompareSource, CacheSource, srcs
<1>2. PICK step \in Step : /\ setting' = [setting EXCEPT ![t].at = step]
                           /\ step = "end" => kind.conventional
  BY DEF CheckSource, SetCurrent, CompareSource, CacheSource, Goto, Step
<1>3. setting \in [Threads -> [at : Step, src : Source]] /\ setting[t].src \in Source
  BY DEF TypeOK
<1>4. Silent
  BY <1>1, <1>2, <1>3 DEF Silent, SetSourceFrame, TypeOK, Locking
<1>5. Heard'
  <2>1. SUFFICES ASSUME ~kind.analog PROVE
          /\ {curr_src_id', cached_src_id'} \subseteq known \cup {NoUnit}
          /\ setting'["main"].at # "idle" => setting'["main"].src \in known
          /\ setting'["decoder"].at = "idle"
    BY <1>1 DEF Heard, SetSourceFrame
  <2>2. t = "main"
    BY <1>1, <2>1 DEF Heard, Threads
  <2>3. QED
    BY <1>1, <1>2, <1>3, <2>1, <2>2 DEF Heard, Threads
<1>6. QED
  BY <1>1, <1>4, <1>5, SilentInv

\* The end of a conventional transmission, under the lock.
LEMMA EndForSourceInv ==
  ASSUME IInv, NEW t \in Threads, EndForSource(t)
  PROVE  IInv'
<1> USE DEF IInv
<1>1. /\ UNCHANGED <<call_source, known, kind, current_call, serving, talkgroup, termination,
                     work, windows, wrote>>
      /\ ~work.busy /\ kind.conventional /\ state' = "IDLE"
      /\ setting[t].at = "end" /\ setting[t].src \in Source
      /\ setting' = [setting EXCEPT ![t].at = "idle"]
  BY DEF EndForSource, Unlocked, Goto, SetSourceFrame, Locking, TypeOK
<1>2. /\ audio' = {} /\ fp' \in BOOLEAN /\ list' \in SUBSET Transmission
      /\ curr_src_id' = setting[t].src /\ cached_src_id' \in {NoUnit, cached_src_id}
      /\ NothingLost' /\ SourceWasHeard'
  <2>1. CASE audio # {} /\ EndTransmission(audio, setting[t].src)
    <3>1. /\ audio \in SUBSET (1..MaxWindows) /\ (audio \ audio) \cap wrote = {}
          /\ wrote' = wrote \cup audio
      BY <1>1 DEF TypeOK, NothingLost
    <3>2. /\ fp' = FALSE /\ audio' = {} /\ curr_src_id' = setting[t].src
          /\ list' \in SUBSET Transmission
          /\ cached_src_id' \in {NoUnit, cached_src_id}
          /\ NothingLost' /\ SourceWasHeard'
      BY <1>1, <2>1, <3>1, Ended
    <3>3. QED
      BY <3>2
  <2>2. CASE /\ audio = {} /\ curr_src_id' = setting[t].src
             /\ UNCHANGED <<file, cached_src_id>>
    BY <1>1, <2>2, Untouched DEF file, TypeOK, SourceWasHeard
  <2>3. QED
    BY <2>1, <2>2 DEF EndForSource
<1>3. TypeOK'
  BY <1>1, <1>2 DEF TypeOK, Source, Step
<1>4. Locking' /\ Numbering' /\ SamplesHaveFile'
  BY <1>1, <1>2 DEF Locking, Numbering, SamplesHaveFile, ReturnsToPool, TypeOK
<1>5. Heard'
  <2>1. SUFFICES ASSUME ~kind.analog PROVE
          /\ {curr_src_id', cached_src_id'} \subseteq known \cup {NoUnit}
          /\ setting'["main"].at # "idle" => setting'["main"].src \in known
          /\ setting'["decoder"].at = "idle"
    BY <1>1 DEF Heard
  <2>2. t = "main"
    BY <1>1, <2>1 DEF Heard, Threads
  <2>3. QED
    BY <1>1, <1>2, <2>1, <2>2 DEF Heard, Threads, TypeOK
<1>6. QED
  BY <1>2, <1>3, <1>4, <1>5

(***************************************************************************)
(* Scheduler thread                                                        *)
(***************************************************************************)

\* A new buffer is taken while a call is served.
LEMMA WorkBeginInv ==
  ASSUME IInv, WorkBegin
  PROVE  IInv'
<1> USE DEF IInv
<1>1. PICK w \in Windows : work' = [busy |-> TRUE, tags |-> w.tags, many |-> w.many]
  BY DEF WorkBegin
<1>2. /\ UNCHANGED <<talkgroup, state, fp, audio, list, curr_src_id, cached_src_id,
                     termination, wrote, known, kind, current_call, serving, call_source, setting>>
      /\ ~work.busy /\ windows < MaxWindows /\ windows' = windows + 1
      /\ current_call # NoCall /\ state # "AVAILABLE"
  BY DEF WorkBegin, Unlocked, WorkFrame, file, srcs, main
<1>3. work' \in [busy : BOOLEAN, tags : Seq(Tags), many : BOOLEAN] /\ work'.busy
  BY <1>1, WindowTags
<1>4. windows \in Nat
  BY DEF TypeOK
<1>5. TypeOK'
  BY <1>2, <1>3 DEF TypeOK
<1>6. Locking'
  BY <1>2 DEF Locking, ReturnsToPool
<1>7. Numbering'
  BY <1>2, <1>4 DEF Numbering
<1>9. Heard' /\ SamplesHaveFile' /\ NothingLost' /\ SourceWasHeard'
  BY <1>2 DEF Heard, SamplesHaveFile, NothingLost, SourceWasHeard
<1>10. QED
  BY <1>5, <1>6, <1>7, <1>9

\* A group tag may end the transmission and silence the sink.
LEMMA GroupTagInv ==
  ASSUME IInv, GroupTag
  PROVE  IInv'
<1> USE DEF IInv
<1>1. Tag("grp_id") /\ NextTag
  BY DEF GroupTag
<1>2. /\ UNCHANGED <<termination, windows, wrote, known, kind, current_call, serving,
                     call_source, setting>>
  BY DEF GroupTag, WorkFrame, main
<1>3. /\ work' \in [busy : BOOLEAN, tags : Seq(Tags), many : BOOLEAN]
      /\ work.busy /\ work'.busy /\ Head(work.tags).value \in Groups
  BY <1>1, TakeTag
<1>4. /\ current_call # NoCall /\ state # "AVAILABLE"
      /\ windows \in Nat
  BY <1>3 DEF Locking, TypeOK
<1>5. CASE /\ state' = "IGNORE" /\ audio # {} /\ EndTransmission(audio, NoUnit)
           /\ UNCHANGED talkgroup
  <2>1. /\ audio \in SUBSET (1..MaxWindows) /\ (audio \ audio) \cap wrote = {}
        /\ wrote' = wrote \cup audio /\ NoUnit \in Source
    BY <1>2 DEF TypeOK, NothingLost, Source
  <2>2. /\ fp' = FALSE /\ audio' = {} /\ curr_src_id' = NoUnit
        /\ list' \in SUBSET Transmission
        /\ cached_src_id' \in {NoUnit, cached_src_id}
        /\ NothingLost' /\ SourceWasHeard'
    BY <1>2, <1>5, <2>1, Ended
  <2>3. TypeOK'
    BY <1>2, <1>3, <1>5, <2>1, <2>2 DEF TypeOK
  <2>4. Locking' /\ Numbering'
    BY <1>2, <1>3, <1>4, <1>5 DEF Locking, Numbering, ReturnsToPool
  <2>5. Heard' /\ SamplesHaveFile'
    BY <1>2, <1>5, <2>2 DEF Heard, SamplesHaveFile
  <2>6. QED
    BY <2>2, <2>3, <2>4, <2>5
<1>6. CASE /\ UNCHANGED <<file, srcs>>
           /\ talkgroup' \in Groups
           /\ state' = state \/ (state' = "IGNORE" /\ audio = {})
  <2>1. UNCHANGED <<fp, audio, list, curr_src_id, cached_src_id>>
    BY <1>6 DEF file, srcs
  <2>2. TypeOK'
    BY <1>2, <1>3, <1>6, <2>1 DEF TypeOK
  <2>3. Locking' /\ Numbering'
    BY <1>2, <1>3, <1>4, <1>6 DEF Locking, Numbering, ReturnsToPool
  <2>4. Heard' /\ SamplesHaveFile' /\ NothingLost' /\ SourceWasHeard'
    BY <1>2, <1>6, <2>1 DEF Heard, SamplesHaveFile, NothingLost, SourceWasHeard
  <2>5. QED
    BY <2>2, <2>3, <2>4
<1>7. QED
  BY <1>3, <1>5, <1>6 DEF GroupTag, TypeOK

\* A unit or a terminator is noted.
LEMMA NoteTagInv ==
  ASSUME IInv, SourceTag \/ TerminateTag
  PROVE  IInv'
<1> USE DEF IInv
<1>1. /\ UNCHANGED <<talkgroup, state, fp, audio, list, cached_src_id, windows, wrote,
                     kind, current_call, serving, call_source, setting>>
      /\ termination' \in BOOLEAN
  BY DEF SourceTag, TerminateTag, WorkFrame, main, file, srcs, TypeOK
<1>2. /\ work' \in [busy : BOOLEAN, tags : Seq(Tags), many : BOOLEAN]
      /\ work.busy /\ work'.busy
  BY TakeTag DEF SourceTag, TerminateTag
<1>3. \E u \in Source :
        /\ curr_src_id' \in {curr_src_id, u}
        /\ known' = known \cup {u} \/ (known' = known /\ curr_src_id' = curr_src_id)
  <2>1. CASE SourceTag
    <3>1. Head(work.tags).value \in Source
      BY <2>1, TakeTag DEF SourceTag, Source
    <3>2. QED
      BY <2>1, <3>1 DEF SourceTag
  <2>2. CASE TerminateTag
    BY <2>2 DEF TerminateTag, srcs, TypeOK
  <2>3. QED
    BY <2>1, <2>2
<1>4. TypeOK'
  BY <1>1, <1>2, <1>3 DEF TypeOK
<1>5. Locking' /\ Numbering'
  BY <1>1, <1>2 DEF Locking, Numbering, ReturnsToPool
<1>7. Heard' /\ SamplesHaveFile' /\ NothingLost' /\ SourceWasHeard'
  BY <1>1, <1>3 DEF Heard, SamplesHaveFile, NothingLost, SourceWasHeard
<1>8. QED
  BY <1>4, <1>5, <1>7

\* What every way through dowork has in common: the lock is released.
LEMMA Released ==
  ASSUME IInv, DoWork
  PROVE  /\ UNCHANGED <<talkgroup, windows, known, kind, current_call, serving, call_source,
                        setting>>
         /\ work' = Idle /\ termination' = FALSE
         /\ work.busy /\ ~work'.busy
         /\ work' \in [busy : BOOLEAN, tags : Seq(Tags), many : BOOLEAN]
         /\ current_call # NoCall /\ state # "AVAILABLE"
         /\ windows \in 1..MaxWindows /\ windows \notin wrote /\ wrote \subseteq 1..windows
<1>1. work' = Idle /\ work.busy
  BY DEF DoWork
<1>2. /\ ~work'.busy
      /\ work' \in [busy : BOOLEAN, tags : Seq(Tags), many : BOOLEAN]
  BY <1>1 DEF Idle
<1>3. windows \in 1..MaxWindows
  BY <1>1 DEF IInv, TypeOK, Numbering
<1>4. QED
  BY <1>1, <1>2, <1>3 DEF DoWork, WorkFrame, main, IInv, Locking, Numbering, TypeOK

\* dowork without a write and without an open transmission.
LEMMA QuietWorkInv ==
  ASSUME IInv, DoWork, UNCHANGED <<list, srcs, wrote>>,
         fp' \in BOOLEAN, (audio' = {} /\ audio = {}) \/ UNCHANGED <<state, fp, audio>>,
         state' \in {state, "IDLE"}
  PROVE  IInv'
<1> USE DEF IInv
<1>1. UNCHANGED <<curr_src_id, cached_src_id, list, wrote>> /\ audio' = audio
  BY DEF srcs
<1>2. state' # "AVAILABLE"
  BY Released
<1>3. TypeOK'
  BY <1>1, Released DEF TypeOK
<1>4. Locking' /\ Numbering'
  BY <1>1, <1>2, Released DEF Locking, Numbering, ReturnsToPool
<1>6. Heard' /\ SamplesHaveFile' /\ NothingLost' /\ SourceWasHeard'
  BY <1>1, Released DEF Heard, SamplesHaveFile, NothingLost, SourceWasHeard
<1>7. QED
  BY <1>3, <1>4, <1>6

\* dowork that ends a transmission, with the buffer at hand or without it.
LEMMA EndingWorkInv ==
  ASSUME IInv, DoWork, audio # {}, state' = "IDLE",
         NEW extra \in SUBSET {windows},
         EndTransmission(audio \cup extra, NoUnit), wrote' = wrote \cup extra
  PROVE  IInv'
<1> USE DEF IInv
<1>1. /\ audio \cup extra \in SUBSET (1..MaxWindows)
      /\ ((audio \cup extra) \ audio) \cap wrote = {}
      /\ wrote' = wrote \cup (audio \cup extra)
      /\ NoUnit \in Source
  <2>1. audio \subseteq wrote /\ audio \in SUBSET (1..MaxWindows)
    BY DEF NothingLost, TypeOK
  <2>2. windows \in 1..MaxWindows /\ windows \notin wrote
    BY Released
  <2>3. QED
    BY <2>1, <2>2 DEF Source
<1>2. /\ fp' = FALSE /\ audio' = {} /\ curr_src_id' = NoUnit
      /\ list' \in SUBSET Transmission
      /\ cached_src_id' \in {NoUnit, cached_src_id}
      /\ NothingLost' /\ SourceWasHeard'
  BY <1>1, Released, Ended
<1>3. wrote' \subseteq 1..windows
  <2>1. windows \in 1..windows /\ wrote \subseteq 1..windows
    BY Released
  <2>2. QED
    BY <2>1
<1>4. TypeOK'
  BY <1>2, <1>3, Released DEF TypeOK, Source
<1>5. Locking' /\ Numbering'
  BY <1>3, Released DEF Locking, Numbering, ReturnsToPool
<1>7. Heard' /\ SamplesHaveFile'
  BY <1>2, Released DEF Heard, SamplesHaveFile
<1>8. QED
  BY <1>2, <1>4, <1>5, <1>7

\* dowork that writes.
LEMMA WriteInv ==
  ASSUME IInv, Write
  PROVE  IInv'
<1> USE DEF IInv
<1>1. /\ DoWork /\ state' = "RECORDING" /\ fp' = TRUE
      /\ wrote' = wrote \cup {windows}
      /\ UNCHANGED <<list, curr_src_id, cached_src_id>>
  BY DEF Write, srcs
<1>2. audio' = audio \cup {windows}
  BY DEF Write, SamplesHaveFile
<1>3. TypeOK'
  BY <1>1, <1>2, Released DEF TypeOK
<1>4. Locking' /\ Numbering'
  <2>1. windows \in 1..windows /\ wrote \subseteq 1..windows
    BY <1>1, Released
  <2>2. wrote' \subseteq 1..windows
    BY <1>1, <2>1
  <2>3. QED
    BY <1>1, <2>2, Released DEF Locking, Numbering, ReturnsToPool
<1>6. Heard' /\ SamplesHaveFile' /\ SourceWasHeard'
  BY <1>1, <1>2, Released DEF Heard, SamplesHaveFile, SourceWasHeard
<1>7. NothingLost'
  <2>1. \A t \in list : t.audio \subseteq wrote
    BY DEF NothingLost
  <2>2. windows \notin wrote
    BY <1>1, Released
  <2>3. UNION {t.audio : t \in list'} = UNION {t.audio : t \in list}
    BY <1>1
  <2>4. wrote' = audio' \cup UNION {t.audio : t \in list'}
    BY <1>1, <1>2, <2>3 DEF NothingLost
  <2>5. \A t \in list' : t.audio # {} /\ t.audio \cap audio' = {}
    BY <1>1, <1>2, <2>1, <2>2 DEF NothingLost
  <2>6. QED
    BY <1>1, <2>4, <2>5 DEF NothingLost
<1>8. QED
  BY <1>3, <1>4, <1>6, <1>7

\* Every way through dowork.
LEMMA DoWorkInv ==
  ASSUME IInv, Terminate \/ Ignore \/ OpenFails \/ Write \/ WriteAndTerminate
  PROVE  IInv'
<1>1. CASE Terminate
  <2>1. DoWork /\ UNCHANGED wrote
    BY <1>1 DEF Terminate
  <2>2. CASE state = "IGNORE" /\ state' = "IDLE" /\ UNCHANGED <<file, srcs>>
    <3>1. audio = {} /\ audio' = {} /\ fp' \in BOOLEAN
      BY <2>2 DEF IInv, SamplesHaveFile, TypeOK, file
    <3>2. QED
      BY <2>1, <2>2, <3>1, QuietWorkInv DEF file
  <2>3. CASE UNCHANGED <<state, file, srcs>>
    BY <2>1, <2>3, QuietWorkInv DEF file, IInv, TypeOK
  <2>4. CASE audio # {} /\ state' = "IDLE" /\ EndTransmission(audio, NoUnit)
    <3>1. audio \cup {} = audio /\ wrote' = wrote \cup {}
      BY <2>1
    <3>2. EndTransmission(audio \cup {}, NoUnit)
      BY <2>4, <3>1
    <3>3. QED
      BY <2>1, <2>4, <3>1, <3>2, EndingWorkInv
  <2>5. QED
    BY <1>1, <2>2, <2>3, <2>4 DEF Terminate
<1>2. CASE Ignore
  BY <1>2, QuietWorkInv DEF Ignore, file, IInv, TypeOK
<1>3. CASE OpenFails
  <2>1. audio = {} /\ state' = state
    BY <1>3 DEF IInv, SamplesHaveFile, OpenFails
  <2>2. QED
    BY <1>3, <2>1, QuietWorkInv DEF OpenFails
<1>4. CASE WriteAndTerminate
  BY <1>4, EndingWorkInv DEF WriteAndTerminate
<1>5. QED
  BY <1>1, <1>2, <1>3, <1>4, WriteInv

(***************************************************************************)
(* The theorems                                                            *)
(***************************************************************************)

LEMMA StepInv == IInv /\ [Next]_vars => IInv'
<1> SUFFICES ASSUME IInv, [Next]_vars PROVE IInv'
  OBVIOUS
<1>1. ASSUME NEW u \in Units, AddSource(u) \/ DecodeBurst(u) PROVE IInv'
  BY <1>1, AnnounceInv
<1>2. ASSUME NEW t \in Threads, SetSource(t) PROVE IInv'
  BY <1>2, UnlockedInv, EndForSourceInv DEF SetSource
<1>3. CASE Work
  BY <1>3, WorkBeginInv, GroupTagInv, NoteTagInv, DoWorkInv DEF Work
<1>4. CASE UNCHANGED vars
  BY <1>4 DEF vars, main, file, srcs, IInv, TypeOK, Locking, Numbering, Heard,
              ReturnsToPool, SamplesHaveFile, NothingLost, SourceWasHeard
<1>5. QED
  BY <1>1, <1>2, <1>3, <1>4, StartInv, StopInv DEF Next

\* The inductive invariant holds in every state of the sink.
THEOREM Invariant == Spec => []IInv
<1>1. QED
  BY InitInv, StepInv, PTL DEF Spec

\* The variables stay in their types; the sink never enters STOPPED.
THEOREM TypeCorrect == Spec => []TypeOK
<1>1. IInv => TypeOK
  BY DEF IInv
<1>2. QED
  BY <1>1, Invariant, PTL

\* There are samples exactly while RECORDING, and then a file is open.
THEOREM FileForSamples == Spec => []SamplesHaveFile
<1>1. IInv => SamplesHaveFile
  BY DEF IInv
<1>2. QED
  BY <1>1, Invariant, PTL

\* What was written for a call is in its file or in one of its transmissions,
\* once, however set_source, tags and stop interleave.
THEOREM VoiceIsKept == Spec => []NothingLost
<1>1. IInv => NothingLost
  BY DEF IInv
<1>2. QED
  BY <1>1, Invariant, PTL

\* A digital transmission carries an id announced during its call, or none.
THEOREM IdsBelong == Spec => []SourceWasHeard
<1>1. IInv => SourceWasHeard
  BY DEF IInv
<1>2. QED
  BY <1>1, Invariant, PTL

\* A stopped trunked recorder can be taken again.
THEOREM PoolReturn == Spec => []ReturnsToPool
<1>1. IInv => ReturnsToPool
  BY DEF IInv, Locking
<1>2. QED
  BY <1>1, Invariant, PTL
====
