# trunk-recorder in TLA+

A verification development beside the code of trunk-recorder: TLA+ modules
translated from `src/trunk-recorder`, TLC runs that check them on small
instances, and theorems that TLAPS proves for every value of the constants.
Paths below are relative to `src/trunk-recorder/` unless they start elsewhere.

## 1. The system

trunk-recorder listens to radio systems with software defined radios, follows
the control channel of trunked systems, records every call it can into WAV
files and hands finished calls to scripts and plugins.

Threads:

- **main**: `monitor_messages` (`monitor_systems.cc`). One loop, about every
  10 ms: control channel messages, `manage_calls`, `manage_call_data_workers`,
  plugin polling, once in a while the message count of each control channel;
  on `exit_flag` the calls are concluded and the upload pipeline is drained.
- **GNU Radio scheduler threads**: one per block; here `work()` of
  `transmission_sink`, of `selector`, of the decoders and demodulators.
- **upload workers**: one `std::async(launch::async)` thread per upload
  attempt, working on a copy of a `Call_Data_t`.

### Components

| component | state | operations | hard behaviour | what makes it correct |
|---|---|---|---|---|
| Call concluder (`call_concluder.cc`, `plugman_call_end`) | future list, retry list, `Call_Data_t` (status, attempt, plugin retry list), files on disk | `conclude_call`, worker stages, `manage_call_data_workers`, `shutdown_call_data_workers`, `stop_plugins` | threads, retries with backoff, drain with a deadline, plugins stopped under running workers, several clean-up paths | each call owned by one list; no plugin takes it twice; SUCCESS only when served; files there until they are not needed; exit ends |
| Transmission sink (`gr_blocks/transmission_sink.cc`) | `state`, open file, sample count, `curr_src_id`, `cached_src_id`, termination flag, transmission list | `start_recording`, `stop_recording`, `set_source`, `work`/`dowork`, `end_transmission` | scheduler, main and decoder thread; `set_source` mostly without the lock; several tags in one buffer | no sample lost or put into two transmissions; ids belong to the call; the recorder returns to its pool |
| Call management (`monitor_systems.cc`, `call_impl.cc`, `source.cc`) | vector of calls (state, monitoring state, recorder), recorder pools | grant, update, `start_recorder`, multi-site duplicate and superseding grants, `manage_calls`, exit loop | limited recorders, two time-outs, one call concluded twice, pointers that stay | pool and calls agree; every recorded call is concluded once with its own audio; a take-over loses nothing |
| Recorders (`recorders/*.cc`) | state of the sink, valve, call pointer | `start`, `stop`, `set_source`, `since_last_write` | call pointer used by stream threads; two DMR slots | no use after the call is deleted |
| Conventional calls (`monitor_systems.cc`, `call_conventional.cc`, `source.cc`) | a call for the life of the program, squelch, selector ports | `manage_conventional_call`, `restart_call`, `enable_detected_recorders` | detector time-outs against the recorder's state | a detected channel is recorded; a quiet one is concluded once |
| Control channel watch (`monitor_systems.cc`, `system_impl.cc`) | message queue and count, list of channels and its index, retune attempts, source and frequency of the demodulator | `check_message_count`, `retune_system`, `get_next_control_channel`, `add_control_channel` | stale messages, voice on the channel, a list that grows, sources that cannot reach a channel, `controlRetuneLimit` | a control channel that moved is found; a live one is kept; the limit leaves none out |
| System registry (`system_impl.cc`) | site ids, status, patch table with times | `update_status`, `update_sysid`, patch add, delete, expiry | patches seldom cancelled | a patch lasts as long as it is announced, and no longer |
| Autotune (`autotune.cc`) | history of frequency errors | add, average | bounded history | correction stays within its bound |
| Plugin manager (`plugin_manager.cc`) | state per plugin | load, `start_plugins`, `stop_plugins`, callbacks | read by stream threads and workers without a lock | a plugin is called between its set-up and its stop only; each is stopped once |
| Selector, signal detector (`gr_blocks`) | enabled ports, detected signals | `set_port_enabled`, `work` | main and scheduler thread | a signal finds its port open |
| Message parsers (`systems/p25_parser.cc`, `smartnet_parser.cc`) | channel tables; queue of words | `parse_message`, `process_osws` | messages of several words, delayed idles, lost words, one queue for all systems | a grant is put together of the words of one message; none is told twice or goes unheard |
| Aliases and tags (`unit_tags*.cc`, `p25_recorder_decode.cc`) | alias fragments | add, decode | fragments in any order | only complete aliases are stored |
| Trunking demodulators, analog decoders, configuration, bundled plugins, vendored OP25 | | | | signal processing, start-up, network clients, third-party code: not modelled |

### How they interact

- The control channel parser returns `TrunkMessage`s to the main loop, which
  calls `handle_call_grant` / `handle_call_update`.
- A grant takes a recorder from a `Source`'s pool if its sink's state is
  `AVAILABLE`, and starts it; further messages reach the sink by
  `Call_impl::add_source` and `set_source`.
- The sink collects transmissions; `Call_impl::conclude_call` stops the
  recorder, takes the list and gives it to `Call_Concluder::conclude_call`.
- That starts a worker thread, whose future the main loop polls; a refused
  call goes to the retry list and comes back as another worker.

`sources`, `hazards` and `components` of `PROJECT.json` list the files, the
places in the code that are hard to test, and the properties that cover them.

## 2. Modules

| module | kind | models |
|---|---|---|
| `CallUpload` | abstract specification | what the upload of one call promises |
| `CallConcluder` | component | the upload pipeline, with its refinement of `CallUpload` |
| `CallConcluderProofs` | proofs | theorems about `CallConcluder` |
| `RecorderPool` | abstract specification | what the calls promise about the recorders they are lent |
| `CallFiling` | abstract specification | what a channel promises about the voice of calls that follow each other |
| `TransmissionSink` | component | the sink and its three threads |
| `TransmissionSinkProofs` | proofs | theorems about `TransmissionSink` |
| `CallManager` | component | trunked calls, recorder pools, multi-site, exit loop, with its refinement of `RecorderPool` |
| `CallManagerProofs` | proofs | theorems about `CallManager` |
| `ControlChannel` | component | the control channel watch of one trunked system |
| `ControlChannelProofs` | proofs | theorems about `ControlChannel` |
| `ConventionalCalls` | component | the call of a conventional channel, its recorder's slots, detection and squelch, with its refinement of `CallFiling` |
| `SmartnetParser` | component | from the words of a SmartNet control channel to grants and updates |
| `PatchTable` | component | talkgroup patches of a P25 system, and the calls that depend on them |
| `PluginManager` | component | the life of the plugins and the threads that call them |
| `ConventionalCallsProofs`, `SmartnetParserProofs`, `PatchTableProofs`, `PluginManagerProofs` | proofs | theorems about these four |
| `MCCallConcluder`, `MCTransmissionSink`, ..., one per component | instances | constants for TLC |

Each mutated operator of a module (`X_Something`, marked "Mutant") stands next
to the definition it is a mutation of. No specification uses them; with one of
them in the place of `X`, TLC finds the property named in `PROJECT.json`
violated.

### CallConcluder

| in the module | in the code |
|---|---|
| `workers`, `retries`, `due` | `call_data_workers`, `retry_call_list`, and the entries of it whose `process_call_time` has passed |
| `pc[c]` | where the worker thread of call `c` is; `ready`: its future is; `settled`: nothing of the call is left |
| `status`, `list`, `attempt`, `owing` | `status`, `transmission_list`, `retry_attempt`, `plugin_retry_list` of `Call_Data_t` |
| `todo`, `failing` | the loop and the local `plugin_retry_list` of `plugman_call_end` |
| `files[c]` | transmissions in `tempDir`, their archived copies, and what the worker made: wav, m4a, json, raw |
| `running` | plugins in state `PLUGIN_RUNNING` |
| `ConcludeCall` | `create_call_data`, the JSON of an encrypted call, every early return of `conclude_call` |
| `Gather`, `Render`, `RunScript` | `upload_call_worker` up to the plugins, each with its failure path (`Fail`) |
| `OfferPlugin`, `FinishUpload` | one iteration of `plugman_call_end`; what the worker does with its result |
| `Reap`, `LaunchRetry`, `BackoffElapses` | `manage_call_data_workers` and the clock |
| `BeginShutdown`, `DrainReap`, `DrainFire`, `DrainDone`, `DrainTimeout` | exit and `shutdown_call_data_workers` |
| `StopPlugin`, `ExitProcess` | `stop_plugins`, return from `main` |

Abstractions. ffmpeg, the script and `call_end` succeed or fail at will. The
loops over the two lists are steps per entry: an entry is handled on its own
data, so an order between entries makes no difference. A call here is one
execution of `conclude_call`; base file names end in the call number, so calls
share no file. Data the options do not depend on is left out.

### TransmissionSink

Every buffer `work()` handles is numbered; `audio` is the set of buffers in the
open file and stands for the samples, so that "lost" and "doubled" can be told.
`work()` is taken apart at its tags, because `set_source` writes
`curr_src_id` and `cached_src_id` without the lock between any two of them.
`set_source` itself is taken apart at every read and write it makes
(`CheckSource`, `SetCurrent`, `CompareSource`, `CacheSource`, `EndForSource`)
and runs on the main thread (control channel) and on the decoder's thread
(analog signalling). `WorkBegin`, `GroupTag`, `SourceTag`, `TerminateTag` are
the top of `work()`; `Terminate`, `Ignore`, `OpenFails`, `Write`,
`WriteAndTerminate` the ways through `dowork`. `kind` chooses digital or
analog, trunked or conventional.

External: which tags the OP25 frame assembler attaches (`Frames`,
`VoiceFrame`), and that GNU Radio may merge the output of up to `Merged` frames
into a buffer (`Windows`). A slow flow graph that delivers the buffers of an
earlier call after a restart is not modelled.

### CallManager

`call` is the vector of calls, as a function from call numbers (numbers grow
along the vector, so its order is the order of the numbers). `serving[r]` is the
call a recorder is ACTIVE for; `tape[r]` the call whose transmissions its sink
lists (kept after `stop`, replaced by `start`). Time is reduced to the two
comparisons `manage_calls` makes: `stale` (no update for `callTimeout`) and
`quiet` (no write for `callTimeout`). `recorded` and `ends` are history.

`Regrant`, `Update`, `Duplicate`, `Refuse`, `Record`, `Supersede` are what a
grant or update leads to; `Refused` has one disjunct for each way
`start_recorder` gives up. `ExpireMonitoring`, `ExpireRecording` are
`manage_calls`, one call at a time (it looks at one call only).
`BeginExit`, `ExitConclude`, `ExitDone` are the loop on `exit_flag`. The site
options that decide on duplicates (`SameNetwork`, `Prefers`) are translated for
both modes, WACN with RFSS/site and `multiSiteSystemName`.

`RecorderPool` is the promise: a recorder is lent to one call and comes back in
the step that files the call's own audio; a call that takes over is lent its
recorder first; the program ends with every such call filed. `Lending` maps
`serving` to what is lent and `ends` to what is filed. What a second filing in the
exit loop takes is left open there (finding 2), the rest of that loop is not.

The active patch of a message's talkgroup is an input, since this component
only reads the patch table (`PatchTable` has it). Conventional calls share
neither recorder nor call with trunked ones and have their own module. Debug and
SIGMF recorders run beside a call and decide nothing.

### ControlChannel

| in the module | in the code |
|---|---|
| `list`, `at` | `control_channels`, `current_control_channel` (counted from 1) |
| `source`, `connected`, `tuned` | `System_impl::source`, what the flow graph has connected, `chan_freq` of the demodulator |
| `queue`, `count`, `attempts` | `msg_queue`, `message_count`, `retune_attempts` |
| `step`, `exit_flag` | where the main loop is |
| `carrier`, `talking`, `strays`, `steady` | the radio: where the control channel is, voice on the tuned frequency, time-outs since the last check, and whether the carrier was there all the time |
| `heard`, `tried` | history |
| `Take`, `Handle...` | the drain of the queue, and the cases of `handle_message` that matter here |
| `Retune` (`Follow`, `Tune`, `SwitchTo`) | `retune_system` and the demodulators' `tune_freq` |
| `CheckGood`, `CheckLow`, `GiveUp` | the ways through `check_message_count` |
| `PrintStatus` | the autotune of the status display |
| `Insert`, `Receive...` | the demodulator's thread and OP25's framer |

One trunked system (the code returns from `check_message_count` when one system
exceeds the limit; the counts of the others no longer matter then). The rate of
two per second is a threshold on the count of a window; windows begin at a
check. A P25 time-out is the empty message of type 65535 that `get_msg_type`
makes, which the parser takes for `INVALID_CC_MESSAGE`; a SmartNet one is
counted like any message. The correction that autotune makes to a frequency is
left out, which frequency it corrects is not.

About the air the module assumes three things. A channel that carried the
control channel for a whole window brought at least `Threshold` messages
(`Plausible`). Time-outs alone are fewer (`MaxStrays < Threshold`: one a second
against two). Voice on a trunked channel ends in a TDU with link control
(fairness of `ReceiveTDULC`).

### ConventionalCalls

| in the module | in the code |
|---|---|
| `call` | the `Call_conventional`: number, state, idle count |
| `recorder`, `sink[s]` | the recorder's state, and per slot the transmission sink: whether it has a call, its state, the open file and the transmission list |
| `main` | where the main loop is, and the slot it is at |
| `enabled`, `detected`, `squelched` | the selector's port, the detector's last list, the squelch of the prefilter |
| `chain[s]` | buffers between the selector and the sink |
| `done` | what `conclude_call` handed over |
| `carrier`, `voice`, `spoken`, `owner` | the radio and history |
| `CheckDetection`, `Manage`, `Judge` | `check_conventional_channel_detection`, the two halves of `manage_conventional_call` |
| `Stop`, `Close`, `Conclude` | the recorder's `stop` and `conclude_call`, slot by slot |
| `Restart`, `Open`, `Start` | `restart_call` and the recorder's `start`, slot by slot |
| `Exit` | the loop on `exit_flag` |
| `Work` | `work()` of a sink |
| `Hear`, `EndVoice`, `Squelch`, `Detect` | external: voice and terminators on the air, the squelch block, the detector |

A buffer is one second of voice, so lengths are cardinalities. The steps of
`Close`, `Conclude` and `Open` are apart because the sinks' threads write between
them. A call that is closed leaves its port shut if signals are detected, and a
shut port freezes the squelch as it was. Buffers that were still in the chain
reach the next call; this module, unlike `TransmissionSink`, has them.

`CallFiling` is the promise: voice once written stays with its call and slot, a slot
is filed once and whole, and the next call's first voice comes after all of the
last one's is filed. `Filing` maps `owner` and `done` to it.

### SmartnetParser

| in the module | in the code |
|---|---|
| `osw_q` | the queue of the parser |
| `told` | the `TrunkMessage`s that `process_osws` returned |
| `Enqueued`, `Process` | `enqueue`, and `process_osws` with one disjunct per kind of first word |
| `Obt`, `Update`, `Single`, `First308`, `First321`, `Unknown` | its branches; `Take(q, n, back)`: what is popped and what is put back |
| `Receive`, `Timeout` | `monitor_messages` with a word, and after a second without one |
| `radio`, `air`, `began`, `sent`, `lost` | external: what a radio system sends, and the receiver |

A word is its command (those the parser tells apart), whether it is for a group,
what kind of address it carries, and where it came from. The code's tests of
addresses and frequencies are on these kinds. `MCSmartnetParser` lists the bursts
a system sends, one for each way through the parser, with the delays of idle words
that the parser's comments describe. `Lawful` says what the parser takes a burst to be
(no message ends in the middle of a burst, only an idle gets between the two words of a
grant); TLC evaluates it for the listed bursts. The tags, options and wordings of a message
are left out.

### PatchTable

`patch[sg][g]` is the age of the stamp of group `g` in the patch `sg`, `Gone` if it is
not in the table. `PatchAdd` and `PatchDelete` are the handlers of the two
messages, `ClearStale` the clean-up that `check_message_count`'s timer makes,
`TalkgroupPatch` what `get_talkgroup_patch` returns and `Wanted` the decision of
`start_recorder` that depends on it. The ages stop where a clean-up is bound to
remove them. Motorola and Harris patches are alike from here on.

### PluginManager

| in the module | in the code |
|---|---|
| `state` | `Plugin::state` |
| `main`, `flow` | where `main()` is, and whether the flow graph runs |
| `pass[t]` | the loop over the plugins that a thread is in: the plugin it looks at, whether it is inside of it, whom it called |
| `InitPlugin`, `StartPlugin`, `StartFails` | `initialize_plugins`, `start_plugins` |
| `MainCalls`, `StreamCalls`, `Launch` | the callbacks of the main loop, of a sink, of an upload worker |
| `Look`, `Return`, `Leave` | one turn of the loop in each `plugman_*` function |
| `DrainDone`, `DrainTimeout`, `FlowDown` | the end of `monitor_messages`, `tb->stop()` and `tb->wait()` |
| `StopCall`, `StopReturns`, `StopSkips` | `stop_plugins` |

`Look` reads a state and `Return` comes later, with no lock in between. Which
plugins a worker offers its call to is arbitrary here; `CallConcluder` says which.

### Composition

`CallManager` uses of the sink that a started recorder lists the transmissions
of the call it serves and is not available until `stop`: that is what
`NothingLost` and `ReturnsToPool` of `TransmissionSink` say. It hands a list to
`Call_Concluder::conclude_call`, the `ConcludeCall` of `CallConcluder`, whose
workers are the `Workers` of `PluginManager`; that module says who is in a plugin
when, `CallConcluder` what comes of it. `PatchTable` decides what `CallManager`
takes as an input. A module that composes manager and sinks state by state is
not part of the project: the product of the two is beyond TLC's reach even with
two recorders, and the properties above are what one needs of the other.

## 3. Runs

| run | specification | bounds | shows |
|---|---|---|---|
| `concluder_files` | `HangSpec` | 1 call, 2 transmissions, 2 plugins, `MAX_RETRY` 2, 16 option sets | which files exist when; `ShutdownEnds` |
| `concluder_queues` | `FairSpec` | 2 calls, 1 transmission, 2 plugins, `MAX_RETRY` 2 | one owner, at most one upload, refinement of `CallUpload`, every call settles |
| `concluder_refused` | `Spec` | 1 call, 1 plugin | finding 1 |
| `sink` | `Spec` | 2 units, 2 talkgroups, 2 calls, 4 buffers of up to 2 frames | samples, ids and pool on the four kinds of recorder |
| `manager` | `Spec` | 2 sites, 2 talkgroups, 4 channels (one out of range, one TDMA), 3 recorders, 3 calls, 2 option sets | pool, own audio, every recorded call concluded, take-overs, refinement of `RecorderPool` |
| `manager_exit` | `Spec` | the same with 3 channels | finding 2 |
| `control` | `FairSpec` | 4 channels (one out of reach), 2 sources, 5 configurations with and without a limit, queue of 2, 3 messages a window, threshold 2 | the demodulator's source, the limit, a live channel is kept, one that moved is found |
| `smartnet` | `Spec` | a standard and an OBT system, 19 and 7 bursts, 9 words of which 1 may be lost | order of the queue, no word told twice, grants of one message, no assignment unheard |
| `smartnet_shared` | `Spec` | 2 SmartNet systems, standard grants and idles, 8 words | finding 3 |
| `conventional` | `FairSpec` | 10 channels (three types, with and without detection and limit), 2 calls, 5 seconds of voice (3 per two slots), 1 buffer on its way per slot, time-out and limit of 1 second | voice kept once, `maxDuration`, refinement of `CallFiling`, quiet calls concluded, ports opened |
| `plugins` | `FairSpec` | 2 plugins, main, 1 stream thread, 2 workers | who is called when, one stop each, the exit ends |
| `patches` | `Spec` | 2 patches, one of them 0, 2 groups of which 1 is in the file, the code's 10 and 3 seconds | how long a patch is honoured |

Why the bounds are enough. In the pipeline calls share nothing but the two
lists, the plugins and the drain: two calls give every interleaving of two
owners of a list, two plugins give every mixture of accepted and refused, and
`MAX_RETRY` is the code's own value. Two transmissions are one that is too
short and one that is not. The sink forgets everything at a start but what
`StartRecording` does not reset, so two calls show what leaks from one to the
next; four buffers are two transmissions with two buffers each. Three calls are
needed for the longest story of the manager: a call, the call that supersedes
it, and one that gets the freed recorder. On the control channel a threshold of
two and three messages a window give every relation of good and invalid
messages to the threshold; a queue of two holds what a retune leaves behind and
overflows; four channels are the configured ones and a pair that is announced,
of which one is out of reach. Nine words are the six of a full queue and one
message of three more, so every branch is reached with every neighbour a burst
can have. On a conventional channel five seconds fill a call beyond its limit
and start the next; two calls are one that is closed and the one it is
restarted as. A second plugin is what shows that one that fails or hangs does
not keep the other from its stop. The patches' times are the code's own.
`MaxCalls`, `MaxWindows`, `Merged`, `MAX_RETRY`, `MaxQueue`, `MaxMessages`,
`MaxStrays`, `MaxWords`, `MaxLost`, `MaxVoice` and `MaxChain` are the only bounds;
all stand in guards or in the definition of the inputs.

`CHECK_DEADLOCK FALSE` is set where the program stops: it exits, or the bounds on
calls, seconds and buffers are used up. In the SmartNet runs a silent second is
always possible, and deadlock is checked.

`TypeOK` of the sink, the call manager, the control channel, the conventional
channel, the plugins and the patch table is proved (section 5) and not repeated
in a run.

Fairness. `FairSpec` of the pipeline assumes weak fairness of each call's worker
(ffmpeg, the script and `call_end` return), of the main loop's handling of a
ready future or a due retry (it comes round every 10 ms), of the clock and of
the shutdown sequence. No call has to end and no user has to exit.
`ShutdownEnds` is checked under `HangSpec`, which has no fairness of workers: a
hung plugin does not keep the program from exiting. `FairSpec` of
`ControlChannel` assumes that the main loop goes round (weak fairness of its
steps), that three seconds pass again and again (strong fairness of `Check`,
which is possible only in one part of the loop), and that talking ends. The
radio system may move its channel for ever; `FoundAgain` is about a channel that
stays. `FairSpec` of `ConventionalCalls` assumes the main loop, the squelch block
while samples reach it, and the scheduler that runs a sink which has input;
nobody has to transmit or to fall silent, and the detector publishes or does
not. `FairSpec` of `PluginManager` assumes that `main()` goes on and that a
callback on a thread of the flow graph returns, since `tb->wait()` waits for it;
a worker may stay in a plugin for ever. The other components have safety
properties only.

## 4. Findings

1. `concluder_refused` — a refused call whose retry runs after `stop_plugins`
   finds no plugin running, `plugman_call_end` returns 0, and the worker deletes
   the files that `archiveFilesOnFailure` promises to keep
   (`docs/CONFIGURE.md:130`).
2. `manager_exit` — on exit a superseded call that is still in the vector is
   concluded a second time. Its recorder may serve another call by then; that
   call's transmissions are removed as those of a superseded call.
3. `smartnet_shared` — one `SmartnetParser`, made for the first system, parses the
   words of all in one queue: with two SmartNet systems a grant is put together
   of the first word of one and the second word of the other, and reported under
   the number of the first (`README.md:26` promises several systems at a time).

What the models show besides, without a run of its own:

- A unit id that `set_source` cached is kept while the voice channel names
  another unit, and may be given to a later transmission than the next one
  (comment at `transmission_sink.cc:252`, code at 295).
- A site that records a talkgroup twice loses only the last recording to the
  preferred site; the other goes on beside it. A DUPLICATE call is never
  promoted: when the original ends first, the rest of the site's copy is not
  recorded (`monitor_systems.cc:533-548`).
- Secondary control channels that the system broadcasts join the list, and each
  uses up an attempt of `controlRetuneLimit`: a limit equal to the number of
  configured channels (`docs/CONFIGURE.md:142`) then leaves some untried.
  `AllAttempted` asks for a limit of the length of the grown list.
- `retune_system` moves the index on even when no source covers the channel; with
  autotune the next status display tunes the demodulator to that channel (the
  exception in `Attached`). Terminators that wait in the queue retune again after
  a retune and skip a channel; `FoundAgain` holds all the same.
- A SmartNet word that is lost does not empty the parser's queue: nothing sends
  the reset that `smartnet_parser.cc:155` waits for, so that neighbours across
  the gap are paired (`GrantAsSent` excludes it).
- `maxDuration` looks at slot 0 of a DMR recorder only, and the idle count of a
  conventional call grows once a second.
- A conventional P25 call whose terminator was lost stays open until somebody
  transmits again; with signal detection a port that was shut keeps the squelch
  as it was. Both are exceptions in `QuietIsConcluded`.
- A plugin whose `init` failed is marked RUNNING without a `start`
  (`plugin_manager.cc:101`); if the systems cannot be set up no plugin is stopped
  (`main.cc:142`); and `stop` is called after the top block has ended, where
  `docs/notes/PLUGIN-SYSTEM.md` says that it still runs.

## 5. Proofs

`CallConcluderProofs` proves, for every set of calls and transmissions, every
number of plugins, every `MAX_RETRY` and every set of options
(`ConcluderAssumption` is all that is assumed):

- `TypeCorrect`, `SingleOwner`, `AtMostOnce`, `SuccessIsEarned`,
  `FilesAtUpload`, `NothingLeftBehind`, `RefusedIsKept`: all invariants of the
  passing runs;
- `Refinement`: `Spec => UploadPromise`, the pipeline implements `CallUpload`;
- `RefusedUntilStopped`: what finding 1 refutes does hold until `stop_plugins` is
  called, because a plugin that was offered a call is still up then (`StillUp`)
  and SUCCESS is earned.

None of the invariants is inductive alone. `IInv` is `TypeOK`, `Drained` (once the
drain has fired the retry list stays empty, so the clean-up at its deadline, which
`DrainTimeout` has as the code does, removes nothing: `NothingToCleanUp`) and, for
each call, `CallInv`:

- `Ownership`: a call's stage, its status and the list that holds it fit;
- `Counting`: the number of offers to a plugin is tied to `retry_attempt`;
- `Owing`: who is still to be offered the call has not taken it;
- `Served`: a running plugin that is on no list of the attempt has taken it
  (why SUCCESS is earned);
- `Tried`: a running plugin that has not taken it has seen every attempt (why
  dropping it is allowed by `CallUpload`);
- `FilesReady`: files made by a stage are there in the later ones.

A step works on one call and leaves the others as they are, so the proof has a
lemma for each action that shows `TypeOK'` and `CallInv(c)'` for its call, and
a frame lemma for the rest. `DrainFire` (all retries at once) and the plugins'
stop are about every call. The refinement maps `pc` and `status` to `outcome`;
its step lemmas use `IInv` and say which step of `CallUpload`, or a stutter,
each action is. The two theorems on files at the end of a call stand on `IInv`
and a second invariant, `Clean`: a call that ended otherwise than by RETRY has
been through `remove_call_files` (`Removed`), one that was given up after its last
attempt has been so unless it is archived, and has its audio and JSON if it is.

`TransmissionSinkProofs` proves, for every set of units and talkgroups and any
number of calls and buffers (`SinkAssumption`), `TypeOK` and all invariants of
the run `sink`: `TypeCorrect`, `FileForSamples`, `VoiceIsKept`, `IdsBelong`,
`PoolReturn`. What is needed besides the invariants themselves:

- `Locking`: `work()` is busy only while a call is served, so neither `start`
  nor `stop` comes between two of its tags; only a conventional sink ends a
  transmission from `set_source`;
- `Numbering`: what was written came in earlier buffers than the current one,
  so a buffer is written once;
- `Heard`: on a digital recorder each id in use, also one a thread is about to
  set, was announced during the call.

The lemmas go through the ways out of `dowork`, the tags of `work()` and the
steps of `set_source`; the operators that assemble buffers have their own.

`CallManagerProofs` proves, for every set of sites, talkgroups, channels,
sources and recorders, every talkgroup file and any number of calls
(`ManagerAssumption`), `TypeOK` and all properties of the run `manager`:
`TypeCorrect`, `PoolAgrees`, `ConcludesOwn`, `NoneForgotten`, the action property
`TakeOverOnly` and the refinement `RecordersComeBack`. Besides the invariants:

- `Holding`: a call that records or was superseded has a recorder, and that
  recorder has been started (so `conclude_call` finds a list);
- `Taping`: while the program runs, a recorder that is ACTIVE lists the call it
  serves (why what is concluded is the call's own);
- `Past`: only calls that were made have been concluded (why a new number is
  new to `ends`).

`OwnAudio` and `PoolSound` speak of the running program only, because finding 2
breaks them on exit; `RecordedIsConcluded` is proved for the exit loop as well.
That `First` and `Last` return an element of a set of numbers is proved from the
library's well-foundedness of the naturals. `CallsOnlyInv` covers every step
that touches no recorder; starting, superseding, expiring and the exit loop have
a lemma each. `TakeOverOnly` goes through all actions and finds that only
`Supersede` takes RECORDING from a call that stays.

`RecordersComeBack` (`Spec => PoolPromise`) needs a second invariant, `Loan`: a
recorder lists a call that got one, a call that records or was superseded got one,
and, on exit too, the recorder of a RECORDING call lists that call. `PoolSound`
and `Taping` say the last for the running program only, and the exit loop, which
may stop the recorder of a later call, does not touch its list. From `Loan` and
`RecordedIsConcluded` a call still to be filed is a RECORDING one and is filed with
its own audio (`ExitConcludeRefines`). `Kept` and `QuietKept` cover all steps that
start no recorder; each of the others has a lemma that names its step of
`RecorderPool`.

`RemovesOwnAlone` delimits finding 2: if no system is configured as multi-site,
`RemovesOnlyOwn` holds in the exit loop as well. A call is superseded only by one on the
same network, which takes two multi-site systems (`NoneSuperseded`); then the exit
loop concludes RECORDING calls only, and `Loan` gives each its own audio.

`ControlChannelProofs` proves, for every set of channels and sources, every
list, limit and threshold (`ChannelAssumption`), `TypeOK` and the safety properties of
the run `control`: `TypeCorrect`, `StaysAttached`, `NoneLeftOut` and the action property
`LiveIsKept`. Besides the invariants:

- `Grown`: the list begins with the configured channels (announced ones come
  after them);
- `Rotation`: the attempts made and the distance from the index to a configured
  channel that was not tried are together no more than the length of the list.
  A retune takes one from the distance and adds at most one to the attempts; a
  channel that is appended adds to both sides. When the attempts exceed a limit
  of that length the distance would be less than one: no such channel is left;
- `Single`, `Ended`: with one channel there is nothing to retune to, and once
  the limit is exceeded the loop only leaves;
- `Counted`: `message_count` is never below the messages handled that were not
  invalid, why `LiveIsKept` holds.

`ConventionalCallsProofs` proves, for every set of channels, any time-out, limit,
number of calls and length of chain (`ConventionalAssumption`), `TypeCorrect`,
`KeepsOnce`, `KeepsLimit` and the refinement `FilesInOrder`. For `KeptOnce` the inductive invariant is `TypeOK`,
`ChainInv` and `CallInv`:

- `OnItsWay`, `OneWay`, `Fresh`: a buffer in the chain is there once and not
  written yet (why it gets one owner);
- `Mine`: what a sink holds was written for the call that holds the recorder,
  except in a slot the restart has not come to;
- `Filed`: a call is filed once, before its number is given up;
- `NothingLost`, `Finished`: what was written is held or concluded, and a sink
  that is about to be cleared has all of it concluded;
- `Writable`, `Shut`: a sink takes no voice from its stop to its start (why the
  steps in between may be interleaved with the scheduler).

`KeepsLimit` has an invariant of its own, `Bounded`: the voice near slot 0 (`Near`:
held by its sink or on its way to it) is at most the limit, the chain, one
second if it has been heard already, and one more between the look at the clock and
the decision (`Spent`). Voice near the sink grows by one in a second and not by
being written, so the bound holds wherever the thread is.

`FilesInOrder` (`Spec => FilingPromise`) adds `FileInv`: the slots of the call that is
being concluded are filed in their order, and after exit no sink is open. Then a
step that writes voice is a `Write` of `CallFiling` for the call of that time, all
earlier voice being filed; `Conclude` is `File` for a slot with voice (`NothingLost`
and `Mine`: with all of it), or changes nothing for one without; and every other step
stutters, whatever the scheduler does between them.

`SmartnetParserProofs` proves, for any systems, any messages (not only those of the
run) and any number of words, sent or lost (`SmartnetAssumption`), `TypeCorrect`,
`KeepsOrder` and `NeverTwice`. The invariant adds that no word is in the queue
before it was sent. One lemma about `Take` carries the proof: putting back an
increasing selection of the first `n` words keeps the order and the length; each
branch is an instance of it.

What is told depends on what a radio system sends. `GrantsAsSent` and
`EveryAssignmentHeard` assume `OneSystem` (no second system shares the parser: finding 3)
and `LawfulRadios` (every burst is `Lawful`), which TLC evaluates for the bursts of
`MCSmartnetParser`; the number of words and the bursts themselves are arbitrary. Their
invariant `Heeded` says, while nothing was lost, that there is a history of words such
that

- `Stream`: it keeps to the protocol, also where one burst follows another, and
  `Bursts`: its end is the part sent so far of a burst whose rest is on the air;
- `Heard`: the queue is the end of that history, except that its first word may be
  one that was put back in front of a word not its next (`Kept`), as after an
  idle that was delayed into a message;
- `Spare`: a full queue does not lose an assignment to the next word;
- `Matched`: what was told is of one message.

Each branch of `process_osws` then has a lemma that keeps `Heard` and reports the
assignments it takes. The history is a witness of the proof, not a variable of the
model.

`PluginManagerProofs` proves, for any number of plugins, threads and workers
(`PluginAssumption`), `TypeCorrect`, `CalledOnlyUp`, `OneStop` and the action property
`EveryoneHears`. The invariant says in which phases of `main()` the flow graph
runs (`FlowInv`), which threads can be in a callback then (`PassInv`), which
plugins have been stopped (`LifeInv`, with `Pending`: `stop_plugins` has not come
to it), and that a callback has called all that are running up to where it is
(`SeenInv`). The states of the plugins are read without a lock; the proof shows
that the phases are enough.

`PatchTableProofs` proves, for any talkgroups and patches and all periods
(`PatchAssumption`), `TypeCorrect`, `ReadsWhatWasSaid` and the action property
`RecordsThePatched`. The invariant ties the age in the table to the time since the
last announcement: what is in the table is younger than `STALE` and the seconds
since the last clean-up, what is not was announced that long ago or cancelled.

Proofs beside TLC's runs:

- only model-checked, because TLAPS here has no liveness: `EveryCallSettles`,
  `ShutdownEnds`, `FoundAgain`, `QuietIsConcluded`, `SignalOpensPort`, `ExitEnds`;
- every other property of a passing run is a theorem;
- the findings are counterexamples of TLC; what findings 1 and 2 refute is proved
  where it does hold: `RefusedUntilStopped`, `RemovesOwnAlone`. Under `OneSystem`
  all words have one sender, and `OneSender` of finding 3 holds by the form of the
  model.

## 6. Not modelled

- Autotune: a mean of measured frequency errors. `ControlChannel` has which
  channel it corrects and takes any offset.
- Site ids and status (`update_status`, `update_sysid`): they assign what a message
  carries.
- The P25 parser beyond patches and control channels: it decodes each message on
  its own, field by field; its channel tables are written and read by number.
- The SmartNet parser's tables of talkgroups, frequencies, patches and sites: no
  message depends on them, they are written for its JSON status only.
- Talkgroups, unit tags and over-the-air aliases: look-ups in tables, and blocks
  of an alias that one thread collects and a CRC checks.
- Analog signalling decoders, demodulators, filters, the spectrum estimate of the
  signal detector, debug and SIGMF recorders (also the conventional SIGMF
  channel): signal processing on samples, with no decision that other parts
  depend on except those that stand as inputs in the modules.
- The configuration loader: it runs once. Options are constants of the modules.
- Bundled plugins: network clients; any result, or none, is what `CallConcluder`
  and `PluginManager` take.
- Lifetimes of C++ objects (the call pointer of a recorder, the patch map that a
  plugin reads on another thread): undefined behaviour has no state to model.
- Vendored and generated code: OP25, Eigen, json.hpp, csv.hpp, the protobuf
  output of the streamer. It is most of the repository's lines. What the
  program expects of OP25 is stated in `TransmissionSink` and `SmartnetParser`.

What would come next: a composition of `CallManager` with one sink per recorder
as a refinement of `CallManager` (for proof rather than for TLC, see
"Composition"), and the alias buffers of the P25 recorders.

## 7. Running

    tlc -config concluder_queues.cfg MCCallConcluder
    tlc -config sink.cfg MCTransmissionSink
    tlc -config manager.cfg MCCallManager
    tlc -config control.cfg MCControlChannel
    tlc -config smartnet.cfg MCSmartnetParser
    tlc -config conventional.cfg MCConventionalCalls
    tlc -config plugins.cfg MCPluginManager
    tlc -config patches.cfg MCPatchTable
    tlapm CallConcluderProofs.tla

and so on for the other modules and for the other proofs.
