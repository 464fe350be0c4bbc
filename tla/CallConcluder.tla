--------------------------- MODULE CallConcluder ---------------------------
(***************************************************************************)
(* The upload pipeline of one finished call: call_concluder.cc and the     *)
(* plugman_call_end/stop_plugins part of plugin_manager.cc.                *)
(*                                                                         *)
(* Threads.  The main thread concludes calls, reaps finished futures,      *)
(* launches due retries and drains the pipeline on exit.  Each upload      *)
(* attempt is a thread of its own (std::async, launch::async) working on a *)
(* copy of the Call_Data_t, which comes back through the future.           *)
(*                                                                         *)
(* A "call" here is one execution of Call_Concluder::conclude_call, that   *)
(* is one Call_Data_t with file names of its own (create_base_filename     *)
(* ends each stem in the call number).                                     *)
(***************************************************************************)
EXTENDS Naturals, FiniteSets

CONSTANTS
  Calls,        \* conclude_call executions, one Call_Data_t each
  Tx,           \* transmissions a call may have recorded
  PluginCount,  \* length of the plugin manager's vector
  MAX_RETRY,    \* Call_Concluder::MAX_RETRY, 2 in the code
  Configs       \* the combinations of system and global options explored

Plugins == 1..PluginCount

ConfigType ==
  [audio_archive: BOOLEAN, transmission_archive: BOOLEAN, call_log: BOOLEAN,
   archive_files_on_failure: BOOLEAN, output_raw_audio: BOOLEAN,
   upload_script: BOOLEAN, compress_wav: BOOLEAN]

ASSUME ConcluderAssumption ==
  /\ PluginCount \in Nat
  /\ MAX_RETRY \in Nat
  /\ Configs \subseteq ConfigType

VARIABLES
  config,       \* options of the calls' system, fixed while the program runs
  phase,        \* main thread: running, draining, stopping, exited
  fired,        \* draining: one full iteration of the drain loop is behind us
  running,      \* plugins whose state is PLUGIN_RUNNING
  workers,      \* call_data_workers: calls with a future in the list
  retries,      \* retry_call_list
  due,          \* calls of retry_call_list whose process_call_time has passed
  pc,           \* where each call's worker thread is
  status,       \* Call_Data_t::status
  list,         \* Call_Data_t::transmission_list
  attempt,      \* Call_Data_t::retry_attempt
  owing,        \* Call_Data_t::plugin_retry_list
  todo,         \* plugins plugman_call_end has yet to visit in this attempt
  failing,      \* plugman_call_end's local plugin_retry_list
  files,        \* what is on disk for each call
  offers,       \* history: how often call_end ran, per call and plugin
  accepts       \* history: how often call_end returned 0, per call and plugin

main   == <<phase, fired, running>>
data   == <<status, list, attempt, owing>>
thread == <<pc, todo, failing>>
queues == <<workers, retries, due>>
history == <<offers, accepts>>
vars   == <<config, main, queues, thread, data, files, history>>

Status == {"INITIAL", "SUCCESS", "RETRY", "FAILED"}
Stage  == {"open", "gather", "render", "script", "plugins", "ready", "settled"}

\* temp: transmissions in tempDir; archived: their copies beside the call
\* file; made: the files the worker writes for the call.
FileState ==
  [temp: SUBSET Tx, archived: SUBSET Tx, made: SUBSET {"wav", "m4a", "json", "raw"}]

Audio == IF config.compress_wav THEN {"wav", "m4a"} ELSE {"wav"}

(***************************************************************************)
(* The file system                                                         *)
(***************************************************************************)

\* remove_call_files: the states it can leave behind.  A failed copy_file is
\* logged and the transmission is deleted all the same; raw.wav is not touched.
Removals(f, txs, plugin_failure) ==
  LET on_failure == plugin_failure /\ config.archive_files_on_failure
      archive    == config.audio_archive \/ on_failure
      copyable   == IF archive /\ config.transmission_archive
                    THEN f.temp \cap txs ELSE {}
      gone       == (IF archive THEN {} ELSE {"wav", "m4a"})
                      \cup (IF config.call_log \/ on_failure THEN {} ELSE {"json"})
  IN  { [temp |-> f.temp \ txs, archived |-> f.archived \cup copied,
         made |-> f.made \ gone] : copied \in SUBSET copyable }

RemoveFiles(c, f, txs, plugin_failure) ==
  \E g \in Removals(f, txs, plugin_failure) : files' = [files EXCEPT ![c] = g]

Written(f, made) == [f EXCEPT !.made = @ \cup made]

(***************************************************************************)
(* Main thread: conclude_call                                              *)
(***************************************************************************)

Init ==
  /\ config \in Configs
  /\ phase = "running"
  /\ fired = FALSE
  /\ running \in SUBSET Plugins          \* start_plugins may have failed
  /\ workers = {} /\ retries = {} /\ due = {}
  /\ pc      = [c \in Calls |-> "open"]
  /\ status  = [c \in Calls |-> "INITIAL"]
  /\ list    = [c \in Calls |-> {}]
  /\ attempt = [c \in Calls |-> 0]
  /\ owing   = [c \in Calls |-> {}]
  /\ todo    = [c \in Calls |-> {}]
  /\ failing = [c \in Calls |-> {}]
  /\ files   = [c \in Calls |-> [temp |-> {}, archived |-> {}, made |-> {}]]
  /\ offers  = [c \in Calls |-> [p \in Plugins |-> 0]]
  /\ accepts = [c \in Calls |-> [p \in Plugins |-> 0]]

\* create_call_data: of the recorded transmissions those shorter than
\* minTransmissionDuration leave the list, and tempDir unless
\* transmissionArchive is set.  Some recordings may be missing on disk.
Recorded(stored, short) ==
  [temp |-> IF config.transmission_archive THEN stored ELSE stored \ short,
   archived |-> {}, made |-> {}]

\* Every outcome of conclude_call but the upload.  A superseded call has no
\* JSON; an encrypted one gets it if anything was recorded and the file opens;
\* a call with an empty list returns without touching a file.
Discard(c, recorded, short, stored) ==
  LET kept == recorded \ short
      disk == Recorded(stored, short)
  IN  /\ pc' = [pc EXCEPT ![c] = "settled"]
      /\ \/ RemoveFiles(c, disk, kept, FALSE)            \* superseded, or too short
         \/ /\ recorded # {}                             \* encrypted
            /\ RemoveFiles(c, Written(disk, {"json"}), kept, FALSE)
         \/ kept = {} /\ files' = [files EXCEPT ![c] = disk]
      /\ UNCHANGED workers

StartUpload(c, recorded, short, stored) ==
  /\ recorded \ short # {}
  /\ pc' = [pc EXCEPT ![c] = "gather"]
  /\ files' = [files EXCEPT ![c] = Recorded(stored, short)]
  /\ workers' = workers \cup {c}

ConcludeCall(c) ==
  /\ phase = "running"
  /\ pc[c] = "open"
  /\ \E recorded \in SUBSET Tx : \E short, stored \in SUBSET recorded :
       /\ list' = [list EXCEPT ![c] = recorded \ short]
       /\ \/ Discard(c, recorded, short, stored)
          \/ StartUpload(c, recorded, short, stored)
  /\ UNCHANGED <<config, main, retries, due, status, attempt, owing, todo,
                 failing, history>>

(***************************************************************************)
(* Worker thread: upload_call_worker on a call with status INITIAL         *)
(***************************************************************************)

At(c, stage) == phase # "exited" /\ c \in workers /\ pc[c] = stage

\* Mutant: the early returns leave the files on disk.
Fail_NoCleanup(c, f) ==
  /\ files' = [files EXCEPT ![c] = f]
  /\ pc' = [pc EXCEPT ![c] = "ready"]
  /\ status' = [status EXCEPT ![c] = "FAILED"]
  /\ UNCHANGED todo

\* Every early return of the worker: the files go, the status is FAILED.
Fail(c, f) ==
  /\ RemoveFiles(c, f, list[c], FALSE)
  /\ pc' = [pc EXCEPT ![c] = "ready"]
  /\ status' = [status EXCEPT ![c] = "FAILED"]
  /\ UNCHANGED todo

\* plugman_call_end opens: all plugins on INITIAL, the failed ones on RETRY.
Advance(c, stage, f) ==
  /\ files' = [files EXCEPT ![c] = f]
  /\ pc' = [pc EXCEPT ![c] = stage]
  /\ todo' = IF stage = "plugins" THEN [todo EXCEPT ![c] = Plugins] ELSE todo
  /\ UNCHANGED status

WorkerFrame == UNCHANGED <<config, main, queues, list, attempt, owing, failing, history>>

\* The inputs that still exist are collected and the JSON is written.
Gather(c) ==
  /\ At(c, "gather")
  /\ \/ files[c].temp \cap list[c] # {}
        /\ Advance(c, "render", Written(files[c], {"json"}))
     \/ Fail(c, files[c])               \* no input left, or the JSON cannot open
  /\ WorkerFrame

\* ffmpeg, with its two fall-backs, and the optional verbatim raw.wav.
Render(c) ==
  /\ At(c, "render")
  /\ \/ \E raw \in SUBSET (IF config.output_raw_audio THEN {"raw"} ELSE {}) :
          Advance(c, IF config.upload_script THEN "script" ELSE "plugins",
                  Written(files[c], Audio \cup raw))
     \/ \E partial \in SUBSET Audio : Fail(c, Written(files[c], partial))
  /\ WorkerFrame

RunScript(c) ==
  /\ At(c, "script")
  /\ Advance(c, "plugins", files[c]) \/ Fail(c, files[c])
  /\ WorkerFrame

(***************************************************************************)
(* Worker thread: plugman_call_end and the end of the attempt              *)
(***************************************************************************)

\* One iteration of plugman_call_end.  plugin->state is read without a lock:
\* a plugin that is not running is passed over and counts as served.
OfferPlugin(c) ==
  /\ At(c, "plugins")
  /\ \E p \in todo[c] :
       /\ \A q \in todo[c] : p <= q
       /\ todo' = [todo EXCEPT ![c] = @ \ {p}]
       /\ \/ /\ p \in running
             /\ offers' = [offers EXCEPT ![c][p] = @ + 1]
             /\ \/ /\ accepts' = [accepts EXCEPT ![c][p] = @ + 1]
                   /\ UNCHANGED failing
                \/ /\ failing' = [failing EXCEPT ![c] = @ \cup {p}]
                   /\ UNCHANGED accepts
          \/ /\ p \notin running
             /\ UNCHANGED <<failing, history>>
  /\ UNCHANGED <<config, main, queues, pc, data, files>>

\* Mutant: plugman_call_end fails but does not store who failed.
FinishUpload_ListNotStored(c) ==
  /\ At(c, "plugins")
  /\ todo[c] = {}
  /\ pc' = [pc EXCEPT ![c] = "ready"]
  /\ \/ /\ failing[c] = {}
        /\ RemoveFiles(c, files[c], list[c], FALSE)
        /\ status' = [status EXCEPT ![c] = "SUCCESS"]
     \/ /\ failing[c] # {}
        /\ status' = [status EXCEPT ![c] = "RETRY"]
        /\ UNCHANGED files
  /\ UNCHANGED <<config, main, queues, list, attempt, owing, todo, failing, history>>

FinishUpload(c) ==
  /\ At(c, "plugins")
  /\ todo[c] = {}
  /\ pc' = [pc EXCEPT ![c] = "ready"]
  /\ \/ /\ failing[c] = {}
        /\ RemoveFiles(c, files[c], list[c], FALSE)
        /\ status' = [status EXCEPT ![c] = "SUCCESS"]
        /\ UNCHANGED owing
     \/ /\ failing[c] # {}
        /\ status' = [status EXCEPT ![c] = "RETRY"]
        /\ owing' = [owing EXCEPT ![c] = failing[c]]
        /\ UNCHANGED files
  /\ UNCHANGED <<config, main, queues, list, attempt, todo, failing, history>>

(***************************************************************************)
(* Main thread: manage_call_data_workers                                   *)
(***************************************************************************)

\* Mutants: one attempt too many, one too few.
Exhausted_Late(c) == attempt[c] > MAX_RETRY
Exhausted_Early(c) == attempt[c] + 1 >= MAX_RETRY

Exhausted(c) == attempt[c] + 1 > MAX_RETRY

\* Mutant: the last failure is cleaned up like a success.
Settle_NoArchive(c) ==
  /\ pc' = [pc EXCEPT ![c] = "settled"]
  /\ \/ /\ status[c] # "RETRY"
        /\ UNCHANGED <<attempt, files>>
     \/ /\ status[c] = "RETRY"
        /\ Exhausted(c)
        /\ attempt' = [attempt EXCEPT ![c] = @ + 1]
        /\ RemoveFiles(c, files[c], list[c], FALSE)

\* A future is ready and its call is not to be tried again.
Settle(c) ==
  /\ pc' = [pc EXCEPT ![c] = "settled"]
  /\ \/ /\ status[c] # "RETRY"
        /\ UNCHANGED <<attempt, files>>
     \/ /\ status[c] = "RETRY"
        /\ Exhausted(c)
        /\ attempt' = [attempt EXCEPT ![c] = @ + 1]
        /\ RemoveFiles(c, files[c], list[c], TRUE)

\* Mutant: the files go before a retry.
ToRetry_RemovesFiles(c) ==
  /\ status[c] = "RETRY"
  /\ ~Exhausted(c)
  /\ attempt' = [attempt EXCEPT ![c] = @ + 1]
  /\ RemoveFiles(c, files[c], list[c], TRUE)

ToRetry(c) ==
  /\ status[c] = "RETRY"
  /\ ~Exhausted(c)
  /\ attempt' = [attempt EXCEPT ![c] = @ + 1]
  /\ UNCHANGED files

\* Mutant: a retry offers the call to every plugin again.
Launch_AllPlugins(cs) ==
  /\ pc' = [c \in Calls |-> IF c \in cs THEN "plugins" ELSE pc[c]]
  /\ todo' = [c \in Calls |-> IF c \in cs THEN Plugins ELSE todo[c]]
  /\ failing' = [c \in Calls |-> IF c \in cs THEN {} ELSE failing[c]]

\* std::async on calls that come back for another attempt.
Launch(cs) ==
  /\ pc' = [c \in Calls |-> IF c \in cs THEN "plugins" ELSE pc[c]]
  /\ todo' = [c \in Calls |-> IF c \in cs THEN owing[c] ELSE todo[c]]
  /\ failing' = [c \in Calls |-> IF c \in cs THEN {} ELSE failing[c]]

\* Mutant: a call to be tried again is erased but not queued.
Reap_NotQueued(c) ==
  /\ phase = "running"
  /\ At(c, "ready")
  /\ workers' = workers \ {c}
  /\ \/ Settle(c)
     \/ ToRetry(c) /\ UNCHANGED pc
  /\ UNCHANGED <<config, main, retries, due, todo, failing, status, list, owing, history>>

Reap(c) ==
  /\ phase = "running"
  /\ At(c, "ready")
  /\ workers' = workers \ {c}
  /\ \/ Settle(c) /\ UNCHANGED retries
     \/ /\ ToRetry(c)
        /\ retries' = retries \cup {c}
        /\ UNCHANGED pc
  /\ UNCHANGED <<config, main, due, todo, failing, status, list, owing, history>>

\* process_call_time, (1 << attempt) minutes and a jitter ahead, is reached.
BackoffElapses(c) ==
  /\ phase = "running"
  /\ c \in retries \ due
  /\ due' = due \cup {c}
  /\ UNCHANGED <<config, main, workers, retries, thread, data, files, history>>

LaunchRetry(c) ==
  /\ phase = "running"
  /\ c \in retries \cap due
  /\ workers' = workers \cup {c}
  /\ retries' = retries \ {c}
  /\ due' = due \ {c}
  /\ Launch({c})
  /\ UNCHANGED <<config, main, data, files, history>>

(***************************************************************************)
(* Main thread: shutdown_call_data_workers, stop_plugins, exit             *)
(***************************************************************************)

\* exit_flag: monitor_messages has concluded the calls that were open.
BeginShutdown ==
  /\ phase = "running"
  /\ phase' = "draining"
  /\ UNCHANGED <<config, fired, running, queues, thread, data, files, history>>

\* A ready future in the drain loop: a retry is launched at once.
DrainReap(c) ==
  /\ phase = "draining"
  /\ At(c, "ready")
  /\ \/ /\ Settle(c)
        /\ workers' = workers \ {c}
        /\ UNCHANGED <<todo, failing>>
     \/ /\ ToRetry(c)
        /\ Launch({c})
        /\ UNCHANGED workers
  /\ UNCHANGED <<config, main, retries, due, status, list, owing, history>>

\* Mutant: the retry list is not cleared.
DrainFire_NoClear ==
  /\ phase = "draining"
  /\ ~fired \/ retries # {}
  /\ fired' = TRUE
  /\ workers' = workers \cup retries
  /\ Launch(retries)
  /\ UNCHANGED <<config, phase, running, retries, due, data, files, history>>

\* End of an iteration: queued retries are fired without their backoff.
DrainFire ==
  /\ phase = "draining"
  /\ ~fired \/ retries # {}
  /\ fired' = TRUE
  /\ workers' = workers \cup retries
  /\ retries' = {}
  /\ due' = {}
  /\ Launch(retries)
  /\ UNCHANGED <<config, phase, running, data, files, history>>

DrainDone ==
  /\ phase = "draining"
  /\ fired
  /\ workers = {}
  /\ phase' = "stopping"
  /\ UNCHANGED <<config, fired, running, queues, thread, data, files, history>>

\* What is left in the retry list at the deadline is cleaned up like a call whose
\* last attempt failed, and the list is cleared.
CleanUpRetries ==
  /\ \E left \in [retries -> UNION {Removals(files[c], list[c], TRUE) : c \in retries}] :
       /\ \A c \in retries : left[c] \in Removals(files[c], list[c], TRUE)
       /\ files' = [c \in Calls |-> IF c \in retries THEN left[c] ELSE files[c]]
  /\ pc' = [c \in Calls |-> IF c \in retries THEN "settled" ELSE pc[c]]
  /\ retries' = {}
  /\ due' = {}

\* Mutant: the drain waits for threads that are still at work.
DrainTimeout_Waits ==
  /\ phase = "draining"
  /\ fired
  /\ workers # {}
  /\ \A c \in workers : pc[c] = "ready"
  /\ phase' = "stopping"
  /\ CleanUpRetries
  /\ UNCHANGED <<config, fired, running, workers, todo, failing, data, history>>

\* The deadline passes with workers left: they are abandoned, not stopped.
DrainTimeout ==
  /\ phase = "draining"
  /\ fired
  /\ workers # {}
  /\ phase' = "stopping"
  /\ CleanUpRetries
  /\ UNCHANGED <<config, fired, running, workers, todo, failing, data, history>>

\* stop_plugins goes through the vector in order.
StopPlugin ==
  /\ phase = "stopping"
  /\ \E p \in running :
       /\ \A q \in running : p <= q
       /\ running' = running \ {p}
  /\ UNCHANGED <<config, phase, fired, queues, thread, data, files, history>>

\* main returns; whatever the abandoned workers were doing ends here.
ExitProcess ==
  /\ phase = "stopping"
  /\ running = {}
  /\ phase' = "exited"
  /\ UNCHANGED <<config, fired, running, queues, thread, data, files, history>>

Worker(c) == Gather(c) \/ Render(c) \/ RunScript(c) \/ OfferPlugin(c) \/ FinishUpload(c)

Manage(c) == Reap(c) \/ LaunchRetry(c) \/ DrainReap(c)

Shutdown == DrainFire \/ DrainDone \/ DrainTimeout \/ StopPlugin \/ ExitProcess

Next ==
  \/ \E c \in Calls : ConcludeCall(c) \/ Worker(c) \/ Manage(c) \/ BackoffElapses(c)
  \/ BeginShutdown
  \/ Shutdown

Spec == Init /\ [][Next]_vars

\* The main loop comes round every 10 ms, clocks advance, ffmpeg, the script
\* and call_end return.  Nothing obliges a call to end or the user to exit.
Fairness ==
  /\ \A c \in Calls : WF_vars(Worker(c)) /\ WF_vars(Manage(c)) /\ WF_vars(BackoffElapses(c))
  /\ WF_vars(Shutdown)

FairSpec == Spec /\ Fairness
\* The same without any promise that ffmpeg, a script or a plugin returns.
HangSpec ==
  Spec /\ WF_vars(Shutdown) /\ \A c \in Calls : WF_vars(Manage(c))

(***************************************************************************)
(* Properties                                                              *)
(***************************************************************************)

\* The variables range over the values the code gives them.
TypeOK ==
  /\ config \in Configs
  /\ phase \in {"running", "draining", "stopping", "exited"}
  /\ fired \in BOOLEAN
  /\ running \in SUBSET Plugins
  /\ workers \in SUBSET Calls /\ retries \in SUBSET Calls /\ due \in SUBSET retries
  /\ pc \in [Calls -> Stage]
  /\ status \in [Calls -> Status]
  /\ list \in [Calls -> SUBSET Tx]
  /\ attempt \in [Calls -> 0..(MAX_RETRY + 1)]
  /\ owing \in [Calls -> SUBSET Plugins]
  /\ todo \in [Calls -> SUBSET Plugins]
  /\ failing \in [Calls -> SUBSET Plugins]
  /\ files \in [Calls -> FileState]
  /\ offers \in [Calls -> [Plugins -> Nat]]
  /\ accepts \in [Calls -> [Plugins -> Nat]]

\* Between the list of futures, the retry list and the hand-overs between
\* them (manage, drain, shutdown) a concluded call is in exactly one place
\* until it is settled: it is neither forgotten nor uploaded by two threads.
OneOwner ==
  /\ workers \cap retries = {}
  /\ \A c \in Calls : c \in workers \cup retries <=> pc[c] \notin {"open", "settled"}
  /\ \A c \in retries : pc[c] = "ready"

\* The retry loop hands a call to a plugin at most MAX_RETRY + 1 times and
\* never again once the plugin has taken it, although other plugins of the
\* same call may keep failing (plugin_retry_list).
UploadedOnce ==
  \A c \in Calls, p \in Plugins : accepts[c][p] <= 1 /\ offers[c][p] <= MAX_RETRY + 1

\* A call reported SUCCESS (whose audio the worker may therefore delete) has
\* been taken by every plugin that is up, over however many attempts.
SuccessMeansServed ==
  \A c \in Calls : status[c] = "SUCCESS" => \A p \in running : accepts[c][p] = 1

\* From the first call_end to the last retry the files the plugins upload
\* are on disk: no earlier failure path or clean-up has taken them.
UploadHasFiles ==
  \A c \in Calls :
    pc[c] = "plugins" \/ c \in retries => Audio \cup {"json"} \subseteq files[c].made

\* remove_call_files has run for every settled call that kept transmissions:
\* tempDir is free of them, whichever path the call took; and audio that
\* nobody asked to archive is gone.
SettledCleanly ==
  \A c \in Calls : pc[c] = "settled" =>
    /\ files[c].temp \cap list[c] = {}
    /\ ~config.audio_archive /\ ~(config.archive_files_on_failure /\ status[c] = "RETRY")
         => files[c].made \cap {"wav", "m4a"} = {}

\* archiveFilesOnFailure: a call that some plugin still refused in its last
\* attempt keeps its audio and its JSON.
ExhaustedIsArchived ==
  config.archive_files_on_failure =>
    \A c \in Calls : pc[c] = "settled" /\ status[c] = "RETRY"
                       => Audio \cup {"json"} \subseteq files[c].made

\* Every concluded call is settled unless the program exits first.
EveryCallSettles ==
  \A c \in Calls : pc[c] # "open" ~> pc[c] = "settled" \/ phase = "exited"

\* Once exit_flag is seen the program does exit, even if workers hang: the
\* drain loop has a deadline.
ShutdownEnds == phase = "draining" ~> phase = "exited"

(***************************************************************************)
(* The pipeline keeps the promise of CallUpload                            *)
(***************************************************************************)

outcomeBar ==
  [c \in Calls |->
     IF pc[c] = "open" THEN "none"
     ELSE IF status[c] = "SUCCESS" THEN "delivered"
     ELSE IF status[c] = "FAILED" \/ pc[c] = "settled" THEN "dropped"
     ELSE "pending"]

servedBar == [c \in Calls |-> {p \in Plugins : accepts[c][p] > 0}]

Upload == INSTANCE CallUpload WITH
  Rounds <- MAX_RETRY + 1, outcome <- outcomeBar, live <- running,
  served <- servedBar, tries <- offers

\* Every behaviour of the pipeline, abandoned workers and stopping plugins
\* included, is one of CallUpload.
UploadPromise == Upload!Spec

(***************************************************************************)
(* What the documentation says and the code does not do                    *)
(***************************************************************************)

\* docs/CONFIGURE.md:130, archiveFilesOnFailure: when a plugin fails the
\* files are saved.  A plugin failed here if call_end ran and never returned 0.
RefusedIsArchived ==
  config.archive_files_on_failure =>
    \A c \in Calls :
      /\ pc[c] \in {"ready", "settled"}
      /\ status[c] = "SUCCESS"
      /\ \E p \in Plugins : offers[c][p] > 0 /\ accepts[c][p] = 0
      => "wav" \in files[c].made
=============================================================================
