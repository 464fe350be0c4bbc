------------------------ MODULE CallConcluderProofs ------------------------
(***************************************************************************)
(* Theorems about CallConcluder for every set of calls, transmissions and  *)
(* options, every number of plugins and every MAX_RETRY.                   *)
(***************************************************************************)
EXTENDS CallConcluder, TLAPS

\* Where a call is: it is owned by one list while it is being uploaded, and
\* its status says which branch of the worker it may be in.
Ownership(c) ==
  /\ c \notin workers \/ c \notin retries
  /\ c \in workers \cup retries <=> pc[c] \notin {"open", "settled"}
  /\ c \in retries => pc[c] = "ready" /\ status[c] = "RETRY"
  /\ pc[c] = "plugins" => status[c] \in {"INITIAL", "RETRY"}
  /\ pc[c] = "ready" => status[c] # "INITIAL"
  /\ pc[c] \in {"open", "gather", "render", "script"} => status[c] = "INITIAL"

\* The number of times a plugin saw a call is tied to retry_attempt.
Counting(c) ==
  /\ pc[c] # "settled" => attempt[c] <= MAX_RETRY
  /\ \A p \in Plugins :
       /\ offers[c][p] <= MAX_RETRY + 1
       /\ offers[c][p] <= attempt[c] + 1
       /\ pc[c] \in {"open", "gather", "render", "script"} => offers[c][p] = 0
       /\ pc[c] = "plugins" /\ p \in todo[c] => offers[c][p] <= attempt[c]
       /\ c \in retries => offers[c][p] <= attempt[c]

\* Who still has to take the call is never somebody who has taken it.
Owing(c) ==
  /\ pc[c] \in {"open", "gather", "render", "script"} => failing[c] = {}
  /\ \A p \in Plugins :
       /\ accepts[c][p] <= 1
       /\ pc[c] \in {"open", "gather", "render", "script"} => accepts[c][p] = 0
       /\ pc[c] = "plugins" /\ p \in todo[c] \cup failing[c] => accepts[c][p] = 0
       /\ pc[c] = "plugins" /\ p \in todo[c] => p \notin failing[c]
       /\ pc[c] = "ready" /\ status[c] = "RETRY" /\ p \in owing[c] => accepts[c][p] = 0

\* Nobody is forgotten: a running plugin that no list of the attempt names
\* has taken the call.
Served(c) ==
  \A p \in running :
    /\ pc[c] = "plugins" /\ p \notin todo[c] \cup failing[c] => accepts[c][p] = 1
    /\ pc[c] = "ready" /\ status[c] = "RETRY" /\ p \notin owing[c] => accepts[c][p] = 1
    /\ status[c] = "SUCCESS" => accepts[c][p] = 1

\* A running plugin that has not taken the call has seen every attempt.
Tried(c) ==
  /\ pc[c] \in {"open", "gather", "render", "script"} => attempt[c] = 0
  /\ \A p \in running : accepts[c][p] = 0 =>
       /\ pc[c] = "plugins" /\ p \in todo[c] => offers[c][p] >= attempt[c]
       /\ pc[c] = "plugins" /\ p \notin todo[c] => offers[c][p] >= attempt[c] + 1
       /\ c \in workers /\ pc[c] = "ready" /\ status[c] = "RETRY"
            => offers[c][p] >= attempt[c] + 1
       /\ c \in retries => offers[c][p] >= attempt[c]

\* The files an upload needs are there from the stage that makes them on.
FilesReady(c) ==
  /\ pc[c] \in {"render", "script", "plugins"} => "json" \in files[c].made
  /\ pc[c] \in {"script", "plugins"} => Audio \subseteq files[c].made
  /\ pc[c] = "ready" /\ status[c] = "RETRY" => Audio \cup {"json"} \subseteq files[c].made

CallInv(c) ==
  Ownership(c) /\ Counting(c) /\ Owing(c) /\ Served(c) /\ Tried(c) /\ FilesReady(c)

\* Only the main loop fills the retry list, and the first iteration of the drain
\* empties it for good.
Drained ==
  /\ phase = "running" => ~fired
  /\ fired => retries = {}

\* The inductive invariant.
IInv == TypeOK /\ Drained /\ \A c \in Calls : CallInv(c)

(***************************************************************************)
(* Lemmas about the operators                                              *)
(***************************************************************************)

\* remove_call_files leaves a well-formed state of the call's files.
LEMMA RemovalsType ==
  ASSUME NEW f \in FileState, NEW txs, NEW pf, NEW g \in Removals(f, txs, pf)
  PROVE  g \in FileState
BY DEF Removals, FileState

\* Writing known files for a call leaves a well-formed state too.
LEMMA WrittenType ==
  ASSUME NEW f \in FileState, NEW m \in SUBSET {"wav", "m4a", "json", "raw"}
  PROVE  Written(f, m) \in FileState /\ Written(f, m).made = f.made \cup m
BY DEF Written, FileState

\* So does create_call_data.
LEMMA RecordedType ==
  ASSUME NEW stored \in SUBSET Tx, NEW short
  PROVE  Recorded(stored, short) \in FileState /\ Recorded(stored, short).made = {}
BY DEF Recorded, FileState

\* RemoveFiles keeps the type of files and touches one call only.
LEMMA RemoveFilesType ==
  ASSUME files \in [Calls -> FileState], NEW c \in Calls, NEW f \in FileState,
         NEW txs, NEW pf, RemoveFiles(c, f, txs, pf)
  PROVE  /\ files' \in [Calls -> FileState]
         /\ \A d \in Calls \ {c} : files'[d] = files[d]
BY RemovalsType DEF RemoveFiles

\* Counting one more call_end keeps the table a table of naturals.
LEMMA CountType ==
  ASSUME NEW f \in [Calls -> [Plugins -> Nat]], NEW c \in Calls, NEW p \in Plugins
  PROVE  [f EXCEPT ![c][p] = @ + 1] \in [Calls -> [Plugins -> Nat]]
<1>1. [f[c] EXCEPT ![p] = @ + 1] \in [Plugins -> Nat]
  OBVIOUS
<1>2. [f EXCEPT ![c] = [f[c] EXCEPT ![p] = @ + 1]] \in [Calls -> [Plugins -> Nat]]
  BY <1>1
<1>3. QED
  BY <1>2

\* The variables a worker's stages change.
WorkerTypes ==
  /\ files \in [Calls -> FileState]
  /\ pc \in [Calls -> Stage]
  /\ status \in [Calls -> Status]
  /\ todo \in [Calls -> SUBSET Plugins]

LEMMA AdvanceType ==
  ASSUME TypeOK, NEW c \in Calls, NEW stage \in Stage, NEW f \in FileState,
         Advance(c, stage, f)
  PROVE  WorkerTypes'
BY DEF TypeOK, Advance, WorkerTypes

LEMMA FailType ==
  ASSUME TypeOK, NEW c \in Calls, NEW f \in FileState, Fail(c, f)
  PROVE  WorkerTypes'
<1>1. files' \in [Calls -> FileState]
  BY RemoveFilesType DEF TypeOK, Fail
<1>2. QED
  BY <1>1 DEF TypeOK, Fail, WorkerTypes, Stage, Status

\* So the clean-up at the deadline finds nothing to remove, and the abandoned
\* workers keep their files.
LEMMA NothingToCleanUp ==
  ASSUME TypeOK, Drained, DrainTimeout
  PROVE  UNCHANGED <<config, running, fired, queues, thread, data, files, history>>
<1>1. retries = {} /\ due = {}
  BY DEF TypeOK, Drained, DrainTimeout
<1>2. files' = files /\ pc' = pc /\ retries' = {} /\ due' = {}
  <2>1. /\ files' = [c \in Calls |-> files[c]]
        /\ pc' = [c \in Calls |-> pc[c]]
    BY <1>1 DEF DrainTimeout, CleanUpRetries
  <2>2. QED
    BY <2>1 DEF TypeOK, DrainTimeout, CleanUpRetries
<1>3. QED
  BY <1>1, <1>2 DEF DrainTimeout, queues, thread

\* Every action of a worker or of the main thread keeps the types.
LEMMA TypeStep == IInv /\ [Next]_vars => TypeOK'
<1> SUFFICES ASSUME IInv, [Next]_vars PROVE TypeOK'
  OBVIOUS
<1> USE DEF IInv, TypeOK
<1>1. ASSUME NEW c \in Calls, ConcludeCall(c) PROVE TypeOK'
  <2>1. PICK recorded \in SUBSET Tx : \E short, stored \in SUBSET recorded :
          /\ list' = [list EXCEPT ![c] = recorded \ short]
          /\ Discard(c, recorded, short, stored) \/ StartUpload(c, recorded, short, stored)
    BY <1>1 DEF ConcludeCall
  <2>2. PICK short \in SUBSET recorded, stored \in SUBSET recorded :
          /\ list' = [list EXCEPT ![c] = recorded \ short]
          /\ Discard(c, recorded, short, stored) \/ StartUpload(c, recorded, short, stored)
    BY <2>1
  <2> DEFINE disk == Recorded(stored, short)
  <2>3. disk \in FileState /\ Written(disk, {"json"}) \in FileState
    BY RecordedType, WrittenType
  <2>4. files' \in [Calls -> FileState]
    BY <2>2, <2>3, RemoveFilesType DEF Discard, StartUpload
  <2>5. pc' \in [Calls -> Stage] /\ workers' \in SUBSET Calls
    BY <2>2 DEF Discard, StartUpload, Stage
  <2>6. QED
    BY <1>1, <2>2, <2>4, <2>5 DEF ConcludeCall, main, history
<1>2. ASSUME NEW c \in Calls, Gather(c) PROVE TypeOK'
  <2>1. Written(files[c], {"json"}) \in FileState
    BY WrittenType
  <2>2. WorkerTypes'
    BY <1>2, <2>1, AdvanceType, FailType DEF Gather, Stage
  <2>3. QED
    BY <1>2, <2>2 DEF Gather, WorkerTypes, WorkerFrame, main, queues, history
<1>3. ASSUME NEW c \in Calls, Render(c) PROVE TypeOK'
  <2>1. \A m \in SUBSET {"wav", "m4a", "json", "raw"} : Written(files[c], m) \in FileState
    BY WrittenType
  <2>2. CASE \E raw \in SUBSET {"raw"}, stage \in Stage :
               Advance(c, stage, Written(files[c], Audio \cup raw))
    <3>1. PICK raw \in SUBSET {"raw"}, stage \in Stage :
                 Advance(c, stage, Written(files[c], Audio \cup raw))
      BY <2>2
    <3>2. Written(files[c], Audio \cup raw) \in FileState
      BY <2>1 DEF Audio
    <3>3. QED
      BY <3>1, <3>2, AdvanceType, <1>3
         DEF Render, WorkerTypes, WorkerFrame, main, queues, history
  <2>3. CASE \E partial \in SUBSET Audio : Fail(c, Written(files[c], partial))
    <3>1. PICK partial \in SUBSET Audio : Fail(c, Written(files[c], partial))
      BY <2>3
    <3>2. Written(files[c], partial) \in FileState
      BY <2>1 DEF Audio
    <3>3. QED
      BY <3>1, <3>2, FailType, <1>3
         DEF Render, WorkerTypes, WorkerFrame, main, queues, history
  <2>4. QED
    BY <1>3, <2>2, <2>3 DEF Render, Stage
<1>4. ASSUME NEW c \in Calls, RunScript(c) PROVE TypeOK'
  <2>1. WorkerTypes'
    BY <1>4, AdvanceType, FailType DEF RunScript, Stage
  <2>2. QED
    BY <1>4, <2>1 DEF RunScript, WorkerTypes, WorkerFrame, main, queues, history
<1>5. ASSUME NEW c \in Calls, OfferPlugin(c) PROVE TypeOK'
  <2>1. PICK p \in todo[c] :
          /\ todo' = [todo EXCEPT ![c] = @ \ {p}]
          /\ failing' = failing \/ failing' = [failing EXCEPT ![c] = @ \cup {p}]
          /\ offers' = offers \/ offers' = [offers EXCEPT ![c][p] = @ + 1]
          /\ accepts' = accepts \/ accepts' = [accepts EXCEPT ![c][p] = @ + 1]
    BY <1>5 DEF OfferPlugin, history
  <2>2. p \in Plugins
    BY <2>1
  <2>3. todo' \in [Calls -> SUBSET Plugins] /\ failing' \in [Calls -> SUBSET Plugins]
    BY <2>1, <2>2
  <2>4. offers' \in [Calls -> [Plugins -> Nat]]
    <3>1. offers \in [Calls -> [Plugins -> Nat]]
      OBVIOUS
    <3>2. [offers EXCEPT ![c][p] = @ + 1] \in [Calls -> [Plugins -> Nat]]
      BY <3>1, <2>2, CountType
    <3>3. QED
      BY <2>1, <3>1, <3>2
  <2>5. accepts' \in [Calls -> [Plugins -> Nat]]
    <3>1. accepts \in [Calls -> [Plugins -> Nat]]
      OBVIOUS
    <3>2. [accepts EXCEPT ![c][p] = @ + 1] \in [Calls -> [Plugins -> Nat]]
      BY <3>1, <2>2, CountType
    <3>3. QED
      BY <2>1, <3>1, <3>2
  <2>6. QED
    BY <1>5, <2>3, <2>4, <2>5 DEF OfferPlugin, main, queues, data
<1>6. ASSUME NEW c \in Calls, FinishUpload(c) PROVE TypeOK'
  <2>1. files' \in [Calls -> FileState]
    BY <1>6, RemoveFilesType DEF FinishUpload
  <2>2. QED
    BY <1>6, <2>1 DEF FinishUpload, main, queues, history, Stage, Status
<1>7. ASSUME NEW c \in Calls, Reap(c) PROVE TypeOK'
  <2>1. files' \in [Calls -> FileState]
    BY <1>7, RemoveFilesType DEF Reap, Settle, ToRetry
  <2>0. attempt[c] \in 0..MAX_RETRY
    BY <1>7, ConcluderAssumption DEF Reap, At, CallInv, Ownership, Counting
  <2>2. attempt' \in [Calls -> 0..(MAX_RETRY + 1)]
    <3>1. attempt[c] + 1 \in 0..(MAX_RETRY + 1)
      BY <2>0, ConcluderAssumption
    <3>2. attempt' = attempt \/ attempt' = [attempt EXCEPT ![c] = attempt[c] + 1]
      BY <1>7 DEF Reap, Settle, ToRetry
    <3>3. QED
      BY <3>1, <3>2
  <2>3. QED
    BY <1>7, <2>1, <2>2 DEF Reap, Settle, ToRetry, main, history, Stage
<1>8. ASSUME NEW c \in Calls, LaunchRetry(c) PROVE TypeOK'
  BY <1>8 DEF LaunchRetry, Launch, main, data, history, Stage
<1>9. ASSUME NEW c \in Calls, DrainReap(c) PROVE TypeOK'
  <2>1. files' \in [Calls -> FileState]
    BY <1>9, RemoveFilesType DEF DrainReap, Settle, ToRetry
  <2>0. attempt[c] \in 0..MAX_RETRY
    BY <1>9, ConcluderAssumption DEF DrainReap, At, CallInv, Ownership, Counting
  <2>2. attempt' \in [Calls -> 0..(MAX_RETRY + 1)]
    <3>1. attempt[c] + 1 \in 0..(MAX_RETRY + 1)
      BY <2>0, ConcluderAssumption
    <3>2. attempt' = attempt \/ attempt' = [attempt EXCEPT ![c] = attempt[c] + 1]
      BY <1>9 DEF DrainReap, Settle, ToRetry
    <3>3. QED
      BY <3>1, <3>2
  <2>3. QED
    BY <1>9, <2>1, <2>2, ZenonT(60) DEF DrainReap, Settle, ToRetry, Launch, main, history, Stage
<1>10. ASSUME NEW c \in Calls, BackoffElapses(c) PROVE TypeOK'
  BY <1>10 DEF BackoffElapses, main, thread, data, history
<1>11. CASE BeginShutdown
  BY <1>11 DEF BeginShutdown, queues, thread, data, history
<1>12. CASE DrainFire
  BY <1>12 DEF DrainFire, Launch, data, history, Stage
<1>13. CASE DrainDone \/ StopPlugin \/ ExitProcess
  BY <1>13 DEF DrainDone, StopPlugin, ExitProcess, queues, thread, data, history
<1>14. CASE DrainTimeout
  <2>1. UNCHANGED <<config, running, fired, queues, thread, data, files, history>>
    BY <1>14, NothingToCleanUp
  <2>2. phase' = "stopping"
    BY <1>14 DEF DrainTimeout
  <2>3. QED
    BY <2>1, <2>2 DEF queues, thread, data, history
<1>15. CASE UNCHANGED vars
  BY <1>15 DEF vars, main, queues, thread, data, history
<1>16. QED
  BY <1>1, <1>2, <1>3, <1>4, <1>5, <1>6, <1>7, <1>8, <1>9, <1>10, <1>11, <1>12, <1>13, <1>14, <1>15
     DEF Next, Worker, Manage, Shutdown

(***************************************************************************)
(* The calls a step does not touch                                         *)
(***************************************************************************)

\* Nothing of call d changes.
Same(d) ==
  /\ pc'[d] = pc[d] /\ status'[d] = status[d] /\ attempt'[d] = attempt[d]
  /\ owing'[d] = owing[d] /\ todo'[d] = todo[d] /\ failing'[d] = failing[d]
  /\ files'[d] = files[d] /\ offers'[d] = offers[d] /\ accepts'[d] = accepts[d]
  /\ d \in workers' <=> d \in workers
  /\ d \in retries' <=> d \in retries

\* The options stay, and plugins only go down.
Around == config' = config /\ running' \subseteq running

\* A call that a step does not touch keeps its invariant.
LEMMA SameInv ==
  ASSUME TypeOK, NEW d \in Calls, CallInv(d), Same(d), Around
  PROVE  CallInv(d)'
<1> USE DEF CallInv, Same, Around
<1>1. Ownership(d)'
  BY DEF Ownership
<1>2. Counting(d)'
  BY DEF Counting
<1>3. Owing(d)'
  BY DEF Owing
<1>4. Served(d)'
  BY DEF Served
<1>5. Tried(d)'
  BY DEF Tried
<1>6. FilesReady(d)'
  BY DEF FilesReady, Audio
<1>7. QED
  BY <1>1, <1>2, <1>3, <1>4, <1>5, <1>6

\* The steps of one call.
Step(c) == ConcludeCall(c) \/ Worker(c) \/ Manage(c) \/ BackoffElapses(c)

LEMMA OthersSame ==
  ASSUME TypeOK, NEW c \in Calls, Step(c)
  PROVE  Around /\ running' = running /\ \A d \in Calls \ {c} : Same(d)
<1> USE DEF TypeOK, Same, Around, main, queues, thread, data, history
<1>1. CASE ConcludeCall(c)
  BY <1>1 DEF ConcludeCall, Discard, StartUpload, RemoveFiles
<1>2. CASE Gather(c)
  BY <1>2, ZenonT(60) DEF Gather, Advance, Fail, WorkerFrame, RemoveFiles
<1>3. CASE Render(c)
  BY <1>3, ZenonT(60) DEF Render, Advance, Fail, WorkerFrame, RemoveFiles
<1>4. CASE RunScript(c)
  BY <1>4, ZenonT(60) DEF RunScript, Advance, Fail, WorkerFrame, RemoveFiles
<1>5. CASE OfferPlugin(c)
  BY <1>5 DEF OfferPlugin
<1>6. CASE FinishUpload(c)
  BY <1>6 DEF FinishUpload, RemoveFiles
<1>7. CASE Reap(c)
  BY <1>7 DEF Reap, Settle, ToRetry, RemoveFiles
<1>8. CASE LaunchRetry(c)
  BY <1>8 DEF LaunchRetry, Launch
<1>9. CASE DrainReap(c)
  BY <1>9 DEF DrainReap, Settle, ToRetry, Launch, RemoveFiles
<1>10. CASE BackoffElapses(c)
  BY <1>10 DEF BackoffElapses
<1>11. QED
  BY <1>1, <1>2, <1>3, <1>4, <1>5, <1>6, <1>7, <1>8, <1>9, <1>10 DEF Step, Worker, Manage

(***************************************************************************)
(* The call a step is about                                                *)
(***************************************************************************)

\* plugman_call_end visits one more plugin.
LEMMA OfferInv ==
  ASSUME IInv, NEW c \in Calls, OfferPlugin(c)
  PROVE  CallInv(c)'
<1> USE DEF IInv, CallInv
<1>0. TypeOK /\ CallInv(c) /\ Around /\ running' = running
  BY OthersSame DEF Step, Worker, Manage
<1>1. /\ pc[c] = "plugins" /\ pc'[c] = pc[c]
      /\ c \in workers /\ workers' = workers /\ retries' = retries
      /\ status'[c] = status[c] /\ attempt'[c] = attempt[c] /\ owing'[c] = owing[c]
      /\ files'[c] = files[c]
  BY <1>0 DEF OfferPlugin, At, queues, data
<1>2. PICK p \in todo[c] :
        /\ todo' = [todo EXCEPT ![c] = @ \ {p}]
        /\ \/ /\ offers' = [offers EXCEPT ![c][p] = @ + 1]
              /\ \/ accepts' = [accepts EXCEPT ![c][p] = @ + 1] /\ failing' = failing
                 \/ accepts' = accepts /\ failing' = [failing EXCEPT ![c] = @ \cup {p}]
           \/ /\ p \notin running
              /\ offers' = offers /\ accepts' = accepts /\ failing' = failing
  BY DEF OfferPlugin, history
<1>3. /\ p \in Plugins /\ offers[c][p] \in Nat /\ accepts[c][p] \in Nat
      /\ todo'[c] = todo[c] \ {p}
      /\ \A q \in Plugins \ {p} : offers'[c][q] = offers[c][q] /\ accepts'[c][q] = accepts[c][q]
      /\ \/ /\ offers'[c][p] = offers[c][p] + 1
            /\ \/ accepts'[c][p] = accepts[c][p] + 1 /\ failing'[c] = failing[c]
               \/ accepts'[c][p] = accepts[c][p] /\ failing'[c] = failing[c] \cup {p}
         \/ /\ p \notin running
            /\ offers'[c][p] = offers[c][p] /\ accepts'[c][p] = accepts[c][p]
            /\ failing'[c] = failing[c]
  BY <1>0, <1>2 DEF TypeOK
<1>4. Ownership(c)'
  BY <1>0, <1>1 DEF Ownership
<1>5. Counting(c)'
  BY <1>0, <1>1, <1>3, ConcluderAssumption DEF Counting, TypeOK, Ownership
<1>6. Owing(c)'
  <2>1. accepts[c][p] = 0 /\ p \notin failing[c] /\ p \notin todo'[c]
    BY <1>0, <1>1, <1>2, <1>3 DEF Owing, TypeOK
  <2>2. \/ accepts'[c][p] = 0
        \/ accepts'[c][p] = 1 /\ failing'[c] = failing[c]
    BY <2>1, <1>3
  <2>3. todo'[c] \subseteq todo[c] /\ failing'[c] \subseteq failing[c] \cup {p}
    BY <1>3
  <2>4. QED
    BY <1>0, <1>1, <1>3, <2>1, <2>2, <2>3 DEF Owing
<1>7. Served(c)'
  BY <1>0, <1>1, <1>3, <1>6 DEF Served, Owing, TypeOK
<1>8. Tried(c)'
  BY <1>0, <1>1, <1>3, <1>6, ConcluderAssumption DEF Tried, Served, Ownership, Owing, TypeOK
<1>9. FilesReady(c)'
  BY <1>0, <1>1 DEF FilesReady, Audio, Around
<1>10. QED
  BY <1>4, <1>5, <1>6, <1>7, <1>8, <1>9

\* An attempt ends: served by everybody, or some plugins still owing.
LEMMA FinishInv ==
  ASSUME IInv, NEW c \in Calls, FinishUpload(c)
  PROVE  CallInv(c)'
<1> USE DEF IInv, CallInv
<1>0. TypeOK /\ CallInv(c) /\ Around /\ running' = running
  BY OthersSame DEF Step, Worker, Manage
<1>1. /\ pc[c] = "plugins" /\ pc'[c] = "ready" /\ c \in workers /\ workers' = workers /\ retries' = retries
      /\ todo[c] = {} /\ attempt'[c] = attempt[c] /\ offers'[c] = offers[c] /\ accepts'[c] = accepts[c]
      /\ \/ status'[c] = "SUCCESS" /\ failing[c] = {}
         \/ status'[c] = "RETRY" /\ owing'[c] = failing[c] /\ files'[c] = files[c]
  BY <1>0 DEF FinishUpload, TypeOK, main, queues, thread, data, history, At
<1>2. Ownership(c)'
  BY <1>0, <1>1 DEF Ownership, TypeOK
<1>3. Counting(c)'
  BY <1>0, <1>1, ConcluderAssumption DEF Counting, TypeOK, Ownership
<1>4. Owing(c)'
  BY <1>0, <1>1 DEF Owing, TypeOK, Ownership
<1>5. Served(c)'
  BY <1>0, <1>1 DEF Served, TypeOK, Ownership
<1>6. Tried(c)'
  BY <1>0, <1>1, ConcluderAssumption DEF Tried, Served, Ownership, Owing, TypeOK
<1>7. FilesReady(c)'
  BY <1>0, <1>1 DEF FilesReady, Audio, Around
<1>8. QED
  BY <1>2, <1>3, <1>4, <1>5, <1>6, <1>7

\* A due retry gets a thread.
LEMMA LaunchInv ==
  ASSUME IInv, NEW c \in Calls, LaunchRetry(c)
  PROVE  CallInv(c)'
<1> USE DEF IInv, CallInv
<1>0. TypeOK /\ CallInv(c) /\ Around /\ running' = running
  BY OthersSame DEF Step, Worker, Manage
<1>1. /\ c \in retries /\ c \in workers' /\ c \notin retries' /\ pc'[c] = "plugins"
      /\ todo'[c] = owing[c] /\ failing'[c] = {} /\ owing'[c] = owing[c]
      /\ status'[c] = status[c] /\ attempt'[c] = attempt[c] /\ files'[c] = files[c]
      /\ offers'[c] = offers[c] /\ accepts'[c] = accepts[c]
  BY <1>0 DEF LaunchRetry, TypeOK, main, queues, thread, data, history, Launch
<1>2. Ownership(c)'
  BY <1>0, <1>1 DEF Ownership, TypeOK
<1>3. Counting(c)'
  BY <1>0, <1>1, ConcluderAssumption DEF Counting, TypeOK, Ownership
<1>4. Owing(c)'
  BY <1>0, <1>1 DEF Owing, TypeOK, Ownership
<1>5. Served(c)'
  BY <1>0, <1>1 DEF Served, TypeOK, Ownership
<1>6. Tried(c)'
  BY <1>0, <1>1, ConcluderAssumption DEF Tried, Served, Ownership, Owing, TypeOK
<1>7. FilesReady(c)'
  BY <1>0, <1>1 DEF FilesReady, Audio, Around, Ownership
<1>8. QED
  BY <1>2, <1>3, <1>4, <1>5, <1>6, <1>7

\* The passing of time changes nothing of the call itself.
LEMMA BackoffInv ==
  ASSUME IInv, NEW c \in Calls, BackoffElapses(c)
  PROVE  CallInv(c)'
<1>1. TypeOK /\ CallInv(c) /\ Around
  BY OthersSame DEF IInv, Step
<1>2. Same(c)
  BY DEF BackoffElapses, Same, main, thread, data, history
<1>3. QED
  BY <1>1, <1>2, SameInv

\* The call leaves the open state with no attempt behind it.
LEMMA ConcludeInv ==
  ASSUME IInv, NEW c \in Calls, ConcludeCall(c)
  PROVE  CallInv(c)'
<1> USE DEF IInv, CallInv
<1>0. TypeOK /\ CallInv(c) /\ Around /\ running' = running
  BY OthersSame DEF Step
<1>1. /\ pc[c] = "open" /\ retries' = retries
      /\ \/ pc'[c] = "settled" /\ workers' = workers
         \/ pc'[c] = "gather" /\ workers' = workers \cup {c}
      /\ status'[c] = status[c] /\ attempt'[c] = attempt[c] /\ failing'[c] = failing[c]
      /\ offers'[c] = offers[c] /\ accepts'[c] = accepts[c]
  BY <1>0 DEF TypeOK, ConcludeCall, Discard, StartUpload, main, history
<1>2. Ownership(c)'
  BY <1>0, <1>1 DEF Ownership, TypeOK
<1>3. Counting(c)'
  BY <1>0, <1>1, ConcluderAssumption DEF Counting, TypeOK, Ownership
<1>4. Owing(c)'
  BY <1>0, <1>1 DEF Owing, TypeOK
<1>5. Served(c)'
  BY <1>0, <1>1 DEF Served, Ownership
<1>6. Tried(c)'
  BY <1>0, <1>1, ConcluderAssumption DEF Tried, Served, Ownership, Owing, TypeOK
<1>7. FilesReady(c)'
  BY <1>0, <1>1 DEF FilesReady
<1>8. QED
  BY <1>2, <1>3, <1>4, <1>5, <1>6, <1>7

\* A stage of the worker succeeds and leaves the files the next one needs.
LEMMA AdvanceInv ==
  ASSUME IInv, NEW c \in Calls, NEW stage \in {"render", "script", "plugins"},
         NEW f \in FileState, Worker(c), WorkerFrame, Advance(c, stage, f),
         c \in workers, pc[c] \in {"gather", "render", "script"},
         "json" \in f.made, stage \in {"script", "plugins"} => Audio \subseteq f.made
  PROVE  CallInv(c)'
<1> USE DEF IInv, CallInv
<1>0. TypeOK /\ CallInv(c) /\ Around /\ running' = running
  BY OthersSame DEF Step
<1>1. /\ pc'[c] = stage /\ workers' = workers /\ retries' = retries
      /\ stage = "plugins" => todo'[c] = Plugins
      /\ status'[c] = "INITIAL" /\ attempt'[c] = attempt[c] /\ failing'[c] = {}
      /\ files'[c] = f /\ offers'[c] = offers[c] /\ accepts'[c] = accepts[c]
  BY <1>0 DEF TypeOK, Advance, WorkerFrame, queues, history, Ownership, Owing
<1>2. Ownership(c)'
  BY <1>0, <1>1 DEF Ownership
<1>3. Counting(c)'
  BY <1>0, <1>1, ConcluderAssumption DEF Counting, TypeOK, Ownership
<1>4. Owing(c)'
  BY <1>0, <1>1 DEF Owing
<1>5. Served(c)'
  BY <1>0, <1>1 DEF Served, TypeOK
<1>6. Tried(c)'
  BY <1>0, <1>1, ConcluderAssumption DEF Tried, Served, Ownership, Owing, TypeOK
<1>7. FilesReady(c)'
  BY <1>0, <1>1 DEF FilesReady, Audio, Around
<1>8. QED
  BY <1>2, <1>3, <1>4, <1>5, <1>6, <1>7

\* A stage of the worker fails: status FAILED, nobody has seen the call.
LEMMA FailInv ==
  ASSUME IInv, NEW c \in Calls, NEW f, Worker(c), WorkerFrame, Fail(c, f),
         c \in workers, pc[c] \in {"gather", "render", "script"}
  PROVE  CallInv(c)'
<1> USE DEF IInv, CallInv
<1>0. TypeOK /\ CallInv(c) /\ Around /\ running' = running
  BY OthersSame DEF Step
<1>1. /\ pc'[c] = "ready" /\ workers' = workers /\ retries' = retries
      /\ status'[c] = "FAILED" /\ attempt'[c] = attempt[c] /\ failing'[c] = {}
      /\ offers'[c] = offers[c] /\ accepts'[c] = accepts[c]
  BY <1>0 DEF TypeOK, Fail, WorkerFrame, queues, history, Owing
<1>2. Ownership(c)'
  BY <1>0, <1>1 DEF Ownership
<1>3. Counting(c)'
  BY <1>0, <1>1, ConcluderAssumption DEF Counting, TypeOK, Ownership
<1>4. Owing(c)'
  BY <1>0, <1>1 DEF Owing
<1>5. Served(c)'
  BY <1>0, <1>1 DEF Served
<1>6. Tried(c)'
  BY <1>0, <1>1, ConcluderAssumption DEF Tried, Served, Ownership, Owing, TypeOK
<1>7. FilesReady(c)'
  BY <1>0, <1>1 DEF FilesReady
<1>8. QED
  BY <1>2, <1>3, <1>4, <1>5, <1>6, <1>7

LEMMA GatherInv ==
  ASSUME IInv, NEW c \in Calls, Gather(c)
  PROVE  CallInv(c)'
<1>1. Written(files[c], {"json"}) \in FileState /\ "json" \in Written(files[c], {"json"}).made
  BY WrittenType DEF IInv, TypeOK
<1>2. QED
  BY <1>1, AdvanceInv, FailInv DEF Gather, At, Worker

LEMMA RenderInv ==
  ASSUME IInv, NEW c \in Calls, Render(c)
  PROVE  CallInv(c)'
<1>1. WorkerFrame /\ Worker(c) /\ c \in workers /\ pc[c] = "render"
  BY DEF Render, At, Worker
<1>2. files[c] \in FileState /\ "json" \in files[c].made
  BY <1>1 DEF IInv, CallInv, FilesReady, TypeOK
<1>3. CASE \E raw \in SUBSET {"raw"}, stage \in {"script", "plugins"} :
             Advance(c, stage, Written(files[c], Audio \cup raw))
  <2>1. PICK raw \in SUBSET {"raw"}, stage \in {"script", "plugins"} :
             Advance(c, stage, Written(files[c], Audio \cup raw))
    BY <1>3
  <2>2. /\ Written(files[c], Audio \cup raw) \in FileState
        /\ Written(files[c], Audio \cup raw).made = files[c].made \cup (Audio \cup raw)
    BY <1>2, WrittenType DEF Audio
  <2>3. QED
    BY <1>1, <1>2, <2>1, <2>2, AdvanceInv
<1>4. CASE \E partial \in SUBSET Audio : Fail(c, Written(files[c], partial))
  BY <1>1, <1>4, FailInv
<1>5. QED
  BY <1>3, <1>4 DEF Render

LEMMA ScriptInv ==
  ASSUME IInv, NEW c \in Calls, RunScript(c)
  PROVE  CallInv(c)'
<1>1. /\ files[c] \in FileState /\ "json" \in files[c].made
      /\ Audio \subseteq files[c].made /\ pc[c] = "script" /\ c \in workers
  BY DEF IInv, CallInv, FilesReady, TypeOK, RunScript, At
<1>2. QED
  BY <1>1, AdvanceInv, FailInv DEF RunScript, Worker

\* A future is reaped by the main loop: settled, or queued for a retry.
LEMMA ReapInv ==
  ASSUME IInv, NEW c \in Calls, Reap(c)
  PROVE  CallInv(c)'
<1> USE DEF IInv, CallInv
<1>0. TypeOK /\ CallInv(c) /\ Around /\ running' = running
  BY OthersSame DEF Step, Manage
<1>1. /\ pc[c] = "ready" /\ c \in workers /\ c \notin retries /\ attempt[c] \in 0..MAX_RETRY
      /\ status'[c] = status[c] /\ owing'[c] = owing[c]
      /\ offers'[c] = offers[c] /\ accepts'[c] = accepts[c]
  BY <1>0, ConcluderAssumption DEF TypeOK, Reap, At, history, Ownership, Counting
<1>2. CASE Settle(c)
  <2>1. /\ pc'[c] = "settled" /\ retries' = retries /\ workers' = workers \ {c}
        /\ attempt'[c] = attempt[c] \/ attempt'[c] = attempt[c] + 1
    BY <1>0, <1>1, <1>2 DEF Settle, Reap, ToRetry, Exhausted, TypeOK
  <2>2. Ownership(c)'
    BY <1>0, <1>1, <2>1 DEF Ownership
  <2>3. Counting(c)'
    BY <1>0, <1>1, <2>1, ConcluderAssumption DEF Counting, TypeOK
  <2>4. Owing(c)'
    BY <1>0, <1>1, <2>1 DEF Owing
  <2>5. Served(c)'
    BY <1>0, <1>1, <2>1 DEF Served
  <2>6. Tried(c)'
    BY <1>0, <1>1, <2>1, ConcluderAssumption DEF Tried, Served, Ownership, Owing, TypeOK
  <2>7. FilesReady(c)'
    BY <1>0, <1>1, <2>1 DEF FilesReady
  <2>8. QED
    BY <2>2, <2>3, <2>4, <2>5, <2>6, <2>7
<1>3. CASE ToRetry(c)
  <2>0. ~Settle(c)
    BY <1>3 DEF Settle, ToRetry
  <2>1. /\ status[c] = "RETRY" /\ files'[c] = files[c]
        /\ attempt'[c] = attempt[c] + 1 /\ attempt[c] + 1 <= MAX_RETRY
        /\ pc'[c] = "ready" /\ workers' = workers \ {c} /\ retries' = retries \cup {c}
    <3>1. /\ status[c] = "RETRY" /\ ~Exhausted(c)
          /\ attempt' = [attempt EXCEPT ![c] = @ + 1]
          /\ files' = files
      BY <1>3 DEF ToRetry
    <3>2. attempt'[c] = attempt[c] + 1 /\ attempt[c] + 1 <= MAX_RETRY
      BY <1>0, <1>1, <3>1, ConcluderAssumption DEF TypeOK, Exhausted
    <3>3. QED
      BY <1>0, <1>1, <2>0, <3>1, <3>2 DEF Reap, TypeOK
  <2>2. Ownership(c)'
    BY <1>0, <1>1, <2>1 DEF Ownership
  <2>3. Counting(c)'
    BY <1>0, <1>1, <2>1, ConcluderAssumption DEF Counting, TypeOK
  <2>4. Owing(c)'
    BY <1>0, <1>1, <2>1 DEF Owing
  <2>5. Served(c)'
    BY <1>0, <1>1, <2>1 DEF Served
  <2>6. Tried(c)'
    BY <1>0, <1>1, <2>1, ConcluderAssumption DEF Tried, Served, Ownership, Owing, TypeOK
  <2>7. FilesReady(c)'
    BY <1>0, <1>1, <2>1 DEF FilesReady, Audio, Around
  <2>8. QED
    BY <2>2, <2>3, <2>4, <2>5, <2>6, <2>7
<1>4. QED
  BY <1>2, <1>3 DEF Reap

\* A future is reaped by the drain loop: settled, or launched again.
LEMMA DrainReapInv ==
  ASSUME IInv, NEW c \in Calls, DrainReap(c)
  PROVE  CallInv(c)'
<1> USE DEF IInv, CallInv
<1>0. TypeOK /\ CallInv(c) /\ Around /\ running' = running
  BY OthersSame DEF Step, Manage
<1>1. /\ pc[c] = "ready" /\ c \in workers /\ c \notin retries /\ attempt[c] \in 0..MAX_RETRY
      /\ status'[c] = status[c] /\ owing'[c] = owing[c]
      /\ offers'[c] = offers[c] /\ accepts'[c] = accepts[c]
  BY <1>0, ConcluderAssumption DEF TypeOK, DrainReap, At, history, Ownership, Counting
<1>2. CASE Settle(c)
  <2>1. /\ pc'[c] = "settled" /\ retries' = retries /\ workers' = workers \ {c}
        /\ attempt'[c] = attempt[c] \/ attempt'[c] = attempt[c] + 1
    BY <1>0, <1>1, <1>2 DEF Settle, DrainReap, ToRetry, Exhausted, Launch, TypeOK
  <2>2. Ownership(c)'
    BY <1>0, <1>1, <2>1 DEF Ownership
  <2>3. Counting(c)'
    BY <1>0, <1>1, <2>1, ConcluderAssumption DEF Counting, TypeOK
  <2>4. Owing(c)'
    BY <1>0, <1>1, <2>1 DEF Owing
  <2>5. Served(c)'
    BY <1>0, <1>1, <2>1 DEF Served
  <2>6. Tried(c)'
    BY <1>0, <1>1, <2>1, ConcluderAssumption DEF Tried, Served, Ownership, Owing, TypeOK
  <2>7. FilesReady(c)'
    BY <1>0, <1>1, <2>1 DEF FilesReady
  <2>8. QED
    BY <2>2, <2>3, <2>4, <2>5, <2>6, <2>7
<1>3. CASE ToRetry(c)
  <2>0. ~Settle(c)
    BY <1>3 DEF Settle, ToRetry
  <2>1. /\ status[c] = "RETRY" /\ files'[c] = files[c]
        /\ attempt'[c] = attempt[c] + 1 /\ attempt[c] + 1 <= MAX_RETRY
        /\ pc'[c] = "plugins" /\ workers' = workers /\ retries' = retries
        /\ todo'[c] = owing[c] /\ failing'[c] = {}
    <3>1. /\ status[c] = "RETRY" /\ ~Exhausted(c)
          /\ attempt' = [attempt EXCEPT ![c] = @ + 1]
          /\ files' = files
      BY <1>3 DEF ToRetry
    <3>2. attempt'[c] = attempt[c] + 1 /\ attempt[c] + 1 <= MAX_RETRY
      BY <1>0, <1>1, <3>1, ConcluderAssumption DEF TypeOK, Exhausted
    <3>3. QED
      BY <1>0, <1>1, <2>0, <3>1, <3>2 DEF DrainReap, Launch, TypeOK
  <2>2. Ownership(c)'
    BY <1>0, <1>1, <2>1 DEF Ownership
  <2>3. Counting(c)'
    BY <1>0, <1>1, <2>1, ConcluderAssumption DEF Counting, TypeOK
  <2>4. Owing(c)'
    BY <1>0, <1>1, <2>1 DEF Owing
  <2>5. Served(c)'
    BY <1>0, <1>1, <2>1 DEF Served
  <2>6. Tried(c)'
    BY <1>0, <1>1, <2>1, ConcluderAssumption DEF Tried, Served, Ownership, Owing, TypeOK
  <2>7. FilesReady(c)'
    BY <1>0, <1>1, <2>1 DEF FilesReady, Audio, Around
  <2>8. QED
    BY <2>2, <2>3, <2>4, <2>5, <2>6, <2>7
<1>4. QED
  BY <1>2, <1>3 DEF DrainReap

\* The drain fires every queued retry at once and leaves the others alone.
LEMMA DrainFireInv ==
  ASSUME IInv, DrainFire, NEW c \in Calls
  PROVE  CallInv(c)'
<1> USE DEF IInv, CallInv
<1>0. TypeOK /\ CallInv(c) /\ Around
  BY DEF DrainFire, Around
<1>1. CASE c \notin retries
  <2>1. Same(c)
    BY <1>0, <1>1 DEF TypeOK, DrainFire, Launch, Same, data, history
  <2>2. QED
    BY <1>0, <2>1, SameInv
<1>2. CASE c \in retries
  <2>1. /\ c \in workers' /\ c \notin retries' /\ pc'[c] = "plugins"
        /\ todo'[c] = owing[c] /\ failing'[c] = {} /\ owing'[c] = owing[c]
        /\ status'[c] = status[c] /\ attempt'[c] = attempt[c] /\ files'[c] = files[c]
        /\ offers'[c] = offers[c] /\ accepts'[c] = accepts[c]
        /\ running' = running
    BY <1>0, <1>2 DEF TypeOK, DrainFire, Launch, data, history
  <2>2. Ownership(c)'
    BY <1>0, <1>2, <2>1 DEF Ownership
  <2>3. Counting(c)'
    BY <1>0, <1>2, <2>1, ConcluderAssumption DEF Counting, TypeOK, Ownership
  <2>4. Owing(c)'
    BY <1>0, <1>2, <2>1 DEF Owing, Ownership
  <2>5. Served(c)'
    BY <1>0, <1>2, <2>1 DEF Served, Ownership
  <2>6. Tried(c)'
    BY <1>0, <1>2, <2>1, ConcluderAssumption DEF Tried, Served, Ownership, Owing, TypeOK
  <2>7. FilesReady(c)'
    BY <1>0, <1>2, <2>1 DEF FilesReady, Audio, Around, Ownership
  <2>8. QED
    BY <2>2, <2>3, <2>4, <2>5, <2>6, <2>7
<1>3. QED
  BY <1>1, <1>2

(***************************************************************************)
(* The invariant                                                           *)
(***************************************************************************)

LEMMA InitInv == Init => IInv
<1> SUFFICES ASSUME Init PROVE IInv
  OBVIOUS
<1> USE ConcluderAssumption DEF Init
<1>1. TypeOK
  <2>1. files \in [Calls -> FileState]
    BY DEF FileState
  <2>2. attempt \in [Calls -> 0..(MAX_RETRY + 1)]
    <3>1. 0 \in 0..(MAX_RETRY + 1)
      OBVIOUS
    <3>2. QED
      BY <3>1
  <2>3. [p \in Plugins |-> 0] \in [Plugins -> Nat]
    OBVIOUS
  <2>4. offers \in [Calls -> [Plugins -> Nat]] /\ accepts \in [Calls -> [Plugins -> Nat]]
    BY <2>3
  <2>5. pc \in [Calls -> Stage] /\ status \in [Calls -> Status]
    BY DEF Stage, Status
  <2>6. QED
    BY <2>1, <2>2, <2>4, <2>5 DEF TypeOK
<1>2. ASSUME NEW c \in Calls PROVE CallInv(c)
  BY DEF CallInv, Ownership, Counting, Owing, Served, Tried, FilesReady
<1>3. Drained
  BY DEF Drained
<1>4. QED
  BY <1>1, <1>2, <1>3 DEF IInv

\* The retry list stays empty once the drain has fired it.
LEMMA DrainedStep == Drained /\ TypeOK' /\ [Next]_vars => Drained'
<1> SUFFICES ASSUME Drained, TypeOK', [Next]_vars PROVE Drained'
  OBVIOUS
<1> USE DEF Drained
<1>1. ASSUME NEW c \in Calls, Step(c) PROVE Drained'
  <2>1. phase' = phase /\ fired' = fired
    BY <1>1 DEF Step, Worker, Manage, ConcludeCall, Gather, Render, RunScript, OfferPlugin,
       FinishUpload, Reap, LaunchRetry, DrainReap, BackoffElapses, WorkerFrame, main
  <2>2. retries' \subseteq retries \/ phase = "running"
    BY <1>1 DEF Step, Worker, Manage, ConcludeCall, Gather, Render, RunScript, OfferPlugin,
       FinishUpload, Reap, LaunchRetry, DrainReap, BackoffElapses, WorkerFrame, queues
  <2>3. QED
    BY <2>1, <2>2
<1>2. CASE DrainFire
  BY <1>2 DEF DrainFire
<1>3. CASE BeginShutdown \/ DrainDone \/ StopPlugin \/ ExitProcess
  BY <1>3 DEF BeginShutdown, DrainDone, StopPlugin, ExitProcess, queues
<1>4. CASE DrainTimeout
  BY <1>4 DEF DrainTimeout, CleanUpRetries
<1>5. CASE UNCHANGED vars
  BY <1>5 DEF vars, main, queues
<1>6. QED
  BY <1>1, <1>2, <1>3, <1>4, <1>5 DEF Next, Step, Shutdown

LEMMA NextInv == IInv /\ [Next]_vars => IInv'
<1> SUFFICES ASSUME IInv, [Next]_vars PROVE IInv'
  OBVIOUS
<1>1. TypeOK'
  BY TypeStep
<1>2. ASSUME NEW d \in Calls PROVE CallInv(d)'
  <2>1. ASSUME NEW c \in Calls, Step(c) PROVE CallInv(d)'
    <3>1. CASE d # c
      BY <2>1, <3>1, OthersSame, SameInv DEF IInv
    <3>2. CallInv(c)'
      BY <2>1, ConcludeInv, GatherInv, RenderInv, ScriptInv, OfferInv, FinishInv,
         ReapInv, LaunchInv, DrainReapInv, BackoffInv DEF Step, Worker, Manage
    <3>3. QED
      BY <3>1, <3>2
  <2>2. CASE DrainFire
    BY <2>2, DrainFireInv
  <2>3. CASE BeginShutdown \/ DrainDone \/ DrainTimeout \/ StopPlugin \/ ExitProcess
    <3>1. Same(d) /\ Around
      BY <2>3, NothingToCleanUp DEF IInv, BeginShutdown, DrainDone, StopPlugin, ExitProcess,
                  Same, Around, queues, thread, data, history
    <3>2. QED
      BY <3>1, SameInv DEF IInv
  <2>4. CASE UNCHANGED vars
    <3>1. Same(d) /\ Around
      BY <2>4 DEF vars, Same, Around, main, queues, thread, data, history
    <3>2. QED
      BY <3>1, SameInv DEF IInv
  <2>5. QED
    BY <2>1, <2>2, <2>3, <2>4 DEF Next, Step, Shutdown
<1>3. Drained'
  BY <1>1, DrainedStep DEF IInv
<1>4. QED
  BY <1>1, <1>2, <1>3 DEF IInv

\* The inductive invariant holds in every reachable state.
THEOREM Invariant == Spec => []IInv
<1>1. QED
  BY InitInv, NextInv, PTL DEF Spec

\* Type correctness of the pipeline.
THEOREM TypeCorrect == Spec => []TypeOK
<1>1. IInv => TypeOK
  BY DEF IInv
<1>2. QED
  BY <1>1, Invariant, PTL

\* A concluded call is in exactly one of the lists until it is settled.
THEOREM SingleOwner == Spec => []OneOwner
<1>1. IInv => OneOwner
  BY DEF IInv, TypeOK, CallInv, Ownership, OneOwner
<1>2. QED
  BY <1>1, Invariant, PTL

\* No plugin is offered a call more than MAX_RETRY + 1 times, or again after
\* it has taken it.
THEOREM AtMostOnce == Spec => []UploadedOnce
<1>1. IInv => UploadedOnce
  BY DEF IInv, CallInv, Counting, Owing, UploadedOnce
<1>2. QED
  BY <1>1, Invariant, PTL

\* SUCCESS is reported only when every running plugin has taken the call.
THEOREM SuccessIsEarned == Spec => []SuccessMeansServed
<1>1. IInv => SuccessMeansServed
  BY DEF IInv, CallInv, Served, SuccessMeansServed
<1>2. QED
  BY <1>1, Invariant, PTL

\* A plugin always finds the files it is to upload.
THEOREM FilesAtUpload == Spec => []UploadHasFiles
<1>1. IInv => UploadHasFiles
  BY DEF IInv, CallInv, TypeOK, Ownership, FilesReady, UploadHasFiles
<1>2. QED
  BY <1>1, Invariant, PTL

(***************************************************************************)
(* The pipeline implements CallUpload                                      *)
(***************************************************************************)

\* The abstract state of a call and of the plugins is what it was.
Unseen ==
  /\ outcomeBar' = outcomeBar /\ servedBar' = servedBar
  /\ offers' = offers /\ running' = running

LEMMA UnseenStutters == Unseen => UNCHANGED Upload!vars
BY DEF Unseen, Upload!vars

\* Only the outcome of call c changes, to o.
Becomes(c, o) ==
  /\ outcomeBar' = [outcomeBar EXCEPT ![c] = o]
  /\ servedBar' = servedBar /\ offers' = offers /\ running' = running

\* What outcomeBar says, stage by stage.
LEMMA OutcomeOf ==
  ASSUME NEW c \in Calls
  PROVE  /\ pc[c] = "open" => outcomeBar[c] = "none"
         /\ pc[c] # "open" /\ status[c] = "SUCCESS" => outcomeBar[c] = "delivered"
         /\ pc[c] # "open" /\ status[c] = "FAILED" => outcomeBar[c] = "dropped"
         /\ pc[c] = "settled" /\ status[c] # "SUCCESS" => outcomeBar[c] = "dropped"
         /\ pc[c] \notin {"open", "settled"} /\ status[c] \in {"INITIAL", "RETRY"}
              => outcomeBar[c] = "pending"
BY DEF outcomeBar

\* A step that changes the stage and status of one call at most, and no
\* history, changes one outcome at most.
LEMMA OneOutcome ==
  ASSUME TypeOK, NEW c \in Calls, UNCHANGED history, running' = running,
         \A d \in Calls \ {c} : pc'[d] = pc[d] /\ status'[d] = status[d]
  PROVE  Becomes(c, outcomeBar'[c])
BY DEF TypeOK, Becomes, outcomeBar, servedBar, history

LEMMA ConcludeRefines ==
  ASSUME IInv, NEW c \in Calls, ConcludeCall(c)
  PROVE  Upload!Conclude(c)
<1>1. /\ pc[c] = "open" /\ pc'[c] \in {"settled", "gather"} /\ status'[c] = "INITIAL"
      /\ UNCHANGED history
  BY DEF IInv, TypeOK, CallInv, Ownership, ConcludeCall, Discard, StartUpload, history
<1>2. Becomes(c, outcomeBar'[c])
  BY <1>1, OthersSame, OneOutcome DEF IInv, Step, Same
<1>3. outcomeBar[c] = "none" /\ outcomeBar'[c] \in {"pending", "dropped"}
  BY <1>1 DEF outcomeBar
<1>4. QED
  BY <1>2, <1>3 DEF Becomes, Upload!Conclude

\* The stages before the plugins: nothing is seen, or the call is dropped
\* before any plugin saw it.
LEMMA StageRefines ==
  ASSUME IInv, NEW c \in Calls, Gather(c) \/ Render(c) \/ RunScript(c)
  PROVE  Upload!Drop(c) \/ UNCHANGED Upload!vars
<1>1. /\ pc[c] \in {"gather", "render", "script"} /\ status[c] = "INITIAL"
      /\ UNCHANGED history
      /\ \/ pc'[c] \in {"render", "script", "plugins"} /\ status'[c] = "INITIAL"
         \/ pc'[c] = "ready" /\ status'[c] = "FAILED"
  BY DEF IInv, TypeOK, CallInv, Ownership, At, Gather, Render, RunScript,
         Advance, Fail, WorkerFrame, history
<1>2. Becomes(c, outcomeBar'[c])
  BY <1>1, OthersSame, OneOutcome DEF IInv, Step, Worker, Same
<1>3. \A p \in Plugins : offers[c][p] = 0
  BY <1>1 DEF IInv, CallInv, Counting
<1>4. outcomeBar[c] = "pending" /\ outcomeBar'[c] \in {"pending", "dropped"}
  BY <1>1 DEF outcomeBar
<1>5. CASE outcomeBar'[c] = "pending"
  BY <1>2, <1>4, <1>5 DEF Becomes, outcomeBar, Upload!vars
<1>6. CASE outcomeBar'[c] = "dropped"
  BY <1>2, <1>3, <1>4, <1>6 DEF Becomes, Upload!Drop
<1>7. QED
  BY <1>4, <1>5, <1>6

LEMMA OfferRefines ==
  ASSUME IInv, NEW c \in Calls, OfferPlugin(c)
  PROVE  (\E p \in Plugins : Upload!Offer(c, p)) \/ UNCHANGED Upload!vars
<1> USE DEF IInv, CallInv
<1>1. /\ pc[c] = "plugins" /\ UNCHANGED <<pc, status, running>>
      /\ TypeOK
  BY DEF OfferPlugin, At, main, data
<1>2. outcomeBar' = outcomeBar /\ outcomeBar[c] = "pending"
  BY <1>1 DEF outcomeBar, Ownership
<1>3. PICK p \in todo[c] :
        \/ /\ p \in running
           /\ offers' = [offers EXCEPT ![c][p] = @ + 1]
           /\ accepts' = accepts \/ accepts' = [accepts EXCEPT ![c][p] = @ + 1]
        \/ UNCHANGED history
  BY DEF OfferPlugin, history
<1>4. CASE UNCHANGED history
  BY <1>1, <1>2, <1>4 DEF history, servedBar, Upload!vars
<1>5. CASE p \in running /\ offers' = [offers EXCEPT ![c][p] = @ + 1]
  <2>1. p \in Plugins /\ accepts[c][p] = 0 /\ offers[c][p] < MAX_RETRY + 1
    <3>1. p \in Plugins /\ accepts[c][p] = 0
      BY <1>1 DEF TypeOK, Owing
    <3>2. attempt[c] \in Nat /\ offers[c][p] \in Nat
      BY <1>1, <3>1, ConcluderAssumption DEF TypeOK
    <3>3. offers[c][p] <= attempt[c] /\ attempt[c] <= MAX_RETRY
      BY <1>1, <3>1 DEF Counting
    <3>4. QED
      BY <3>1, <3>2, <3>3, ConcluderAssumption
  <2>2. servedBar[c] = {q \in Plugins : accepts[c][q] > 0}
    BY DEF servedBar
  <2>3. p \in running \ servedBar[c]
    BY <1>5, <2>1, <2>2
  <2>4. CASE accepts' = accepts
    BY <1>1, <1>2, <1>5, <2>1, <2>3, <2>4 DEF servedBar, Upload!Offer
  <2>5. CASE accepts' = [accepts EXCEPT ![c][p] = @ + 1]
    <3>1. servedBar' = [servedBar EXCEPT ![c] = @ \cup {p}]
      <4>1. ASSUME NEW d \in Calls \ {c} PROVE servedBar'[d] = servedBar[d]
        BY <1>1, <2>5 DEF servedBar, TypeOK
      <4>2. accepts'[c][p] = 1 /\ \A q \in Plugins \ {p} : accepts'[c][q] = accepts[c][q]
        BY <1>1, <2>1, <2>5 DEF TypeOK
      <4>3. servedBar'[c] = servedBar[c] \cup {p}
        BY <2>1, <4>2 DEF servedBar
      <4>4. QED
        BY <4>1, <4>3 DEF servedBar
    <3>2. QED
      BY <1>1, <1>2, <1>5, <2>1, <2>3, <3>1 DEF Upload!Offer
  <2>6. QED
    BY <1>3, <1>5, <2>4, <2>5 DEF history
<1>6. QED
  BY <1>3, <1>4, <1>5

LEMMA FinishRefines ==
  ASSUME IInv, NEW c \in Calls, FinishUpload(c)
  PROVE  Upload!Deliver(c) \/ UNCHANGED Upload!vars
<1>1. /\ pc[c] = "plugins" /\ pc'[c] = "ready" /\ status[c] \in {"INITIAL", "RETRY"}
      /\ todo[c] = {} /\ UNCHANGED history
      /\ \/ status'[c] = "SUCCESS" /\ failing[c] = {}
         \/ status'[c] = "RETRY"
  BY DEF IInv, TypeOK, CallInv, Ownership, FinishUpload, At
<1>2. Becomes(c, outcomeBar'[c])
  BY <1>1, OthersSame, OneOutcome DEF IInv, Step, Worker, Same
<1>3. outcomeBar[c] = "pending"
  BY <1>1 DEF outcomeBar
<1>4. CASE status'[c] = "RETRY"
  <2>1. outcomeBar'[c] = "pending"
    BY <1>1, <1>4 DEF outcomeBar
  <2>2. QED
    BY <1>2, <1>3, <2>1 DEF Becomes, outcomeBar, Upload!vars
<1>5. CASE status'[c] = "SUCCESS" /\ failing[c] = {}
  <2>1. outcomeBar'[c] = "delivered"
    BY <1>1, <1>5 DEF outcomeBar
  <2>2. running \subseteq servedBar[c]
    BY <1>1, <1>5 DEF IInv, TypeOK, CallInv, Served, servedBar
  <2>3. QED
    BY <1>2, <1>3, <2>1, <2>2 DEF Becomes, Upload!Deliver
<1>6. QED
  BY <1>1, <1>4, <1>5

\* A reaped call is given up only when whoever still owes an answer has had
\* MAX_RETRY + 1 attempts.
LEMMA ReapRefines ==
  ASSUME IInv, NEW c \in Calls, Reap(c) \/ DrainReap(c)
  PROVE  Upload!Drop(c) \/ UNCHANGED Upload!vars
<1>0. TypeOK /\ CallInv(c)
  BY DEF IInv
<1>1. /\ pc[c] = "ready" /\ c \in workers /\ UNCHANGED <<status, history>>
      /\ \/ Settle(c) /\ pc'[c] = "settled"
         \/ ToRetry(c) /\ pc'[c] \in {"ready", "plugins"}
  BY <1>0 DEF TypeOK, Reap, DrainReap, At, Settle, Launch
<1>2. Becomes(c, outcomeBar'[c])
  BY <1>1, OthersSame, OneOutcome DEF IInv, Step, Manage, Same
<1>3. CASE outcomeBar'[c] = outcomeBar[c]
  BY <1>2, <1>3 DEF Becomes, outcomeBar, Upload!vars
<1>4. CASE outcomeBar'[c] # outcomeBar[c]
  <2>1. /\ status[c] \in {"INITIAL", "RETRY"} /\ Settle(c)
        /\ outcomeBar[c] = "pending" /\ outcomeBar'[c] = "dropped"
    BY <1>0, <1>1, <1>4 DEF TypeOK, Status, outcomeBar, ToRetry
  <2>2. CASE status[c] = "RETRY"
    <3>1. attempt[c] + 1 > MAX_RETRY
      BY <2>1, <2>2 DEF Settle, Exhausted
    <3>2. ASSUME NEW p \in running \ servedBar[c] PROVE offers[c][p] = MAX_RETRY + 1
      <4>1. p \in Plugins /\ p \in running /\ accepts[c][p] = 0
        BY <1>0 DEF TypeOK, servedBar
      <4>2. attempt[c] \in Nat /\ offers[c][p] \in Nat
        BY <1>0, <4>1, ConcluderAssumption DEF TypeOK
      <4>3. offers[c][p] >= attempt[c] + 1 /\ offers[c][p] <= MAX_RETRY + 1
        BY <1>0, <1>1, <2>2, <4>1 DEF CallInv, Tried, Counting
      <4>4. QED
        BY <3>1, <4>2, <4>3, ConcluderAssumption
    <3>3. QED
      BY <1>2, <2>1, <3>2 DEF Becomes, Upload!Drop
  <2>3. CASE status[c] = "INITIAL"
    BY <1>0, <1>1, <2>3 DEF CallInv, Ownership
  <2>4. QED
    BY <2>1, <2>2, <2>3
<1>5. QED
  BY <1>3, <1>4

LEMMA InitRefines == Init => Upload!Init
BY DEF Init, outcomeBar, servedBar, Upload!Init

LEMMA NextRefines == IInv /\ [Next]_vars => [Upload!Next]_Upload!vars
<1> SUFFICES ASSUME IInv, [Next]_vars PROVE [Upload!Next]_Upload!vars
  OBVIOUS
<1>1. ASSUME NEW c \in Calls, ConcludeCall(c) PROVE Upload!Next
  BY <1>1, ConcludeRefines DEF Upload!Next
<1>2. ASSUME NEW c \in Calls, Worker(c) PROVE [Upload!Next]_Upload!vars
  BY <1>2, StageRefines, OfferRefines, FinishRefines DEF Worker, Upload!Next
<1>3. ASSUME NEW c \in Calls, Reap(c) \/ DrainReap(c) PROVE [Upload!Next]_Upload!vars
  BY <1>3, ReapRefines DEF Upload!Next
<1>4. ASSUME NEW c \in Calls, LaunchRetry(c) \/ BackoffElapses(c)
      PROVE  UNCHANGED Upload!vars
  <2>1. /\ UNCHANGED <<status, history, running>>
        /\ c \in retries
    BY <1>4 DEF LaunchRetry, BackoffElapses, main, data
  <2>2. pc[c] = "ready" /\ status[c] = "RETRY" /\ pc'[c] \in {"ready", "plugins"}
    BY <1>4, <2>1 DEF IInv, TypeOK, CallInv, Ownership, LaunchRetry, BackoffElapses, Launch, thread
  <2>3. Becomes(c, outcomeBar'[c])
    BY <1>4, <2>1, OthersSame, OneOutcome DEF IInv, Step, Manage, Same
  <2>4. outcomeBar'[c] = outcomeBar[c]
    BY <2>1, <2>2 DEF outcomeBar
  <2>5. QED
    BY <2>3, <2>4 DEF Becomes, outcomeBar, Upload!vars
<1>5. CASE DrainFire
  <2>1. UNCHANGED <<status, history, running>>
    BY <1>5 DEF DrainFire, data
  <2>2. \A c \in Calls : outcomeBar'[c] = outcomeBar[c]
    BY <1>5, <2>1 DEF IInv, TypeOK, CallInv, Ownership, DrainFire, Launch, outcomeBar
  <2>3. QED
    BY <2>1, <2>2 DEF outcomeBar, servedBar, history, Upload!vars
<1>6. CASE BeginShutdown \/ DrainDone \/ DrainTimeout \/ ExitProcess
  <2>1. UNCHANGED <<running, thread, data, history>>
    BY <1>6, NothingToCleanUp DEF IInv, BeginShutdown, DrainDone, ExitProcess
  <2>2. QED
    BY <2>1 DEF thread, data, history, outcomeBar, servedBar, Upload!vars
<1>7. CASE StopPlugin
  <2>1. PICK p \in running : running' = running \ {p}
    BY <1>7 DEF StopPlugin
  <2>2. UNCHANGED <<outcomeBar, servedBar, offers>>
    BY <1>7 DEF StopPlugin, thread, data, history, outcomeBar, servedBar
  <2>3. QED
    BY <2>1, <2>2 DEF Upload!Next, Upload!GoDown
<1>8. CASE UNCHANGED vars
  BY <1>8 DEF vars, main, thread, data, history, outcomeBar, servedBar, Upload!vars
<1>9. QED
  BY <1>1, <1>2, <1>3, <1>4, <1>5, <1>6, <1>7, <1>8 DEF Next, Manage, Shutdown

\* The upload pipeline, shutdown included, implements the promise of CallUpload.
THEOREM Refinement == Spec => UploadPromise
<1>1. QED
  BY InitRefines, NextRefines, Invariant, PTL DEF Spec, UploadPromise, Upload!Spec

(***************************************************************************)
(* What the clean-ups leave behind                                         *)
(***************************************************************************)

\* No transmission of the call is left in tempDir, and no audio that nobody
\* asked to keep.
Removed(c, keep) ==
  /\ files[c].temp \cap list[c] = {}
  /\ ~config.audio_archive /\ ~keep => files[c].made \cap {"wav", "m4a"} = {}

\* A call with an end of its own, and one that was given up after its last
\* attempt.
Clean(c) ==
  /\ pc[c] = "ready" /\ status[c] # "RETRY" => Removed(c, FALSE)
  /\ pc[c] = "settled" /\ status[c] # "RETRY" => Removed(c, FALSE)
  /\ pc[c] = "settled" /\ status[c] = "RETRY" =>
       /\ Removed(c, config.archive_files_on_failure)
       /\ config.archive_files_on_failure => Audio \cup {"json"} \subseteq files[c].made

\* remove_call_files takes the transmissions, and the audio unless an option
\* keeps it; after a failure that is archived it takes none of the other files.
LEMMA RemovalsClean ==
  ASSUME NEW f \in FileState, NEW txs, NEW pf \in BOOLEAN, NEW g \in Removals(f, txs, pf)
  PROVE  /\ g.temp \cap txs = {}
         /\ ~config.audio_archive /\ ~(pf /\ config.archive_files_on_failure)
              => g.made \cap {"wav", "m4a"} = {}
         /\ pf /\ config.archive_files_on_failure => f.made \subseteq g.made
BY DEF Removals, FileState

\* What a call is left with when remove_call_files ran in its last step.
LEMMA RemovesClean ==
  ASSUME files \in [Calls -> FileState], NEW c \in Calls, NEW f \in FileState,
         NEW pf \in BOOLEAN, list' \in [Calls -> SUBSET Tx], config' = config,
         RemoveFiles(c, f, list'[c], pf)
  PROVE  /\ Removed(c, pf /\ config.archive_files_on_failure)'
         /\ pf /\ config.archive_files_on_failure => f.made \subseteq files'[c].made
<1>1. PICK g \in Removals(f, list'[c], pf) : files' = [files EXCEPT ![c] = g]
  BY DEF RemoveFiles
<1>2. files'[c] = g
  BY <1>1
<1>3. QED
  BY <1>1, <1>2, RemovalsClean DEF Removed

\* A call whose state, status, files and list stay is as clean as before.
LEMMA CleanKept ==
  ASSUME NEW c, Clean(c), config' = config, list'[c] = list[c],
         pc'[c] = pc[c], status'[c] = status[c], files'[c] = files[c]
  PROVE  Clean(c)'
BY DEF Clean, Removed, Audio

\* A settled call was given up or had an end of its own.
LEMMA SettleClean ==
  ASSUME IInv, NEW c \in Calls, Clean(c), Settle(c), pc[c] = "ready",
         config' = config, list' = list, status' = status
  PROVE  Clean(c)'
<1>0. TypeOK /\ CallInv(c)
  BY DEF IInv
<1>1. pc'[c] = "settled" /\ status'[c] = status[c]
  BY <1>0 DEF Settle, TypeOK
<1>2. CASE status[c] # "RETRY"
  <2>1. files' = files
    BY <1>2 DEF Settle
  <2>2. QED
    BY <1>1, <1>2, <2>1 DEF Clean, Removed
<1>3. CASE status[c] = "RETRY"
  <2>1. RemoveFiles(c, files[c], list'[c], TRUE)
    BY <1>3 DEF Settle
  <2>2. /\ Removed(c, config.archive_files_on_failure)'
        /\ config.archive_files_on_failure => files[c].made \subseteq files'[c].made
    <3>1. files[c] \in FileState /\ files \in [Calls -> FileState] /\ list' \in [Calls -> SUBSET Tx]
      BY <1>0 DEF TypeOK
    <3>2. /\ Removed(c, TRUE /\ config.archive_files_on_failure)'
          /\ TRUE /\ config.archive_files_on_failure => files[c].made \subseteq files'[c].made
      BY <2>1, <3>1, RemovesClean
    <3>3. QED
      BY <3>2 DEF Removed
  <2>3. Audio \cup {"json"} \subseteq files[c].made
    BY <1>0, <1>3 DEF CallInv, FilesReady
  <2>4. QED
    BY <1>1, <1>3, <2>2, <2>3 DEF Clean, Audio
<1>4. QED
  BY <1>2, <1>3

\* Every step leaves every call clean.
LEMMA CleanStep ==
  ASSUME IInv, NEW d \in Calls, Clean(d), [Next]_vars
  PROVE  Clean(d)'
<1>0. TypeOK /\ CallInv(d) /\ TypeOK'
  BY TypeStep DEF IInv
<1>1. ASSUME NEW c \in Calls, Step(c), c # d PROVE Clean(d)'
  <2>1. Same(d) /\ config' = config
    BY <1>0, <1>1, OthersSame DEF Around
  <2>2. list'[d] = list[d]
    BY <1>0, <1>1 DEF TypeOK, Step, Worker, Manage, ConcludeCall, Gather, Render, RunScript,
       OfferPlugin, FinishUpload, Reap, LaunchRetry, DrainReap, BackoffElapses, WorkerFrame, data
  <2>3. QED
    BY <2>1, <2>2, CleanKept DEF Same
<1>2. CASE ConcludeCall(d)
  <2>1. PICK recorded \in SUBSET Tx : \E short, stored \in SUBSET recorded :
          /\ list' = [list EXCEPT ![d] = recorded \ short]
          /\ Discard(d, recorded, short, stored) \/ StartUpload(d, recorded, short, stored)
    BY <1>2 DEF ConcludeCall
  <2>2. PICK short \in SUBSET recorded, stored \in SUBSET recorded :
          /\ list' = [list EXCEPT ![d] = recorded \ short]
          /\ Discard(d, recorded, short, stored) \/ StartUpload(d, recorded, short, stored)
    BY <2>1
  <2> DEFINE disk == Recorded(stored, short)
  <2>3. disk \in FileState /\ disk.made = {} /\ Written(disk, {"json"}) \in FileState
    BY RecordedType, WrittenType
  <2>4. list'[d] = recorded \ short /\ config' = config /\ status'[d] = "INITIAL"
    BY <1>0, <1>2, <2>2 DEF ConcludeCall, TypeOK, CallInv, Ownership
  <2>5. CASE StartUpload(d, recorded, short, stored)
    BY <1>0, <2>5 DEF StartUpload, TypeOK, Clean
  <2>6. CASE Discard(d, recorded, short, stored)
    <3>1. pc'[d] = "settled"
      BY <1>0, <2>6 DEF Discard, TypeOK
    <3>2. CASE \E f \in FileState : RemoveFiles(d, f, list'[d], FALSE)
      <4>1. Removed(d, FALSE)'
        <5>1. PICK f \in FileState : RemoveFiles(d, f, list'[d], FALSE)
          BY <3>2
        <5>2. Removed(d, FALSE /\ config.archive_files_on_failure)'
          BY <1>0, <2>4, <5>1, RemovesClean DEF TypeOK
        <5>3. QED
          BY <5>2 DEF Removed
      <4>2. QED
        BY <2>4, <3>1, <4>1 DEF Clean
    <3>3. CASE recorded \ short = {} /\ files' = [files EXCEPT ![d] = disk]
      <4>1. files'[d] = disk /\ list'[d] = {}
        BY <1>0, <2>4, <3>3 DEF TypeOK
      <4>2. QED
        BY <2>3, <2>4, <3>1, <4>1 DEF Clean, Removed
    <3>4. QED
      BY <2>3, <2>4, <2>6, <3>2, <3>3 DEF Discard
  <2>7. QED
    BY <2>2, <2>5, <2>6
<1>3. ASSUME Worker(d), WorkerFrame, NEW f \in FileState, Fail(d, f) PROVE Clean(d)'
  <2>1. RemoveFiles(d, f, list'[d], FALSE) /\ config' = config
    BY <1>3 DEF Fail, WorkerFrame
  <2>2. Removed(d, FALSE /\ config.archive_files_on_failure)'
    BY <1>0, <2>1, RemovesClean DEF TypeOK
  <2>3. Removed(d, FALSE)'
    BY <2>2 DEF Removed
  <2>4. pc'[d] = "ready"
    BY <1>0, <1>3 DEF Fail, TypeOK
  <2>5. QED
    BY <2>3, <2>4 DEF Clean
<1>4. ASSUME NEW stage \in {"render", "script", "plugins"}, NEW f, Advance(d, stage, f)
      PROVE  Clean(d)'
  BY <1>0, <1>4 DEF Advance, TypeOK, Clean
<1>5. CASE Gather(d)
  <2>1. files[d] \in FileState
    BY <1>0 DEF TypeOK
  <2>2. QED
    BY <1>3, <1>4, <1>5, <2>1 DEF Gather, Worker
<1>6. CASE Render(d)
  <2>1. \A partial \in SUBSET Audio : Written(files[d], partial) \in FileState
    BY <1>0, WrittenType DEF TypeOK, Audio
  <2>2. QED
    BY <1>3, <1>4, <1>6, <2>1 DEF Render, Worker
<1>7. CASE RunScript(d)
  <2>1. files[d] \in FileState
    BY <1>0 DEF TypeOK
  <2>2. QED
    BY <1>3, <1>4, <1>7, <2>1 DEF RunScript, Worker
<1>8. CASE OfferPlugin(d)
  BY <1>8, CleanKept DEF OfferPlugin, data
<1>9. CASE FinishUpload(d)
  <2>1. pc'[d] = "ready" /\ config' = config /\ list' = list
    BY <1>0, <1>9 DEF FinishUpload, TypeOK
  <2>2. CASE failing[d] = {}
    <3>1. RemoveFiles(d, files[d], list'[d], FALSE)
      BY <1>9, <2>1, <2>2 DEF FinishUpload
    <3>2. Removed(d, FALSE /\ config.archive_files_on_failure)'
      BY <1>0, <2>1, <3>1, RemovesClean DEF TypeOK
    <3>3. Removed(d, FALSE)'
      BY <3>2 DEF Removed
    <3>4. QED
      BY <2>1, <3>3 DEF Clean
  <2>3. CASE failing[d] # {}
    <3>1. status'[d] = "RETRY"
      BY <1>0, <1>9, <2>3 DEF FinishUpload, TypeOK
    <3>2. QED
      BY <2>1, <3>1 DEF Clean
  <2>4. QED
    BY <2>2, <2>3
<1>10. CASE Reap(d) \/ DrainReap(d)
  <2>1. pc[d] = "ready" /\ config' = config /\ list' = list /\ status' = status
    BY <1>10 DEF Reap, DrainReap, At
  <2>2. CASE Settle(d)
    BY <2>1, <2>2, SettleClean
  <2>3. CASE ToRetry(d)
    <3>1. ~Settle(d) /\ status[d] = "RETRY"
      BY <2>3 DEF Settle, ToRetry
    <3>2. pc'[d] \in {"ready", "plugins"}
      BY <1>0, <1>10, <2>1, <3>1 DEF Reap, DrainReap, Launch
    <3>3. QED
      BY <2>1, <3>1, <3>2 DEF Clean
  <2>4. QED
    BY <1>10, <2>2, <2>3 DEF Reap, DrainReap
<1>11. CASE LaunchRetry(d)
  <2>1. pc'[d] = "plugins"
    BY <1>0, <1>11 DEF LaunchRetry, Launch, TypeOK
  <2>2. QED
    BY <2>1 DEF Clean
<1>12. CASE BackoffElapses(d)
  BY <1>12, CleanKept DEF BackoffElapses, thread, data
<1>13. CASE DrainFire
  <2>1. config' = config /\ UNCHANGED <<status, list, files>>
    BY <1>13 DEF DrainFire, data
  <2>2. CASE d \in retries
    <3>1. pc'[d] = "plugins"
      BY <1>0, <1>13, <2>2 DEF DrainFire, Launch, TypeOK
    <3>2. QED
      BY <3>1 DEF Clean
  <2>3. CASE d \notin retries
    <3>1. pc'[d] = pc[d]
      BY <1>0, <1>13, <2>3 DEF DrainFire, Launch, TypeOK
    <3>2. QED
      BY <2>1, <3>1, CleanKept
  <2>4. QED
    BY <2>2, <2>3
<1>14. CASE BeginShutdown \/ DrainDone \/ DrainTimeout \/ StopPlugin \/ ExitProcess \/ UNCHANGED vars
  <2>1. config' = config /\ UNCHANGED <<pc, status, list, files>>
    BY <1>14, NothingToCleanUp
       DEF IInv, BeginShutdown, DrainDone, StopPlugin, ExitProcess, vars, thread, data
  <2>2. QED
    BY <2>1, CleanKept
<1>15. QED
  BY <1>1, <1>2, <1>5, <1>6, <1>7, <1>8, <1>9, <1>10, <1>11, <1>12, <1>13, <1>14
     DEF Next, Step, Worker, Manage, Shutdown

Cleaned == IInv /\ \A c \in Calls : Clean(c)

LEMMA CleanAlways == Spec => []Cleaned
<1>1. Init => Cleaned
  <2>1. ASSUME Init, NEW c \in Calls PROVE Clean(c)
    BY <2>1 DEF Init, Clean
  <2>2. QED
    BY <2>1, InitInv DEF Cleaned
<1>2. Cleaned /\ [Next]_vars => Cleaned'
  BY NextInv, CleanStep DEF Cleaned
<1>3. QED
  BY <1>1, <1>2, PTL DEF Spec

\* Whichever path a call took, its transmissions have left tempDir when it is
\* settled, and so has audio that nobody asked to keep.
THEOREM NothingLeftBehind == Spec => []SettledCleanly
<1>1. Cleaned => SettledCleanly
  <2> SUFFICES ASSUME Cleaned, NEW c \in Calls, pc[c] = "settled"
               PROVE  /\ files[c].temp \cap list[c] = {}
                      /\ ~config.audio_archive
                           /\ ~(config.archive_files_on_failure /\ status[c] = "RETRY")
                         => files[c].made \cap {"wav", "m4a"} = {}
    BY DEF SettledCleanly
  <2>1. Clean(c)
    BY DEF Cleaned
  <2>2. QED
    BY <2>1 DEF Clean, Removed
<1>2. QED
  BY <1>1, CleanAlways, PTL

\* archiveFilesOnFailure keeps the files of a call that was refused to the end.
THEOREM RefusedIsKept == Spec => []ExhaustedIsArchived
<1>1. Cleaned => ExhaustedIsArchived
  BY DEF Cleaned, Clean, ExhaustedIsArchived
<1>2. QED
  BY <1>1, CleanAlways, PTL

(***************************************************************************)
(* Where archiveFilesOnFailure can fail                                    *)
(***************************************************************************)

\* Until stop_plugins is called, a plugin that was offered a call is up.
StillUp ==
  phase \in {"running", "draining"} =>
    \A c \in Calls, p \in Plugins : offers[c][p] > 0 => p \in running

LEMMA StillUpStep == StillUp /\ TypeOK /\ [Next]_vars => StillUp'
<1> SUFFICES ASSUME StillUp, TypeOK, [Next]_vars PROVE StillUp'
  OBVIOUS
<1>1. ASSUME NEW c \in Calls, OfferPlugin(c) PROVE StillUp'
  <2>1. phase' = phase /\ running' = running
    BY <1>1 DEF OfferPlugin, main
  <2>2. offers' = offers \/ \E p \in todo[c] \cap running : offers' = [offers EXCEPT ![c][p] = @ + 1]
    BY <1>1 DEF OfferPlugin, history
  <2>3. ASSUME NEW p \in todo[c] \cap running, offers' = [offers EXCEPT ![c][p] = @ + 1],
               NEW d \in Calls, NEW q \in Plugins, q # p
        PROVE  offers'[d][q] = offers[d][q]
    <3>1. offers[c] \in [Plugins -> Nat] /\ offers \in [Calls -> [Plugins -> Nat]]
      BY DEF TypeOK
    <3>2. QED
      BY <2>3, <3>1
  <2>4. QED
    BY <2>1, <2>2, <2>3 DEF StillUp
<1>2. ASSUME phase' \in {"running", "draining"}, ~\E c \in Calls : OfferPlugin(c)
      PROVE  phase \in {"running", "draining"} /\ running' = running /\ offers' = offers
  <2>1. ASSUME NEW c \in Calls, Step(c) PROVE UNCHANGED <<phase, running, offers>>
    BY <1>2, <2>1 DEF Step, Worker, Manage, ConcludeCall, Gather, Render, RunScript,
       FinishUpload, Reap, LaunchRetry, DrainReap, BackoffElapses, WorkerFrame, main, history
  <2>2. CASE BeginShutdown \/ Shutdown
    BY <1>2, <2>2 DEF BeginShutdown, Shutdown, DrainFire, DrainDone, DrainTimeout, StopPlugin,
       ExitProcess, history
  <2>3. CASE UNCHANGED vars
    BY <1>2, <2>3 DEF vars, main, history
  <2>4. QED
    BY <1>2, <2>1, <2>2, <2>3 DEF Next, Step
<1>3. QED
  BY <1>1, <1>2 DEF StillUp

\* Until then archiveFilesOnFailure keeps what the documentation says: a call whose
\* audio a plugin refused is not reported SUCCESS by a worker that passes over it.
THEOREM RefusedUntilStopped ==
  Spec => [](phase \in {"running", "draining"} => RefusedIsArchived)
<1>1. Init => StillUp
  BY DEF Init, StillUp
<1>2. StillUp /\ SuccessMeansServed => (phase \in {"running", "draining"} => RefusedIsArchived)
  BY DEF StillUp, SuccessMeansServed, RefusedIsArchived
<1>3. QED
  BY <1>1, <1>2, StillUpStep, TypeCorrect, SuccessIsEarned, PTL DEF Spec

=============================================================================
