-------------------------- MODULE MCCallConcluder --------------------------
(***************************************************************************)
(* Instances of CallConcluder for TLC.                                     *)
(***************************************************************************)
EXTENDS CallConcluder

\* Every combination of the options that decide which files survive.
ArchiveConfigs ==
  [audio_archive: BOOLEAN, transmission_archive: BOOLEAN, call_log: BOOLEAN,
   archive_files_on_failure: BOOLEAN, output_raw_audio: {FALSE},
   upload_script: {FALSE}, compress_wav: {TRUE}]

\* Nothing is archived by default, a script runs, retries may be archived.
QueueConfigs ==
  [audio_archive: {FALSE}, transmission_archive: {FALSE}, call_log: {FALSE},
   archive_files_on_failure: BOOLEAN, output_raw_audio: {TRUE},
   upload_script: {TRUE}, compress_wav: {FALSE}]
=============================================================================
