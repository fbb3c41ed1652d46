---------------------------- MODULE MCStatusEvents ----------------------------
(* A row of a tag and one of a server, a page that also logs in again,     *)
(* starts and stops the runtime, as many statuses as it takes to cross two *)
(* of one row, and a log line for which two threads may wait.              *)
EXTENDS StatusEvents
==============================================================================
