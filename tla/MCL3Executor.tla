---------------------------- MODULE MCL3Executor ----------------------------
(* A small instance of L3Executor: days and dollars in small units. *)
EXTENDS L3Executor

MCOrderTag == {"call", "put"}
MCMetadata == StrangleMetadata
=============================================================================
