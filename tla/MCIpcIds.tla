------------------------------ MODULE MCIpcIds ------------------------------
(***************************************************************************)
(* Model-checking instance of IpcIds with its history.                      *)
(***************************************************************************)
EXTENDS IpcHistory

\* The message of a failed ipc_init_ids says "ipc service disabled."
\* (util.c:87): with the array missing, no queue would ever be created.
DisabledStaysDisabled == [][size = 0 => size' = 0]_idsVars
=============================================================================
