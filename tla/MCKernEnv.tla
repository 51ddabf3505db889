----------------------------- MODULE MCKernEnv -----------------------------
(* Model-checking instances of KernEnv: sets of calls for its runs.  TLC *)
(* evaluates the assumptions of DebugInfo, Multiproc and BootLoad too.   *)
EXTENDS KernEnv, DebugInfo, Multiproc, BootLoad

CONSTANTS c0, c1 \* processors

NoCalls       == {}
PeacefulCalls == {"yield", "exofork", "set_status", "ipc_recv", "ipc_try_send"}
ForkCalls     == {"yield", "exofork", "set_status", "destroy"}
StatusCalls   == {"exofork", "set_status"}
OneCall       == {"set_status"}
=============================================================================
