------------------------------- MODULE MCPipe -------------------------------
(***************************************************************************)
(* Model-checking instances of Pipe.  TLC evaluates the assumptions of     *)
(* Console and JosShell with them.                                         *)
(***************************************************************************)
EXTENDS Pipe, Console, JosShell
=============================================================================
