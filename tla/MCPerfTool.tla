------------------------------ MODULE MCPerfTool ------------------------------
(***************************************************************************)
(* A small instance of the performance test: one alarm more than are       *)
(* wanted.                                                                 *)
(***************************************************************************)
EXTENDS PerfTool

===============================================================================
