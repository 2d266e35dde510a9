---------------------------- MODULE MCAlarmLibrary ----------------------------
(***************************************************************************)
(* A small instance of the alarm library: two goroutines of one            *)
(* application, two attempts instead of ten.                               *)
(***************************************************************************)
EXTENDS AlarmLibrary, TLC

===============================================================================
