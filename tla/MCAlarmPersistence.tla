-------------------------- MODULE MCAlarmPersistence --------------------------
(***************************************************************************)
(* Small instances of the persistent volume: two goroutines, one alarm     *)
(* of an application, another beside it, restarts at any moment.           *)
(***************************************************************************)
EXTENDS AlarmPersistence

CONSTANTS app, manager

MCObjects    == {app, manager}
MCProblems   == {1, 2, 7, 8}
MCSeverities == {"MAJOR", "WARNING"}

AllDefined == [p \in MCProblems |-> [alarmId |-> p, raiseDelay |-> 0, clearDelay |-> 0]]

NoLimits == [maxActiveAlarms |-> 0, maxAlarmHistory |-> 0]

Msg(o, p, s, a) == [object |-> o, problem |-> p, severity |-> s, action |-> a]

ThreeRequests ==
    {Msg(app, 1, "MAJOR", "RAISE"), Msg(app, 2, "MAJOR", "RAISE"), Msg(app, 1, "MAJOR", "CLEAR")}

None == {}

===============================================================================
