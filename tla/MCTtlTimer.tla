------------------------------ MODULE MCTtlTimer ------------------------------
(***************************************************************************)
(* Small instances of the time-to-live timer: alarms of one application    *)
(* under problems 1 and 2, both mortal or only the first.                  *)
(***************************************************************************)
EXTENDS TtlTimer

CONSTANTS app, manager

MCObjects    == {app, manager}
MCProblems   == {1, 2, 3, 7, 8}
MCSeverities == {"MAJOR", "WARNING"}

WithClearDelay(delay) ==
    [p \in MCProblems |-> [alarmId |-> p, raiseDelay |-> 0,
                           clearDelay |-> IF p \in {1, 2} THEN delay ELSE 0]]

Delayed == WithClearDelay(1)
AtOnce  == WithClearDelay(0)

NoLimits == [maxActiveAlarms |-> 0, maxAlarmHistory |-> 0]

Msg(p, a) == [object |-> app, problem |-> p, severity |-> "MAJOR", action |-> a]

Raises  == {Msg(1, "RAISE"), Msg(2, "RAISE")}
OneBack == Raises \cup {Msg(1, "CLEAR")}

None == {}

===============================================================================
