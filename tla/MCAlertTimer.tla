------------------------------ MODULE MCAlertTimer -----------------------------
(***************************************************************************)
(* Small instances of the alert timer: one alarm of an application, and an *)
(* alert of FM with one or two severities, and another alarm of FM's.      *)
(***************************************************************************)
EXTENDS AlertTimer

CONSTANTS app, fm, fmOther, manager

MCObjects    == {app, fm, fmOther, manager}
MCProblems   == {1, 2, 7, 8}
MCSeverities == {"MAJOR", "WARNING"}

\* Problem 1 is the application's, problem 2 is FM's.
WithDelays(raise, clear) ==
    [p \in MCProblems |-> [alarmId |-> p, raiseDelay |-> IF p = 1 THEN raise ELSE 0,
                           clearDelay |-> IF p = 2 THEN clear ELSE 0]]

ClearDelay == WithDelays(0, 1)

NoLimits == [maxActiveAlarms |-> 0, maxAlarmHistory |-> 0]

Msg(o, p, s, a) == [object |-> o, problem |-> p, severity |-> s, action |-> a]

AppRaise == {Msg(app, 1, "MAJOR", "RAISE")}
AppRequests == AppRaise \cup {Msg(app, 1, "MAJOR", "CLEAR")}

SetAgain == {[problem |-> 1, raiseDelay |-> 0, clearDelay |-> 0]}

\* An application raises an alarm of FM's that no alert stands for.
OtherRaise == {Msg(fmOther, 2, "MAJOR", "RAISE")}

OneAlert == {Msg(fm, 2, "MAJOR", "RAISE")}
Alerts   == OneAlert \cup {Msg(fm, 2, "WARNING", "RAISE")}

None == {}
AppProblem == {1}

===============================================================================
