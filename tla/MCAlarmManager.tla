---------------------------- MODULE MCAlarmManager ----------------------------
(***************************************************************************)
(* Small instances of the alarm manager for TLC. One application object,   *)
(* one of its problems with delays and one without, and the manager's own  *)
(* two problems.                                                           *)
(***************************************************************************)
EXTENDS AlarmRefinement

CONSTANTS app, fm, manager

MCObjects    == {app, fm, manager}
MCProblems   == {1, 2, 7, 8}
MCSeverities == {"MAJOR", "WARNING"}

Define(p, raise, clear) == [alarmId |-> p, raiseDelay |-> raise, clearDelay |-> clear]

\* The delays of problem 1; definitions/alarm-definition.json gives the others none.
WithDelays(raise, clear) ==
    [p \in MCProblems |-> IF p = 1 THEN Define(1, raise, clear) ELSE Define(p, 0, 0)]

BothDelays  == WithDelays(1, 1)
ClearDelays == WithDelays(0, 1)

Limits(active, history) == [maxActiveAlarms |-> active, maxAlarmHistory |-> history]

NoLimits     == Limits(0, 0)
ActiveLimit  == Limits(1, 0)
HistoryLimit == Limits(0, 1)
BothLimits   == Limits(1, 2)
NoHistory    == {Limits(1, 0)}   \* restapi.go:230 stores a limit of 0
OtherLimits  == {Limits(0, 20000), Limits(2, 20000)}

Msg(o, p, s, a) == [object |-> o, problem |-> p, severity |-> s, action |-> a]

\* One alarm raised with two severities and cleared, and another beside it.
DelayRequests ==
    {Msg(app, 1, "MAJOR", "RAISE"), Msg(app, 1, "WARNING", "RAISE"),
     Msg(app, 1, "MAJOR", "CLEAR"), Msg(fm, 1, "MAJOR", "RAISE"),
     Msg(fm, 1, "MAJOR", "CLEAR")}

PlainRequests ==
    {Msg(app, 1, "MAJOR", "RAISE"), Msg(app, 1, "MAJOR", "CLEAR")}

\* Two alarms, and the operator's clears of the manager's own alarms.
LimitRequests ==
    {Msg(app, 1, "MAJOR", "RAISE"), Msg(app, 2, "MAJOR", "RAISE"),
     Msg(app, 1, "MAJOR", "CLEAR"),
     Msg(manager, 7, "WARNING", "CLEAR"), Msg(manager, 8, "WARNING", "CLEAR")}

EveryAction ==
    {Msg(app, 1, "MAJOR", "RAISE"), Msg(app, 2, "MAJOR", "RAISE"),
     Msg(app, 1, "MAJOR", "CLEAR"), Msg(app, 1, "MAJOR", "CLEARALL"),
     Msg(manager, 8, "WARNING", "CLEAR")}

AllDefinitions == {1, 7, 8}
JustOne == {1}
None == {}

Symmetry == Permutations(Handlers)

===============================================================================
