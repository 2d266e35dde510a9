------------------------------ MODULE AlarmTable ------------------------------
(***************************************************************************)
(* The data of the alarm manager: alarm notifications, the identity that   *)
(* tells two alarms apart, and the two operations the manager performs on  *)
(* its table of active alarms (a Go slice, here a sequence): the linear    *)
(* search of IsMatchFound and the in-place removal of RemoveAlarm.         *)
(***************************************************************************)
EXTENDS Naturals, Sequences, SequencesExt

CONSTANTS
    Objects,          \* (ManagedObjectId, ApplicationId, IdentifyingInfo) triples
    Problems,         \* specific problems
    Severities        \* perceived severities

ASSUME TableAssumption == /\ Problems \subseteq Nat
                          /\ "WARNING" \in Severities

Actions == {"RAISE", "CLEAR", "CLEARALL"}

\* What a client sends: the fields the manager's decisions depend on.
Message == [object : Objects, problem : Problems,
            severity : Severities, action : Actions]

\* A message with the definition fields the manager stores beside it.
Notification == [object : Objects, problem : Problems, severity : Severities,
                 action : Actions, id : Nat, raiseDelay : Nat]

Notify(m) == [object |-> m.object, problem |-> m.problem, severity |-> m.severity,
              action |-> m.action, id |-> 0, raiseDelay |-> 0]

\* The four fields that make up the identity of an alarm.
SameAlarm(a, b) == a.object = b.object /\ a.problem = b.problem

IsMatchFound(alarms, m) == \E i \in DOMAIN alarms : SameAlarm(alarms[i], m)

\* i is the index that the search returns: the first match.
IsFirstMatch(alarms, m, i) ==
    /\ i \in DOMAIN alarms
    /\ SameAlarm(alarms[i], m)
    /\ \A j \in 1..(i - 1) : ~SameAlarm(alarms[j], m)

\* Mutant: the slice is closed up one position too far.
RemoveAlarmOffByOne(alarms, i) == RemoveAt(alarms, i + 1)

RemoveAlarm(alarms, i) == RemoveAt(alarms, i)

===============================================================================
