---------------------------- MODULE AlarmProperties ----------------------------
(***************************************************************************)
(* What the alarm manager's core promises. The properties are about the    *)
(* interplay of the goroutines of AlarmManager over the shared table.      *)
(***************************************************************************)
EXTENDS AlarmManager

Entries(alarms) == {alarms[i] : i \in DOMAIN alarms}

\* Every variable, and every goroutine's locals, hold values of their types
\* (the fields of AlarmManager in manager/cmd/types.go).
TypeOK ==
    /\ mutex \in Handlers \cup {Free}
    /\ activeAlarms \in Seq(Notification)
    /\ alarmHistory \in Seq(Notification)
    /\ uniqueAlarmId \in Nat
    /\ exceededActiveAlarmOn \in BOOLEAN
    /\ exceededAlarmHistoryOn \in BOOLEAN
    /\ maxActiveAlarms \in Nat
    /\ maxAlarmHistory \in Nat
    /\ definitions \in [Problems -> Definition \cup {NoDefinition}]
    /\ handler \in [Handlers -> Local]
    /\ crashed \in BOOLEAN
    /\ requests \in Nat
    /\ changes \in Nat

\* The mutex is held exactly by the goroutine that is between its Lock and its
\* Unlock, over all early returns, delays and panics: two goroutines are never
\* inside together, none returns with the mutex held, none unlocks it twice.
LockDiscipline ==
    \A h \in Handlers : mutex = h <=> handler[h].pc \in Critical

-------------------------------------------------------------------------------
(* The table of active alarms. *)

OneAlarmPerIdentity(alarms) ==
    \A i, j \in DOMAIN alarms :
        SameAlarm(alarms[i], alarms[j]) /\ alarms[i].object # ManagerObject => i = j

\* No two active alarms of the applications have one identity: the duplicate
\* check and the append of a raise are in one critical section, and a raise of
\* another severity removes the alarm it replaces (ProcessAlarm).
UniqueIdentity == OneAlarmPerIdentity(activeAlarms)

\* Active alarms have different ids, none of them above the last id given out,
\* although ids are given out both to a raised alarm and, before it is stored,
\* to the threshold alarm it causes (GenerateAlarmId).
UniqueIds ==
    /\ \A i, j \in DOMAIN activeAlarms : activeAlarms[i].id = activeAlarms[j].id => i = j
    /\ \A e \in Entries(activeAlarms) : e.id <= uniqueAlarmId

\* A cleared alarm is gone: once the history holds the CLEAR of an id, no active
\* alarm has that id and no other CLEAR of it is recorded, although several
\* clears of one alarm may be waiting for their clear delays at once.
ClearedIsGone ==
    \A i \in DOMAIN alarmHistory : alarmHistory[i].action = "CLEAR" =>
        /\ \A e \in Entries(activeAlarms) : e.id # alarmHistory[i].id
        /\ \A j \in DOMAIN alarmHistory :
              /\ alarmHistory[j].action = "CLEAR"
              /\ alarmHistory[j].id = alarmHistory[i].id
              => i = j

\* A raise replaces or reveals, and a clear removes, an alarm of its own identity: when
\* ProcessAlarm, ProcessRaiseAlarm or ProcessClearAlarm use an index, the alarm there has
\* the identity of the message, although the table may have changed in the delays.
IndexTargetsOwnAlarm ==
    \A h \in Handlers : handler[h].pc \in {"matched", "revealing", "clearing"} =>
        /\ handler[h].idx \in DOMAIN activeAlarms
        /\ SameAlarm(activeAlarms[handler[h].idx], handler[h].m)

\* An active alarm leaves the table only by a clear that records its id, or to
\* make room for a raise of the same identity with another severity.
Leaves(e) == e \in Entries(activeAlarms) /\ \A f \in Entries(activeAlarms)' : f.id # e.id

LeavesOnlyClearedOrReplaced ==
    [][\A e \in Entries(activeAlarms) : Leaves(e) =>
          \/ \E c \in Entries(alarmHistory)' : c.action = "CLEAR" /\ c.id = e.id
          \/ \E h \in Handlers : /\ handler'[h].pc = "raising"
                                 /\ SameAlarm(handler'[h].m, e)
                                 /\ handler'[h].m.severity # e.severity]_vars

\* No goroutine is generating the "history exceeded" alarm without the mutex,
\* which writes the table behind the back of the goroutine that holds the mutex.
Calm == \A h \in Handlers : handler[h].pc \notin Threshold

\* What makes UniqueIdentity and IndexTargetsOwnAlarm inductive while nobody races for the
\* table: the alarm about to be appended has no match, and clients raise alarms of their
\* own.
RaiseUnmatched ==
    \A h \in Handlers : handler[h].pc = "raising" =>
        /\ handler[h].m.object # ManagerObject
        /\ ~IsMatchFound(activeAlarms, handler[h].m)

ClientsRaiseOwn ==
    \A h \in Handlers :
        handler[h].pc = "matched" \/ (handler[h].pc = "waiting" /\ handler[h].m.action = "RAISE")
            => handler[h].m.object # ManagerObject

IdentityInv ==
    UniqueIdentity /\ IndexTargetsOwnAlarm /\ RaiseUnmatched /\ ClientsRaiseOwn

-------------------------------------------------------------------------------
(* Raise delays. *)

\* manager.go:161: a RaiseDelay above 0 in the table "indicates that raise delay
\* is still ongoing for the alarm": the goroutine that will reveal it exists.
PendingHasRaiser ==
    \A e \in Entries(activeAlarms) : e.raiseDelay > 0 =>
        \E h \in Handlers :
            handler[h].pc \in {"raiseDelay", "revealing"} /\ handler[h].m.id = e.id

\* An alarm whose raise delay has not elapsed is not in the history.
PendingNotRecorded ==
    \A e \in Entries(activeAlarms) : e.raiseDelay > 0 =>
        \A r \in Entries(alarmHistory) : r.action = "RAISE" => r.id # e.id

-------------------------------------------------------------------------------
(* Limits. *)

\* While the flag suppresses a new "active alarms exceeded" alarm, such an alarm
\* is active: the flag is never left up after the alarm was cleared.
FlagImpliesAlarm ==
    exceededActiveAlarmOn =>
        \E e \in Entries(activeAlarms) :
            e.object = ManagerObject /\ e.problem = ActiveProblem

-------------------------------------------------------------------------------
(* Panics. *)

\* The process is dead, or the mutex is locked for good.
Panicked == crashed \/ \E h \in Handlers : handler[h].pc = "stuck"

\* A definition that a goroutine needs for its message or for a threshold alarm is gone.
LacksDefinition(h) ==
    \E p \in {handler[h].m.problem, ActiveProblem, HistoryProblem} : ~Defined(p)

\* The "history exceeded" alarm was stored without the mutex, and has not been cleared.
HistoryAlarmStored ==
    \/ exceededAlarmHistoryOn
    \/ \E h \in Handlers : handler[h].pc \in {"thresholdHistory", "thresholdHistoryStore"}

\* Raises and clears never make the manager panic by themselves, whatever their order
\* and although several clears of one alarm wait for their delays at once. At the moment
\* of a panic the map of definitions is being written, or a definition that the goroutine
\* needs is not in it, or the "history exceeded" alarm has been stored without the mutex,
\* which may have cut the table short while a goroutine held an index into it.
PanicHasCause ==
    [][~Panicked /\ Panicked' =>
          \/ definitions' # definitions
          \/ \E h \in Handlers : handler'[h] # handler[h] /\ LacksDefinition(h)
          \/ HistoryAlarmStored]_vars

-------------------------------------------------------------------------------
(* Progress, under FairSpec. *)

\* Every message that reaches ProcessAlarm is dealt with: no goroutine waits for the
\* mutex, for a delay or inside a critical section for ever, whatever clients do to
\* definitions and limits, unless a goroutine panics (PanicHasCause says of what).
RequestsHandled ==
    \A h \in Handlers : handler[h].pc = "waiting" ~> handler[h].pc = "idle" \/ Panicked

-------------------------------------------------------------------------------
(* What the repository says of the manager and the code does not do. *)

\* README.md:42: Clear "clears the alarm instance given as a parameter, if it the
\* alarm active": a clear that was accepted returns, its clear delay over, as long as
\* the process lives.
AcceptedClearReturns ==
    \A h \in Handlers :
        handler[h].pc = "clearDelay" ~> handler[h].pc = "idle" \/ crashed

===============================================================================
